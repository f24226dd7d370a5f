----------------------------- MODULE MCAddrSpace ----------------------------
(* Instances of AddrSpace: frames, and processes, are interchangeable.      *)
EXTENDS AddrSpace, TLC

Symmetry == Permutations(Frames) \cup Permutations(Procs)

\* A file of two pages.
TwoPages == [k \in 0..1 |-> IF k = 0 THEN "f0" ELSE "f1"]

\* One whose contents do not matter.
Blank == [k \in {0} |-> "zero"]

\* At most two mappings and regions over all processes, one when the file is
\* read-only, and memory for one more page.
TwoRegions ==
  /\ free # {}
  /\ Cardinality({h \in Procs \X Slots : vmas[h[1]][h[2]] # NONE})
     + Cardinality({h \in Procs \X (1..NVREG) : vregs[h[1]][h[2]] # NONE})
     <= IF writable THEN 2 ELSE 1

OnlyWritable  == {{"R", "W"}}
PageUpAndDown == {1, -1}
=============================================================================
