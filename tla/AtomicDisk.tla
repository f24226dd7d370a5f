----------------------------- MODULE AtomicDisk -----------------------------
(***************************************************************************)
(* What kernel/log.c promises to the file system: blocks with              *)
(* transactions.  cur is what the running system sees, dur what it will    *)
(* see after a crash.  The updates of the system calls between two commits *)
(* become durable at once, and only when none of them is half done.        *)
(***************************************************************************)
CONSTANTS Blocks, Vals, Procs

VARIABLES
  cur,   \* contents of the blocks as the system calls see them
  dur,   \* contents that survive a crash
  open   \* the processes inside a begin_op/end_op pair

dvars == <<cur, dur, open>>

Init == cur \in [Blocks -> Vals] /\ dur = cur /\ open = {}

Begin(p) == p \notin open /\ open' = open \cup {p} /\ UNCHANGED <<cur, dur>>

Write(p, b, v) == p \in open /\ cur' = [cur EXCEPT ![b] = v] /\ UNCHANGED <<dur, open>>

End(p) == p \in open /\ open' = open \ {p} /\ UNCHANGED <<cur, dur>>

Commit == open = {} /\ dur' = cur /\ UNCHANGED <<cur, open>>

Crash == cur' = dur /\ open' = {} /\ UNCHANGED dur

Next ==
  \/ \E p \in Procs : Begin(p) \/ End(p) \/ \E b \in Blocks, v \in Vals : Write(p, b, v)
  \/ Commit \/ Crash

Spec == Init /\ [][Next]_dvars
=============================================================================
