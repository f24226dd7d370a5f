------------------------------ MODULE MCVirtio ------------------------------
(* Instance of Virtio with three processes: two requests fit, the third      *)
(* process waits for descriptors, and one descriptor is always left over.    *)
EXTENDS Virtio, TLC

\* Nothing tells processes apart.
ProcSymmetry == Permutations(Procs)
=============================================================================
