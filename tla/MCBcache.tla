------------------------------ MODULE MCBcache ------------------------------
(* Instance of Bcache with as many buffers as the assumption asks for, and    *)
(* one block more than buffers.                                              *)
EXTENDS Bcache, TLC

\* Nothing tells processes apart, or blocks.
Symmetric == Permutations(Procs) \cup Permutations(Blocks)
=============================================================================
