---------------------------- MODULE MCFileBlocks ----------------------------
(* Instance of FileBlocks.                                                  *)
EXTENDS FileBlocks

\* A root directory of one entry, and a file of three units.
SmallImage == <<<<Root, 1>>, <<File, 3>>>>

Symmetric == Permutations(Procs) \cup Permutations(Descs)
=============================================================================
