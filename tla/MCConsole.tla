------------------------------ MODULE MCConsole -----------------------------
(* Instance of Console.                                                     *)
EXTENDS Console
=============================================================================
