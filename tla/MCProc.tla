------------------------------- MODULE MCProc -------------------------------
(* Instance of Proc.                                                        *)
EXTENDS Proc
=============================================================================
