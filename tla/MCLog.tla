------------------------------- MODULE MCLog --------------------------------
(* Instance of Log.                                                         *)
EXTENDS Log
=============================================================================
