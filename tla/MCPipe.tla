------------------------------- MODULE MCPipe -------------------------------
(* Instance of Pipe: two processes, a ring of two slots whose counters      *)
(* wrap after two rounds, two byte values.                                  *)
EXTENDS Pipe
=============================================================================
