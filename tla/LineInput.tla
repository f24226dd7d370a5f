----------------------------- MODULE LineInput ------------------------------
(***************************************************************************)
(* What the console promises to those who type and those who read: a line  *)
(* can be edited until it is complete, complete lines are read in order,   *)
(* and at most SIZE characters are kept.                                   *)
(***************************************************************************)
EXTENDS Integers, Sequences

CONSTANTS Chars, Ends, SIZE   \* Ends: the characters that complete a line

VARIABLES ready, line

lineVars == <<ready, line>>

LineInit == ready = <<>> /\ line = <<>>

Type(c) ==
  LET typed == Append(line, c) IN
  /\ Len(ready) + Len(line) < SIZE
  /\ IF c \in Ends \/ Len(ready) + Len(typed) = SIZE
     THEN ready' = ready \o typed /\ line' = <<>>
     ELSE line' = typed /\ UNCHANGED ready

Erase == line' = SubSeq(line, 1, Len(line) - 1) /\ line # <<>> /\ UNCHANGED ready

EraseLine == line' = <<>> /\ UNCHANGED ready

Read == ready # <<>> /\ ready' = Tail(ready) /\ UNCHANGED line

LineNext == (\E c \in Chars : Type(c)) \/ Erase \/ EraseLine \/ Read

LineSpec == LineInit /\ [][LineNext]_lineVars
=============================================================================
