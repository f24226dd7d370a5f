------------------------------ MODULE MCWaits -------------------------------
(***************************************************************************)
(* Processes that wait, for model checking.  Each behaviour of this module *)
(* runs one of two machines: the log, in which they wait for space, or the *)
(* timer, the spin locks and the context switch, in which they wait for    *)
(* the clock.                                                              *)
(***************************************************************************)
EXTENDS Log, Trap

VARIABLE machine

MachineInit == Init /\ TrapInit /\ machine \in {"log", "timer"}

MachineNext ==
  \/ machine = "log" /\ Next /\ UNCHANGED <<machine, trapVars>>
  \/ machine = "timer" /\ TrapNext /\ UNCHANGED <<machine, vars>>

MachineSpec == MachineInit /\ [][MachineNext]_<<machine, vars, trapVars>>
=============================================================================
