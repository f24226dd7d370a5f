----------------------------- MODULE ProcProofs -----------------------------
(***************************************************************************)
(* Proofs about Proc for every number of slots, CPUs and pids.             *)
(***************************************************************************)
EXTENDS Proc, TLAPS

-----------------------------------------------------------------------------
(* The inductive invariants.                                               *)

\* Where a process holds wait_lock.
Critical == {"exitreparent", "exitwake", "exitzombie", "waitscan", "waitsleep"}

ForkLabels == {"forkcopy", "forkparent", "forklock", "forkrun"}

\* Inside kfork() the slot np is set.
TypeInv == TypeOK /\ \A p \in Procs : pc[p] \in ForkLabels => np[p] \in Procs

\* Who is on which CPU, and why each lock is held: p->lock by the CPU that is
\* on p's stack, or by the one whose process is filling p in kfork(); wait_lock
\* by a CPU whose process is at a Critical label.
SchedInv ==
  /\ \A c \in CPUs, p \in Procs : on[c] = p /\ state[p] # "RUNNING" => plock[p] = c
  /\ \A c, d \in CPUs : on[c] # None /\ on[c] = on[d] => c = d
  /\ \A p \in Procs : state[p] = "RUNNING" => \E c \in CPUs : on[c] = p
  /\ \A c \in CPUs, q \in Procs :
       plock[q] = c =>
         on[c] = q \/ (on[c] \in Procs /\ pc[on[c]] = "forkcopy" /\ np[on[c]] = q)
  /\ \A p \in Procs : pc[p] \in Critical \cup {"forkcopy"} => state[p] = "RUNNING"
  /\ \A c \in CPUs, p \in Procs :
       on[c] = p /\ pc[p] = "forkcopy" => plock[np[p]] = c /\ plock[p] # c
  /\ \A c \in CPUs, p \in Procs :
       on[c] = p /\ pc[p] \in Critical => wait_lock = c /\ plock[p] # c
  /\ wait_lock # None => on[wait_lock] \in Procs /\ pc[on[wait_lock]] \in Critical

\* The slot that a kfork() in progress is filling is USED, and it is its own.
ForkInv ==
  /\ \A p \in Procs : pc[p] \in ForkLabels =>
       state[p] \in {"RUNNING", "RUNNABLE"} /\ np[p] \in Procs /\ state[np[p]] = "USED"
  /\ \A p, q \in Procs : p # q /\ pc[p] \in ForkLabels /\ pc[q] \in ForkLabels =>
       np[p] # np[q]
  /\ FreeSlotOffCpu

CpuInv == SchedInv /\ ForkInv

\* Parents: a process with a child can still call wait().
Live == {"RUNNING", "RUNNABLE", "SLEEPING"}
ExitLabels == {"exitlock", "exitreparent", "exitwake", "exitzombie", "zombie"}

FamilyInv ==
  /\ pc[Initproc] \notin ExitLabels /\ state[Initproc] \in Live
  /\ \A p \in Procs : state[p] = "ZOMBIE" => pc[p] = "zombie"
  /\ \A p \in Procs : pc[p] = "zombie" => state[p] \in {"ZOMBIE", "UNUSED", "USED"}
  /\ \A p, q \in Procs : pc[p] \in {"exitwake", "exitzombie"} => parent[q] # p
  /\ \A p \in Procs : pc[p] = "forkrun" => parent[np[p]] = p
  /\ ParentAlive

\* No exit is slept through: what holds just before exit() becomes a zombie and
\* just before wait() goes to sleep.
ExitInv ==
  /\ \A p, q \in Procs : pc[p] = "exitzombie" /\ parent[p] = q =>
       ~(state[q] = "SLEEPING" /\ chan[q] = q)
  /\ \A p, q \in Procs : pc[p] = "waitsleep" /\ parent[q] = p => state[q] # "ZOMBIE"
  /\ NoMissedExit

\* A free slot has pid 0, and is not marked killed when nobody kills pid 0.
KillInv ==
  /\ \A p \in Procs : state[p] = "UNUSED" => pid[p] = 0 /\ ~killed[p]
  /\ KilledByPid

-----------------------------------------------------------------------------
\* Every variable of the process table keeps its type, and no pid exceeds MAXPID.
THEOREM TypeCorrect == Spec => []TypeInv
<1> USE ProcAssumption
<1>1. Init => TypeInv
  <2> SUFFICES ASSUME Init PROVE TypeInv
    OBVIOUS
  <2>1. pid \in [Procs -> 0..MAXPID] /\ nextpid \in 2..(MAXPID + 1) /\ shpid \in 0..MAXPID
    BY DEF Init
  <2>2. state \in [Procs -> States] /\ pc \in [Procs -> Labels]
    BY DEF Init, States, Labels
  <2>3. QED
    BY Zenon, <2>1, <2>2 DEF Init, TypeInv, TypeOK, ForkLabels
<1>2. TypeInv /\ [Next]_vars => TypeInv'
  <2> SUFFICES ASSUME TypeInv, [Next]_vars PROVE TypeInv'
    OBVIOUS
  <2> USE DEF TypeInv, TypeOK, ForkLabels, States, Labels, Running, At, Goto, MayCall, Fails, sched_vars
  <2>1. ASSUME NEW c \in CPUs, NEW p \in Procs, Schedule(c, p) PROVE TypeInv'
    BY <2>1 DEF Schedule
  <2>2. ASSUME NEW c \in CPUs, NEW p \in Procs, Resume(c, p) PROVE TypeInv'
    BY <2>2 DEF Resume
  <2>3. ASSUME NEW c \in CPUs, NEW p \in Procs, SwitchOut(c, p) PROVE TypeInv'
    BY <2>3 DEF SwitchOut
  <2>4. ASSUME NEW c \in CPUs, NEW p \in Procs, Yield(c, p) PROVE TypeInv'
    BY <2>4 DEF Yield
  <2>5. ASSUME NEW c \in CPUs, NEW p \in Procs, NEW q \in Procs, ForkAlloc(c, p, q) PROVE TypeInv'
    BY <2>5 DEF ForkAlloc
  <2>6. ASSUME NEW c \in CPUs, NEW p \in Procs, ForkNoSlot(c, p) PROVE TypeInv'
    BY <2>6 DEF ForkNoSlot
  <2>7. ASSUME NEW c \in CPUs, NEW p \in Procs, ForkCopied(c, p) PROVE TypeInv'
    BY <2>7 DEF ForkCopied
  <2>8. ASSUME NEW c \in CPUs, NEW p \in Procs, ForkFailed(c, p) PROVE TypeInv'
    <3>0. pid' \in [Procs -> 0..MAXPID]
      BY <2>8 DEF ForkFailed
    <3>1. state' \in [Procs -> States]
      BY <2>8 DEF ForkFailed
    <3>2. parent' \in [Procs -> Procs \cup {None}] /\ chan' \in [Procs -> Procs \cup {None}]
      BY <2>8 DEF ForkFailed
    <3>3. plock' \in [Procs -> CPUs \cup {None}] /\ killed' \in [Procs -> BOOLEAN]
      BY <2>8 DEF ForkFailed
    <3>4. np' \in [Procs -> Procs \cup {None}] /\ pc' \in [Procs -> Labels]
      BY <2>8 DEF ForkFailed
    <3>5. panicked' \in BOOLEAN
      BY <2>8 DEF ForkFailed
    <3>6. QED
      BY <2>8, <3>0, <3>1, <3>2, <3>3, <3>4, <3>5 DEF ForkFailed
  <2>9. ASSUME NEW c \in CPUs, NEW p \in Procs, ForkSpin(c, p) PROVE TypeInv'
    BY <2>9 DEF ForkSpin
  <2>10. ASSUME NEW c \in CPUs, NEW p \in Procs, ForkParent(c, p) PROVE TypeInv'
    BY <2>10 DEF ForkParent
  <2>11. ASSUME NEW c \in CPUs, NEW p \in Procs, ForkRun(c, p) PROVE TypeInv'
    <3>1. state' \in [Procs -> States] /\ np' \in [Procs -> Procs \cup {None}]
      BY <2>11 DEF ForkRun
    <3>2. pc' \in [Procs -> Labels]
      BY <2>11 DEF ForkRun
    <3>3. shpid' \in 0..MAXPID
      BY <2>11 DEF ForkRun
    <3>4. QED
      BY <2>11, <3>1, <3>2, <3>3 DEF ForkRun
  <2>12. ASSUME NEW c \in CPUs, NEW p \in Procs, ExitEnter(c, p) PROVE TypeInv'
    BY <2>12 DEF ExitEnter
  <2>13. ASSUME NEW c \in CPUs, NEW p \in Procs, ExitLock(c, p) PROVE TypeInv'
    BY <2>13 DEF ExitLock
  <2>14. ASSUME NEW c \in CPUs, NEW p \in Procs, ExitReparent(c, p) PROVE TypeInv'
    BY <2>14 DEF ExitReparent, Woken
  <2>15. ASSUME NEW c \in CPUs, NEW p \in Procs, ExitWakeParent(c, p) PROVE TypeInv'
    BY Zenon, <2>15 DEF ExitWakeParent, Woken
  <2>16. ASSUME NEW c \in CPUs, NEW p \in Procs, ExitZombie(c, p) PROVE TypeInv'
    BY <2>16 DEF ExitZombie
  <2>17. ASSUME NEW c \in CPUs, NEW p \in Procs, WaitEnter(c, p) PROVE TypeInv'
    BY <2>17 DEF WaitEnter
  <2>18. ASSUME NEW c \in CPUs, NEW p \in Procs, WaitLock(c, p) PROVE TypeInv'
    BY <2>18 DEF WaitLock
  <2>19. ASSUME NEW c \in CPUs, NEW p \in Procs, NEW q \in Procs, WaitReap(c, p, q) PROVE TypeInv'
    BY <2>19 DEF WaitReap
  <2>20. ASSUME NEW c \in CPUs, NEW p \in Procs, NEW q \in Procs, WaitCopyFails(c, p, q) PROVE TypeInv'
    BY <2>20 DEF WaitCopyFails
  <2>21. ASSUME NEW c \in CPUs, NEW p \in Procs, WaitGivesUp(c, p) PROVE TypeInv'
    BY <2>21 DEF WaitGivesUp
  <2>22. ASSUME NEW c \in CPUs, NEW p \in Procs, WaitBlocks(c, p) PROVE TypeInv'
    BY <2>22 DEF WaitBlocks
  <2>23. ASSUME NEW c \in CPUs, NEW p \in Procs, WaitSleep(c, p) PROVE TypeInv'
    BY <2>23 DEF WaitSleep
  <2>24. ASSUME NEW c \in CPUs, NEW p \in Procs, NEW k \in KillPids, Kill(c, p, k) PROVE TypeInv'
    BY <2>24 DEF Kill
  <2>25. CASE UNCHANGED vars
    BY <2>25, SMTT(30) DEF vars, sched_vars
  <2> HIDE DEF TypeInv
  <2>26. QED
    BY <2>1, <2>2, <2>3, <2>4, <2>5, <2>6, <2>7, <2>8, <2>9, <2>10, <2>11, <2>12, <2>13, <2>14, <2>15, <2>16, <2>17, <2>18, <2>19, <2>20, <2>21, <2>22, <2>23, <2>24, <2>25
    DEF Next, Switch, Advance, User, PanicLoop
<1>3. QED
  BY <1>1, <1>2, PTL DEF Spec

\* SchedInv and ForkInv need each other: a slot that is freed or started is off
\* every CPU, and a lock that is free is held by no CPU that is switching.
THEOREM Cpus == Spec => []CpuInv
<1> USE ProcAssumption
<1>1. Init => CpuInv
  BY DEF Init, CpuInv, SchedInv, ForkInv, FreeSlotOffCpu, Critical, ForkLabels
<1>2. TypeInv /\ CpuInv /\ [Next]_vars => CpuInv'
  <2> SUFFICES ASSUME TypeInv, CpuInv, [Next]_vars PROVE CpuInv'
    OBVIOUS
  <2>0. /\ state \in [Procs -> States] /\ plock \in [Procs -> CPUs \cup {None}]
        /\ wait_lock \in CPUs \cup {None} /\ on \in [CPUs -> Procs \cup {None}]
        /\ pc \in [Procs -> Labels] /\ np \in [Procs -> Procs \cup {None}]
        /\ parent \in [Procs -> Procs \cup {None}]
    BY DEF TypeInv, TypeOK
  <2> USE <2>0 DEF CpuInv, SchedInv, ForkInv, FreeSlotOffCpu, Critical, ForkLabels,
                   Running, At, Goto, MayCall, sched_vars, Woken
  <2>1. ASSUME NEW c \in CPUs, NEW p \in Procs, Schedule(c, p) PROVE CpuInv'
    <3>1. SchedInv'
      BY <2>1 DEF Schedule
    <3>2. ForkInv'
      BY <2>1 DEF Schedule
    <3>3. QED
      BY <3>1, <3>2 DEF CpuInv
  <2>2. ASSUME NEW c \in CPUs, NEW p \in Procs, Resume(c, p) PROVE CpuInv'
    <3>1. SchedInv'
      BY <2>2 DEF Resume
    <3>2. ForkInv'
      BY <2>2 DEF Resume
    <3>3. QED
      BY <3>1, <3>2 DEF CpuInv
  <2>3. ASSUME NEW c \in CPUs, NEW p \in Procs, SwitchOut(c, p) PROVE CpuInv'
    <3>1. SchedInv'
      BY <2>3 DEF SwitchOut
    <3>2. ForkInv'
      BY <2>3 DEF SwitchOut
    <3>3. QED
      BY <3>1, <3>2 DEF CpuInv
  <2>4. ASSUME NEW c \in CPUs, NEW p \in Procs, Yield(c, p) PROVE CpuInv'
    <3>1. SchedInv'
      BY <2>4 DEF Yield
    <3>2. ForkInv'
      BY <2>4 DEF Yield
    <3>3. QED
      BY <3>1, <3>2 DEF CpuInv
  <2>5. ASSUME NEW c \in CPUs, NEW p \in Procs, NEW q \in Procs, ForkAlloc(c, p, q) PROVE CpuInv'
    <3>1. SchedInv'
      BY <2>5 DEF ForkAlloc
    <3>2. ForkInv'
      BY <2>5 DEF ForkAlloc
    <3>3. QED
      BY <3>1, <3>2 DEF CpuInv
  <2>6. ASSUME NEW c \in CPUs, NEW p \in Procs, ForkNoSlot(c, p) PROVE CpuInv'
    <3>1. SchedInv'
      BY <2>6 DEF ForkNoSlot
    <3>2. ForkInv'
      BY <2>6 DEF ForkNoSlot
    <3>3. QED
      BY <3>1, <3>2 DEF CpuInv
  <2>7. ASSUME NEW c \in CPUs, NEW p \in Procs, ForkCopied(c, p) PROVE CpuInv'
    <3>1. SchedInv'
      BY <2>7 DEF ForkCopied
    <3>2. ForkInv'
      BY <2>7 DEF ForkCopied
    <3>3. QED
      BY <3>1, <3>2 DEF CpuInv
  <2>8. ASSUME NEW c \in CPUs, NEW p \in Procs, ForkFailed(c, p) PROVE CpuInv'
    <3>1. SchedInv'
      BY <2>8 DEF ForkFailed
    <3>2. ForkInv'
      BY <2>8 DEF ForkFailed
    <3>3. QED
      BY <3>1, <3>2 DEF CpuInv
  <2>9. ASSUME NEW c \in CPUs, NEW p \in Procs, ForkSpin(c, p) PROVE CpuInv'
    <3>1. SchedInv'
      BY <2>9 DEF ForkSpin
    <3>2. ForkInv'
      BY <2>9 DEF ForkSpin
    <3>3. QED
      BY <3>1, <3>2 DEF CpuInv
  <2>10. ASSUME NEW c \in CPUs, NEW p \in Procs, ForkParent(c, p) PROVE CpuInv'
    <3>1. SchedInv'
      BY <2>10 DEF ForkParent
    <3>2. ForkInv'
      BY <2>10 DEF ForkParent
    <3>3. QED
      BY <3>1, <3>2 DEF CpuInv
  <2>11. ASSUME NEW c \in CPUs, NEW p \in Procs, ForkRun(c, p) PROVE CpuInv'
    <3>1. SchedInv'
      BY <2>11 DEF ForkRun
    <3>2. ForkInv'
      BY <2>11 DEF ForkRun
    <3>3. QED
      BY <3>1, <3>2 DEF CpuInv
  <2>12. ASSUME NEW c \in CPUs, NEW p \in Procs, ExitEnter(c, p) PROVE CpuInv'
    <3>1. SchedInv'
      BY <2>12 DEF ExitEnter
    <3>2. ForkInv'
      BY <2>12 DEF ExitEnter
    <3>3. QED
      BY <3>1, <3>2 DEF CpuInv
  <2>13. ASSUME NEW c \in CPUs, NEW p \in Procs, ExitLock(c, p) PROVE CpuInv'
    <3>1. SchedInv'
      BY <2>13 DEF ExitLock
    <3>2. ForkInv'
      BY <2>13 DEF ExitLock
    <3>3. QED
      BY <3>1, <3>2 DEF CpuInv
  <2>14. ASSUME NEW c \in CPUs, NEW p \in Procs, ExitReparent(c, p) PROVE CpuInv'
    <3>1. SchedInv'
      BY <2>14 DEF ExitReparent
    <3>2. ForkInv'
      BY <2>14 DEF ExitReparent
    <3>3. QED
      BY <3>1, <3>2 DEF CpuInv
  <2>15. ASSUME NEW c \in CPUs, NEW p \in Procs, ExitWakeParent(c, p) PROVE CpuInv'
    <3>1. SchedInv'
      BY <2>15 DEF ExitWakeParent
    <3>2. ForkInv'
      BY <2>15 DEF ExitWakeParent
    <3>3. QED
      BY <3>1, <3>2 DEF CpuInv
  <2>16. ASSUME NEW c \in CPUs, NEW p \in Procs, ExitZombie(c, p) PROVE CpuInv'
    <3>1. SchedInv'
      BY <2>16 DEF ExitZombie
    <3>2. ForkInv'
      BY <2>16 DEF ExitZombie
    <3>3. QED
      BY <3>1, <3>2 DEF CpuInv
  <2>17. ASSUME NEW c \in CPUs, NEW p \in Procs, WaitEnter(c, p) PROVE CpuInv'
    <3>1. SchedInv'
      BY <2>17 DEF WaitEnter
    <3>2. ForkInv'
      BY <2>17 DEF WaitEnter
    <3>3. QED
      BY <3>1, <3>2 DEF CpuInv
  <2>18. ASSUME NEW c \in CPUs, NEW p \in Procs, WaitLock(c, p) PROVE CpuInv'
    <3>1. SchedInv'
      BY <2>18 DEF WaitLock
    <3>2. ForkInv'
      BY <2>18 DEF WaitLock
    <3>3. QED
      BY <3>1, <3>2 DEF CpuInv
  <2>19. ASSUME NEW c \in CPUs, NEW p \in Procs, NEW q \in Procs, WaitReap(c, p, q) PROVE CpuInv'
    <3>1. SchedInv'
      BY <2>19 DEF WaitReap, Zombies, Children
    <3>2. ForkInv'
      BY <2>19 DEF WaitReap, Zombies, Children
    <3>3. QED
      BY <3>1, <3>2 DEF CpuInv
  <2>20. ASSUME NEW c \in CPUs, NEW p \in Procs, NEW q \in Procs, WaitCopyFails(c, p, q) PROVE CpuInv'
    <3>1. SchedInv'
      BY <2>20 DEF WaitCopyFails
    <3>2. ForkInv'
      BY <2>20 DEF WaitCopyFails
    <3>3. QED
      BY <3>1, <3>2 DEF CpuInv
  <2>21. ASSUME NEW c \in CPUs, NEW p \in Procs, WaitGivesUp(c, p) PROVE CpuInv'
    <3>1. SchedInv'
      BY <2>21 DEF WaitGivesUp
    <3>2. ForkInv'
      BY <2>21 DEF WaitGivesUp
    <3>3. QED
      BY <3>1, <3>2 DEF CpuInv
  <2>22. ASSUME NEW c \in CPUs, NEW p \in Procs, WaitBlocks(c, p) PROVE CpuInv'
    <3>1. SchedInv'
      BY <2>22 DEF WaitBlocks
    <3>2. ForkInv'
      BY <2>22 DEF WaitBlocks
    <3>3. QED
      BY <3>1, <3>2 DEF CpuInv
  <2>23. ASSUME NEW c \in CPUs, NEW p \in Procs, WaitSleep(c, p) PROVE CpuInv'
    <3>1. SchedInv'
      BY <2>23 DEF WaitSleep
    <3>2. ForkInv'
      BY <2>23 DEF WaitSleep
    <3>3. QED
      BY <3>1, <3>2 DEF CpuInv
  <2>24. ASSUME NEW c \in CPUs, NEW p \in Procs, NEW k \in KillPids, Kill(c, p, k) PROVE CpuInv'
    <3>1. SchedInv'
      BY <2>24 DEF Kill
    <3>2. ForkInv'
      BY <2>24 DEF Kill
    <3>3. QED
      BY <3>1, <3>2 DEF CpuInv
  <2>25. CASE UNCHANGED vars
    BY <2>25, SMTT(30) DEF vars, sched_vars
  <2> HIDE DEF CpuInv, SchedInv, ForkInv
  <2>26. QED
    BY <2>1, <2>2, <2>3, <2>4, <2>5, <2>6, <2>7, <2>8, <2>9, <2>10, <2>11, <2>12, <2>13, <2>14, <2>15, <2>16, <2>17, <2>18, <2>19, <2>20, <2>21, <2>22, <2>23, <2>24, <2>25
    DEF Next, Switch, Advance, User, PanicLoop
<1>3. QED
  BY <1>1, <1>2, TypeCorrect, PTL DEF Spec

\* Parents and children agree: see FamilyInv.
THEOREM Families == Spec => []FamilyInv
<1> USE ProcAssumption
<1>1. Init => FamilyInv
  BY DEF Init, FamilyInv, ParentAlive, ExitLabels, Live
<1>2. TypeInv /\ CpuInv /\ FamilyInv /\ [Next]_vars => FamilyInv'
  <2> SUFFICES ASSUME TypeInv, CpuInv, FamilyInv, [Next]_vars PROVE FamilyInv'
    OBVIOUS
  <2>0. /\ state \in [Procs -> States] /\ plock \in [Procs -> CPUs \cup {None}]
        /\ wait_lock \in CPUs \cup {None} /\ on \in [CPUs -> Procs \cup {None}]
        /\ pc \in [Procs -> Labels] /\ np \in [Procs -> Procs \cup {None}]
        /\ parent \in [Procs -> Procs \cup {None}] /\ chan \in [Procs -> Procs \cup {None}]
    BY DEF TypeInv, TypeOK
  <2> USE <2>0 DEF CpuInv, SchedInv, ForkInv, FreeSlotOffCpu, Critical, ForkLabels, FamilyInv,
                   ParentAlive, ExitLabels, Live, Running, At, Goto, MayCall, sched_vars, Woken
  <2>1. ASSUME NEW c \in CPUs, NEW p \in Procs, Schedule(c, p) PROVE FamilyInv'
    BY <2>1 DEF Schedule
  <2>2. ASSUME NEW c \in CPUs, NEW p \in Procs, Resume(c, p) PROVE FamilyInv'
    BY <2>2 DEF Resume
  <2>3. ASSUME NEW c \in CPUs, NEW p \in Procs, SwitchOut(c, p) PROVE FamilyInv'
    BY <2>3 DEF SwitchOut
  <2>4. ASSUME NEW c \in CPUs, NEW p \in Procs, Yield(c, p) PROVE FamilyInv'
    BY <2>4 DEF Yield
  <2>5. ASSUME NEW c \in CPUs, NEW p \in Procs, NEW q \in Procs, ForkAlloc(c, p, q) PROVE FamilyInv'
    BY <2>5, SMTT(30) DEF ForkAlloc
  <2>6. ASSUME NEW c \in CPUs, NEW p \in Procs, ForkNoSlot(c, p) PROVE FamilyInv'
    BY <2>6, SMTT(30) DEF ForkNoSlot
  <2>7. ASSUME NEW c \in CPUs, NEW p \in Procs, ForkCopied(c, p) PROVE FamilyInv'
    BY <2>7 DEF ForkCopied
  <2>8. ASSUME NEW c \in CPUs, NEW p \in Procs, ForkFailed(c, p) PROVE FamilyInv'
    BY <2>8 DEF ForkFailed
  <2>9. ASSUME NEW c \in CPUs, NEW p \in Procs, ForkSpin(c, p) PROVE FamilyInv'
    BY <2>9 DEF ForkSpin
  <2>10. ASSUME NEW c \in CPUs, NEW p \in Procs, ForkParent(c, p) PROVE FamilyInv'
    BY <2>10 DEF ForkParent
  <2>11. ASSUME NEW c \in CPUs, NEW p \in Procs, ForkRun(c, p) PROVE FamilyInv'
    BY <2>11 DEF ForkRun
  <2>12. ASSUME NEW c \in CPUs, NEW p \in Procs, ExitEnter(c, p) PROVE FamilyInv'
    BY <2>12 DEF ExitEnter
  <2>13. ASSUME NEW c \in CPUs, NEW p \in Procs, ExitLock(c, p) PROVE FamilyInv'
    BY <2>13 DEF ExitLock
  <2>14. ASSUME NEW c \in CPUs, NEW p \in Procs, ExitReparent(c, p) PROVE FamilyInv'
    <3>1. /\ pc[p] = "exitreparent" /\ pc' = [pc EXCEPT ![p] = "exitwake"] /\ p # Initproc
          /\ state[p] = "RUNNING" /\ UNCHANGED <<chan, np>>
      BY <2>14 DEF ExitReparent
    <3>2. \A q \in Procs : parent'[q] = IF parent[q] = p THEN Initproc ELSE parent[q]
      BY <2>14 DEF ExitReparent, Children
    <3>3. \A q \in Procs : state'[q] = state[q] \/ (q = Initproc /\ state'[q] = "RUNNABLE")
      BY <2>14 DEF ExitReparent
    <3>4. parent' \in [Procs -> Procs \cup {None}] /\ state' \in [Procs -> States]
      BY <2>14 DEF ExitReparent, Children, States
    <3>5. ParentAlive'
      BY <3>1, <3>2, <3>3, <3>4
    <3>6. QED
      BY <3>1, <3>2, <3>3, <3>4, <3>5
  <2>15. ASSUME NEW c \in CPUs, NEW p \in Procs, ExitWakeParent(c, p) PROVE FamilyInv'
    BY <2>15 DEF ExitWakeParent
  <2>16. ASSUME NEW c \in CPUs, NEW p \in Procs, ExitZombie(c, p) PROVE FamilyInv'
    BY <2>16 DEF ExitZombie
  <2>17. ASSUME NEW c \in CPUs, NEW p \in Procs, WaitEnter(c, p) PROVE FamilyInv'
    BY <2>17 DEF WaitEnter
  <2>18. ASSUME NEW c \in CPUs, NEW p \in Procs, WaitLock(c, p) PROVE FamilyInv'
    BY <2>18 DEF WaitLock
  <2>19. ASSUME NEW c \in CPUs, NEW p \in Procs, NEW q \in Procs, WaitReap(c, p, q) PROVE FamilyInv'
    BY <2>19, SMTT(30) DEF WaitReap, Zombies, Children
  <2>20. ASSUME NEW c \in CPUs, NEW p \in Procs, NEW q \in Procs, WaitCopyFails(c, p, q) PROVE FamilyInv'
    BY <2>20, SMTT(30) DEF WaitCopyFails, Zombies, Children
  <2>21. ASSUME NEW c \in CPUs, NEW p \in Procs, WaitGivesUp(c, p) PROVE FamilyInv'
    BY <2>21 DEF WaitGivesUp, Zombies, Children
  <2>22. ASSUME NEW c \in CPUs, NEW p \in Procs, WaitBlocks(c, p) PROVE FamilyInv'
    BY <2>22 DEF WaitBlocks, Zombies, Children
  <2>23. ASSUME NEW c \in CPUs, NEW p \in Procs, WaitSleep(c, p) PROVE FamilyInv'
    BY <2>23 DEF WaitSleep
  <2>24. ASSUME NEW c \in CPUs, NEW p \in Procs, NEW k \in KillPids, Kill(c, p, k) PROVE FamilyInv'
    BY <2>24 DEF Kill
  <2>25. CASE UNCHANGED vars
    BY <2>25, SMTT(30) DEF vars, sched_vars
  <2> HIDE DEF CpuInv, SchedInv, ForkInv, FamilyInv
  <2>26. QED
    BY <2>1, <2>2, <2>3, <2>4, <2>5, <2>6, <2>7, <2>8, <2>9, <2>10, <2>11, <2>12, <2>13, <2>14, <2>15, <2>16, <2>17, <2>18, <2>19, <2>20, <2>21, <2>22, <2>23, <2>24, <2>25
    DEF Next, Switch, Advance, User, PanicLoop
<1>3. QED
  BY <1>1, <1>2, TypeCorrect, Cpus, PTL DEF Spec

\* A step that makes nobody a sleeper, a zombie or a parent, and takes nobody to
\* the last step of exit() or of wait(), does not disturb the handshake.
LEMMA HandshakeFrame ==
  ASSUME ExitInv,
         \A q \in Procs : /\ state'[q] = "SLEEPING" => state[q] = "SLEEPING"
                          /\ state'[q] = "ZOMBIE" => state[q] = "ZOMBIE"
                          /\ chan'[q] \in {chan[q], None} /\ parent'[q] \in {parent[q], None}
                          /\ pc'[q] \in {"exitzombie", "waitsleep"} => pc'[q] = pc[q]
  PROVE  ExitInv'
BY ProcAssumption DEF ExitInv, NoMissedExit

\* Neither half of the exit/wait handshake can slip past the other: see ExitInv.
THEOREM Handshake == Spec => []ExitInv
<1> USE ProcAssumption
<1>1. Init => ExitInv
  BY DEF Init, ExitInv, NoMissedExit
<1>2. TypeInv /\ CpuInv /\ FamilyInv /\ ExitInv /\ [Next]_vars => ExitInv'
  <2> SUFFICES ASSUME TypeInv, CpuInv, FamilyInv, ExitInv, [Next]_vars PROVE ExitInv'
    OBVIOUS
  <2>0. /\ state \in [Procs -> States] /\ plock \in [Procs -> CPUs \cup {None}]
        /\ wait_lock \in CPUs \cup {None} /\ on \in [CPUs -> Procs \cup {None}]
        /\ pc \in [Procs -> Labels] /\ np \in [Procs -> Procs \cup {None}]
        /\ parent \in [Procs -> Procs \cup {None}] /\ chan \in [Procs -> Procs \cup {None}]
    BY DEF TypeInv, TypeOK
  <2> USE DEF Goto, sched_vars, MayCall, Running, At
  <2>1. ASSUME NEW c \in CPUs, NEW p \in Procs, Schedule(c, p) PROVE ExitInv'
    BY <2>0, <2>1, HandshakeFrame DEF Schedule
  <2>2. ASSUME NEW c \in CPUs, NEW p \in Procs, Resume(c, p) PROVE ExitInv'
    BY <2>0, <2>2, HandshakeFrame DEF Resume
  <2>3. ASSUME NEW c \in CPUs, NEW p \in Procs, SwitchOut(c, p) PROVE ExitInv'
    BY <2>0, <2>3, HandshakeFrame DEF SwitchOut
  <2>4. ASSUME NEW c \in CPUs, NEW p \in Procs, Yield(c, p) PROVE ExitInv'
    BY <2>0, <2>4, HandshakeFrame DEF Yield
  <2>5. ASSUME NEW c \in CPUs, NEW p \in Procs, NEW q \in Procs, ForkAlloc(c, p, q) PROVE ExitInv'
    BY <2>0, <2>5, HandshakeFrame DEF ForkAlloc
  <2>6. ASSUME NEW c \in CPUs, NEW p \in Procs, ForkNoSlot(c, p) PROVE ExitInv'
    BY <2>0, <2>6, HandshakeFrame DEF ForkNoSlot
  <2>7. ASSUME NEW c \in CPUs, NEW p \in Procs, ForkCopied(c, p) PROVE ExitInv'
    BY <2>0, <2>7, HandshakeFrame DEF ForkCopied
  <2>8. ASSUME NEW c \in CPUs, NEW p \in Procs, ForkFailed(c, p) PROVE ExitInv'
    BY <2>0, <2>8, HandshakeFrame DEF ForkFailed
  <2>9. ASSUME NEW c \in CPUs, NEW p \in Procs, ForkSpin(c, p) PROVE ExitInv'
    BY <2>0, <2>9, HandshakeFrame DEF ForkSpin
  <2>11. ASSUME NEW c \in CPUs, NEW p \in Procs, ForkRun(c, p) PROVE ExitInv'
    BY <2>0, <2>11, HandshakeFrame DEF ForkRun
  <2>12. ASSUME NEW c \in CPUs, NEW p \in Procs, ExitEnter(c, p) PROVE ExitInv'
    BY <2>0, <2>12, HandshakeFrame DEF ExitEnter
  <2>13. ASSUME NEW c \in CPUs, NEW p \in Procs, ExitLock(c, p) PROVE ExitInv'
    BY <2>0, <2>13, HandshakeFrame DEF ExitLock
  <2>17. ASSUME NEW c \in CPUs, NEW p \in Procs, WaitEnter(c, p) PROVE ExitInv'
    BY <2>0, <2>17, HandshakeFrame DEF WaitEnter
  <2>18. ASSUME NEW c \in CPUs, NEW p \in Procs, WaitLock(c, p) PROVE ExitInv'
    BY <2>0, <2>18, HandshakeFrame DEF WaitLock
  <2>19. ASSUME NEW c \in CPUs, NEW p \in Procs, NEW q \in Procs, WaitReap(c, p, q) PROVE ExitInv'
    BY <2>0, <2>19, HandshakeFrame DEF WaitReap
  <2>20. ASSUME NEW c \in CPUs, NEW p \in Procs, NEW q \in Procs, WaitCopyFails(c, p, q) PROVE ExitInv'
    BY <2>0, <2>20, HandshakeFrame DEF WaitCopyFails
  <2>21. ASSUME NEW c \in CPUs, NEW p \in Procs, WaitGivesUp(c, p) PROVE ExitInv'
    BY <2>0, <2>21, HandshakeFrame DEF WaitGivesUp
  <2>24. ASSUME NEW c \in CPUs, NEW p \in Procs, NEW k \in KillPids, Kill(c, p, k) PROVE ExitInv'
    BY <2>0, <2>24, HandshakeFrame DEF Kill
  <2>25. CASE UNCHANGED vars
    BY <2>0, <2>25, HandshakeFrame DEF vars, sched_vars
  <2> USE <2>0 DEF CpuInv, SchedInv, ForkInv, FreeSlotOffCpu, Critical, ForkLabels, FamilyInv,
                   ParentAlive, ExitLabels, Live, Running, At, Goto, MayCall, sched_vars, Woken,
                   ExitInv, NoMissedExit
  <2>10. ASSUME NEW c \in CPUs, NEW p \in Procs, ForkParent(c, p) PROVE ExitInv'
    BY <2>10, SMTT(30) DEF ForkParent
  <2>14. ASSUME NEW c \in CPUs, NEW p \in Procs, ExitReparent(c, p) PROVE ExitInv'
    BY <2>14, SMTT(30) DEF ExitReparent, Zombies, Children
  <2>15. ASSUME NEW c \in CPUs, NEW p \in Procs, ExitWakeParent(c, p) PROVE ExitInv'
    BY <2>15, SMTT(30) DEF ExitWakeParent
  <2>16. ASSUME NEW c \in CPUs, NEW p \in Procs, ExitZombie(c, p) PROVE ExitInv'
    BY <2>16, SMTT(30) DEF ExitZombie
  <2>22. ASSUME NEW c \in CPUs, NEW p \in Procs, WaitBlocks(c, p) PROVE ExitInv'
    BY <2>22, SMTT(30) DEF WaitBlocks, Zombies, Children
  <2>23. ASSUME NEW c \in CPUs, NEW p \in Procs, WaitSleep(c, p) PROVE ExitInv'
    BY <2>23, SMTT(30) DEF WaitSleep
  <2> HIDE DEF CpuInv, SchedInv, ForkInv, FamilyInv, ExitInv
  <2>26. QED
    BY <2>1, <2>2, <2>3, <2>4, <2>5, <2>6, <2>7, <2>8, <2>9, <2>10, <2>11, <2>12, <2>13, <2>14, <2>15, <2>16, <2>17, <2>18, <2>19, <2>20, <2>21, <2>22, <2>23, <2>24, <2>25
    DEF Next, Switch, Advance, User, PanicLoop
<1>3. QED
  BY <1>1, <1>2, TypeCorrect, Cpus, Families, PTL DEF Spec

\* As long as no program passes 0 to kill(), a process is marked killed only when
\* its own pid was the argument: pids of freed slots leave no mark behind.
THEOREM KillsOnlyTarget ==
  ASSUME 0 \notin KillPids
  PROVE  Spec => [](KillInv /\ KilledByPid)
<1> USE ProcAssumption
<1>1. Init => KillInv
  BY DEF Init, KillInv, KilledByPid
<1>2. TypeInv /\ CpuInv /\ KillInv /\ [Next]_vars => KillInv'
  <2> SUFFICES ASSUME TypeInv, CpuInv, KillInv, [Next]_vars PROVE KillInv'
    OBVIOUS
  <2>0. /\ state \in [Procs -> States] /\ pid \in [Procs -> 0..MAXPID] /\ nextpid \in Nat
        /\ killed \in [Procs -> BOOLEAN] /\ np \in [Procs -> Procs \cup {None}]
        /\ pc \in [Procs -> Labels] /\ targets \subseteq KillPids
    BY DEF TypeInv, TypeOK
  <2> USE <2>0 DEF CpuInv, ForkInv, ForkLabels, KillInv, KilledByPid, Running, At, Goto,
                   MayCall, sched_vars, Woken
  <2>1. ASSUME NEW c \in CPUs, NEW p \in Procs, Schedule(c, p) PROVE KillInv'
    BY <2>1 DEF Schedule
  <2>2. ASSUME NEW c \in CPUs, NEW p \in Procs, Resume(c, p) PROVE KillInv'
    BY <2>2 DEF Resume
  <2>3. ASSUME NEW c \in CPUs, NEW p \in Procs, SwitchOut(c, p) PROVE KillInv'
    BY <2>3 DEF SwitchOut
  <2>4. ASSUME NEW c \in CPUs, NEW p \in Procs, Yield(c, p) PROVE KillInv'
    BY <2>4 DEF Yield
  <2>5. ASSUME NEW c \in CPUs, NEW p \in Procs, NEW q \in Procs, ForkAlloc(c, p, q) PROVE KillInv'
    BY <2>5 DEF ForkAlloc
  <2>6. ASSUME NEW c \in CPUs, NEW p \in Procs, ForkNoSlot(c, p) PROVE KillInv'
    BY <2>6 DEF ForkNoSlot
  <2>7. ASSUME NEW c \in CPUs, NEW p \in Procs, ForkCopied(c, p) PROVE KillInv'
    BY <2>7 DEF ForkCopied
  <2>8. ASSUME NEW c \in CPUs, NEW p \in Procs, ForkFailed(c, p) PROVE KillInv'
    BY <2>8 DEF ForkFailed
  <2>9. ASSUME NEW c \in CPUs, NEW p \in Procs, ForkSpin(c, p) PROVE KillInv'
    BY <2>9 DEF ForkSpin
  <2>10. ASSUME NEW c \in CPUs, NEW p \in Procs, ForkParent(c, p) PROVE KillInv'
    BY <2>10 DEF ForkParent
  <2>11. ASSUME NEW c \in CPUs, NEW p \in Procs, ForkRun(c, p) PROVE KillInv'
    BY <2>11 DEF ForkRun
  <2>12. ASSUME NEW c \in CPUs, NEW p \in Procs, ExitEnter(c, p) PROVE KillInv'
    BY <2>12 DEF ExitEnter
  <2>13. ASSUME NEW c \in CPUs, NEW p \in Procs, ExitLock(c, p) PROVE KillInv'
    BY <2>13 DEF ExitLock
  <2>14. ASSUME NEW c \in CPUs, NEW p \in Procs, ExitReparent(c, p) PROVE KillInv'
    BY <2>14 DEF ExitReparent, Zombies, Children
  <2>15. ASSUME NEW c \in CPUs, NEW p \in Procs, ExitWakeParent(c, p) PROVE KillInv'
    BY <2>15 DEF ExitWakeParent
  <2>16. ASSUME NEW c \in CPUs, NEW p \in Procs, ExitZombie(c, p) PROVE KillInv'
    BY <2>16 DEF ExitZombie
  <2>17. ASSUME NEW c \in CPUs, NEW p \in Procs, WaitEnter(c, p) PROVE KillInv'
    BY <2>17 DEF WaitEnter
  <2>18. ASSUME NEW c \in CPUs, NEW p \in Procs, WaitLock(c, p) PROVE KillInv'
    BY <2>18 DEF WaitLock
  <2>19. ASSUME NEW c \in CPUs, NEW p \in Procs, NEW q \in Procs, WaitReap(c, p, q) PROVE KillInv'
    BY <2>19 DEF WaitReap, Zombies, Children
  <2>20. ASSUME NEW c \in CPUs, NEW p \in Procs, NEW q \in Procs, WaitCopyFails(c, p, q) PROVE KillInv'
    BY <2>20 DEF WaitCopyFails, Zombies, Children
  <2>21. ASSUME NEW c \in CPUs, NEW p \in Procs, WaitGivesUp(c, p) PROVE KillInv'
    BY <2>21 DEF WaitGivesUp, Zombies, Children
  <2>22. ASSUME NEW c \in CPUs, NEW p \in Procs, WaitBlocks(c, p) PROVE KillInv'
    BY <2>22 DEF WaitBlocks, Zombies, Children
  <2>23. ASSUME NEW c \in CPUs, NEW p \in Procs, WaitSleep(c, p) PROVE KillInv'
    BY <2>23 DEF WaitSleep
  <2>24. ASSUME NEW c \in CPUs, NEW p \in Procs, NEW k \in KillPids, Kill(c, p, k) PROVE KillInv'
    BY <2>24 DEF Kill
  <2>25. CASE UNCHANGED vars
    BY <2>25, SMTT(30) DEF vars, sched_vars
  <2> HIDE DEF CpuInv, ForkInv, KillInv
  <2>26. QED
    BY <2>1, <2>2, <2>3, <2>4, <2>5, <2>6, <2>7, <2>8, <2>9, <2>10, <2>11, <2>12, <2>13, <2>14, <2>15, <2>16, <2>17, <2>18, <2>19, <2>20, <2>21, <2>22, <2>23, <2>24, <2>25
    DEF Next, Switch, Advance, User, PanicLoop
<1>3. KillInv => KilledByPid
  BY DEF KillInv
<1>4. QED
  BY <1>1, <1>2, <1>3, TypeCorrect, Cpus, PTL DEF Spec


-----------------------------------------------------------------------------
(* The invariants of the runs follow.                                      *)

\* For any number of CPUs and processes no two CPUs run on one kernel stack.
THEOREM StacksNotShared == Spec => []OneCpuPerStack
<1>1. CpuInv => OneCpuPerStack
  BY DEF CpuInv, SchedInv, OneCpuPerStack
<1>2. QED
  BY <1>1, Cpus, PTL

\* wait() never frees, and fork() never reuses, a slot whose process is still on
\* a CPU.
THEOREM SlotsFreedOffCpu == Spec => []FreeSlotOffCpu
<1>1. CpuInv => FreeSlotOffCpu
  BY DEF CpuInv, ForkInv
<1>2. QED
  BY <1>1, Cpus, PTL

\* sched() is always called with p->lock and no other spinlock held.
THEOREM SchedNeverPanics == Spec => []SchedHoldsOneLock
<1> USE ProcAssumption
<1>1. TypeInv /\ CpuInv => SchedHoldsOneLock
  <2> SUFFICES ASSUME TypeInv, CpuInv, NEW c \in CPUs, NEW p \in Procs,
                      on[c] = p, state[p] # "RUNNING"
               PROVE  /\ plock[p] = c
                      /\ wait_lock # c
                      /\ \A q \in Procs \ {p} : plock[q] # c
    BY DEF SchedHoldsOneLock
  <2>1. plock[p] = c
    BY DEF CpuInv, SchedInv
  <2>2. wait_lock # c
    BY DEF CpuInv, SchedInv
  <2>3. ASSUME NEW q \in Procs \ {p} PROVE plock[q] # c
    BY DEF CpuInv, SchedInv
  <2>4. QED
    BY <2>1, <2>2, <2>3
<1>2. QED
  BY <1>1, TypeCorrect, Cpus, PTL

\* Every process but init has a parent that can still wait for it.
THEOREM ParentsAlive == Spec => []ParentAlive
<1>1. FamilyInv => ParentAlive
  BY DEF FamilyInv
<1>2. QED
  BY <1>1, Families, PTL

\* No parent sleeps in wait() while it has a zombie child.
THEOREM ExitsNotMissed == Spec => []NoMissedExit
<1>1. ExitInv => NoMissedExit
  BY DEF ExitInv
<1>2. QED
  BY <1>1, Handshake, PTL

\* The types, from the strengthening with which they are inductive.
THEOREM Typed == Spec => []TypeOK
<1>1. TypeInv => TypeOK
  BY DEF TypeInv
<1>2. QED
  BY <1>1, TypeCorrect, PTL

\* CPUs, stacks, slots and the locks of sched() fit together at every step of
\* scheduling, fork, exit and wait.
THEOREM CpusSafe == Spec => []CpusConsistent
<1>1. TypeOK /\ OneCpuPerStack /\ FreeSlotOffCpu /\ SchedHoldsOneLock => CpusConsistent
  BY DEF CpusConsistent
<1>2. QED
  BY <1>1, Typed, StacksNotShared, SlotsFreedOffCpu, SchedNeverPanics, PTL

\* Every process has a parent that can wait for it, and no exit is slept through.
THEOREM FamiliesSafe == Spec => []FamilyConsistent
<1>1. ParentAlive /\ NoMissedExit => FamilyConsistent
  BY DEF FamilyConsistent
<1>2. QED
  BY <1>1, ParentsAlive, ExitsNotMissed, PTL
=============================================================================
