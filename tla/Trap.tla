-------------------------------- MODULE Trap --------------------------------
(***************************************************************************)
(* Spin locks, interrupts and the context switch on every hart             *)
(* (kernel/spinlock.c; kerneltrap, clockintr and the timer's part of       *)
(* usertrap in kernel/trap.c; scheduler, sched, yield, sleep and wakeup in *)
(* kernel/proc.c), with pause() (kernel/sysproc.c) as the code that the    *)
(* timer interrupts.                                                       *)
(*                                                                         *)
(* A context is a kernel thread of a process or a hart's scheduler.  It is *)
(* a stack of frames, the running one first: an interrupt pushes a frame,  *)
(* and the return from it pops it.  A frame is at a label and, inside      *)
(* acquire() or release(), at a step of the operation on lock lk.  A step  *)
(* of acquire() or release() is one access to memory that another hart can *)
(* see or to sstatus.SIE, so that an interrupt and a change of hart can    *)
(* come between any two of them at which interrupts are on.                *)
(*                                                                         *)
(* p->lock is named by the process.  The timer stands for every device: a  *)
(* handler takes a spin lock and wakes the processes that sleep under it.  *)
(***************************************************************************)
EXTENDS Naturals, Sequences, FiniteSets

CONSTANTS
  Harts,
  Hart0,      \* the hart whose timer interrupt advances ticks
  Threads,    \* the processes
  Tickslock,
  Nohart,     \* lk->cpu = 0
  TICKMOD,    \* bound: ticks is an unsigned int of TICKMOD values
  Naps,    \* arguments of pause(), negative ones taken as 0
  Doomed      \* processes that somebody may kill

ASSUME TrapAssumption ==
  /\ Hart0 \in Harts /\ Nohart \notin Harts /\ Tickslock \notin Threads
  /\ Threads \cap Harts = {} /\ Doomed \subseteq Threads
  /\ TICKMOD \in Nat \ {0} /\ Naps \subseteq 0..TICKMOD-1

VARIABLES
  sie,      \* sstatus.SIE of a hart; TRUE in user mode
  noff,     \* c->noff
  intena,   \* c->intena
  current,  \* the context that a hart executes: a process or the hart itself
  locked,   \* lk->locked
  owner,    \* lk->cpu
  frames,   \* the stack of a context
  pstate,   \* p->state
  saved,    \* sched()'s local intena
  ticks,
  wanted,   \* pause()'s n
  ticks0,   \* pause()'s ticks0
  doomed,   \* p->killed
  trapPanic \* panic() has been called

hartVars == <<sie, noff, intena>>
lockVars == <<locked, owner>>
procVars == <<pstate, saved, wanted, ticks0, doomed>>
trapVars == <<hartVars, current, lockVars, frames, procVars, ticks, trapPanic>>

SpinLocks == Threads \cup {Tickslock}
Contexts == Threads \cup Harts

Frame == [at : {"fork", "first", "user", "ticks0", "test", "sleep", "asleep", "slept", "again", "done", "exit", "zombie",
                "intr", "tick", "wake", "wakeup", "yield", "yielding", "yielded", "iret",
                "idle", "on", "scan", "try", "back"},
          op : {"none", "acquire", "off", "swap", "own", "release", "unlock", "pop"},
          lk : SpinLocks, old : BOOLEAN, todo : SUBSET Threads]

\* procinit, allocproc and the entry of scheduler(): every process is to start
\* in forkret, every hart is at the head of the scheduler's loop.
TrapInit ==
  /\ sie = [c \in Harts |-> FALSE]
  /\ noff = [c \in Harts |-> 0]
  /\ intena = [c \in Harts |-> FALSE]
  /\ current = [c \in Harts |-> c]
  /\ locked = [l \in SpinLocks |-> FALSE]
  /\ owner = [l \in SpinLocks |-> Nohart]
  /\ frames = [k \in Contexts |->
       <<[at |-> IF k \in Threads THEN "fork" ELSE "idle", op |-> "none", lk |-> Tickslock, old |-> FALSE, todo |-> {}]>>]
  /\ pstate = [p \in Threads |-> "RUNNABLE"]
  /\ saved = [p \in Threads |-> FALSE]
  /\ ticks = 0
  /\ wanted = [p \in Threads |-> 0]
  /\ ticks0 = [p \in Threads |-> 0]
  /\ doomed = [p \in Threads |-> FALSE]
  /\ trapPanic = FALSE

\* The running frame of hart c.
Top(c) == Head(frames[current[c]])

\* c's running frame becomes f.
SetTop(c, f) == frames' = [frames EXCEPT ![current[c]] = <<f>> \o Tail(@)]

\* The frame is at label l, between two operations on locks.
AtLabel(c, l) == ~trapPanic /\ Top(c).at = l /\ Top(c).op = "none"

AtOp(c, o) == ~trapPanic /\ Top(c).op = o

NextOp(c, o) == SetTop(c, [Top(c) EXCEPT !.op = o])

\* Where c continues, at once or after an acquire() or a release() of lk.
Continue(c, l) == SetTop(c, [Top(c) EXCEPT !.at = l])
Call(c, o, lk, l) == SetTop(c, [Top(c) EXCEPT !.at = l, !.op = o, !.lk = lk])

holding(c, lk) == locked[lk] /\ owner[lk] = c

-----------------------------------------------------------------------------
(* acquire and release                                                     *)

\* push_off: interrupts may still come between the read of SIE and intr_off().
PushRead(c) ==
  /\ AtOp(c, "acquire")
  /\ SetTop(c, [Top(c) EXCEPT !.op = "off", !.old = sie[c]])
  /\ UNCHANGED <<hartVars, current, lockVars, procVars, ticks, trapPanic>>

\* The rest of push_off, and acquire()'s test for a lock already held.
PushOff(c) ==
  /\ AtOp(c, "off")
  /\ sie' = [sie EXCEPT ![c] = FALSE]
  /\ intena' = [intena EXCEPT ![c] = IF noff[c] = 0 THEN Top(c).old ELSE @]
  /\ noff' = [noff EXCEPT ![c] = @ + 1]
  /\ trapPanic' = holding(c, Top(c).lk)
  /\ SetTop(c, [Top(c) EXCEPT !.op = "swap", !.old = FALSE])
  /\ UNCHANGED <<current, lockVars, procVars, ticks>>

\* The atomic swap that finds the lock free.
Swap(c) ==
  /\ AtOp(c, "swap") /\ ~locked[Top(c).lk]
  /\ locked' = [locked EXCEPT ![Top(c).lk] = TRUE]
  /\ NextOp(c, "own")
  /\ UNCHANGED <<hartVars, current, owner, procVars, ticks, trapPanic>>

Own(c) ==
  /\ AtOp(c, "own")
  /\ owner' = [owner EXCEPT ![Top(c).lk] = c]
  /\ NextOp(c, "none")
  /\ UNCHANGED <<hartVars, current, locked, procVars, ticks, trapPanic>>

\* Mutant: lk->cpu is left as it is.
ReleaseKeepsCpu(c) ==
  /\ AtOp(c, "release")
  /\ trapPanic' = ~holding(c, Top(c).lk)
  /\ NextOp(c, "unlock")
  /\ UNCHANGED <<hartVars, current, lockVars, procVars, ticks>>

\* The test of release(), and lk->cpu = 0 while the lock is still taken.
Release(c) ==
  /\ AtOp(c, "release")
  /\ trapPanic' = ~holding(c, Top(c).lk)
  /\ owner' = [owner EXCEPT ![Top(c).lk] = Nohart]
  /\ NextOp(c, "unlock")
  /\ UNCHANGED <<hartVars, current, locked, procVars, ticks>>

Unlock(c) ==
  /\ AtOp(c, "unlock")
  /\ locked' = [locked EXCEPT ![Top(c).lk] = FALSE]
  /\ NextOp(c, "pop")
  /\ UNCHANGED <<hartVars, current, owner, procVars, ticks, trapPanic>>

PopOff(c) ==
  /\ AtOp(c, "pop")
  /\ trapPanic' = (sie[c] \/ noff[c] < 1)
  /\ noff' = [noff EXCEPT ![c] = @ - 1]
  /\ sie' = [sie EXCEPT ![c] = @ \/ (noff[c] = 1 /\ intena[c])]
  /\ SetTop(c, [Top(c) EXCEPT !.op = "none", !.lk = Tickslock])
  /\ UNCHANGED <<intena, current, lockVars, procVars, ticks>>

SpinStep(c) ==
  PushRead(c) \/ PushOff(c) \/ Swap(c) \/ Own(c) \/ Release(c) \/ Unlock(c) \/ PopOff(c)

-----------------------------------------------------------------------------
(* The context switch                                                      *)

\* sched(): process p leaves hart c in state s and continues at l when it is
\* scheduled again.
Sched(c, p, s, l) ==
  /\ trapPanic' = (~holding(c, p) \/ noff[c] # 1 \/ sie[c])
  /\ pstate' = [pstate EXCEPT ![p] = s]
  /\ saved' = [saved EXCEPT ![p] = intena[c]]
  /\ current' = [current EXCEPT ![c] = c]
  /\ Continue(c, l)
  /\ UNCHANGED <<hartVars, lockVars, wanted, ticks0, doomed, ticks>>

\* Mutant: intena stays with the hart.
ReturnFromSchedForgets(c, l) ==
  /\ Call(c, "release", current[c], l)
  /\ UNCHANGED <<hartVars, current, lockVars, procVars, ticks, trapPanic>>

\* What follows swtch() in sched(), and the release of p->lock in its caller.
ReturnFromSched(c, l) ==
  /\ intena' = [intena EXCEPT ![c] = saved[current[c]]]
  /\ saved' = [saved EXCEPT ![current[c]] = FALSE]
  /\ Call(c, "release", current[c], l)
  /\ UNCHANGED <<sie, noff, current, lockVars, pstate, wanted, ticks0, doomed, ticks, trapPanic>>

\* The scheduler's loop: interrupts are on for an instant, ...
IntrOn(c) ==
  /\ AtLabel(c, "idle")
  /\ sie' = [sie EXCEPT ![c] = TRUE]
  /\ Continue(c, "on")
  /\ UNCHANGED <<noff, intena, current, lockVars, procVars, ticks, trapPanic>>

\* ... and off for the scan of the process table.
IntrOff(c) ==
  /\ AtLabel(c, "on")
  /\ sie' = [sie EXCEPT ![c] = FALSE]
  /\ SetTop(c, [Top(c) EXCEPT !.at = "scan", !.todo = Threads])
  /\ UNCHANGED <<noff, intena, current, lockVars, procVars, ticks, trapPanic>>

\* The next process of a loop over the table, in an order fixed once and for all.
NextOf(todo) == CHOOSE p \in todo : TRUE

Scan(c) ==
  /\ AtLabel(c, "scan")
  /\ LET todo == Top(c).todo IN
     IF todo = {} THEN Continue(c, "idle")
     ELSE SetTop(c, [Top(c) EXCEPT !.at = "try", !.op = "acquire", !.lk = NextOf(todo),
                                   !.todo = todo \ {NextOf(todo)}])
  /\ UNCHANGED <<hartVars, current, lockVars, procVars, ticks, trapPanic>>

\* The scheduler holds p->lock: it switches to a RUNNABLE p, which releases it.
TryRun(c) ==
  /\ AtLabel(c, "try")
  /\ LET p == Top(c).lk IN
     IF pstate[p] = "RUNNABLE"
     THEN /\ pstate' = [pstate EXCEPT ![p] = "RUNNING"]
          /\ current' = [current EXCEPT ![c] = p]
          /\ Continue(c, "back")
     ELSE Call(c, "release", p, "scan") /\ UNCHANGED <<pstate, current>>
  /\ UNCHANGED <<hartVars, lockVars, saved, wanted, ticks0, doomed, ticks, trapPanic>>

\* The process has switched back, with p->lock held.
SwitchedBack(c) ==
  /\ AtLabel(c, "back")
  /\ Call(c, "release", Top(c).lk, "scan")
  /\ UNCHANGED <<hartVars, current, lockVars, procVars, ticks, trapPanic>>

SchedulerStep(c) == IntrOn(c) \/ IntrOff(c) \/ Scan(c) \/ TryRun(c) \/ SwitchedBack(c)

-----------------------------------------------------------------------------
(* Processes: forkret, pause, the return to user space, exit               *)

Forkret(c) ==
  /\ AtLabel(c, "fork")
  /\ Call(c, "release", current[c], "first")
  /\ UNCHANGED <<hartVars, current, lockVars, procVars, ticks, trapPanic>>

\* usertrap's exit for a killed process; otherwise prepare_return and sret.
ReturnToUser(c) ==
  /\ AtLabel(c, "first") \/ AtLabel(c, "done")
  /\ IF Top(c).at = "done" /\ doomed[current[c]]
     THEN Call(c, "acquire", current[c], "exit") /\ UNCHANGED sie
     ELSE sie' = [sie EXCEPT ![c] = TRUE] /\ Continue(c, "user")
  /\ UNCHANGED <<noff, intena, current, lockVars, procVars, ticks, trapPanic>>

\* usertrap turns interrupts on before the system call.
Pause(c, n) ==
  /\ AtLabel(c, "user") /\ ~doomed[current[c]]
  /\ wanted' = [wanted EXCEPT ![current[c]] = n]
  /\ Call(c, "acquire", Tickslock, "ticks0")
  /\ UNCHANGED <<hartVars, current, lockVars, pstate, saved, ticks0, doomed, ticks, trapPanic>>

PauseReads(c) ==
  /\ AtLabel(c, "ticks0")
  /\ ticks0' = [ticks0 EXCEPT ![current[c]] = ticks]
  /\ Continue(c, "test")
  /\ UNCHANGED <<hartVars, current, lockVars, pstate, saved, wanted, doomed, ticks, trapPanic>>

\* ticks - ticks0, as unsigned ints.
Elapsed(p) == (ticks + TICKMOD - ticks0[p]) % TICKMOD

\* Mutant: sleep() releases tickslock before it takes p->lock.
PauseTestUnlocks(c) ==
  /\ AtLabel(c, "test")
  /\ LET p == current[c] IN
     IF Elapsed(p) < wanted[p] /\ ~doomed[p] /\ holding(c, Tickslock)
     THEN Call(c, "release", Tickslock, "test")
     ELSE IF ~holding(c, Tickslock) THEN Call(c, "acquire", p, "asleep")
     ELSE Call(c, "release", Tickslock, "done")
  /\ UNCHANGED <<hartVars, current, lockVars, procVars, ticks, trapPanic>>

PauseTest(c) ==
  /\ AtLabel(c, "test")
  /\ LET p == current[c] IN
     IF Elapsed(p) < wanted[p] /\ ~doomed[p]
     THEN Call(c, "acquire", p, "sleep") /\ UNCHANGED <<wanted, ticks0>>
     ELSE /\ wanted' = [wanted EXCEPT ![p] = 0]
          /\ ticks0' = [ticks0 EXCEPT ![p] = 0]
          /\ Call(c, "release", Tickslock, "done")
  /\ UNCHANGED <<hartVars, current, lockVars, pstate, saved, doomed, ticks, trapPanic>>

\* sleep() releases tickslock once it has p->lock.
SleepReleases(c) ==
  /\ AtLabel(c, "sleep")
  /\ Call(c, "release", Tickslock, "asleep")
  /\ UNCHANGED <<hartVars, current, lockVars, procVars, ticks, trapPanic>>

FallAsleep(c) == AtLabel(c, "asleep") /\ Sched(c, current[c], "SLEEPING", "slept")

Slept(c) == AtLabel(c, "slept") /\ ReturnFromSched(c, "again")

SleepReacquires(c) ==
  /\ AtLabel(c, "again")
  /\ Call(c, "acquire", Tickslock, "test")
  /\ UNCHANGED <<hartVars, current, lockVars, procVars, ticks, trapPanic>>

Exit(c) == AtLabel(c, "exit") /\ Sched(c, current[c], "ZOMBIE", "zombie")

\* kkill, by a process on another hart, which holds p->lock meanwhile.
KillPauser(p) ==
  /\ ~trapPanic /\ p \in Doomed /\ ~locked[p] /\ pstate[p] # "ZOMBIE" /\ ~doomed[p]
  /\ doomed' = [doomed EXCEPT ![p] = TRUE]
  /\ pstate' = [pstate EXCEPT ![p] = IF @ = "SLEEPING" THEN "RUNNABLE" ELSE @]
  /\ UNCHANGED <<hartVars, current, lockVars, frames, saved, wanted, ticks0, ticks, trapPanic>>

ThreadStep(c) ==
  \/ Forkret(c) \/ ReturnToUser(c) \/ PauseReads(c) \/ PauseTest(c)
  \/ \E n \in Naps : Pause(c, n)
  \/ SleepReleases(c) \/ FallAsleep(c) \/ Slept(c) \/ SleepReacquires(c) \/ Exit(c)

-----------------------------------------------------------------------------
(* The timer interrupt                                                     *)

\* The hart turns SIE off as it enters kernelvec or uservec.
Interrupt(c) ==
  /\ ~trapPanic /\ sie[c]
  /\ sie' = [sie EXCEPT ![c] = FALSE]
  /\ frames' = [frames EXCEPT ![current[c]] =
       <<[at |-> "intr", op |-> "none", lk |-> Tickslock, old |-> FALSE, todo |-> {}]>> \o @]
  /\ UNCHANGED <<noff, intena, current, lockVars, procVars, ticks, trapPanic>>

\* clockintr: only hart 0 counts.
ClockIntr(c) ==
  /\ AtLabel(c, "intr")
  /\ IF c = Hart0 THEN Call(c, "acquire", Tickslock, "tick") ELSE Continue(c, "yield")
  /\ UNCHANGED <<hartVars, current, lockVars, procVars, ticks, trapPanic>>

Tick(c) ==
  /\ AtLabel(c, "tick")
  /\ ticks' = (ticks + 1) % TICKMOD
  /\ SetTop(c, [Top(c) EXCEPT !.at = "wake", !.todo = Threads \ {current[c]}])
  /\ UNCHANGED <<hartVars, current, lockVars, procVars, trapPanic>>

\* wakeup(&ticks) visits every process but the current one.
WakeNext(c) ==
  /\ AtLabel(c, "wake")
  /\ LET todo == Top(c).todo IN
     IF todo = {} THEN Call(c, "release", Tickslock, "yield")
     ELSE SetTop(c, [Top(c) EXCEPT !.at = "wakeup", !.op = "acquire", !.lk = NextOf(todo),
                                   !.todo = todo \ {NextOf(todo)}])
  /\ UNCHANGED <<hartVars, current, lockVars, procVars, ticks, trapPanic>>

WakeOne(c) ==
  /\ AtLabel(c, "wakeup")
  /\ LET p == Top(c).lk IN
     /\ pstate' = [pstate EXCEPT ![p] = IF @ = "SLEEPING" THEN "RUNNABLE" ELSE @]
     /\ Call(c, "release", p, "wake")
  /\ UNCHANGED <<hartVars, current, lockVars, saved, wanted, ticks0, doomed, ticks, trapPanic>>

\* kerneltrap yields when there is a process; usertrap first lets a killed
\* process exit.
TimerYield(c) ==
  /\ AtLabel(c, "yield")
  /\ LET k == current[c] IN
     \/ k \in Harts /\ Continue(c, "iret")
     \/ k \in Threads /\ frames[k][2].at = "user" /\ frames[k][2].op = "none" /\ doomed[k]
        /\ frames' = [frames EXCEPT ![k] = <<[Top(c) EXCEPT !.at = "exit", !.op = "acquire", !.lk = k]>>]
     \/ k \in Threads /\ ~(frames[k][2].at = "user" /\ frames[k][2].op = "none" /\ doomed[k])
        /\ Call(c, "acquire", k, "yielding")
  /\ UNCHANGED <<hartVars, current, lockVars, procVars, ticks, trapPanic>>

Yielding(c) == AtLabel(c, "yielding") /\ Sched(c, current[c], "RUNNABLE", "yielded")

Yielded(c) == AtLabel(c, "yielded") /\ ReturnFromSched(c, "iret")

\* w_sstatus(sstatus) and sret: interrupts are as they were, on.
ReturnFromTrap(c) ==
  /\ AtLabel(c, "iret")
  /\ sie' = [sie EXCEPT ![c] = TRUE]
  /\ frames' = [frames EXCEPT ![current[c]] = Tail(@)]
  /\ UNCHANGED <<noff, intena, current, lockVars, procVars, ticks, trapPanic>>

HandlerStep(c) ==
  \/ Interrupt(c) \/ ClockIntr(c) \/ Tick(c) \/ WakeNext(c) \/ WakeOne(c)
  \/ TimerYield(c) \/ Yielding(c) \/ Yielded(c) \/ ReturnFromTrap(c)

\* panic() spins for ever.
TrapPanicLoop == trapPanic /\ UNCHANGED trapVars

TrapNext ==
  \/ \E c \in Harts : SpinStep(c) \/ SchedulerStep(c) \/ ThreadStep(c) \/ HandlerStep(c)
  \/ \E p \in Threads : KillPauser(p)
  \/ TrapPanicLoop

TrapSpec == TrapInit /\ [][TrapNext]_trapVars

-----------------------------------------------------------------------------
(* Properties                                                              *)

\* Types: a stack has at most one interrupt above the interrupted code, and a
\* hart holds at most tickslock, one p->lock and the one it spins for.
TrapTypeOK ==
  /\ \A c \in Harts : sie[c] \in BOOLEAN /\ noff[c] \in 0..2 /\ intena[c] \in BOOLEAN /\ current[c] \in Threads \cup {c}
  /\ \A l \in SpinLocks : locked[l] \in BOOLEAN /\ owner[l] \in Harts \cup {Nohart}
  /\ \A k \in Contexts : Len(frames[k]) \in 1..2 /\ \A i \in DOMAIN frames[k] : frames[k][i] \in Frame
  /\ \A p \in Threads : pstate[p] \in {"RUNNABLE", "RUNNING", "SLEEPING", "ZOMBIE"} /\ saved[p] \in BOOLEAN
       /\ wanted[p] \in Naps \cup {0} /\ ticks0[p] \in 0..TICKMOD-1 /\ doomed[p] \in BOOLEAN
  /\ ticks \in 0..TICKMOD-1 /\ trapPanic \in BOOLEAN

\* No interrupt handler meets a lock that its own hart holds, no hart releases a
\* lock that another one holds, and sched() is never reached with interrupts on or
\* with a second lock: none of the panics of acquire, release, pop_off and sched
\* is reached, wherever the timer strikes and wherever a process moves to.
NoTrapPanic == ~trapPanic

\* The locks that the code on hart c has, from the swap that takes one to the one
\* that frees it; p->lock passes from the process to the scheduler and back with
\* the hart.
Taken(c) == {l \in SpinLocks : locked[l] /\ (owner[l] = c \/ (Top(c).lk = l /\ Top(c).op \in {"own", "unlock"}))}

\* A lock that is taken is taken by one hart, and lk->cpu names no other: holding()
\* cannot mistake one hart for another although it reads both fields unlocked.
OneHartPerLock ==
  \A l \in SpinLocks : locked[l] => \E c \in Harts : l \in Taken(c) /\ \A d \in Harts \ {c} : l \notin Taken(d)

\* noff counts the locks of the hart and the acquire() or release() under way, also
\* when the process that took the lock has moved away; with noff > 0 interrupts
\* are off.
NoffExact ==
  \A c \in Harts :
    /\ noff[c] = Cardinality(Taken(c)) + (IF Top(c).op \in {"swap", "pop"} THEN 1 ELSE 0)
    /\ noff[c] > 0 => ~sie[c]

\* The locks of the machine are what acquire(), release(), holding() and sched()
\* take them for, wherever the timer strikes and wherever a process moves to.
LocksExact == TrapTypeOK /\ NoTrapPanic /\ OneHartPerLock /\ NoffExact

\* Code that holds no lock runs with the interrupts it started with, on whichever
\* hart it has got to: system calls with interrupts on, handlers with interrupts off.
InterruptsRestored ==
  \A c \in Harts :
    noff[c] = 0 /\ ~trapPanic =>
      CASE Top(c).at \in {"ticks0", "again", "done", "user"} /\ Len(frames[current[c]]) = 1 -> sie[c]
        [] Len(frames[current[c]]) = 2 -> ~sie[c]
        [] OTHER -> TRUE

\* Nobody sleeps in pause() past its time: when tickslock is free, a sleeper still
\* has ticks to wait for.
NoMissedTick ==
  ~locked[Tickslock] => \A p \in Threads : pstate[p] = "SLEEPING" => Elapsed(p) < wanted[p]
=============================================================================
