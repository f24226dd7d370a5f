-------------------------------- MODULE Proc --------------------------------
(***************************************************************************)
(* The process table (kernel/proc.c): fork, exit, wait, kill, the per-CPU  *)
(* schedulers and the context switch, on several CPUs.                     *)
(*                                                                         *)
(* wait_lock and every p->lock are explicit and are owned by a CPU, as     *)
(* spinlocks are.  A step is what a CPU does between two points at which   *)
(* another CPU can observe or change the fields involved: an acquire, the  *)
(* accesses it protects, and the matching release are one step when no     *)
(* other lock is taken in between.  p->parent is only accessed under       *)
(* wait_lock, p->state, p->chan, p->killed and p->pid only under p->lock.  *)
(*                                                                         *)
(* A process sleeps on its own slot in wait() and nowhere else, so that    *)
(* wakeup(q) for a slot q concerns q alone.                                *)
(***************************************************************************)
EXTENDS Naturals, FiniteSets

CONSTANTS
  Procs,     \* slots of proc[NPROC]
  Initproc,  \* the slot of init
  CPUs,
  MAXPID,    \* bound on the pids handed out
  KillPids,  \* pids that programs pass to kill(); kill(init) is left out
  None

ASSUME ProcAssumption ==
  /\ Initproc \in Procs /\ None \notin Procs /\ None \notin CPUs
  /\ MAXPID \in Nat \ {0} /\ KillPids \subseteq Nat

VARIABLES
  state,      \* p->state
  parent,     \* p->parent
  pid,        \* p->pid, 0 in a free slot
  nextpid,
  killed,     \* p->killed
  chan,       \* p->chan
  plock,      \* CPU that holds p->lock
  wait_lock,  \* CPU that holds wait_lock
  on,         \* c->proc: the process whose kernel stack CPU c is on
  pc,         \* where p is in the kernel, or "user"
  np,         \* kfork's local np
  shpid,      \* init's local pid: the shell it waits for, 0 when it must fork
  targets,    \* ghost: pids passed to kill() so far
  panicked    \* panic() has been called

sched_vars == <<state, chan, plock, wait_lock, on>>
vars == <<sched_vars, parent, pid, nextpid, killed, pc, np, shpid, targets, panicked>>

States == {"UNUSED", "USED", "SLEEPING", "RUNNABLE", "RUNNING", "ZOMBIE"}

\* "forklock", "exitlock" and "waitlock": spinning in acquire(&wait_lock).
Labels == {"user", "forkcopy", "forkparent", "forklock", "forkrun",
           "exitlock", "exitreparent", "exitwake", "exitzombie", "zombie",
           "waitlock", "waitscan", "waitsleep"}

\* userinit: init is RUNNABLE, every other slot is free.
Init ==
  /\ state = [p \in Procs |-> IF p = Initproc THEN "RUNNABLE" ELSE "UNUSED"]
  /\ parent = [p \in Procs |-> None]
  /\ pid = [p \in Procs |-> IF p = Initproc THEN 1 ELSE 0]
  /\ nextpid = 2
  /\ killed = [p \in Procs |-> FALSE]
  /\ chan = [p \in Procs |-> None]
  /\ plock = [p \in Procs |-> None]
  /\ wait_lock = None
  /\ on = [c \in CPUs |-> None]
  /\ pc = [p \in Procs |-> "user"]
  /\ np = [p \in Procs |-> None]
  /\ shpid = 0
  /\ targets = {}
  /\ panicked = FALSE

\* p executes on c, past the release of p->lock that ends a context switch.
Running(c, p) ==
  ~panicked /\ on[c] = p /\ state[p] = "RUNNING" /\ plock[p] # c

At(c, p, l) == Running(c, p) /\ pc[p] = l
Goto(p, l)  == pc' = [pc EXCEPT ![p] = l]

Children(p) == {q \in Procs : parent[q] = p}

\* state after wakeup(q) for a slot q.
Woken(q) ==
  IF state[q] = "SLEEPING" /\ chan[q] = q THEN [state EXCEPT ![q] = "RUNNABLE"] ELSE state

\* A system call of init that returned -1 makes init exit, which panics.
Fails(p) == panicked' = (p = Initproc)

-----------------------------------------------------------------------------
(* scheduler, sched, yield, forkret                                        *)

\* Mutant: the scheduler tests p->state without p->lock.
ScheduleUnlocked(c, p) ==
  /\ ~panicked /\ on[c] = None
  /\ state[p] = "RUNNABLE"
  /\ plock' = [plock EXCEPT ![p] = c]
  /\ state' = [state EXCEPT ![p] = "RUNNING"]
  /\ on' = [on EXCEPT ![c] = p]
  /\ UNCHANGED <<chan, wait_lock, parent, pid, nextpid, killed, pc, np, shpid, targets, panicked>>

\* A CPU's scheduler finds a RUNNABLE process and switches to it; p->lock
\* stays held across swtch().
Schedule(c, p) ==
  /\ ~panicked /\ on[c] = None
  /\ plock[p] = None /\ state[p] = "RUNNABLE"
  /\ plock' = [plock EXCEPT ![p] = c]
  /\ state' = [state EXCEPT ![p] = "RUNNING"]
  /\ on' = [on EXCEPT ![c] = p]
  /\ UNCHANGED <<chan, wait_lock, parent, pid, nextpid, killed, pc, np, shpid, targets, panicked>>

\* What follows swtch() in yield, sleep and forkret: p->chan = 0 and release.
Resume(c, p) ==
  /\ ~panicked /\ on[c] = p /\ state[p] = "RUNNING" /\ plock[p] = c
  /\ chan' = [chan EXCEPT ![p] = None]
  /\ plock' = [plock EXCEPT ![p] = None]
  /\ UNCHANGED <<state, wait_lock, on, parent, pid, nextpid, killed, pc, np, shpid, targets, panicked>>

\* sched(), and the scheduler's release of p->lock once off p's stack.
SwitchOut(c, p) ==
  /\ ~panicked /\ on[c] = p /\ state[p] # "RUNNING" /\ plock[p] = c
  /\ on' = [on EXCEPT ![c] = None]
  /\ plock' = [plock EXCEPT ![p] = None]
  /\ UNCHANGED <<state, chan, wait_lock, parent, pid, nextpid, killed, pc, np, shpid, targets, panicked>>

\* yield() from a timer interrupt.  Interrupts are off while a spinlock is held
\* and in acquire(), so that only these points remain.
Yield(c, p) ==
  /\ Running(c, p) /\ pc[p] \in {"user", "forkparent", "forkrun"} /\ plock[p] = None
  /\ plock' = [plock EXCEPT ![p] = c]
  /\ state' = [state EXCEPT ![p] = "RUNNABLE"]
  /\ UNCHANGED <<chan, wait_lock, on, parent, pid, nextpid, killed, pc, np, shpid, targets, panicked>>

-----------------------------------------------------------------------------
(* kfork                                                                   *)

\* A killed process leaves user space through kexit; init alternates between
\* fork and wait.
MayCall(c, p) == At(c, p, "user") /\ ~killed[p]

\* allocproc finds a free slot and returns with its lock held.
ForkAlloc(c, p, q) ==
  /\ MayCall(c, p) /\ (p = Initproc => shpid = 0)
  /\ state[q] = "UNUSED" /\ plock[q] = None
  /\ nextpid <= MAXPID
  /\ plock' = [plock EXCEPT ![q] = c]
  /\ state' = [state EXCEPT ![q] = "USED"]
  /\ pid' = [pid EXCEPT ![q] = nextpid]
  /\ nextpid' = nextpid + 1
  /\ np' = [np EXCEPT ![p] = q]
  /\ Goto(p, "forkcopy")
  /\ UNCHANGED <<chan, wait_lock, on, parent, killed, shpid, targets, panicked>>

\* allocproc finds no free slot (its scan, slot by slot, is one step).
ForkNoSlot(c, p) ==
  /\ MayCall(c, p) /\ (p = Initproc => shpid = 0)
  /\ \A q \in Procs : state[q] # "UNUSED"
  /\ Fails(p)
  /\ UNCHANGED <<sched_vars, parent, pid, nextpid, killed, pc, np, shpid, targets>>

\* The copy of the parent succeeds: release np->lock.
ForkCopied(c, p) ==
  /\ At(c, p, "forkcopy")
  /\ plock' = [plock EXCEPT ![np[p]] = None]
  /\ Goto(p, "forkparent")
  /\ UNCHANGED <<state, chan, wait_lock, on, parent, pid, nextpid, killed, np, shpid, targets, panicked>>

\* Out of memory, in allocproc or in uvmcopy: freeproc(np) and release.
ForkFailed(c, p) ==
  /\ At(c, p, "forkcopy")
  /\ plock' = [plock EXCEPT ![np[p]] = None]
  /\ state' = [state EXCEPT ![np[p]] = "UNUSED"]
  /\ pid' = [pid EXCEPT ![np[p]] = 0]
  /\ parent' = [parent EXCEPT ![np[p]] = None]
  /\ chan' = [chan EXCEPT ![np[p]] = None]
  /\ killed' = [killed EXCEPT ![np[p]] = FALSE]
  /\ np' = [np EXCEPT ![p] = None]
  /\ Goto(p, "user")
  /\ Fails(p)
  /\ UNCHANGED <<wait_lock, on, nextpid, shpid, targets>>

ForkSpin(c, p) ==
  /\ At(c, p, "forkparent")
  /\ Goto(p, "forklock")
  /\ UNCHANGED <<sched_vars, parent, pid, nextpid, killed, np, shpid, targets, panicked>>

ForkParent(c, p) ==
  /\ At(c, p, "forklock") /\ wait_lock = None
  /\ parent' = [parent EXCEPT ![np[p]] = p]
  /\ Goto(p, "forkrun")
  /\ UNCHANGED <<sched_vars, pid, nextpid, killed, np, shpid, targets, panicked>>

ForkRun(c, p) ==
  /\ At(c, p, "forkrun") /\ plock[np[p]] = None
  /\ state' = [state EXCEPT ![np[p]] = "RUNNABLE"]
  /\ pc' = [pc EXCEPT ![p] = "user", ![np[p]] = "user"]
  /\ np' = [np EXCEPT ![p] = None]
  /\ shpid' = IF p = Initproc THEN pid[np[p]] ELSE shpid
  /\ UNCHANGED <<chan, plock, wait_lock, on, parent, pid, nextpid, killed, targets, panicked>>

-----------------------------------------------------------------------------
(* kexit and reparent                                                      *)

\* A program calls exit(), or usertrap finds it killed.
ExitEnter(c, p) ==
  /\ At(c, p, "user") /\ p # Initproc
  /\ Goto(p, "exitlock")
  /\ UNCHANGED <<sched_vars, parent, pid, nextpid, killed, np, shpid, targets, panicked>>

ExitLock(c, p) ==
  /\ At(c, p, "exitlock") /\ wait_lock = None
  /\ wait_lock' = c
  /\ Goto(p, "exitreparent")
  /\ UNCHANGED <<state, chan, plock, on, parent, pid, nextpid, killed, np, shpid, targets, panicked>>

\* Mutant: reparent() without its wakeup(initproc).
ExitReparentSilent(c, p) ==
  /\ At(c, p, "exitreparent")
  /\ parent' = [q \in Procs |-> IF parent[q] = p THEN Initproc ELSE parent[q]]
  /\ Goto(p, "exitwake")
  /\ UNCHANGED <<sched_vars, pid, nextpid, killed, np, shpid, targets, panicked>>

\* reparent(p) passes p's children to init and, if there are any, wakes init.
ExitReparent(c, p) ==
  /\ At(c, p, "exitreparent")
  /\ \/ Children(p) = {} /\ UNCHANGED <<parent, state>>
     \/ /\ Children(p) # {} /\ plock[Initproc] = None
        /\ parent' = [q \in Procs |-> IF parent[q] = p THEN Initproc ELSE parent[q]]
        /\ state' = Woken(Initproc)
  /\ Goto(p, "exitwake")
  /\ UNCHANGED <<chan, plock, wait_lock, on, pid, nextpid, killed, np, shpid, targets, panicked>>

\* wakeup(p->parent)
ExitWakeParent(c, p) ==
  /\ At(c, p, "exitwake") /\ plock[parent[p]] = None
  /\ state' = Woken(parent[p])
  /\ Goto(p, "exitzombie")
  /\ UNCHANGED <<chan, plock, wait_lock, on, parent, pid, nextpid, killed, np, shpid, targets, panicked>>

\* Become a zombie holding p->lock, let go of wait_lock and call sched().
ExitZombie(c, p) ==
  /\ At(c, p, "exitzombie") /\ plock[p] = None
  /\ plock' = [plock EXCEPT ![p] = c]
  /\ state' = [state EXCEPT ![p] = "ZOMBIE"]
  /\ wait_lock' = None
  /\ Goto(p, "zombie")
  /\ UNCHANGED <<chan, on, parent, pid, nextpid, killed, np, shpid, targets, panicked>>

-----------------------------------------------------------------------------
(* kwait                                                                   *)

\* Mutant: init waits only as long as its shell is alive.
WaitEnterShell(c, p) ==
  /\ MayCall(c, p)
  /\ p = Initproc => \E q \in Procs : pid[q] = shpid /\ state[q] \notin {"UNUSED", "ZOMBIE"}
  /\ Goto(p, "waitlock")
  /\ UNCHANGED <<sched_vars, parent, pid, nextpid, killed, np, shpid, targets, panicked>>

WaitEnter(c, p) ==
  /\ MayCall(c, p) /\ (p = Initproc => shpid # 0)
  /\ Goto(p, "waitlock")
  /\ UNCHANGED <<sched_vars, parent, pid, nextpid, killed, np, shpid, targets, panicked>>

\* acquire(&wait_lock), at the top or at the end of sleep().
WaitLock(c, p) ==
  /\ At(c, p, "waitlock") /\ wait_lock = None
  /\ wait_lock' = c
  /\ Goto(p, "waitscan")
  /\ UNCHANGED <<state, chan, plock, on, parent, pid, nextpid, killed, np, shpid, targets, panicked>>

Zombies(p) == {q \in Children(p) : state[q] = "ZOMBIE"}

\* The scan finds a zombie that is off its stack: freeproc it and return.
WaitReap(c, p, q) ==
  /\ At(c, p, "waitscan") /\ q \in Zombies(p) /\ plock[q] = None
  /\ state' = [state EXCEPT ![q] = "UNUSED"]
  /\ pid' = [pid EXCEPT ![q] = 0]
  /\ parent' = [parent EXCEPT ![q] = None]
  /\ chan' = [chan EXCEPT ![q] = None]
  /\ killed' = [killed EXCEPT ![q] = FALSE]
  /\ wait_lock' = None
  /\ shpid' = IF p = Initproc /\ shpid = pid[q] THEN 0 ELSE shpid
  /\ Goto(p, "user")
  /\ UNCHANGED <<plock, on, nextpid, np, targets, panicked>>

\* The copyout() of the exit status fails: return -1, the zombie stays.  init
\* passes no address.
WaitCopyFails(c, p, q) ==
  /\ At(c, p, "waitscan") /\ q \in Zombies(p) /\ plock[q] = None
  /\ p # Initproc
  /\ wait_lock' = None
  /\ Goto(p, "user")
  /\ UNCHANGED <<state, chan, plock, on, parent, pid, nextpid, killed, np, shpid, targets, panicked>>

\* No child is left, or p was killed: return -1.
WaitGivesUp(c, p) ==
  /\ At(c, p, "waitscan") /\ Zombies(p) = {}
  /\ Children(p) = {} \/ killed[p]
  /\ wait_lock' = None
  /\ Goto(p, "user")
  /\ Fails(p)
  /\ UNCHANGED <<state, chan, plock, on, parent, pid, nextpid, killed, np, shpid, targets>>

\* Children, none of them a zombie: go on to sleep(p, &wait_lock).
WaitBlocks(c, p) ==
  /\ At(c, p, "waitscan") /\ Zombies(p) = {} /\ Children(p) # {} /\ ~killed[p]
  /\ Goto(p, "waitsleep")
  /\ UNCHANGED <<sched_vars, parent, pid, nextpid, killed, np, shpid, targets, panicked>>

\* sleep(p, &wait_lock): acquire p->lock, release wait_lock, mark p SLEEPING.
WaitSleep(c, p) ==
  /\ At(c, p, "waitsleep") /\ plock[p] = None
  /\ plock' = [plock EXCEPT ![p] = c]
  /\ wait_lock' = None
  /\ chan' = [chan EXCEPT ![p] = p]
  /\ state' = [state EXCEPT ![p] = "SLEEPING"]
  /\ Goto(p, "waitlock")
  /\ UNCHANGED <<on, parent, pid, nextpid, killed, np, shpid, targets, panicked>>

-----------------------------------------------------------------------------
(* kkill: every slot is compared with the pid under its own lock.          *)
Kill(c, p, k) ==
  /\ MayCall(c, p) /\ p # Initproc
  /\ \E q \in Procs :
       /\ pid[q] = k /\ plock[q] = None
       /\ killed' = [killed EXCEPT ![q] = TRUE]
       /\ state' = [state EXCEPT ![q] = IF @ = "SLEEPING" THEN "RUNNABLE" ELSE @]
  /\ targets' = targets \cup {k}
  /\ UNCHANGED <<chan, plock, wait_lock, on, parent, pid, nextpid, pc, np, shpid, panicked>>

\* panic() spins for ever and stops the other CPUs' output.
PanicLoop == panicked /\ UNCHANGED vars

-----------------------------------------------------------------------------
\* The two ends of a context switch.
Switch(c, p) == Resume(c, p) \/ SwitchOut(c, p)

\* What p does on its own once it is in the kernel.
Advance(c, p) ==
  \/ ForkCopied(c, p) \/ ForkFailed(c, p) \/ ForkSpin(c, p) \/ ForkParent(c, p) \/ ForkRun(c, p)
  \/ ExitLock(c, p) \/ ExitReparent(c, p) \/ ExitWakeParent(c, p) \/ ExitZombie(c, p)
  \/ WaitLock(c, p) \/ WaitGivesUp(c, p) \/ WaitBlocks(c, p) \/ WaitSleep(c, p)
  \/ \E q \in Procs : WaitReap(c, p, q) \/ WaitCopyFails(c, p, q)

\* What a user program, or the timer, may or may not do.
User(c, p) ==
  \/ Yield(c, p) \/ ForkNoSlot(c, p) \/ ExitEnter(c, p) \/ WaitEnter(c, p)
  \/ \E q \in Procs : ForkAlloc(c, p, q)
  \/ \E k \in KillPids : Kill(c, p, k)

Next == (\E c \in CPUs, p \in Procs : Schedule(c, p) \/ Switch(c, p) \/ Advance(c, p) \/ User(c, p)) \/ PanicLoop

Spec == Init /\ [][Next]_vars

\* Fairness.  A process that is on a CPU goes on with its kernel code, and gets a
\* spinlock that is free again and again; each scheduler's scan of the table
\* comes back to every slot; timer interrupts keep coming; and init's program
\* does nothing but call fork and wait.
Fairness ==
  /\ \A p \in Procs : SF_vars(\E c \in CPUs : Advance(c, p))
  /\ \A p \in Procs : SF_vars(\E c \in CPUs : Schedule(c, p))
  /\ \A c \in CPUs : WF_vars(\E p \in Procs : Switch(c, p))
  /\ \A c \in CPUs : SF_vars(\E p \in Procs : Yield(c, p))
  /\ SF_vars(\E c \in CPUs :
       WaitEnter(c, Initproc) \/ \E q \in Procs : ForkAlloc(c, Initproc, q))

FairSpec == Spec /\ Fairness

-----------------------------------------------------------------------------
(* Properties                                                              *)

TypeOK ==
  /\ state \in [Procs -> States]
  /\ parent \in [Procs -> Procs \cup {None}]
  /\ pid \in [Procs -> 0..MAXPID] /\ nextpid \in 2..(MAXPID + 1)
  /\ killed \in [Procs -> BOOLEAN]
  /\ chan \in [Procs -> Procs \cup {None}]
  /\ plock \in [Procs -> CPUs \cup {None}] /\ wait_lock \in CPUs \cup {None}
  /\ on \in [CPUs -> Procs \cup {None}]
  /\ pc \in [Procs -> Labels]
  /\ np \in [Procs -> Procs \cup {None}]
  /\ shpid \in 0..MAXPID
  /\ targets \subseteq KillPids
  /\ panicked \in BOOLEAN

\* No two CPUs are ever on the same kernel stack, although yield() and sleep()
\* make the process RUNNABLE, or let it be made so, before they switch away:
\* p->lock is held across swtch().
OneCpuPerStack ==
  \A c, d \in CPUs : on[c] # None /\ on[c] = on[d] => c = d

\* A slot is freed and handed out again only once its last owner is off its
\* stack: wait() takes the zombie's lock "to make sure the child isn't still in
\* exit() or swtch()".
FreeSlotOffCpu ==
  \A c \in CPUs : on[c] # None => state[on[c]] \notin {"UNUSED", "USED"}

\* A parent never sleeps through the exit of a child, its own or one it
\* inherits as init: nobody is asleep in wait() with a zombie child.
NoMissedExit ==
  \A p, q \in Procs :
    ~(state[p] = "SLEEPING" /\ chan[p] = p /\ parent[q] = p /\ state[q] = "ZOMBIE")

\* Whoever has run and is not init has a parent, and that parent can still call
\* wait(): exiting processes pass all their children, including one that is
\* forking or exiting at the same time, to init.
ParentAlive ==
  \A q \in Procs :
    /\ state[q] \notin {"UNUSED", "USED"} /\ q # Initproc => parent[q] # None
    /\ parent[q] # None => state[parent[q]] \in {"RUNNING", "RUNNABLE", "SLEEPING"}

\* The conditions under which sched() panics never arise: a CPU that switches
\* away from p holds p->lock and no other spinlock.
SchedHoldsOneLock ==
  \A c \in CPUs, p \in Procs :
    on[c] = p /\ state[p] # "RUNNING" =>
      /\ plock[p] = c
      /\ wait_lock # c
      /\ \A q \in Procs \ {p} : plock[q] # c

\* CPUs, kernel stacks and slots: at any moment of scheduler(), yield(), sleep(),
\* exit() and fork() a stack has one CPU, a slot with a CPU on it is not handed out,
\* and the locks are as sched() and the scheduler it returns to expect them.
CpusConsistent == TypeOK /\ OneCpuPerStack /\ FreeSlotOffCpu /\ SchedHoldsOneLock

\* Parents and children: whoever exits has a parent that will find it, now or when
\* it next calls wait(), however many of the family exit at the same time.
FamilyConsistent == ParentAlive /\ NoMissedExit

\* kill(pid) marks "the process with the given pid" (the comment on kkill): a
\* process is killed only if its pid was the argument of some kill().
KilledByPid ==
  \A p \in Procs : killed[p] /\ state[p] # "UNUSED" => pid[p] \in targets

\* init reaps the processes it inherits: a zombie child of init does not stay
\* one for ever, as long as init can still fork its shell.  allocproc may hand out
\* any free slot, so that one slot stands for all but init's.
OrphanReaped ==
  LET q == CHOOSE slot \in Procs : slot # Initproc
  IN  (state[q] = "ZOMBIE" /\ parent[q] = Initproc)
        ~> (state[q] # "ZOMBIE" \/ panicked \/ (shpid = 0 /\ nextpid > MAXPID))
=============================================================================
