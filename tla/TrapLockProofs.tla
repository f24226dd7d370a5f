--------------------------- MODULE TrapLockProofs ---------------------------
(***************************************************************************)
(* noff is the number of locks a hart has taken, and the types of the      *)
(* registers, frames and processes: what follows from TrapInv by counting. *)
(***************************************************************************)
EXTENDS TrapProofs, FiniteSetTheorems

\* The number of locks that a label has.
LEMMA LabelLocks ==
  ASSUME NEW f \in Frame, NEW k, Shape(f, k)
  PROVE  /\ IsFiniteSet({l \in SpinLocks : Has(f, k, l)})
         /\ Cardinality({l \in SpinLocks : Has(f, k, l)}) = Count(f)
<1> DEFINE H == {l \in SpinLocks : Has(f, k, l)}
<1>0. /\ f.at \in PickAt => f.lk \in Threads
      /\ f.at \in OwnAt => k \in Threads
      /\ Tickslock \in SpinLocks /\ Threads \subseteq SpinLocks /\ Tickslock \notin Threads
  BY TrapAssumption DEF Shape, SpinLocks
<1>1. CASE f.at \notin TickAt \cup OwnAt \cup PickAt
  <2>1. H = {} /\ Count(f) = 0
    BY <1>1 DEF Has, Count, TickAt, OwnAt, PickAt
  <2>2. QED
    BY <2>1, FS_EmptySet, Zenon
<1>2. CASE f.at \in (TickAt \cup OwnAt \cup PickAt) \ {"sleep", "wakeup"}
  <2>1. Count(f) = 1
    BY <1>2 DEF Count
  <2>2. \E a : H = {a}
    <3>1. CASE f.at \in TickAt \ {"sleep", "wakeup"}
      <4>1. H = {Tickslock}
        BY <1>0, <3>1 DEF Has, TickAt, OwnAt, PickAt
      <4>2. QED
        BY <4>1, Zenon
    <3>2. CASE f.at \in OwnAt \ {"sleep"}
      <4>1. H = {k}
        BY <1>0, <3>2 DEF Has, TickAt, OwnAt, PickAt
      <4>2. QED
        BY <4>1, Zenon
    <3>3. CASE f.at \in PickAt \ {"wakeup"}
      <4>1. H = {f.lk}
        BY <1>0, <3>3 DEF Has, TickAt, OwnAt, PickAt
      <4>2. QED
        BY <4>1, Zenon
    <3>4. QED
      BY Zenon, <1>2, <3>1, <3>2, <3>3
  <2>3. PICK a : H = {a}
    BY <2>2, Zenon
  <2> HIDE DEF H
  <2>4. IsFiniteSet(H) /\ Cardinality(H) = 1
    BY <2>3, FS_Singleton, Zenon
  <2>5. QED
    BY <2>1, <2>4, Zenon DEF H
<1>3. CASE f.at \in {"sleep", "wakeup"}
  <2>1. Count(f) = 2
    BY <1>3 DEF Count
  <2>2. \E a \in Threads : H = {Tickslock} \cup {a}
    <3>1. CASE f.at = "sleep"
      <4>1. k \in Threads /\ H = {Tickslock} \cup {k}
        BY <1>0, <3>1 DEF Has, TickAt, OwnAt, PickAt
      <4>2. QED
        BY <4>1, Zenon
    <3>2. CASE f.at = "wakeup"
      <4>1. f.lk \in Threads /\ H = {Tickslock} \cup {f.lk}
        BY <1>0, <3>2 DEF Has, TickAt, OwnAt, PickAt
      <4>2. QED
        BY <4>1, Zenon
    <3>3. QED
      BY <1>3, <3>1, <3>2
  <2>3. PICK a \in Threads : H = {Tickslock} \cup {a}
    BY <2>2, Zenon
  <2>4. a \notin {Tickslock}
    BY <1>0
  <2> HIDE DEF H
  <2>5. IsFiniteSet({Tickslock}) /\ Cardinality({Tickslock}) = 1
    BY FS_Singleton, Zenon
  <2>6. IsFiniteSet(H) /\ Cardinality(H) = 1 + 1
    BY <2>3, <2>4, <2>5, FS_AddElement, Zenon
  <2>7. QED
    BY <2>1, <2>6 DEF H
<1>4. QED
  BY <1>1, <1>2, <1>3

\* noff counts the locks that a frame holds, and the operation under way.
LEMMA FrameLocks ==
  ASSUME NEW f \in Frame, NEW k, Shape(f, k)
  PROVE  /\ Depth(f) = Cardinality({l \in SpinLocks : Holds(f, k, l)}) + (IF f.op \in {"swap", "pop"} THEN 1 ELSE 0)
         /\ Depth(f) \in 0..2
<1> DEFINE H == {l \in SpinLocks : Has(f, k, l)}
           A == {l \in SpinLocks : Holds(f, k, l)}
<1>0. IsFiniteSet(H) /\ Cardinality(H) = Count(f)
  BY LabelLocks, Zenon
<1>1. f.op \in Ops /\ Count(f) \in 0..2 /\ f.lk \in SpinLocks
  BY FrameIs
<1>2. CASE f.op \in {"none", "own", "pop"}
  <2>1. A = H
    BY <1>2 DEF Holds
  <2>2. f.op = "pop" => Count(f) \in 0..1
    BY DEF Shape, Count
  <2>3. Depth(f) = Count(f) + (IF f.op = "pop" THEN 1 ELSE 0)
    BY <1>1, <1>2 DEF Depth
  <2>4. Cardinality(A) = Count(f)
    BY <1>0, <2>1, Zenon
  <2> HIDE DEF A, H
  <2>5. Depth(f) = Cardinality(A) + (IF f.op \in {"swap", "pop"} THEN 1 ELSE 0) /\ Depth(f) \in 0..2
    BY ONLY <1>1, <1>2, <2>2, <2>3, <2>4
  <2>6. QED
    BY <2>5, Zenon DEF A
<1>3. CASE f.op \in {"acquire", "off", "swap"}
  <2>1. A = H \ {f.lk}
    BY <1>3 DEF Holds
  <2>2. f.lk \in H
    BY <1>1, <1>3 DEF Shape, Has, TickAt, OwnAt, PickAt
  <2>3. Depth(f) = Count(f) - (IF f.op = "swap" THEN 0 ELSE 1)
    BY <1>1, <1>3 DEF Depth
  <2> HIDE DEF A, H
  <2>4. Cardinality(H \ {f.lk}) = Cardinality(H) - 1
    BY <1>0, <2>2, FS_RemoveElement, Zenon
  <2>5. Cardinality(A) = Count(f) - 1
    BY <1>0, <2>1, <2>4, Zenon
  <2>6. Count(f) >= 1
    BY <1>3 DEF Shape, Count, TickAt, OwnAt, PickAt
  <2>7. Depth(f) = Cardinality(A) + (IF f.op \in {"swap", "pop"} THEN 1 ELSE 0) /\ Depth(f) \in 0..2
    BY ONLY <1>1, <1>3, <2>3, <2>5, <2>6
  <2>8. QED
    BY <2>7, Zenon DEF A
<1>4. CASE f.op \in {"release", "unlock"}
  <2>1. A = H \cup {f.lk}
    BY <1>1, <1>4 DEF Holds
  <2>2. f.lk \notin H
    BY <1>1, <1>4, TrapAssumption DEF Shape, Has, TickAt, OwnAt, PickAt
  <2>3. Count(f) \in 0..1
    BY <1>4 DEF Shape, Count
  <2>4. Depth(f) = Count(f) + 1
    BY <1>1, <1>4 DEF Depth
  <2> HIDE DEF A, H
  <2>5. Cardinality(H \cup {f.lk}) = Cardinality(H) + 1
    BY <1>0, <2>2, FS_AddElement, Zenon
  <2>6. Cardinality(A) = Count(f) + 1
    BY <1>0, <2>1, <2>5, Zenon
  <2>7. Depth(f) = Cardinality(A) + (IF f.op \in {"swap", "pop"} THEN 1 ELSE 0) /\ Depth(f) \in 0..2
    BY ONLY <1>1, <1>4, <2>3, <2>4, <2>6
  <2>8. QED
    BY <2>7, Zenon DEF A
<1>5. QED
  BY ONLY <1>1, <1>2, <1>3, <1>4 DEF Ops

\* What a hart has taken is what its frame holds.
LEMMA TakenIs ==
  ASSUME TrapInv, NEW c \in Harts
  PROVE  \A l \in SpinLocks : l \in Taken(c) <=> HoldsAt(c, l)
<1> TAKE l \in SpinLocks
<1> PICK f : f = Top(c)
  OBVIOUS
<1> PICK k : k = current[c]
  OBVIOUS
<1>0. f \in Frame /\ Shape(f, k) /\ f = frames[k][1] /\ LockInv
  BY Runs, Zenon DEF TrapInv
<1>1. l \in Taken(c) <=> locked[l] /\ (owner[l] = c \/ (f.lk = l /\ f.op \in {"own", "unlock"}))
  BY Zenon DEF Taken
<1>2. owner[l] = c <=> OwnsAt(c, l)
  BY <1>0, Zenon DEF LockInv
<1>3. HoldsAt(c, l) => locked[l]
  BY <1>0, Alone, Zenon
<1>4. f.lk = l /\ f.op \in {"own", "unlock"} => Holds(f, k, l)
  BY Zenon, <1>0 DEF Shape, Holds, Has, TickAt, OwnAt, PickAt
<1>5. Owns(f, k, l) <=> Holds(f, k, l) /\ ~(f.op \in {"own", "unlock"} /\ l = f.lk)
  BY Zenon DEF Owns
<1>6. (HoldsAt(c, l) <=> Holds(f, k, l)) /\ (OwnsAt(c, l) <=> Owns(f, k, l))
  BY <1>0, Zenon DEF HoldsAt, OwnsAt
<1>7. QED
  BY <1>1, <1>2, <1>3, <1>4, <1>5, <1>6, Zenon

\* The types of stacks and registers.
LEMMA TrapTypes ==
  ASSUME TrapInv, trapPanic \in BOOLEAN
  PROVE  TrapTypeOK
<1>0. StackInv /\ LockInv /\ ThreadInv /\ ~trapPanic
  BY Zenon DEF TrapInv
<1>1. ASSUME NEW c \in Harts
      PROVE  sie[c] \in BOOLEAN /\ noff[c] \in 0..2 /\ intena[c] \in BOOLEAN /\ current[c] \in Threads \cup {c}
  <2>1. noff[c] = Depth(Top(c)) /\ Top(c) \in Frame /\ Shape(Top(c), current[c]) /\ current[c] \in Threads \cup {c}
    BY <1>0, Runs, Zenon DEF Fits
  <2>2. Depth(Top(c)) \in 0..2
    BY Zenon, <2>1, FrameLocks
  <2>3. sie[c] \in BOOLEAN /\ intena[c] \in BOOLEAN
    BY <1>0, Zenon DEF StackInv, RegisterTypes
  <2>4. QED
    BY <2>1, <2>2, <2>3, Zenon
<1>2. \A l \in SpinLocks : locked[l] \in BOOLEAN /\ owner[l] \in Harts \cup {Nohart}
  BY <1>0, Zenon DEF LockInv
<1>3. ASSUME NEW k \in Contexts
      PROVE  Len(frames[k]) \in 1..2 /\ \A i \in DOMAIN frames[k] : frames[k][i] \in Frame
  <2>1. frames[k] \in Seq(Frame) /\ Len(frames[k]) \in {1, 2}
    BY <1>0, Zenon DEF StackInv, Sound
  <2>2. QED
    BY <2>1
<1>4. \A p \in Threads : pstate[p] \in {"RUNNABLE", "RUNNING", "SLEEPING", "ZOMBIE"} /\ saved[p] \in BOOLEAN
        /\ wanted[p] \in Naps \cup {0} /\ ticks0[p] \in 0..TICKMOD-1 /\ doomed[p] \in BOOLEAN
  BY <1>0, Zenon DEF ThreadInv
<1>5. ticks \in 0..TICKMOD-1
  BY <1>0, Zenon DEF ThreadInv
<1>6. QED
  BY <1>1, <1>2, <1>3, <1>4, <1>5, Zenon DEF TrapTypeOK

LEMMA PanicType == TrapSpec => [](trapPanic \in BOOLEAN)
<1>1. TrapInit => trapPanic \in BOOLEAN
  BY Zenon DEF TrapInit
<1>2. trapPanic \in BOOLEAN /\ [TrapNext]_trapVars => (trapPanic \in BOOLEAN)'
  <2> SUFFICES ASSUME trapPanic \in BOOLEAN, [TrapNext]_trapVars PROVE trapPanic' \in BOOLEAN
    OBVIOUS
  <2>1. ASSUME NEW c \in Harts, SpinStep(c) PROVE trapPanic' \in BOOLEAN
    BY <2>1, Zenon DEF SpinStep, PushRead, PushOff, Swap, Own, Release, Unlock, PopOff, holding
  <2>2. ASSUME NEW c \in Harts, SchedulerStep(c) PROVE trapPanic' \in BOOLEAN
    BY <2>2 DEF SchedulerStep, IntrOn, IntrOff, Scan, TryRun, SwitchedBack
  <2>3. ASSUME NEW c \in Harts, ThreadStep(c) PROVE trapPanic' \in BOOLEAN
    <3>1. CASE FallAsleep(c) \/ Exit(c)
      BY <3>1, Zenon DEF FallAsleep, Exit, Sched
    <3>2. CASE ~(FallAsleep(c) \/ Exit(c))
      BY Zenon, <2>3, <3>2
         DEF ThreadStep, Forkret, ReturnToUser, PauseReads, PauseTest, Pause, SleepReleases, Slept, ReturnFromSched, SleepReacquires
    <3>3. QED
      BY <3>1, <3>2
  <2>4. ASSUME NEW c \in Harts, HandlerStep(c) PROVE trapPanic' \in BOOLEAN
    <3>1. CASE Yielding(c)
      BY <3>1, ZenonT(60) DEF Yielding, Sched
    <3>2. CASE ~Yielding(c)
      BY <2>4, <3>2
         DEF HandlerStep, Interrupt, ClockIntr, Tick, WakeNext, WakeOne, TimerYield, Yielded, ReturnFromSched, ReturnFromTrap
    <3>3. QED
      BY <3>1, <3>2
  <2>5. ASSUME NEW p \in Threads, KillPauser(p) PROVE trapPanic' \in BOOLEAN
    BY <2>5 DEF KillPauser
  <2>6. CASE TrapPanicLoop \/ UNCHANGED trapVars
    BY <2>6 DEF TrapPanicLoop, trapVars
  <2>7. QED
    BY <2>1, <2>2, <2>3, <2>4, <2>5, <2>6, Zenon DEF TrapNext
<1>3. QED
  BY <1>1, <1>2, PTL DEF TrapSpec

\* For any number of harts and processes: none of the panics of acquire, release,
\* pop_off and sched is reached, a taken lock has one hart, and noff counts the locks
\* of the hart, also when the process that took one has left the hart to the
\* scheduler (kernel/spinlock.c, kernel/proc.c).
THEOREM LocksExactAlways == TrapSpec => []LocksExact
<1>1. ASSUME TrapInv, trapPanic \in BOOLEAN PROVE LocksExact
  <2>0. StackInv /\ LockInv /\ ~trapPanic
    BY <1>1, Zenon DEF TrapInv
  <2>1. OneHartPerLock
    <3> SUFFICES ASSUME NEW l \in SpinLocks, locked[l]
                 PROVE  \E c \in Harts : l \in Taken(c) /\ \A d \in Harts \ {c} : l \notin Taken(d)
      BY Zenon DEF OneHartPerLock
    <3>1. PICK c \in Harts : HoldsAt(c, l)
      BY <2>0, Zenon DEF LockInv
    <3>2. \A d \in Harts \ {c} : ~HoldsAt(d, l)
      BY <2>0, <3>1, Alone, Zenon
    <3>3. \A d \in Harts : l \in Taken(d) <=> HoldsAt(d, l)
      BY <1>1, TakenIs, Zenon
    <3>4. QED
      BY <3>1, <3>2, <3>3, Zenon
  <2>2. NoffExact
    <3> SUFFICES ASSUME NEW c \in Harts
                 PROVE  /\ noff[c] = Cardinality(Taken(c)) + (IF Top(c).op \in {"swap", "pop"} THEN 1 ELSE 0)
                        /\ noff[c] > 0 => ~sie[c]
      BY Zenon DEF NoffExact
    <3>1. /\ noff[c] = Depth(Top(c)) /\ (noff[c] > 0 => ~sie[c]) /\ Top(c) \in Frame /\ Shape(Top(c), current[c])
          /\ Top(c) = frames[current[c]][1]
      BY <2>0, Runs, Zenon DEF Fits
    <3>2. Taken(c) = {l \in SpinLocks : Holds(Top(c), current[c], l)}
      <4>1. Taken(c) \subseteq SpinLocks
        BY Zenon DEF Taken
      <4>2. \A l \in SpinLocks : l \in Taken(c) <=> Holds(Top(c), current[c], l)
        BY <1>1, <3>1, TakenIs, Zenon DEF HoldsAt
      <4>3. QED
        BY <4>1, <4>2, Zenon
    <3>3. Depth(Top(c)) = Cardinality({l \in SpinLocks : Holds(Top(c), current[c], l)})
                          + (IF Top(c).op \in {"swap", "pop"} THEN 1 ELSE 0)
      BY <3>1, FrameLocks, Zenon
    <3>4. QED
      BY <3>1, <3>2, <3>3, Zenon
  <2>3. TrapTypeOK
    BY <1>1, TrapTypes, Zenon
  <2>4. QED
    BY <2>0, <2>1, <2>2, <2>3, Zenon DEF LocksExact, NoTrapPanic
<1>2. QED
  BY <1>1, TrapInvHolds, PanicType, PTL
=============================================================================
