----------------------------- MODULE TrapProofs -----------------------------
(***************************************************************************)
(* Proofs about spin locks, interrupts and the context switch, for any     *)
(* number of harts and processes.                                          *)
(*                                                                         *)
(* What a hart holds is a function of the frame that it runs: of the label *)
(* and of the step of acquire() or release().  The inductive invariant     *)
(* says so, hart by hart; a frame that an interrupt has pushed stands on   *)
(* code that holds nothing.                                                *)
(***************************************************************************)
EXTENDS Trap, Integers, TLAPS

-----------------------------------------------------------------------------
(* What a frame holds                                                      *)

HandlerAt == {"intr", "tick", "wake", "wakeup", "yield", "yielding", "yielded", "iret"}
ThreadAt  == {"fork", "first", "user", "ticks0", "test", "sleep", "asleep", "slept", "again", "done", "exit", "zombie"}
SchedAt   == {"idle", "on", "scan", "try", "back"}

\* In a system call, or in user space: interrupts are on, or will be.
CallAt == {"user", "ticks0", "test", "sleep", "asleep", "again", "done"}

\* The labels at which a frame has tickslock, the process's own lock, or the lock lk.
TickAt == {"ticks0", "test", "sleep", "tick", "wake", "wakeup"}
OwnAt  == {"fork", "sleep", "asleep", "slept", "exit", "zombie", "yielding", "yielded"}
PickAt == {"wakeup", "try", "back"}

Has(f, k, l) ==
  \/ l = Tickslock /\ f.at \in TickAt
  \/ l = k /\ f.at \in OwnAt
  \/ l = f.lk /\ f.at \in PickAt

\* acquire() is on its way to what the label has; release() to what it has not.
Holds(f, k, l) ==
  \/ f.op \in {"none", "own", "pop"} /\ Has(f, k, l)
  \/ f.op \in {"acquire", "off", "swap"} /\ Has(f, k, l) /\ l # f.lk
  \/ f.op \in {"release", "unlock"} /\ (Has(f, k, l) \/ l = f.lk)

\* lk->cpu is set after the swap and cleared before the lock is freed.
Owns(f, k, l) == Holds(f, k, l) /\ ~(f.op \in {"own", "unlock"} /\ l = f.lk)

Count(f) ==
  IF f.at \in {"sleep", "wakeup"} THEN 2 ELSE IF f.at \in TickAt \cup OwnAt \cup PickAt THEN 1 ELSE 0

\* noff while the frame runs.
Depth(f) ==
  Count(f) + (IF f.op \in {"acquire", "off"} THEN -1 ELSE IF f.op \in {"release", "unlock", "pop"} THEN 1 ELSE 0)

\* The locks that are acquired and released on the way to a label.
Shape(f, k) ==
  /\ f.op \in {"acquire", "off", "swap", "own"} =>
       \/ f.at \in {"ticks0", "test", "tick"} /\ f.lk = Tickslock
       \/ f.at \in {"sleep", "exit", "yielding"} /\ f.lk = k
       \/ f.at \in {"wakeup", "try"}
  /\ f.op \in {"release", "unlock", "pop"} =>
       \/ f.at \in {"asleep", "done", "yield"} /\ f.lk = Tickslock
       \/ f.at \in {"first", "again", "iret"} /\ f.lk = k /\ k \in Threads
       \/ f.at \in {"scan", "wake"} /\ f.lk \in Threads
  /\ f.at \in PickAt => f.lk \in Threads
  /\ f.at \in OwnAt => k \in Threads

BottomAt(k) == IF k \in Threads THEN ThreadAt ELSE SchedAt

\* The stack of a context: an interrupt only on top of code that holds no lock.
Sound(s, k) ==
  /\ Len(s) \in {1, 2} /\ Shape(s[1], k)
  /\ Len(s) = 1 => s[1].at \in BottomAt(k)
  /\ Len(s) = 2 =>
       /\ s[1].at \in HandlerAt /\ s[2].at \in BottomAt(k) /\ Shape(s[2], k) /\ Depth(s[2]) = 0
       /\ s[2].op = "off" => s[2].old

\* A hart's sie, noff and intena suit the frame that it runs.
Fits(f, deep, s, n, i) ==
  /\ n = Depth(f)
  /\ n > 0 => ~s
  /\ deep => ~s /\ (n > 0 /\ f.at # "yielded" => ~i)
  /\ ~deep /\ f.at \in CallAt => (n = 0 => s) /\ (n > 0 => i)
  /\ f.op = "off" => f.old = s

-----------------------------------------------------------------------------
(* The inductive invariant                                                 *)

RegisterTypes ==
  /\ sie \in [Harts -> BOOLEAN] /\ noff \in [Harts -> Int] /\ intena \in [Harts -> BOOLEAN]

Parked(s, p) == Len(s) = 1 /\ s[1].at = "back" /\ s[1].op = "none" /\ s[1].lk = p

HartOK(c) ==
  /\ current[c] \in Threads \cup {c}
  /\ Fits(frames[current[c]][1], Len(frames[current[c]]) = 2, sie[c], noff[c], intena[c])
  /\ current[c] # c => Parked(frames[c], current[c])

\* Every hart and every stack is as it should be, and no two harts run the same.
StackInv ==
  /\ RegisterTypes /\ current \in [Harts -> Contexts] /\ frames \in [Contexts -> Seq(Frame)]
  /\ \A k \in Contexts : Sound(frames[k], k)
  /\ \A c \in Harts : HartOK(c)
  /\ \A c, d \in Harts : current[c] = current[d] => c = d

HoldsAt(c, l) == Holds(frames[current[c]][1], current[c], l)
OwnsAt(c, l) == Owns(frames[current[c]][1], current[c], l)

\* A lock is taken when a frame that runs says so, and by one hart.
LockInv ==
  /\ locked \in [SpinLocks -> BOOLEAN] /\ owner \in [SpinLocks -> Harts \cup {Nohart}]
  /\ \A l \in SpinLocks : locked[l] <=> \E c \in Harts : HoldsAt(c, l)
  /\ \A l \in SpinLocks : \A c, d \in Harts : HoldsAt(c, l) /\ HoldsAt(d, l) => c = d
  /\ \A l \in SpinLocks : \A c \in Harts : owner[l] = c <=> OwnsAt(c, l)

\* A process is RUNNING on a hart; where it is otherwise it has left one.
ThreadOK(p) ==
  /\ pstate[p] = "RUNNING" <=> \E c \in Harts : current[c] = p
  /\ pstate[p] # "RUNNING" => frames[p][1].at \in {"fork", "slept", "yielded", "zombie"} /\ frames[p][1].op = "none"
  /\ pstate[p] = "SLEEPING" => frames[p][1].at = "slept"
  /\ frames[p][1].at = "zombie" <=> pstate[p] = "ZOMBIE"
  /\ frames[p][1].at = "slept" => saved[p] /\ frames[p][1].op = "none"
  /\ frames[p][1].at = "yielded" => ~saved[p] /\ frames[p][1].op = "none"

ThreadInv ==
  /\ pstate \in [Threads -> {"RUNNABLE", "RUNNING", "SLEEPING", "ZOMBIE"}] /\ saved \in [Threads -> BOOLEAN]
  /\ wanted \in [Threads -> Naps \cup {0}] /\ ticks0 \in [Threads -> 0..TICKMOD - 1]
  /\ doomed \in [Threads -> BOOLEAN] /\ ticks \in 0..TICKMOD - 1
  /\ \A p \in Threads : ThreadOK(p)

TrapInv == ~trapPanic /\ StackInv /\ LockInv /\ ThreadInv

\* Asleep, or bound to sleep: the test has been made under tickslock.
Dozing(p) == pstate[p] = "SLEEPING" \/ frames[p][1].at \in {"sleep", "asleep"}

\* wakeup() has still to come to p.
Visits(f, p) == (f.at \in {"wake", "wakeup"} /\ p \in f.todo) \/ (f.at = "wakeup" /\ f.lk = p)

TickInv ==
  \A p \in Threads : Dozing(p) => Elapsed(p) < wanted[p] \/ \E c \in Harts : Visits(frames[current[c]][1], p)

-----------------------------------------------------------------------------
(* Frames and stacks                                                       *)

Ats == HandlerAt \cup ThreadAt \cup SchedAt
Ops == {"none", "acquire", "off", "swap", "own", "release", "unlock", "pop"}

LEMMA FrameIs ==
  ASSUME NEW f \in Frame
  PROVE  /\ f.at \in Ats /\ f.op \in Ops /\ f.lk \in SpinLocks /\ f.old \in BOOLEAN /\ f.todo \subseteq Threads
         /\ Count(f) \in 0..2 /\ Depth(f) \in Int
<1>1. /\ f.at \in Ats /\ f.op \in Ops /\ f.lk \in SpinLocks /\ f.old \in BOOLEAN /\ f.todo \subseteq Threads
  BY Zenon DEF Frame, Ats, Ops, HandlerAt, ThreadAt, SchedAt
<1>2. Count(f) \in 0..2
  BY DEF Count
<1>3. QED
  BY <1>1, <1>2 DEF Depth

\* A step of acquire() or release().
LEMMA OpStep ==
  ASSUME NEW f \in Frame, NEW o \in Ops, NEW g, g = [f EXCEPT !.op = o]
  PROVE  g \in Frame /\ g.at = f.at /\ g.op = o /\ g.lk = f.lk /\ g.old = f.old /\ g.todo = f.todo
BY DEF Frame, Ops

\* A change of label.
LEMMA AtStep ==
  ASSUME NEW f \in Frame, NEW a \in Ats, NEW g, g = [f EXCEPT !.at = a]
  PROVE  g \in Frame /\ g.at = a /\ g.op = f.op /\ g.lk = f.lk /\ g.old = f.old /\ g.todo = f.todo
BY DEF Frame, Ats, HandlerAt, ThreadAt, SchedAt

LEMMA Stacks ==
  ASSUME NEW s \in Seq(Frame), Len(s) \in {1, 2}, NEW g \in Frame
  PROVE  /\ Head(s) = s[1] /\ s[1] \in Frame /\ (Len(s) = 2 => s[2] \in Frame)
         /\ <<g>> \o Tail(s) \in Seq(Frame) /\ Len(<<g>> \o Tail(s)) = Len(s)
         /\ (<<g>> \o Tail(s))[1] = g /\ (Len(s) = 2 => (<<g>> \o Tail(s))[2] = s[2])
OBVIOUS

LEMMA Pushed ==
  ASSUME NEW s \in Seq(Frame), Len(s) = 1, NEW g \in Frame
  PROVE  /\ <<g>> \o s \in Seq(Frame) /\ Len(<<g>> \o s) = 2
         /\ (<<g>> \o s)[1] = g /\ (<<g>> \o s)[2] = s[1]
OBVIOUS

LEMMA Popped ==
  ASSUME NEW s \in Seq(Frame), Len(s) = 2
  PROVE  Tail(s) \in Seq(Frame) /\ Len(Tail(s)) = 1 /\ Tail(s)[1] = s[2]
OBVIOUS

\* Code whose depth is zero holds nothing.
LEMMA NothingHeld ==
  ASSUME NEW f \in Frame, NEW k, Shape(f, k), Depth(f) = 0
  PROVE  \A l \in SpinLocks : ~Holds(f, k, l)
<1> SUFFICES ASSUME NEW l \in SpinLocks, Holds(f, k, l) PROVE FALSE
  OBVIOUS
<1>0. f.at \in Ats /\ f.op \in Ops /\ Count(f) \in 0..2
  BY FrameIs
<1>1. Has(f, k, l) => Count(f) >= 1
  BY DEF Has, Count
<1>2. CASE f.op \in {"none", "swap", "own"}
  <2>1. Depth(f) = Count(f) /\ Has(f, k, l)
    BY <1>0, <1>2 DEF Depth, Holds
  <2>2. QED
    BY <1>0, <1>1, <2>1
<1>3. CASE f.op \in {"release", "unlock", "pop"}
  BY <1>0, <1>3 DEF Depth
<1>4. CASE f.op \in {"acquire", "off"}
  <2>1. Depth(f) = Count(f) - 1 /\ Has(f, k, l) /\ l # f.lk
    BY <1>0, <1>4 DEF Depth, Holds
  <2>2. Count(f) = 1
    BY <1>0, <2>1
  <2>3. f.at \notin {"sleep", "wakeup"}
    BY <2>2 DEF Count
  <2>4. QED
    BY <1>4, <2>1, <2>3 DEF Shape, Has, TickAt, OwnAt, PickAt
<1>5. QED
  BY <1>0, <1>2, <1>3, <1>4 DEF Ops

\* A frame that has no lock and takes none.
LEMMA Lockless ==
  ASSUME NEW f, NEW k, f.op = "none", f.at \notin TickAt, f.at \notin OwnAt, f.at \notin PickAt
  PROVE  Shape(f, k) /\ Depth(f) = 0 /\ \A l \in SpinLocks : ~Holds(f, k, l) /\ ~Owns(f, k, l)
<1>1. Shape(f, k)
  BY Zenon DEF Shape
<1>2. f.at \notin {"sleep", "wakeup"}
  BY DEF TickAt
<1>3. Depth(f) = 0
  BY <1>2 DEF Depth, Count
<1>4. \A l \in SpinLocks : ~Holds(f, k, l)
  BY Zenon DEF Holds, Has
<1>5. QED
  BY <1>1, <1>3, <1>4, Zenon DEF Owns

\* A frame that releases its only lock.
LEMMA Releasing ==
  ASSUME NEW f, NEW k, f.op = "release", f.at \notin TickAt, f.at \notin OwnAt, f.at \notin PickAt
  PROVE  /\ Depth(f) = 1
         /\ \A l \in SpinLocks : (Holds(f, k, l) <=> l = f.lk) /\ (Owns(f, k, l) <=> l = f.lk)
<1>1. f.at \notin {"sleep", "wakeup"}
  BY DEF TickAt
<1>2. Depth(f) = 1
  BY <1>1 DEF Depth, Count
<1>3. \A l \in SpinLocks : Holds(f, k, l) <=> l = f.lk
  BY Zenon DEF Holds, Has
<1>4. QED
  BY <1>2, <1>3, Zenon DEF Owns

\* Labels with one lock, the process's own.
OwnOnly == {"fork", "asleep", "slept", "exit", "zombie", "yielding", "yielded"}

LEMMA OwnLock ==
  ASSUME NEW f, NEW k, f.op = "none", f.at \in OwnOnly
  PROVE  /\ Depth(f) = 1
         /\ \A l \in SpinLocks : (Holds(f, k, l) <=> l = k) /\ (Owns(f, k, l) <=> l = k)
<1>1. f.at \notin TickAt /\ f.at \notin {"sleep", "wakeup"} /\ f.at \in OwnAt /\ f.at \notin PickAt
  BY DEF TickAt, OwnAt, PickAt, OwnOnly
<1>2. Depth(f) = 1
  BY <1>1 DEF Depth, Count
<1>3. \A l \in SpinLocks : Has(f, k, l) <=> l = k
  BY <1>1, Zenon DEF Has
<1>4. QED
  BY <1>2, <1>3, Zenon DEF Holds, Owns

\* Labels with one lock, that of the process that scheduler() has picked.
LEMMA PickLock ==
  ASSUME NEW f, NEW k, f.op = "none", f.at \in {"try", "back"}
  PROVE  /\ Depth(f) = 1
         /\ \A l \in SpinLocks : (Holds(f, k, l) <=> l = f.lk) /\ (Owns(f, k, l) <=> l = f.lk)
<1>1. f.at \notin TickAt /\ f.at \notin {"sleep", "wakeup"} /\ f.at \notin OwnAt /\ f.at \in PickAt
  BY DEF TickAt, OwnAt, PickAt
<1>2. Depth(f) = 1
  BY <1>1 DEF Depth, Count
<1>3. \A l \in SpinLocks : Has(f, k, l) <=> l = f.lk
  BY <1>1, Zenon DEF Has
<1>4. QED
  BY <1>2, <1>3, Zenon DEF Holds, Owns

\* The code that hart c runs.
LEMMA Runs ==
  ASSUME StackInv, NEW c \in Harts
  PROVE  /\ current[c] \in Contexts /\ current[c] \in Threads \cup {c}
         /\ frames[current[c]] \in Seq(Frame) /\ Len(frames[current[c]]) \in {1, 2}
         /\ Top(c) = frames[current[c]][1] /\ Top(c) \in Frame /\ Shape(Top(c), current[c])
         /\ Fits(Top(c), Len(frames[current[c]]) = 2, sie[c], noff[c], intena[c])
         /\ Len(frames[current[c]]) = 1 => Top(c).at \in BottomAt(current[c])
         /\ Len(frames[current[c]]) = 2 => Top(c).at \in HandlerAt
<1>1. current[c] \in Contexts /\ current[c] \in Threads \cup {c}
  BY Zenon DEF StackInv, HartOK
<1>2. frames[current[c]] \in Seq(Frame) /\ Sound(frames[current[c]], current[c])
  BY <1>1, Zenon DEF StackInv
<1>3. Len(frames[current[c]]) \in {1, 2}
  BY <1>2, Zenon DEF Sound
<1>4. Top(c) = frames[current[c]][1] /\ Top(c) \in Frame
  BY <1>2, <1>3, Stacks DEF Top
<1>5. Fits(Top(c), Len(frames[current[c]]) = 2, sie[c], noff[c], intena[c])
  BY <1>4, Zenon DEF StackInv, HartOK
<1>6. QED
  BY <1>1, <1>2, <1>3, <1>4, <1>5, Zenon DEF Sound

\* Hart c's stack becomes s.
Stack(c, s) == frames' = [frames EXCEPT ![current[c]] = s] /\ current' = current

\* Nobody else's registers change.
Registers(c) ==
  /\ RegisterTypes'
  /\ \A d \in Harts \ {c} : sie'[d] = sie[d] /\ noff'[d] = noff[d] /\ intena'[d] = intena[d]

\* The stacks of the other contexts stay.
LEMMA StackIs ==
  ASSUME StackInv, NEW c \in Harts, NEW s, Stack(c, s)
  PROVE  /\ frames'[current[c]] = s /\ \A k \in Contexts \ {current[c]} : frames'[k] = frames[k]
         /\ \A d \in Harts \ {c} : current[d] \in Contexts \ {current[c]} /\ frames'[current'[d]] = frames[current[d]]
         /\ frames'[current'[c]] = s /\ current' = current
<1>1. current[c] \in Contexts /\ frames \in [Contexts -> Seq(Frame)] /\ current' = current
  BY Zenon DEF StackInv, Stack
<1>2. frames'[current[c]] = s /\ \A k \in Contexts \ {current[c]} : frames'[k] = frames[k]
  BY <1>1, Zenon DEF Stack
<1>3. \A d \in Harts \ {c} : current[d] \in Contexts \ {current[c]}
  BY Zenon DEF StackInv
<1>4. QED
  BY <1>1, <1>2, <1>3, Zenon

LEMMA StackStep ==
  ASSUME StackInv, NEW c \in Harts, NEW s \in Seq(Frame), Stack(c, s), Sound(s, current[c]), Registers(c),
         Fits(s[1], Len(s) = 2, sie'[c], noff'[c], intena'[c])
  PROVE  StackInv'
<1>0. /\ frames'[current[c]] = s /\ frames'[current'[c]] = s
      /\ \A k \in Contexts \ {current[c]} : frames'[k] = frames[k]
      /\ \A d \in Harts \ {c} : frames'[current'[d]] = frames[current[d]]
  BY StackIs, Zenon
<1>1. current' = current /\ current \in [Harts -> Contexts] /\ frames' \in [Contexts -> Seq(Frame)]
  BY Zenon DEF StackInv, Stack
<1>2. \A k \in Contexts : Sound(frames'[k], k)
  BY <1>0, Zenon DEF StackInv
<1>3. ASSUME NEW d \in Harts PROVE HartOK(d)'
  <2>1. current[d] \in Threads \cup {d}
    BY Zenon DEF StackInv, HartOK
  <2>2. Fits(frames'[current'[d]][1], Len(frames'[current'[d]]) = 2, sie'[d], noff'[d], intena'[d])
    <3>1. CASE d = c
      BY <1>0, <3>1, Zenon
    <3>2. CASE d # c
      <4>1. Fits(frames[current[d]][1], Len(frames[current[d]]) = 2, sie[d], noff[d], intena[d])
        BY Zenon DEF StackInv, HartOK
      <4>2. QED
        BY <1>0, <3>2, <4>1, Zenon DEF Registers
    <3>3. QED
      BY <3>1, <3>2
  <2>3. ASSUME current[d] # d PROVE Parked(frames'[d], current[d])
    <3>1. current[c] \in Threads \cup {c} /\ d \in Contexts
      BY Zenon DEF StackInv, HartOK, Contexts
    <3>2. d # current[c]
      BY <2>3, <3>1, TrapAssumption
    <3>3. frames'[d] = frames[d]
      BY <1>0, <3>1, <3>2, Zenon
    <3>4. QED
      BY <2>3, <3>3, Zenon DEF StackInv, HartOK
  <2>4. QED
    BY <1>1, <2>1, <2>2, <2>3, Zenon DEF HartOK
<1>4. \A d, x \in Harts : current'[d] = current'[x] => d = x
  BY <1>1, Zenon DEF StackInv
<1>5. QED
  BY <1>1, <1>2, <1>3, <1>4, Zenon DEF StackInv, Registers

\* The running frame becomes g.
LEMMA TopStep ==
  ASSUME StackInv, NEW c \in Harts, NEW g \in Frame, SetTop(c, g), current' = current, Registers(c),
         Shape(g, current[c]),
         Len(frames[current[c]]) = 1 => g.at \in BottomAt(current[c]),
         Len(frames[current[c]]) = 2 => g.at \in HandlerAt,
         Fits(g, Len(frames[current[c]]) = 2, sie'[c], noff'[c], intena'[c])
  PROVE  /\ StackInv'
         /\ \E s \in Seq(Frame) : Stack(c, s) /\ s[1] = g
<1> DEFINE k == current[c]
           s == <<g>> \o Tail(frames[k])
<1>1. frames[k] \in Seq(Frame) /\ Len(frames[k]) \in {1, 2} /\ k \in Contexts /\ Sound(frames[k], k)
  BY Runs, Zenon DEF StackInv
<1>2. s \in Seq(Frame) /\ Len(s) = Len(frames[k]) /\ s[1] = g /\ (Len(frames[k]) = 2 => s[2] = frames[k][2])
  BY <1>1, Stacks
<1>3. Stack(c, s)
  BY Zenon DEF SetTop, Stack
<1> HIDE DEF s
<1>4. Sound(s, k)
  BY <1>1, <1>2, Zenon DEF Sound
<1>5. QED
  BY <1>2, <1>3, <1>4, StackStep, Zenon

\* A step in which no frame that runs takes, frees or marks a lock.
LEMMA LocksKept ==
  ASSUME StackInv, LockInv, NEW c \in Harts, NEW s, Stack(c, s), UNCHANGED lockVars,
         \A l \in SpinLocks : /\ Holds(s[1], current[c], l) <=> HoldsAt(c, l)
                              /\ Owns(s[1], current[c], l) <=> OwnsAt(c, l)
  PROVE  LockInv'
<1>0. /\ frames'[current'[c]] = s /\ current' = current
      /\ \A d \in Harts \ {c} : frames'[current'[d]] = frames[current[d]]
  BY StackIs, Zenon
<1>1. locked' = locked /\ owner' = owner
  BY DEF lockVars
<1>2. \A l \in SpinLocks : \A d \in Harts : (HoldsAt(d, l)' <=> HoldsAt(d, l)) /\ (OwnsAt(d, l)' <=> OwnsAt(d, l))
  BY <1>0, Zenon DEF HoldsAt, OwnsAt
<1>3. QED
  BY <1>1, <1>2, Zenon DEF LockInv

\* The types of what a process is to the rest.
ProcTypes ==
  /\ pstate \in [Threads -> {"RUNNABLE", "RUNNING", "SLEEPING", "ZOMBIE"}] /\ saved \in [Threads -> BOOLEAN]
  /\ wanted \in [Threads -> Naps \cup {0}] /\ ticks0 \in [Threads -> 0..TICKMOD - 1]
  /\ doomed \in [Threads -> BOOLEAN] /\ ticks \in 0..TICKMOD - 1

\* A step of a hart that keeps its process; other processes may be woken.
LEMMA ThreadsKept ==
  ASSUME StackInv, ThreadInv, NEW c \in Harts, NEW s, Stack(c, s), ProcTypes',
         \A p \in Threads : pstate'[p] = pstate[p] \/ (pstate[p] = "SLEEPING" /\ pstate'[p] = "RUNNABLE"),
         \A p \in Threads : p # current[c] => saved'[p] = saved[p],
         current[c] \in Threads => s[1].at \notin {"zombie", "slept", "yielded"}
  PROVE  ThreadInv'
<1>1. frames'[current[c]] = s /\ (\A k \in Contexts \ {current[c]} : frames'[k] = frames[k]) /\ current' = current
  BY StackIs, Zenon
<1>2. ASSUME NEW p \in Threads PROVE ThreadOK(p)'
  <2>1. ThreadOK(p)
    BY Zenon DEF ThreadInv
  <2>2. CASE p = current[c]
    <3>1. pstate[p] = "RUNNING" /\ \E d \in Harts : current'[d] = p
      BY <1>1, <2>1, <2>2, Zenon DEF ThreadOK
    <3>2. pstate'[p] = "RUNNING"
      BY <3>1
    <3>3. frames'[p][1].at \notin {"zombie", "slept", "yielded"}
      BY <1>1, <2>2, Zenon
    <3>4. QED
      BY <3>1, <3>2, <3>3 DEF ThreadOK
  <2>3. CASE p # current[c]
    <3>1. frames'[p] = frames[p] /\ saved'[p] = saved[p] /\ current' = current
      BY <1>1, <2>3, Zenon DEF Contexts
    <3>2. CASE pstate'[p] = pstate[p]
      BY <2>1, <3>1, <3>2, Zenon DEF ThreadOK
    <3>3. CASE pstate[p] = "SLEEPING" /\ pstate'[p] = "RUNNABLE"
      BY <2>1, <3>1, <3>3 DEF ThreadOK
    <3>4. QED
      BY <3>2, <3>3
  <2>4. QED
    BY <2>2, <2>3
<1>3. QED
  BY <1>2, Zenon DEF ThreadInv, ProcTypes

\* A step of a hart that does not advance the clock.
LEMMA TicksKept ==
  ASSUME StackInv, TickInv, NEW c \in Harts, NEW s, Stack(c, s), ticks' = ticks,
         \A p \in Threads : pstate'[p] = "SLEEPING" => pstate[p] = "SLEEPING",
         \A p \in Threads : p # current[c] => wanted'[p] = wanted[p] /\ ticks0'[p] = ticks0[p],
         current[c] \in Threads => pstate'[current[c]] # "SLEEPING",
         current[c] \in Threads /\ s[1].at \in {"sleep", "asleep"} =>
           /\ Top(c).at \in {"sleep", "asleep"} \/ Elapsed(current[c]) < wanted[current[c]]
           /\ UNCHANGED <<wanted, ticks0>>,
         \A p \in Threads : Visits(Top(c), p) /\ Dozing(p)' => Visits(s[1], p)
  PROVE  TickInv'
<1>1. /\ frames'[current[c]] = s /\ \A k \in Contexts \ {current[c]} : frames'[k] = frames[k]
      /\ frames'[current'[c]] = s /\ \A d \in Harts \ {c} : frames'[current'[d]] = frames[current[d]]
  BY StackIs, Zenon
<1>2. Top(c) = frames[current[c]][1]
  BY Runs, Zenon
<1>3. ASSUME NEW p \in Threads, Dozing(p)'
      PROVE  Elapsed(p)' < wanted'[p] \/ \E d \in Harts : Visits(frames'[current'[d]][1], p)
  <2>1. Dozing(p) \/ (p = current[c] /\ Elapsed(p) < wanted[p])
    <3>1. CASE p = current[c]
      BY <1>1, <1>2, <1>3, <3>1, Zenon DEF Dozing
    <3>2. CASE p # current[c]
      BY <1>1, <1>3, <3>2, Zenon DEF Dozing, Contexts
    <3>3. QED
      BY <3>1, <3>2
  <2>2. wanted'[p] = wanted[p] /\ ticks0'[p] = ticks0[p]
    <3>1. CASE p = current[c]
      BY <1>1, <1>3, <3>1, Zenon DEF Dozing
    <3>2. CASE p # current[c]
      BY <3>2, Zenon
    <3>3. QED
      BY <3>1, <3>2
  <2>3. Elapsed(p)' = Elapsed(p)
    BY <2>2, Zenon DEF Elapsed
  <2>4. CASE Elapsed(p) < wanted[p]
    BY <2>2, <2>3, <2>4
  <2>5. CASE \E d \in Harts : Visits(frames[current[d]][1], p)
    <3>1. PICK d \in Harts : Visits(frames[current[d]][1], p)
      BY <2>5, Zenon
    <3>2. CASE d = c
      <4>1. Visits(s[1], p)
        BY <1>2, <1>3, <3>1, <3>2, Zenon
      <4>2. QED
        BY <1>1, <4>1, Zenon
    <3>3. CASE d # c
      <4>1. frames'[current'[d]] = frames[current[d]]
        BY <1>1, <3>3, Zenon
      <4>2. QED
        BY <3>1, <4>1, Zenon
    <3>4. QED
      BY <3>2, <3>3
  <2>6. QED
    BY <2>1, <2>4, <2>5, Zenon DEF TickInv
<1>4. QED
  BY <1>3, Zenon DEF TickInv

\* The frame becomes g while the hart's registers stay.
LEMMA MoveStack ==
  ASSUME StackInv, NEW c \in Harts, NEW g \in Frame, SetTop(c, g), UNCHANGED <<hartVars, current>>,
         Shape(g, current[c]), Depth(g) = Depth(Top(c)),
         Len(frames[current[c]]) = 1 => g.at \in BottomAt(current[c]) /\ (g.at \in CallAt => Top(c).at \in CallAt),
         Len(frames[current[c]]) = 2 => g.at \in HandlerAt /\ Top(c).at # "yielded",
         g.op = "off" => g.old = sie[c]
  PROVE  StackInv' /\ \E s \in Seq(Frame) : Stack(c, s) /\ s[1] = g
<1>1. Fits(Top(c), Len(frames[current[c]]) = 2, sie[c], noff[c], intena[c]) /\ Len(frames[current[c]]) \in {1, 2}
  BY Runs, Zenon
<1>2. sie' = sie /\ noff' = noff /\ intena' = intena /\ current' = current
  BY DEF hartVars
<1>3. Registers(c)
  BY <1>2, Zenon DEF Registers, StackInv, RegisterTypes
<1>4. Fits(g, Len(frames[current[c]]) = 2, sie'[c], noff'[c], intena'[c])
  BY <1>1, <1>2 DEF Fits
<1>5. QED
  BY <1>2, <1>3, <1>4, TopStep, Zenon

\* From frame f to frame g of context k, with the same locks.
Moves(f, g, k, deep) ==
  /\ Shape(g, k) /\ Depth(g) = Depth(f) /\ g.op # "off"
  /\ deep => g.at \in HandlerAt \ {"yielded"} /\ f.at # "yielded"
  /\ ~deep => g.at \in BottomAt(k) \ {"zombie", "slept", "yielded"} /\ (g.at \in CallAt => f.at \in CallAt)
  /\ \A l \in SpinLocks : (Holds(g, k, l) <=> Holds(f, k, l)) /\ (Owns(g, k, l) <=> Owns(f, k, l))

\* What a step of process k may do to the variables of processes.
ProcStep(k) ==
  /\ ProcTypes' /\ ticks' = ticks
  /\ \A p \in Threads : pstate'[p] = pstate[p] \/ (pstate[p] = "SLEEPING" /\ pstate'[p] = "RUNNABLE")
  /\ \A p \in Threads : p # k => saved'[p] = saved[p] /\ wanted'[p] = wanted[p] /\ ticks0'[p] = ticks0[p]

\* What must be known for wakeup() to miss nobody.
Watches(f, g, k) ==
  /\ k \in Threads /\ g.at \in {"sleep", "asleep"} =>
       /\ f.at \in {"sleep", "asleep"} \/ Elapsed(k) < wanted[k]
       /\ UNCHANGED <<wanted, ticks0>>
  /\ \A p \in Threads : Visits(f, p) /\ Dozing(p)' => Visits(g, p)

\* The process of a hart is not asleep.
LEMMA Awake ==
  ASSUME ThreadInv, NEW c \in Harts, current[c] \in Threads, ProcStep(current[c])
  PROVE  pstate[current[c]] = "RUNNING" /\ pstate'[current[c]] = "RUNNING"
<1>1. pstate[current[c]] = "RUNNING"
  BY Zenon DEF ThreadInv, ThreadOK
<1>2. QED
  BY <1>1 DEF ProcStep

LEMMA MoveProcs ==
  ASSUME StackInv, ThreadInv, TickInv, NEW c \in Harts, NEW s, Stack(c, s), ProcStep(current[c]),
         Watches(Top(c), s[1], current[c]),
         current[c] \in Threads => s[1].at \notin {"zombie", "slept", "yielded"}
  PROVE  ThreadInv' /\ TickInv'
<1>1. ThreadInv'
  BY ThreadsKept, Zenon DEF ProcStep
<1>2. current[c] \in Threads => pstate'[current[c]] # "SLEEPING"
  <2>1. current[c] \in Threads => pstate'[current[c]] = "RUNNING"
    BY Awake, Zenon
  <2>2. QED
    BY <2>1
<1>3. \A p \in Threads : pstate'[p] = "SLEEPING" => pstate[p] = "SLEEPING"
  BY DEF ProcStep
<1>4. TickInv'
  BY <1>2, <1>3, TicksKept, Zenon DEF ProcStep, Watches
<1>5. QED
  BY <1>1, <1>4

LEMMA Move ==
  ASSUME TrapInv, TickInv, NEW c \in Harts, NEW g \in Frame, SetTop(c, g),
         UNCHANGED <<hartVars, current, lockVars, trapPanic>>, ProcStep(current[c]),
         Moves(Top(c), g, current[c], Len(frames[current[c]]) = 2), Watches(Top(c), g, current[c])
  PROVE  TrapInv' /\ TickInv'
<1>0. ~trapPanic /\ StackInv /\ LockInv /\ ThreadInv /\ trapPanic' = trapPanic
  BY Zenon DEF TrapInv
<1>1. Len(frames[current[c]]) \in {1, 2} /\ Top(c) = frames[current[c]][1]
  BY <1>0, Runs, Zenon
<1>2. Len(frames[current[c]]) = 1 => ~(Len(frames[current[c]]) = 2)
  OBVIOUS
<1>3. StackInv' /\ \E s \in Seq(Frame) : Stack(c, s) /\ s[1] = g
  BY <1>0, <1>2, MoveStack, Zenon DEF Moves
<1>4. PICK s \in Seq(Frame) : Stack(c, s) /\ s[1] = g
  BY <1>3, Zenon
<1>5. LockInv'
  BY <1>0, <1>1, <1>4, LocksKept, Zenon DEF Moves, HoldsAt, OwnsAt
<1>6. g.at \notin {"zombie", "slept", "yielded"}
  BY <1>1 DEF Moves, HandlerAt
<1>7. ThreadInv' /\ TickInv'
  BY <1>0, <1>4, <1>6, MoveProcs, Zenon
<1>8. ~trapPanic'
  BY <1>0
<1>9. QED
  BY <1>3, <1>5, <1>7, <1>8, Zenon DEF TrapInv

-----------------------------------------------------------------------------
(* Steps between labels                                                    *)

\* A label says which context it is of.
LEMMA Where ==
  ASSUME StackInv, NEW c \in Harts
  PROVE  /\ Top(c).at \in ThreadAt => Len(frames[current[c]]) = 1 /\ current[c] \in Threads
         /\ Top(c).at \in SchedAt => Len(frames[current[c]]) = 1 /\ current[c] = c /\ c \notin Threads
         /\ Top(c).at \in HandlerAt => Len(frames[current[c]]) = 2
<1>1. /\ current[c] \in Threads \cup {c} /\ Len(frames[current[c]]) \in {1, 2}
      /\ Len(frames[current[c]]) = 1 => Top(c).at \in BottomAt(current[c])
      /\ Len(frames[current[c]]) = 2 => Top(c).at \in HandlerAt
  BY Runs, Zenon
<1>2. c \notin Threads
  BY TrapAssumption
<1>3. QED
  BY <1>1, <1>2 DEF BottomAt, ThreadAt, SchedAt, HandlerAt

LEMMA ProcSame ==
  ASSUME ThreadInv, UNCHANGED <<procVars, ticks>>, NEW k
  PROVE  ProcStep(k)
<1>1. pstate' = pstate /\ saved' = saved /\ wanted' = wanted /\ ticks0' = ticks0 /\ doomed' = doomed /\ ticks' = ticks
  BY DEF procVars
<1>2. QED
  BY <1>1, Zenon DEF ProcStep, ProcTypes, ThreadInv

LEMMA WatchesNone ==
  ASSUME NEW f, NEW g, NEW k, f.at \notin {"wake", "wakeup"}, g.at \notin {"sleep", "asleep"}
  PROVE  Watches(f, g, k)
<1>1. \A p \in Threads : ~Visits(f, p)
  BY DEF Visits
<1>2. QED
  BY <1>1, Zenon DEF Watches

\* A call of acquire() or release(), and nothing else.
LEMMA CallMove ==
  ASSUME TrapInv, TickInv, NEW c \in Harts, NEW a \in Ats, NEW o \in Ops, NEW l \in SpinLocks, Call(c, o, l, a),
         UNCHANGED <<hartVars, current, lockVars, procVars, ticks, trapPanic>>,
         Top(c).at \notin {"wake", "wakeup"}, a \notin {"sleep", "asleep"},
         \A g \in Frame : g.at = a /\ g.op = o /\ g.lk = l => Moves(Top(c), g, current[c], Len(frames[current[c]]) = 2)
  PROVE  TrapInv' /\ TickInv'
<1>1. StackInv /\ ThreadInv
  BY Zenon DEF TrapInv
<1>2. Top(c) \in Frame
  BY <1>1, Runs, Zenon
<1>3. PICK g : g = [Top(c) EXCEPT !.at = a, !.op = o, !.lk = l] /\ SetTop(c, g)
  BY Zenon DEF Call
<1>4. g \in Frame /\ g.at = a /\ g.op = o /\ g.lk = l
  BY <1>2, <1>3, ZenonT(60) DEF Frame, Ats, Ops, HandlerAt, ThreadAt, SchedAt
<1>5. Watches(Top(c), g, current[c])
  BY <1>4, WatchesNone, Zenon
<1>6. ProcStep(current[c])
  BY <1>1, ProcSame, Zenon
<1>7. QED
  BY <1>3, <1>4, <1>5, <1>6, Move, Zenon

\* A change of label, and nothing else.
LEMMA ContinueMove ==
  ASSUME TrapInv, TickInv, NEW c \in Harts, NEW a \in Ats, Continue(c, a), Top(c).op = "none",
         UNCHANGED <<hartVars, current, lockVars, procVars, ticks, trapPanic>>,
         Top(c).at \notin {"wake", "wakeup"}, a \notin {"sleep", "asleep"},
         \A g \in Frame : g.at = a /\ g.op = "none" => Moves(Top(c), g, current[c], Len(frames[current[c]]) = 2)
  PROVE  TrapInv' /\ TickInv'
<1>1. StackInv /\ ThreadInv
  BY Zenon DEF TrapInv
<1>2. Top(c) \in Frame
  BY <1>1, Runs, Zenon
<1> DEFINE g == [Top(c) EXCEPT !.at = a]
<1>3. g \in Frame /\ g.at = a /\ g.op = "none" /\ SetTop(c, g)
  BY <1>2, AtStep DEF Continue
<1> HIDE DEF g
<1>4. Watches(Top(c), g, current[c])
  BY <1>3, WatchesNone, Zenon
<1>5. ProcStep(current[c])
  BY <1>1, ProcSame, Zenon
<1>6. QED
  BY <1>3, <1>4, <1>5, Move, Zenon

LEMMA StepForkret ==
  ASSUME TrapInv, TickInv, NEW c \in Harts, Forkret(c)
  PROVE  TrapInv' /\ TickInv'
<1>1. Top(c).at = "fork" /\ Top(c).op = "none" /\ Call(c, "release", current[c], "first")
  BY DEF Forkret, AtLabel
<1>2. Len(frames[current[c]]) = 1 /\ current[c] \in Threads
  BY <1>1, Where DEF TrapInv, ThreadAt
<1>3. ASSUME NEW g \in Frame, g.at = "first", g.op = "release", g.lk = current[c]
      PROVE  Moves(Top(c), g, current[c], Len(frames[current[c]]) = 2)
  BY ONLY <1>1, <1>2, <1>3, TrapAssumption
     DEF Moves, Shape, Depth, Count, Holds, Owns, Has, TickAt, OwnAt, PickAt, HandlerAt, BottomAt, ThreadAt, CallAt
<1>4. "first" \in Ats /\ "release" \in Ops /\ current[c] \in SpinLocks
  BY <1>2 DEF Ats, ThreadAt, Ops, SpinLocks
<1>5. QED
  BY <1>1, <1>3, <1>4, CallMove DEF Forkret

LEMMA StepSleepReacquires ==
  ASSUME TrapInv, TickInv, NEW c \in Harts, SleepReacquires(c)
  PROVE  TrapInv' /\ TickInv'
<1>1. Top(c).at = "again" /\ Top(c).op = "none" /\ Call(c, "acquire", Tickslock, "test")
  BY DEF SleepReacquires, AtLabel
<1>2. Len(frames[current[c]]) = 1 /\ current[c] \in Threads
  BY <1>1, Where DEF TrapInv, ThreadAt
<1>3. ASSUME NEW g \in Frame, g.at = "test", g.op = "acquire", g.lk = Tickslock
      PROVE  Moves(Top(c), g, current[c], Len(frames[current[c]]) = 2)
  BY ONLY <1>1, <1>2, <1>3, TrapAssumption
     DEF Moves, Shape, Depth, Count, Holds, Owns, Has, TickAt, OwnAt, PickAt, HandlerAt, BottomAt, ThreadAt, SchedAt, CallAt
<1>4. "test" \in Ats /\ "acquire" \in Ops /\ Tickslock \in SpinLocks
  BY <1>2 DEF Ats, ThreadAt, Ops, SpinLocks
<1>5. QED
  BY <1>1, <1>3, <1>4, CallMove DEF SleepReacquires

LEMMA StepSwitchedBack ==
  ASSUME TrapInv, TickInv, NEW c \in Harts, SwitchedBack(c)
  PROVE  TrapInv' /\ TickInv'
<1>1. Top(c).at = "back" /\ Top(c).op = "none" /\ Call(c, "release", Top(c).lk, "scan")
  BY DEF SwitchedBack, AtLabel
<1>2. Len(frames[current[c]]) = 1 /\ current[c] = c /\ c \notin Threads
  BY <1>1, Where DEF TrapInv, SchedAt
<1>3. Top(c).lk \in Threads
  BY <1>1, Runs, Zenon DEF TrapInv, Shape, PickAt
<1>4. ASSUME NEW g \in Frame, g.at = "scan", g.op = "release", g.lk = Top(c).lk
      PROVE  Moves(Top(c), g, current[c], Len(frames[current[c]]) = 2)
  BY ONLY <1>1, <1>2, <1>3, <1>4, TrapAssumption
     DEF Moves, Shape, Depth, Count, Holds, Owns, Has, TickAt, OwnAt, PickAt, HandlerAt, BottomAt, SchedAt, CallAt
<1>5. "scan" \in Ats /\ "release" \in Ops /\ Top(c).lk \in SpinLocks
  BY <1>3 DEF Ats, SchedAt, Ops, SpinLocks
<1>6. QED
  BY <1>1, <1>4, <1>5, CallMove DEF SwitchedBack

LEMMA StepScan ==
  ASSUME TrapInv, TickInv, NEW c \in Harts, Scan(c)
  PROVE  TrapInv' /\ TickInv'
<1> DEFINE todo == Top(c).todo
           q == NextOf(todo)
<1>1. Top(c).at = "scan" /\ Top(c).op = "none" /\ UNCHANGED <<hartVars, current, lockVars, procVars, ticks, trapPanic>>
  BY DEF Scan, AtLabel
<1>2. Len(frames[current[c]]) = 1 /\ current[c] = c /\ c \notin Threads
  BY <1>1, Where DEF TrapInv, SchedAt
<1>3. CASE todo = {}
  <2>1. Continue(c, "idle")
    BY <1>3, Zenon DEF Scan
  <2>2. ASSUME NEW g \in Frame, g.at = "idle", g.op = "none"
        PROVE  Moves(Top(c), g, current[c], Len(frames[current[c]]) = 2)
    BY ONLY <1>1, <1>2, <2>2
       DEF Moves, Shape, Depth, Count, Holds, Owns, Has, TickAt, OwnAt, PickAt, HandlerAt, BottomAt, SchedAt, CallAt
  <2>3. "idle" \in Ats
    BY DEF Ats, SchedAt
  <2>4. QED
    BY <1>1, <2>1, <2>2, <2>3, ContinueMove
<1>4. CASE todo # {}
  <2>0. Top(c) \in Frame /\ StackInv /\ ThreadInv
    BY Runs, Zenon DEF TrapInv
  <2>1. todo \subseteq Threads
    BY <2>0, FrameIs
  <2>2. q \in todo
    BY <1>4, Zenon DEF NextOf
  <2>3. PICK g : SetTop(c, g) /\ g = [Top(c) EXCEPT !.at = "try", !.op = "acquire", !.lk = q, !.todo = todo \ {q}]
    BY <1>4, Zenon DEF Scan
  <2>4. g \in Frame /\ g.at = "try" /\ g.op = "acquire" /\ g.lk = q
    BY <2>0, <2>1, <2>2, <2>3, Zenon DEF Frame, SpinLocks
  <2>5. q \in Threads
    BY <2>1, <2>2, Zenon
  <2> HIDE DEF q, todo
  <2>6. Moves(Top(c), g, current[c], Len(frames[current[c]]) = 2)
    BY ONLY <1>1, <1>2, <2>4, <2>5, TrapAssumption
       DEF Moves, Shape, Depth, Count, Holds, Owns, Has, TickAt, OwnAt, PickAt, HandlerAt, BottomAt, SchedAt, CallAt
  <2>7. Watches(Top(c), g, current[c])
    BY <1>1, <2>4, WatchesNone
  <2>8. QED
    BY <1>1, <2>0, <2>3, <2>4, <2>6, <2>7, ProcSame, Move
<1>5. QED
  BY <1>3, <1>4

LEMMA StepClockIntr ==
  ASSUME TrapInv, TickInv, NEW c \in Harts, ClockIntr(c)
  PROVE  TrapInv' /\ TickInv'
<1>1. Top(c).at = "intr" /\ Top(c).op = "none" /\ UNCHANGED <<hartVars, current, lockVars, procVars, ticks, trapPanic>>
  BY DEF ClockIntr, AtLabel
<1>2. Len(frames[current[c]]) = 2
  BY <1>1, Where DEF TrapInv, HandlerAt
<1>3. CASE c = Hart0
  <2>1. ASSUME NEW g \in Frame, g.at = "tick", g.op = "acquire", g.lk = Tickslock
        PROVE  Moves(Top(c), g, current[c], Len(frames[current[c]]) = 2)
    BY ONLY <1>1, <1>2, <2>1
       DEF Moves, Shape, Depth, Count, Holds, Owns, Has, TickAt, OwnAt, PickAt, HandlerAt, CallAt
  <2>2. "tick" \in Ats /\ "acquire" \in Ops /\ Tickslock \in SpinLocks /\ Call(c, "acquire", Tickslock, "tick")
    BY <1>3 DEF Ats, HandlerAt, Ops, SpinLocks, ClockIntr
  <2>3. QED
    BY <1>1, <2>1, <2>2, CallMove
<1>4. CASE c # Hart0
  <2>1. ASSUME NEW g \in Frame, g.at = "yield", g.op = "none"
        PROVE  Moves(Top(c), g, current[c], Len(frames[current[c]]) = 2)
    BY Zenon, <1>1, <1>2, <2>1
       DEF Moves, Shape, Depth, Count, Holds, Owns, Has, TickAt, OwnAt, PickAt, HandlerAt, CallAt
  <2>2. "yield" \in Ats /\ Continue(c, "yield")
    BY <1>4 DEF Ats, HandlerAt, ClockIntr
  <2>3. QED
    BY <1>1, <2>1, <2>2, ContinueMove
<1>5. QED
  BY <1>3, <1>4

\* A thread's wanted and ticks0 become w and t.
LEMMA ProcPause ==
  ASSUME ThreadInv, NEW k \in Threads, NEW w \in Naps \cup {0}, NEW t \in 0..TICKMOD - 1,
         wanted' = [wanted EXCEPT ![k] = w], ticks0' = [ticks0 EXCEPT ![k] = t],
         UNCHANGED <<pstate, saved, doomed, ticks>>
  PROVE  ProcStep(k)
<1>1. /\ wanted' \in [Threads -> Naps \cup {0}] /\ ticks0' \in [Threads -> 0..TICKMOD - 1]
      /\ \A p \in Threads : p # k => wanted'[p] = wanted[p] /\ ticks0'[p] = ticks0[p]
  BY Zenon DEF ThreadInv
<1>2. pstate' = pstate /\ saved' = saved /\ doomed' = doomed /\ ticks' = ticks
  OBVIOUS
<1>3. QED
  BY <1>1, <1>2, Zenon DEF ProcStep, ProcTypes, ThreadInv

LEMMA StepPause ==
  ASSUME TrapInv, TickInv, NEW c \in Harts, NEW n \in Naps, Pause(c, n)
  PROVE  TrapInv' /\ TickInv'
<1>0. Top(c) \in Frame /\ StackInv /\ ThreadInv
  BY Runs, Zenon DEF TrapInv
<1>1. /\ Top(c).at = "user" /\ Top(c).op = "none" /\ Call(c, "acquire", Tickslock, "ticks0")
      /\ wanted' = [wanted EXCEPT ![current[c]] = n]
      /\ UNCHANGED <<hartVars, current, lockVars, pstate, saved, ticks0, doomed, ticks, trapPanic>>
  BY DEF Pause, AtLabel
<1>2. Len(frames[current[c]]) = 1 /\ current[c] \in Threads
  BY <1>0, <1>1, Where DEF ThreadAt
<1>3. PICK g : SetTop(c, g) /\ g = [Top(c) EXCEPT !.at = "ticks0", !.op = "acquire", !.lk = Tickslock]
  BY <1>1, Zenon DEF Call
<1>4. g \in Frame /\ g.at = "ticks0" /\ g.op = "acquire" /\ g.lk = Tickslock
  BY <1>0, <1>3, Zenon DEF Frame, SpinLocks
<1>5. Moves(Top(c), g, current[c], Len(frames[current[c]]) = 2)
  BY ONLY <1>1, <1>2, <1>4
     DEF Moves, Shape, Depth, Count, Holds, Owns, Has, TickAt, OwnAt, PickAt, HandlerAt, BottomAt, ThreadAt, CallAt
<1>6. Watches(Top(c), g, current[c])
  BY <1>1, <1>4, WatchesNone
<1>7. ProcStep(current[c])
  <2>1. ticks0' = [ticks0 EXCEPT ![current[c]] = ticks0[current[c]]] /\ ticks0[current[c]] \in 0..TICKMOD - 1
    BY <1>0, <1>1, <1>2, Zenon DEF ThreadInv
  <2>2. QED
    BY <1>0, <1>1, <1>2, <2>1, ProcPause, Zenon
<1>8. QED
  BY <1>1, <1>3, <1>4, <1>5, <1>6, <1>7, Move

LEMMA StepPauseReads ==
  ASSUME TrapInv, TickInv, NEW c \in Harts, PauseReads(c)
  PROVE  TrapInv' /\ TickInv'
<1>0. Top(c) \in Frame /\ StackInv /\ ThreadInv
  BY Runs, Zenon DEF TrapInv
<1>1. /\ Top(c).at = "ticks0" /\ Top(c).op = "none" /\ Continue(c, "test")
      /\ ticks0' = [ticks0 EXCEPT ![current[c]] = ticks]
      /\ UNCHANGED <<hartVars, current, lockVars, pstate, saved, wanted, doomed, ticks, trapPanic>>
  BY DEF PauseReads, AtLabel
<1>2. Len(frames[current[c]]) = 1 /\ current[c] \in Threads
  BY <1>0, <1>1, Where DEF ThreadAt
<1>3. PICK g : SetTop(c, g) /\ g = [Top(c) EXCEPT !.at = "test"]
  BY <1>1, Zenon DEF Continue
<1>4. g \in Frame /\ g.at = "test" /\ g.op = "none"
  BY <1>0, <1>1, <1>3, Zenon DEF Frame
<1>5. Moves(Top(c), g, current[c], Len(frames[current[c]]) = 2)
  BY ONLY <1>1, <1>2, <1>4
     DEF Moves, Shape, Depth, Count, Holds, Owns, Has, TickAt, OwnAt, PickAt, HandlerAt, BottomAt, ThreadAt, CallAt
<1>6. Watches(Top(c), g, current[c])
  BY <1>1, <1>4, WatchesNone
<1>7. ProcStep(current[c])
  <2>1. /\ wanted' = [wanted EXCEPT ![current[c]] = wanted[current[c]]] /\ wanted[current[c]] \in Naps \cup {0}
        /\ ticks \in 0..TICKMOD - 1
    BY <1>0, <1>1, <1>2, Zenon DEF ThreadInv
  <2>2. QED
    BY <1>0, <1>1, <1>2, <2>1, ProcPause, Zenon
<1>8. QED
  BY <1>1, <1>3, <1>4, <1>5, <1>6, <1>7, Move

LEMMA StepPauseTest ==
  ASSUME TrapInv, TickInv, NEW c \in Harts, PauseTest(c)
  PROVE  TrapInv' /\ TickInv'
<1> DEFINE k == current[c]
<1>0. Top(c) \in Frame /\ StackInv /\ ThreadInv
  BY Runs, Zenon DEF TrapInv
<1>1. /\ Top(c).at = "test" /\ Top(c).op = "none"
      /\ UNCHANGED <<hartVars, current, lockVars, pstate, saved, doomed, ticks, trapPanic>>
  BY DEF PauseTest, AtLabel
<1>2. Len(frames[k]) = 1 /\ k \in Threads
  BY <1>0, <1>1, Where DEF ThreadAt
<1>3. CASE Elapsed(k) < wanted[k] /\ ~doomed[k]
  <2>1. Call(c, "acquire", k, "sleep") /\ UNCHANGED <<wanted, ticks0>>
    BY <1>3, Zenon DEF PauseTest
  <2>2. PICK g : SetTop(c, g) /\ g = [Top(c) EXCEPT !.at = "sleep", !.op = "acquire", !.lk = k]
    BY <2>1, Zenon DEF Call
  <2>3. g \in Frame /\ g.at = "sleep" /\ g.op = "acquire" /\ g.lk = k
    BY <1>0, <1>2, <2>2, Zenon DEF Frame, SpinLocks
  <2>4. Moves(Top(c), g, k, Len(frames[k]) = 2)
    <3>1. Top(c).at = "test" /\ Top(c).op = "none" /\ Len(frames[k]) = 1 /\ k \in Threads /\ k # Tickslock
      BY <1>1, <1>2, TrapAssumption, Zenon
    <3> HIDE DEF k
    <3>2. Shape(g, k) /\ g.op # "off"
      BY ONLY <2>3, <3>1, Zenon DEF Shape, PickAt, OwnAt
    <3>3. Depth(g) = 1
      BY ONLY <2>3 DEF Depth, Count
    <3>4. Depth(Top(c)) = 1
      BY ONLY <3>1 DEF Depth, Count, TickAt
    <3>5. ~(Len(frames[k]) = 2)
      BY ONLY <3>1
    <3>6. g.at \in BottomAt(k) \ {"zombie", "slept", "yielded"} /\ Top(c).at \in CallAt
      BY ONLY <2>3, <3>1, Zenon DEF BottomAt, ThreadAt, CallAt
    <3>7. \A l \in SpinLocks : (Holds(g, k, l) <=> l = Tickslock) /\ (Owns(g, k, l) <=> l = Tickslock)
      BY ONLY <2>3, <3>1, Zenon DEF Holds, Owns, Has, TickAt, OwnAt, PickAt
    <3>8. \A l \in SpinLocks : (Holds(Top(c), k, l) <=> l = Tickslock) /\ (Owns(Top(c), k, l) <=> l = Tickslock)
      BY ONLY <3>1, Zenon DEF Holds, Owns, Has, TickAt, OwnAt, PickAt
    <3>9. QED
      BY ONLY <3>2, <3>3, <3>4, <3>5, <3>6, <3>7, <3>8, Zenon DEF Moves
  <2>5. \A p \in Threads : ~Visits(Top(c), p)
    BY <1>1, Zenon DEF Visits
  <2>6. Watches(Top(c), g, k)
    BY <1>3, <2>1, <2>5, Zenon DEF Watches
  <2>7. ProcStep(k)
    BY <1>0, <1>1, <2>1, ProcSame DEF procVars
  <2>8. QED
    BY <1>1, <2>2, <2>3, <2>4, <2>6, <2>7, Move
<1>4. CASE ~(Elapsed(k) < wanted[k] /\ ~doomed[k])
  <2>1. /\ Call(c, "release", Tickslock, "done")
        /\ wanted' = [wanted EXCEPT ![k] = 0] /\ ticks0' = [ticks0 EXCEPT ![k] = 0]
    BY <1>4, Zenon DEF PauseTest
  <2>2. PICK g : SetTop(c, g) /\ g = [Top(c) EXCEPT !.at = "done", !.op = "release", !.lk = Tickslock]
    BY <2>1, Zenon DEF Call
  <2>3. g \in Frame /\ g.at = "done" /\ g.op = "release" /\ g.lk = Tickslock
    BY <1>0, <1>2, <2>2, Zenon DEF Frame, SpinLocks
  <2>4. Moves(Top(c), g, k, Len(frames[k]) = 2)
    <3>1. Top(c).at = "test" /\ Top(c).op = "none" /\ Len(frames[k]) = 1 /\ k \in Threads
      BY <1>1, <1>2, Zenon
    <3> HIDE DEF k
    <3>2. Shape(g, k) /\ g.at \notin TickAt /\ g.at \notin OwnAt /\ g.at \notin PickAt /\ g.op = "release"
      BY ONLY <2>3, Zenon DEF Shape, TickAt, OwnAt, PickAt
    <3>3. /\ Depth(g) = 1
          /\ \A l \in SpinLocks : (Holds(g, k, l) <=> l = g.lk) /\ (Owns(g, k, l) <=> l = g.lk)
      BY ONLY <3>2, Releasing, Zenon
    <3>4. Depth(Top(c)) = 1
      BY ONLY <3>1 DEF Depth, Count, TickAt
    <3>5. ~(Len(frames[k]) = 2)
      BY ONLY <3>1
    <3>6. g.op # "off" /\ g.at \in BottomAt(k) \ {"zombie", "slept", "yielded"} /\ Top(c).at \in CallAt
      BY ONLY <2>3, <3>1, Zenon DEF BottomAt, ThreadAt, CallAt
    <3>7. \A l \in SpinLocks : (Holds(Top(c), k, l) <=> l = Tickslock) /\ (Owns(Top(c), k, l) <=> l = Tickslock)
      BY ONLY <3>1, Zenon DEF Holds, Owns, Has, TickAt, OwnAt, PickAt
    <3>8. QED
      BY ONLY <2>3, <3>2, <3>3, <3>4, <3>5, <3>6, <3>7, Zenon DEF Moves
  <2>5. Watches(Top(c), g, k)
    BY <1>1, <2>3, WatchesNone
  <2>6. ProcStep(k)
    <3>1. 0 \in Naps \cup {0} /\ 0 \in 0..TICKMOD - 1
      BY TrapAssumption
    <3>2. QED
      BY <1>0, <1>1, <1>2, <2>1, <3>1, ProcPause, Zenon
  <2>7. QED
    BY <1>1, <2>2, <2>3, <2>4, <2>5, <2>6, Move
<1>5. QED
  BY <1>3, <1>4

LEMMA StepSleepReleases ==
  ASSUME TrapInv, TickInv, NEW c \in Harts, SleepReleases(c)
  PROVE  TrapInv' /\ TickInv'
<1>0. Top(c) \in Frame /\ StackInv /\ ThreadInv
  BY Runs, Zenon DEF TrapInv
<1>1. /\ Top(c).at = "sleep" /\ Top(c).op = "none" /\ Call(c, "release", Tickslock, "asleep")
      /\ UNCHANGED <<hartVars, current, lockVars, procVars, ticks, trapPanic>>
  BY DEF SleepReleases, AtLabel
<1>2. Len(frames[current[c]]) = 1 /\ current[c] \in Threads
  BY <1>0, <1>1, Where DEF ThreadAt
<1>3. PICK g : SetTop(c, g) /\ g = [Top(c) EXCEPT !.at = "asleep", !.op = "release", !.lk = Tickslock]
  BY <1>1, Zenon DEF Call
<1>4. g \in Frame /\ g.at = "asleep" /\ g.op = "release" /\ g.lk = Tickslock
  BY <1>0, <1>3, Zenon DEF Frame, SpinLocks
<1>5. Moves(Top(c), g, current[c], Len(frames[current[c]]) = 2)
  <2>1. Shape(g, current[c]) /\ g.op # "off"
    BY ONLY <1>2, <1>4, Zenon DEF Shape, PickAt, OwnAt
  <2>2. Depth(g) = 2
    BY ONLY <1>4 DEF Depth, Count, OwnAt
  <2>3. Depth(Top(c)) = 2
    <3>1. Top(c).at = "sleep" /\ Top(c).op = "none"
      BY <1>1, Zenon
    <3>2. QED
      BY ONLY <3>1 DEF Depth, Count
  <2>4. ~(Len(frames[current[c]]) = 2)
    BY ONLY <1>2
  <2>5. g.at \in BottomAt(current[c]) \ {"zombie", "slept", "yielded"} /\ Top(c).at \in CallAt
    BY ONLY <1>1, <1>2, <1>4, Zenon DEF BottomAt, ThreadAt, CallAt
  <2>6. \A l \in SpinLocks : /\ Holds(g, current[c], l) <=> l = Tickslock \/ l = current[c]
                             /\ Owns(g, current[c], l) <=> l = Tickslock \/ l = current[c]
    BY ONLY <1>4, Zenon DEF Holds, Owns, Has, TickAt, OwnAt, PickAt
  <2>7. \A l \in SpinLocks : /\ Holds(Top(c), current[c], l) <=> l = Tickslock \/ l = current[c]
                             /\ Owns(Top(c), current[c], l) <=> l = Tickslock \/ l = current[c]
    BY ONLY <1>1, Zenon DEF Holds, Owns, Has, TickAt, OwnAt, PickAt
  <2>8. QED
    BY ONLY <2>1, <2>2, <2>3, <2>4, <2>5, <2>6, <2>7, Zenon DEF Moves
<1>6. Watches(Top(c), g, current[c])
  <2>1. (\A p \in Threads : ~Visits(Top(c), p)) /\ Top(c).at \in {"sleep", "asleep"} /\ UNCHANGED <<wanted, ticks0>>
    BY <1>1 DEF Visits, procVars
  <2>2. QED
    BY <2>1, Zenon DEF Watches
<1>7. QED
  BY <1>0, <1>1, <1>3, <1>4, <1>5, <1>6, ProcSame, Move

LEMMA StepWakeNext ==
  ASSUME TrapInv, TickInv, NEW c \in Harts, WakeNext(c)
  PROVE  TrapInv' /\ TickInv'
<1> DEFINE todo == Top(c).todo
           q == NextOf(todo)
<1>0. Top(c) \in Frame /\ StackInv /\ ThreadInv
  BY Runs, Zenon DEF TrapInv
<1>1. Top(c).at = "wake" /\ Top(c).op = "none" /\ UNCHANGED <<hartVars, current, lockVars, procVars, ticks, trapPanic>>
  BY DEF WakeNext, AtLabel
<1>2. Len(frames[current[c]]) = 2
  BY <1>0, <1>1, Where DEF HandlerAt
<1>3. CASE todo = {}
  <2>1. PICK g : SetTop(c, g) /\ g = [Top(c) EXCEPT !.at = "yield", !.op = "release", !.lk = Tickslock]
    BY <1>3, Zenon DEF WakeNext, Call
  <2>2. g \in Frame /\ g.at = "yield" /\ g.op = "release" /\ g.lk = Tickslock
    BY <1>0, <2>1, Zenon DEF Frame, SpinLocks
  <2>3. Moves(Top(c), g, current[c], Len(frames[current[c]]) = 2)
    <3>1. g.at \notin TickAt /\ g.at \notin OwnAt /\ g.at \notin PickAt /\ g.op = "release"
      BY ONLY <2>2, Zenon DEF TickAt, OwnAt, PickAt
    <3>2. /\ Depth(g) = 1
          /\ \A l \in SpinLocks : (Holds(g, current[c], l) <=> l = g.lk) /\ (Owns(g, current[c], l) <=> l = g.lk)
      BY ONLY <3>1, Releasing, Zenon
    <3>3. Top(c).at = "wake" /\ Top(c).op = "none"
      BY <1>1, Zenon
    <3>4. Depth(Top(c)) = 1
      BY ONLY <3>3 DEF Depth, Count, TickAt
    <3>5. \A l \in SpinLocks : /\ Holds(Top(c), current[c], l) <=> l = Tickslock
                               /\ Owns(Top(c), current[c], l) <=> l = Tickslock
      BY ONLY <3>3, Zenon DEF Holds, Owns, Has, TickAt, OwnAt, PickAt
    <3>6. Shape(g, current[c]) /\ g.op # "off" /\ g.at \in HandlerAt \ {"yielded"} /\ Top(c).at # "yielded"
      BY ONLY <2>2, <3>1, <3>3, Zenon DEF Shape, HandlerAt
    <3>7. QED
      BY ONLY <1>2, <2>2, <3>2, <3>4, <3>5, <3>6, Zenon DEF Moves
  <2>4. \A p \in Threads : ~Visits(Top(c), p)
    BY Zenon, <1>1, <1>3 DEF Visits
  <2>5. g.at \notin {"sleep", "asleep"}
    BY <2>2
  <2>6. Watches(Top(c), g, current[c])
    BY <2>4, <2>5, Zenon DEF Watches
  <2>7. QED
    BY <1>0, <1>1, <2>1, <2>2, <2>3, <2>6, ProcSame, Move
<1>4. CASE todo # {}
  <2>1. todo \subseteq Threads
    BY <1>0, FrameIs
  <2>2. q \in todo
    BY <1>4, Zenon DEF NextOf
  <2>3. PICK g : SetTop(c, g) /\ g = [Top(c) EXCEPT !.at = "wakeup", !.op = "acquire", !.lk = q, !.todo = todo \ {q}]
    BY <1>4, Zenon DEF WakeNext
  <2>4. g \in Frame /\ g.at = "wakeup" /\ g.op = "acquire" /\ g.lk = q /\ g.todo = todo \ {q}
    BY <1>0, <2>1, <2>2, <2>3, Zenon DEF Frame, SpinLocks
  <2>5. q \in Threads
    BY <2>1, <2>2, Zenon
  <2>6. \A p \in Threads : Visits(Top(c), p) => Visits(g, p)
    BY ONLY <1>1, <2>4, Zenon DEF Visits
  <2> HIDE DEF q, todo
  <2>7. Moves(Top(c), g, current[c], Len(frames[current[c]]) = 2)
    BY ONLY <1>1, <1>2, <2>4, <2>5, TrapAssumption
       DEF Moves, Shape, Depth, Count, Holds, Owns, Has, TickAt, OwnAt, PickAt, HandlerAt, CallAt
  <2>8. g.at \notin {"sleep", "asleep"}
    BY <2>4
  <2>9. Watches(Top(c), g, current[c])
    BY <2>6, <2>8, Zenon DEF Watches
  <2>10. QED
    BY <1>0, <1>1, <2>3, <2>4, <2>7, <2>9, ProcSame, Move
<1>5. QED
  BY <1>3, <1>4

\* A process that has made up its mind to sleep holds its lock, or tickslock.
LEMMA DozesLocked ==
  ASSUME TrapInv, NEW p \in Threads, frames[p][1].at \in {"sleep", "asleep"}
  PROVE  \E d \in Harts : current[d] = p /\ (HoldsAt(d, p) \/ HoldsAt(d, Tickslock))
<1>1. pstate[p] = "RUNNING"
  <2>1. frames[p][1].at \notin {"fork", "slept", "yielded", "zombie"} /\ ThreadOK(p)
    BY DEF TrapInv, ThreadInv
  <2>2. QED
    BY <2>1, Zenon DEF ThreadOK
<1>2. PICK d \in Harts : current[d] = p
  BY <1>1, Zenon DEF TrapInv, ThreadInv, ThreadOK
<1>3. Top(d) = frames[p][1] /\ Top(d) \in Frame /\ Shape(Top(d), p)
  BY <1>2, Runs, Zenon DEF TrapInv
<1>4. Top(d).op \in Ops
  BY ONLY <1>3, FrameIs
<1>5. Holds(Top(d), p, p) \/ Holds(Top(d), p, Tickslock)
  BY <1>3, <1>4, TrapAssumption, Zenon DEF Holds, Has, Shape, TickAt, OwnAt, PickAt, Ops
<1>6. QED
  BY <1>2, <1>3, <1>5, Zenon DEF HoldsAt

LEMMA StepWakeOne ==
  ASSUME TrapInv, TickInv, NEW c \in Harts, WakeOne(c)
  PROVE  TrapInv' /\ TickInv'
<1> PICK q : q = Top(c).lk
  OBVIOUS
<1>0. Top(c) \in Frame /\ StackInv /\ ThreadInv /\ LockInv
  BY Runs, Zenon DEF TrapInv
<1>1. /\ Top(c).at = "wakeup" /\ Top(c).op = "none" /\ Call(c, "release", q, "wake") /\ q = Top(c).lk
      /\ pstate' = [pstate EXCEPT ![q] = IF @ = "SLEEPING" THEN "RUNNABLE" ELSE @]
      /\ UNCHANGED <<hartVars, current, lockVars, saved, wanted, ticks0, doomed, ticks, trapPanic>>
  BY DEF WakeOne, AtLabel
<1>2. Len(frames[current[c]]) = 2
  BY ONLY <1>0, <1>1, Where DEF HandlerAt
<1>3. q \in Threads
  BY Zenon, <1>0, <1>1, Runs DEF Shape, PickAt
<1>4. PICK g : SetTop(c, g) /\ g = [Top(c) EXCEPT !.at = "wake", !.op = "release", !.lk = q]
  BY <1>1, Zenon DEF Call
<1>5. g \in Frame /\ g.at = "wake" /\ g.op = "release" /\ g.lk = q /\ g.todo = Top(c).todo
  BY <1>0, <1>3, <1>4, Zenon DEF Frame, SpinLocks
<1>6. Moves(Top(c), g, current[c], Len(frames[current[c]]) = 2)
  <2>1. Top(c).at = "wakeup" /\ Top(c).op = "none" /\ Top(c).lk = q
    BY <1>1, Zenon
  <2>2. Depth(Top(c)) = 2
    BY ONLY <2>1 DEF Depth, Count
  <2>3. Depth(g) = 2
    BY ONLY <1>5 DEF Depth, Count, TickAt
  <2>4. Shape(g, current[c]) /\ g.op # "off" /\ g.at \in HandlerAt \ {"yielded"} /\ Top(c).at # "yielded"
    BY ONLY <1>3, <1>5, <2>1, Zenon DEF Shape, HandlerAt, PickAt, OwnAt
  <2>5. \A l \in SpinLocks : /\ Holds(g, current[c], l) <=> l = Tickslock \/ l = q
                             /\ Owns(g, current[c], l) <=> l = Tickslock \/ l = q
    BY ONLY <1>5, Zenon DEF Holds, Owns, Has, TickAt, OwnAt, PickAt
  <2>6. \A l \in SpinLocks : /\ Holds(Top(c), current[c], l) <=> l = Tickslock \/ l = q
                             /\ Owns(Top(c), current[c], l) <=> l = Tickslock \/ l = q
    BY ONLY <2>1, Zenon DEF Holds, Owns, Has, TickAt, OwnAt, PickAt
  <2>7. QED
    BY ONLY <1>2, <2>2, <2>3, <2>4, <2>5, <2>6, Zenon DEF Moves
<1>7. /\ pstate' \in [Threads -> {"RUNNABLE", "RUNNING", "SLEEPING", "ZOMBIE"}] /\ pstate'[q] # "SLEEPING"
      /\ \A p \in Threads : pstate'[p] = pstate[p] \/ (pstate[p] = "SLEEPING" /\ pstate'[p] = "RUNNABLE")
  BY <1>0, <1>1, <1>3 DEF ThreadInv
<1>8. ProcStep(current[c])
  <2>1. saved' = saved /\ wanted' = wanted /\ ticks0' = ticks0 /\ doomed' = doomed /\ ticks' = ticks
    BY <1>1
  <2>2. QED
    BY <1>0, <1>7, <2>1, Zenon DEF ProcStep, ProcTypes, ThreadInv
\* The process has not yet to fall asleep, since then it would hold a lock that c holds.
<1>9. frames[q][1].at \notin {"sleep", "asleep"}
  <2>1. SUFFICES ASSUME frames[q][1].at \in {"sleep", "asleep"} PROVE FALSE
    OBVIOUS
  <2>2. PICK d \in Harts : current[d] = q /\ (HoldsAt(d, q) \/ HoldsAt(d, Tickslock))
    BY <1>3, <2>1, DozesLocked
  <2>3. HoldsAt(c, q) /\ HoldsAt(c, Tickslock)
    <3>1. Holds(Top(c), current[c], q) /\ Holds(Top(c), current[c], Tickslock)
      BY <1>1, Zenon DEF Holds, Has, TickAt, PickAt
    <3>2. Top(c) = frames[current[c]][1]
      BY <1>0, Runs, Zenon
    <3>3. QED
      BY <3>1, <3>2, Zenon DEF HoldsAt
  <2>4. d = c
    BY <1>0, <1>3, <2>2, <2>3, Zenon DEF LockInv, SpinLocks
  <2>5. Top(c).at \in {"sleep", "asleep"}
    BY <1>0, <2>1, <2>2, <2>4, Runs, Zenon
  <2>6. QED
    BY <1>1, <2>5
<1>10. ~Dozing(q)'
  <2> DEFINE s == <<g>> \o Tail(frames[current[c]])
  <2>1. Stack(c, s)
    BY <1>1, <1>4, Zenon DEF SetTop, Stack
  <2>2. frames[current[c]] \in Seq(Frame) /\ Len(frames[current[c]]) \in {1, 2} /\ q \in Contexts
    BY <1>0, <1>3, Runs, Zenon DEF Contexts
  <2>3. s[1] = g
    BY <1>5, <2>2, Stacks
  <2> HIDE DEF s
  <2>4. frames'[current[c]] = s /\ \A k \in Contexts \ {current[c]} : frames'[k] = frames[k]
    BY <1>0, <2>1, StackIs, Zenon
  <2>5. g.at \notin {"sleep", "asleep"}
    BY <1>5
  <2>6. frames'[q][1].at \notin {"sleep", "asleep"}
    <3>1. CASE q = current[c]
      BY <2>3, <2>4, <2>5, <3>1, Zenon
    <3>2. CASE q # current[c]
      <4>1. frames'[q] = frames[q]
        BY <2>2, <2>4, <3>2, Zenon
      <4>2. QED
        BY <1>9, <4>1, Zenon
    <3>3. QED
      BY <3>1, <3>2, Zenon
  <2>7. QED
    BY <1>7, <2>6, Zenon DEF Dozing
<1>11. Watches(Top(c), g, current[c])
  <2>1. g.at \notin {"sleep", "asleep"}
    BY <1>5
  <2>2. ASSUME NEW p \in Threads, Visits(Top(c), p), Dozing(p)' PROVE Visits(g, p)
    <3>1. p # q
      BY <1>10, <2>2, Zenon
    <3>2. p \in Top(c).todo
      BY <1>1, <2>2, <3>1, Zenon DEF Visits
    <3>3. QED
      BY <1>5, <3>2, Zenon DEF Visits
  <2>3. QED
    BY <2>1, <2>2, Zenon DEF Watches
<1>12. QED
  BY <1>1, <1>4, <1>5, <1>6, <1>8, <1>11, Move

\* The tick: everybody but the interrupted process is still to be visited.
LEMMA StepTick ==
  ASSUME TrapInv, TickInv, NEW c \in Harts, Tick(c)
  PROVE  TrapInv' /\ TickInv'
<1>0. Top(c) \in Frame /\ StackInv /\ ThreadInv /\ LockInv /\ ~trapPanic /\ Top(c) = frames[current[c]][1]
  BY Runs, Zenon DEF TrapInv
<1>1. /\ Top(c).at = "tick" /\ Top(c).op = "none" /\ ticks' = (ticks + 1) % TICKMOD
      /\ UNCHANGED <<hartVars, current, lockVars, procVars, trapPanic>>
  BY DEF Tick, AtLabel
<1>2. Len(frames[current[c]]) = 2
  BY <1>0, <1>1, Where DEF HandlerAt
<1>3. PICK g : SetTop(c, g) /\ g = [Top(c) EXCEPT !.at = "wake", !.todo = Threads \ {current[c]}]
  BY Zenon DEF Tick
<1>4. g \in Frame /\ g.at = "wake" /\ g.op = "none" /\ g.lk = Top(c).lk /\ g.todo = Threads \ {current[c]}
  BY <1>0, <1>1, <1>3, Zenon DEF Frame
<1>5. Moves(Top(c), g, current[c], Len(frames[current[c]]) = 2)
  BY Zenon, <1>1, <1>2, <1>4
     DEF Moves, Shape, Depth, Count, Holds, Owns, Has, TickAt, OwnAt, PickAt, HandlerAt, CallAt
<1>6. StackInv' /\ \E s \in Seq(Frame) : Stack(c, s) /\ s[1] = g
  <2>1. Len(frames[current[c]]) # 1 /\ g.op # "off" /\ UNCHANGED <<hartVars, current>>
    BY <1>1, <1>2, <1>4
  <2>2. QED
    BY <1>0, <1>2, <1>3, <1>4, <1>5, <2>1, MoveStack, ZenonT(60) DEF Moves
<1>7. PICK s \in Seq(Frame) : Stack(c, s) /\ s[1] = g
  BY <1>6, Zenon
<1>8. LockInv'
  BY <1>0, <1>1, <1>5, <1>7, LocksKept, Zenon DEF Moves, HoldsAt, OwnsAt
<1>9. pstate' = pstate /\ saved' = saved /\ wanted' = wanted /\ ticks0' = ticks0 /\ doomed' = doomed
  BY <1>1 DEF procVars
<1>10. ProcTypes'
  <2>1. ticks' \in 0..TICKMOD - 1
    BY ONLY <1>0, <1>1, TrapAssumption DEF ThreadInv
  <2>2. QED
    BY <1>0, <1>9, <2>1, Zenon DEF ThreadInv, ProcTypes
<1>11. ThreadInv'
  <2>1. g.at \notin {"zombie", "slept", "yielded"}
    BY <1>4
  <2>2. QED
    BY <1>0, <1>7, <1>9, <1>10, <2>1, ThreadsKept, Zenon
<1>12. TickInv'
  <2>1. frames'[current'[c]] = s /\ frames'[current[c]] = s
    BY <1>0, <1>7, StackIs, Zenon
  <2>2. ASSUME NEW p \in Threads, Dozing(p)' PROVE Visits(frames'[current'[c]][1], p)
    <3>1. p # current[c]
      <4>1. SUFFICES ASSUME p = current[c] PROVE FALSE
        OBVIOUS
      <4>2. pstate[p] = "RUNNING"
        BY <1>0, <4>1, Zenon DEF ThreadInv, ThreadOK
      <4>3. pstate'[p] # "SLEEPING"
        BY ONLY <1>9, <4>2
      <4>4. frames'[p][1].at \notin {"sleep", "asleep"}
        BY Zenon, <1>4, <1>7, <2>1, <4>1
      <4>5. QED
        BY <2>2, <4>3, <4>4, Zenon DEF Dozing
    <3>2. QED
      BY <1>4, <1>7, <2>1, <3>1 DEF Visits
  <2>3. QED
    BY <2>2, Zenon DEF TickInv
<1>13. QED
  BY <1>0, <1>1, <1>6, <1>8, <1>11, <1>12, Zenon DEF TrapInv

\* A step that changes the registers of its hart.
LEMMA Turn ==
  ASSUME TrapInv, TickInv, NEW c \in Harts, NEW s \in Seq(Frame), Stack(c, s), Sound(s, current[c]), Registers(c),
         Fits(s[1], Len(s) = 2, sie'[c], noff'[c], intena'[c]), UNCHANGED lockVars, ~trapPanic',
         \A l \in SpinLocks : /\ Holds(s[1], current[c], l) <=> Holds(Top(c), current[c], l)
                              /\ Owns(s[1], current[c], l) <=> Owns(Top(c), current[c], l),
         ProcStep(current[c]), Watches(Top(c), s[1], current[c]),
         current[c] \in Threads => s[1].at \notin {"zombie", "slept", "yielded"}
  PROVE  TrapInv' /\ TickInv'
<1>0. StackInv /\ ThreadInv /\ LockInv /\ Top(c) = frames[current[c]][1]
  BY Runs, Zenon DEF TrapInv
<1>1. StackInv'
  BY <1>0, StackStep, Zenon
<1>2. LockInv'
  BY <1>0, LocksKept, Zenon DEF HoldsAt, OwnsAt
<1>3. ThreadInv' /\ TickInv'
  BY <1>0, MoveProcs, Zenon
<1>4. QED
  BY <1>1, <1>2, <1>3, Zenon DEF TrapInv

\* The same for a step that keeps the height of the stack.
LEMMA TurnTop ==
  ASSUME TrapInv, TickInv, NEW c \in Harts, NEW g \in Frame, SetTop(c, g), current' = current, Registers(c),
         Shape(g, current[c]),
         Len(frames[current[c]]) = 1 => g.at \in BottomAt(current[c]),
         Len(frames[current[c]]) = 2 => g.at \in HandlerAt,
         Fits(g, Len(frames[current[c]]) = 2, sie'[c], noff'[c], intena'[c]), UNCHANGED lockVars, ~trapPanic',
         \A l \in SpinLocks : /\ Holds(g, current[c], l) <=> Holds(Top(c), current[c], l)
                              /\ Owns(g, current[c], l) <=> Owns(Top(c), current[c], l),
         ProcStep(current[c]), Watches(Top(c), g, current[c]),
         current[c] \in Threads => g.at \notin {"zombie", "slept", "yielded"}
  PROVE  TrapInv' /\ TickInv'
<1>0. StackInv /\ ThreadInv /\ LockInv /\ Top(c) = frames[current[c]][1]
  BY Runs, Zenon DEF TrapInv
<1>1. StackInv' /\ \E s \in Seq(Frame) : Stack(c, s) /\ s[1] = g
  BY <1>0, TopStep, Zenon
<1>2. PICK s \in Seq(Frame) : Stack(c, s) /\ s[1] = g
  BY <1>1, Zenon
<1>3. LockInv'
  BY <1>0, <1>2, LocksKept, Zenon DEF HoldsAt, OwnsAt
<1>4. ThreadInv' /\ TickInv'
  BY <1>0, <1>2, MoveProcs, Zenon
<1>5. QED
  BY <1>1, <1>3, <1>4, Zenon DEF TrapInv

\* A change of hart c's sie.
LEMMA SieSet ==
  ASSUME StackInv, NEW c \in Harts, NEW b \in BOOLEAN, sie' = [sie EXCEPT ![c] = b], UNCHANGED <<noff, intena>>
  PROVE  Registers(c) /\ sie'[c] = b /\ noff'[c] = noff[c] /\ intena'[c] = intena[c]
<1>1. sie' \in [Harts -> BOOLEAN] /\ sie'[c] = b /\ \A d \in Harts \ {c} : sie'[d] = sie[d]
  BY Zenon DEF StackInv, RegisterTypes
<1>2. noff' = noff /\ intena' = intena
  OBVIOUS
<1>3. QED
  BY <1>1, <1>2, Zenon DEF Registers, StackInv, RegisterTypes

LEMMA StepIntrOn ==
  ASSUME TrapInv, TickInv, NEW c \in Harts, IntrOn(c)
  PROVE  TrapInv' /\ TickInv'
<1>0. Top(c) \in Frame /\ StackInv /\ ThreadInv /\ ~trapPanic
  BY Runs, Zenon DEF TrapInv
<1>1. /\ Top(c).at = "idle" /\ Top(c).op = "none" /\ Continue(c, "on") /\ sie' = [sie EXCEPT ![c] = TRUE]
      /\ UNCHANGED <<noff, intena, current, lockVars, procVars, ticks, trapPanic>>
  BY DEF IntrOn, AtLabel
<1>2. Len(frames[current[c]]) = 1 /\ current[c] = c /\ c \notin Threads
  BY <1>0, <1>1, Where, Zenon DEF SchedAt
<1>3. PICK g : SetTop(c, g) /\ g = [Top(c) EXCEPT !.at = "on"]
  BY <1>1, Zenon DEF Continue
<1>4. g \in Frame /\ g.at = "on" /\ g.op = "none" /\ g.lk = Top(c).lk
  BY <1>0, <1>1, <1>3, Zenon DEF Frame
<1>5. /\ Shape(g, current[c]) /\ Depth(g) = Depth(Top(c)) /\ Depth(g) = 0 /\ g.at \in BottomAt(current[c])
      /\ \A l \in SpinLocks : /\ Holds(g, current[c], l) <=> Holds(Top(c), current[c], l)
                              /\ Owns(g, current[c], l) <=> Owns(Top(c), current[c], l)
  <2>1. g.op = "none" /\ g.at \notin TickAt /\ g.at \notin OwnAt /\ g.at \notin PickAt
    BY ONLY <1>4, Zenon DEF TickAt, OwnAt, PickAt
  <2>2. Top(c).op = "none" /\ Top(c).at \notin TickAt /\ Top(c).at \notin OwnAt /\ Top(c).at \notin PickAt
    BY ONLY <1>1, Zenon DEF TickAt, OwnAt, PickAt
  <2>3. /\ Shape(g, current[c]) /\ Depth(g) = 0
        /\ \A l \in SpinLocks : ~Holds(g, current[c], l) /\ ~Owns(g, current[c], l)
    BY ONLY <2>1, Lockless, Zenon
  <2>4. /\ Depth(Top(c)) = 0
        /\ \A l \in SpinLocks : ~Holds(Top(c), current[c], l) /\ ~Owns(Top(c), current[c], l)
    BY ONLY <2>2, Lockless, Zenon
  <2>5. g.at \in BottomAt(current[c])
    BY ONLY <1>2, <1>4, Zenon DEF BottomAt, SchedAt
  <2>6. QED
    BY ONLY <2>3, <2>4, <2>5, Zenon
<1>6. Registers(c) /\ sie'[c] = TRUE /\ noff'[c] = noff[c] /\ intena'[c] = intena[c]
  BY Zenon, <1>0, <1>1, SieSet
<1>7. noff[c] = 0
  BY Zenon, <1>0, <1>5, Runs DEF Fits
<1>8. Fits(g, Len(frames[current[c]]) = 2, sie'[c], noff'[c], intena'[c])
  <2>1. ~(Len(frames[current[c]]) = 2) /\ ~(noff'[c] > 0) /\ noff'[c] = Depth(g)
    <3>1. ~(Len(frames[current[c]]) = 2)
      BY ONLY <1>2
    <3>2. noff'[c] = 0 /\ noff'[c] = Depth(g)
      BY ONLY <1>5, <1>6, <1>7, Zenon
    <3>3. ~(noff'[c] > 0)
      BY ONLY <3>2
    <3>4. QED
      BY ONLY <3>1, <3>2, <3>3, Zenon
  <2>2. g.at \notin CallAt /\ g.op # "off"
    BY <1>4, Zenon DEF CallAt
  <2>3. QED
    BY <2>1, <2>2, Zenon DEF Fits
<1>9. Watches(Top(c), g, current[c]) /\ ProcStep(current[c])
  BY <1>0, <1>1, <1>4, WatchesNone, ProcSame
<1>10. Len(frames[current[c]]) # 2 /\ current[c] \notin Threads /\ ~trapPanic' /\ UNCHANGED <<current, lockVars>>
  BY <1>0, <1>1, <1>2
<1>11. QED
  BY <1>3, <1>4, <1>5, <1>6, <1>8, <1>9, <1>10, TurnTop, Zenon

LEMMA StepIntrOff ==
  ASSUME TrapInv, TickInv, NEW c \in Harts, IntrOff(c)
  PROVE  TrapInv' /\ TickInv'
<1>0. Top(c) \in Frame /\ StackInv /\ ThreadInv /\ ~trapPanic
  BY Runs, Zenon DEF TrapInv
<1>1. /\ Top(c).at = "on" /\ Top(c).op = "none" /\ sie' = [sie EXCEPT ![c] = FALSE]
      /\ UNCHANGED <<noff, intena, current, lockVars, procVars, ticks, trapPanic>>
  BY DEF IntrOff, AtLabel
<1>2. Len(frames[current[c]]) = 1 /\ current[c] = c /\ c \notin Threads
  BY <1>0, <1>1, Where DEF SchedAt
<1>3. PICK g : SetTop(c, g) /\ g = [Top(c) EXCEPT !.at = "scan", !.todo = Threads]
  BY Zenon DEF IntrOff
<1>4. g \in Frame /\ g.at = "scan" /\ g.op = "none" /\ g.lk = Top(c).lk
  BY <1>0, <1>1, <1>3, Zenon DEF Frame
<1>5. /\ Shape(g, current[c]) /\ Depth(g) = Depth(Top(c)) /\ Depth(g) = 0 /\ g.at \in BottomAt(current[c])
      /\ \A l \in SpinLocks : /\ Holds(g, current[c], l) <=> Holds(Top(c), current[c], l)
                              /\ Owns(g, current[c], l) <=> Owns(Top(c), current[c], l)
  <2>1. g.op = "none" /\ g.at \notin TickAt /\ g.at \notin OwnAt /\ g.at \notin PickAt
    BY ONLY <1>4, Zenon DEF TickAt, OwnAt, PickAt
  <2>2. Top(c).op = "none" /\ Top(c).at \notin TickAt /\ Top(c).at \notin OwnAt /\ Top(c).at \notin PickAt
    BY ONLY <1>1, Zenon DEF TickAt, OwnAt, PickAt
  <2>3. /\ Shape(g, current[c]) /\ Depth(g) = 0
        /\ \A l \in SpinLocks : ~Holds(g, current[c], l) /\ ~Owns(g, current[c], l)
    BY ONLY <2>1, Lockless, Zenon
  <2>4. /\ Depth(Top(c)) = 0
        /\ \A l \in SpinLocks : ~Holds(Top(c), current[c], l) /\ ~Owns(Top(c), current[c], l)
    BY ONLY <2>2, Lockless, Zenon
  <2>5. g.at \in BottomAt(current[c])
    BY ONLY <1>2, <1>4, Zenon DEF BottomAt, SchedAt
  <2>6. QED
    BY ONLY <2>3, <2>4, <2>5, Zenon
<1>6. Registers(c) /\ sie'[c] = FALSE /\ noff'[c] = noff[c] /\ intena'[c] = intena[c]
  BY Zenon, <1>0, <1>1, SieSet
<1>7. noff[c] = 0
  BY Zenon, <1>0, <1>5, Runs DEF Fits
<1>8. Fits(g, Len(frames[current[c]]) = 2, sie'[c], noff'[c], intena'[c])
  <2>1. ~(Len(frames[current[c]]) = 2) /\ ~(noff'[c] > 0) /\ noff'[c] = Depth(g)
    <3>1. ~(Len(frames[current[c]]) = 2)
      BY ONLY <1>2
    <3>2. noff'[c] = 0 /\ noff'[c] = Depth(g)
      BY ONLY <1>5, <1>6, <1>7, Zenon
    <3>3. ~(noff'[c] > 0)
      BY ONLY <3>2
    <3>4. QED
      BY ONLY <3>1, <3>2, <3>3, Zenon
  <2>2. g.at \notin CallAt /\ g.op # "off"
    BY <1>4, Zenon DEF CallAt
  <2>3. QED
    BY <2>1, <2>2, Zenon DEF Fits
<1>9. Watches(Top(c), g, current[c]) /\ ProcStep(current[c])
  BY <1>0, <1>1, <1>4, WatchesNone, ProcSame
<1>10. Len(frames[current[c]]) # 2 /\ current[c] \notin Threads /\ ~trapPanic' /\ UNCHANGED <<current, lockVars>>
  BY <1>0, <1>1, <1>2
<1>11. QED
  BY <1>3, <1>4, <1>5, <1>6, <1>8, <1>9, <1>10, TurnTop, Zenon

LEMMA StepReturnToUser ==
  ASSUME TrapInv, TickInv, NEW c \in Harts, ReturnToUser(c)
  PROVE  TrapInv' /\ TickInv'
<1>0. Top(c) \in Frame /\ StackInv /\ ThreadInv /\ ~trapPanic
  BY Runs, Zenon DEF TrapInv
<1>1. /\ Top(c).at \in {"first", "done"} /\ Top(c).op = "none"
      /\ UNCHANGED <<noff, intena, current, lockVars, procVars, ticks, trapPanic>>
  BY DEF ReturnToUser, AtLabel
<1>2. Len(frames[current[c]]) = 1 /\ current[c] \in Threads
  BY <1>0, <1>1, Where DEF ThreadAt
<1>3. CASE Top(c).at = "done" /\ doomed[current[c]]
  <2>1. Call(c, "acquire", current[c], "exit") /\ UNCHANGED sie
    BY <1>3, Zenon DEF ReturnToUser
  <2>2. ASSUME NEW g \in Frame, g.at = "exit", g.op = "acquire", g.lk = current[c]
        PROVE  Moves(Top(c), g, current[c], Len(frames[current[c]]) = 2)
    <3>1. Top(c).at = "done" /\ Top(c).op = "none" /\ current[c] \in Threads
      BY <1>1, <1>2, <1>3, Zenon
    <3>2. Shape(g, current[c]) /\ g.op # "off" /\ g.at \in BottomAt(current[c]) \ {"zombie", "slept", "yielded"}
      BY ONLY <2>2, <3>1, Zenon DEF Shape, PickAt, OwnAt, BottomAt, ThreadAt
    <3>3. Depth(g) = 0
      BY ONLY <2>2 DEF Depth, Count, TickAt, OwnAt
    <3>4. \A l \in SpinLocks : ~Holds(g, current[c], l)
      BY <2>2, <3>2, <3>3, NothingHeld, Zenon
    <3>5. Top(c).op = "none" /\ Top(c).at \notin TickAt /\ Top(c).at \notin OwnAt /\ Top(c).at \notin PickAt
      BY ONLY <3>1, Zenon DEF TickAt, OwnAt, PickAt
    <3>6. /\ Depth(Top(c)) = 0
          /\ \A l \in SpinLocks : ~Holds(Top(c), current[c], l) /\ ~Owns(Top(c), current[c], l)
      BY ONLY <3>5, Lockless, Zenon
    <3>7. ~(Len(frames[current[c]]) = 2) /\ g.at \notin CallAt
      BY ONLY <1>2, <2>2 DEF CallAt
    <3>8. QED
      BY ONLY <3>2, <3>3, <3>4, <3>6, <3>7, Zenon DEF Moves, Owns
  <2>3. /\ "exit" \in Ats /\ "acquire" \in Ops /\ current[c] \in SpinLocks /\ Top(c).at \notin {"wake", "wakeup"}
        /\ UNCHANGED <<hartVars, current, lockVars, procVars, ticks, trapPanic>>
    BY <1>1, <1>2, <2>1 DEF Ats, ThreadAt, Ops, SpinLocks, hartVars
  <2>4. QED
    BY <2>1, <2>2, <2>3, CallMove
<1>4. CASE ~(Top(c).at = "done" /\ doomed[current[c]])
  <2>1. sie' = [sie EXCEPT ![c] = TRUE] /\ Continue(c, "user")
    BY <1>4, Zenon DEF ReturnToUser
  <2>2. PICK g : SetTop(c, g) /\ g = [Top(c) EXCEPT !.at = "user"]
    BY <2>1, Zenon DEF Continue
  <2>3. g \in Frame /\ g.at = "user" /\ g.op = "none" /\ g.lk = Top(c).lk
    BY <1>0, <1>1, <2>2, Zenon DEF Frame
  <2>4. /\ Shape(g, current[c]) /\ Depth(g) = Depth(Top(c)) /\ Depth(g) = 0 /\ g.at \in BottomAt(current[c])
        /\ \A l \in SpinLocks : /\ Holds(g, current[c], l) <=> Holds(Top(c), current[c], l)
                                /\ Owns(g, current[c], l) <=> Owns(Top(c), current[c], l)
    <3>1. Shape(g, current[c]) /\ g.at \in BottomAt(current[c])
      BY <1>2, <2>3, Zenon DEF Shape, PickAt, OwnAt, BottomAt, ThreadAt
    <3>2. Depth(g) = 0 /\ Depth(Top(c)) = 0
      BY ONLY <1>1, <2>3 DEF Depth, Count, TickAt, OwnAt, PickAt
    <3>3. \A l \in SpinLocks : ~Holds(g, current[c], l)
      BY <2>3, <3>1, <3>2, NothingHeld, Zenon
    <3>4. \A l \in SpinLocks : ~Holds(Top(c), current[c], l)
      BY <1>0, <3>2, NothingHeld, Runs, Zenon
    <3>5. QED
      BY <3>1, <3>2, <3>3, <3>4, Zenon DEF Owns
  <2>5. Registers(c) /\ sie'[c] = TRUE /\ noff'[c] = noff[c] /\ intena'[c] = intena[c]
    BY Zenon, <1>0, <1>1, <2>1, SieSet
  <2>6. noff[c] = 0
    BY Zenon, <1>0, <2>4, Runs DEF Fits
  <2>7. Fits(g, Len(frames[current[c]]) = 2, sie'[c], noff'[c], intena'[c])
    <3>1. ~(Len(frames[current[c]]) = 2) /\ ~(noff'[c] > 0) /\ noff'[c] = Depth(g) /\ g.op # "off"
      BY ONLY <1>2, <2>3, <2>4, <2>5, <2>6
    <3>2. QED
      BY <2>5, <3>1, ZenonT(60) DEF Fits
  <2>8. Watches(Top(c), g, current[c]) /\ ProcStep(current[c])
    BY <1>0, <1>1, <2>3, WatchesNone, ProcSame
  <2>9. /\ Len(frames[current[c]]) # 2 /\ g.at \notin {"zombie", "slept", "yielded"}
        /\ ~trapPanic' /\ UNCHANGED <<current, lockVars>>
    BY <1>0, <1>1, <1>2, <2>3
  <2>10. QED
    BY <2>2, <2>3, <2>4, <2>5, <2>7, <2>8, <2>9, TurnTop, Zenon
<1>5. QED
  BY <1>3, <1>4

LEMMA DepthNat ==
  ASSUME NEW f \in Frame, NEW k, Shape(f, k)
  PROVE  /\ Depth(f) >= 0
         /\ Depth(f) = 0 => f.at \notin {"sleep", "asleep", "slept", "zombie", "fork", "yielded"}
<1>1. f.at \in Ats /\ f.op \in Ops /\ Count(f) \in 0..2
  BY FrameIs
<1>2. CASE f.op \in {"acquire", "off"}
  BY <1>1, <1>2 DEF Depth, Count, Shape, TickAt, OwnAt, PickAt
<1>3. CASE f.op \notin {"acquire", "off"}
  BY <1>1, <1>3 DEF Depth, Count, TickAt, OwnAt, PickAt
<1>4. QED
  BY <1>2, <1>3

\* An interrupt strikes code that holds nothing.
LEMMA StepInterrupt ==
  ASSUME TrapInv, TickInv, NEW c \in Harts, Interrupt(c)
  PROVE  TrapInv' /\ TickInv'
<1> DEFINE k == current[c]
           f == Top(c)
<1>0. f \in Frame /\ StackInv /\ ThreadInv /\ ~trapPanic
  BY Runs, Zenon DEF TrapInv
<1>1. /\ frames[k] \in Seq(Frame) /\ Len(frames[k]) \in {1, 2} /\ f = frames[k][1] /\ Shape(f, k)
      /\ Fits(f, Len(frames[k]) = 2, sie[c], noff[c], intena[c])
      /\ Len(frames[k]) = 1 => f.at \in BottomAt(k)
  BY <1>0, Runs, Zenon
<1>2. sie[c] /\ sie' = [sie EXCEPT ![c] = FALSE] /\ UNCHANGED <<noff, intena, current, lockVars, procVars, ticks, trapPanic>>
  BY Zenon DEF Interrupt
<1>3. Len(frames[k]) = 1 /\ noff[c] = 0 /\ Depth(f) = 0 /\ (f.op = "off" => f.old)
  <2>1. Depth(f) >= 0 /\ Depth(f) \in Int
    BY Zenon, <1>0, <1>1, DepthNat, FrameIs
  <2>2. noff[c] = Depth(f) /\ ~(noff[c] > 0) /\ ~(Len(frames[k]) = 2) /\ (f.op = "off" => f.old = sie[c])
    BY <1>1, <1>2, Zenon DEF Fits
  <2>3. f.op = "off" => f.old
    BY <1>2, <2>2, Zenon
  <2> HIDE DEF k, f
  <2>4. Len(frames[k]) = 1
    BY <1>1, <2>2, Zenon
  <2>5. QED
    BY ONLY <2>1, <2>2, <2>3, <2>4
<1>4. PICK g : /\ g = [at |-> "intr", op |-> "none", lk |-> Tickslock, old |-> FALSE, todo |-> {}]
               /\ frames' = [frames EXCEPT ![k] = <<g>> \o @]
  BY Zenon DEF Interrupt
<1>5. g \in Frame /\ g.at = "intr" /\ g.op = "none"
  BY <1>4, Zenon DEF Frame, SpinLocks
<1>6. PICK s \in Seq(Frame) : Stack(c, s) /\ Len(s) = 2 /\ s[1] = g /\ s[2] = f
  <2>1. /\ <<g>> \o frames[k] \in Seq(Frame) /\ Len(<<g>> \o frames[k]) = 2
        /\ (<<g>> \o frames[k])[1] = g /\ (<<g>> \o frames[k])[2] = frames[k][1]
    BY <1>1, <1>3, <1>5, Pushed, Zenon
  <2>2. Stack(c, <<g>> \o frames[k])
    BY <1>2, <1>4, Zenon DEF Stack
  <2>3. QED
    BY <1>1, <2>1, <2>2, Zenon
<1> HIDE DEF k, f
<1>7. Shape(g, k) /\ Depth(g) = 0 /\ \A l \in SpinLocks : ~Holds(g, k, l)
  <2>1. g.op = "none" /\ g.at \notin TickAt /\ g.at \notin OwnAt /\ g.at \notin PickAt
    BY ONLY <1>5, Zenon DEF TickAt, OwnAt, PickAt
  <2>2. QED
    BY ONLY <2>1, Lockless, Zenon
<1>8. \A l \in SpinLocks : ~Holds(f, k, l)
  BY ONLY Zenon, <1>0, <1>1, <1>3, NothingHeld
<1>9. Sound(s, k)
  BY ONLY <1>1, <1>3, <1>5, <1>6, <1>7, Zenon DEF Sound, HandlerAt
<1>10. Registers(c) /\ sie'[c] = FALSE /\ noff'[c] = noff[c] /\ intena'[c] = intena[c]
  BY <1>0, <1>2, SieSet, Zenon
<1>11. Fits(s[1], Len(s) = 2, sie'[c], noff'[c], intena'[c])
  <2>1. noff'[c] = 0 /\ noff'[c] = Depth(s[1]) /\ ~sie'[c] /\ s[1].op # "off"
    BY ONLY <1>3, <1>5, <1>6, <1>7, <1>10, Zenon
  <2>2. ~(noff'[c] > 0)
    BY ONLY <2>1
  <2>3. ~(~(Len(s) = 2) /\ s[1].at \in CallAt)
    BY ONLY <1>5, <1>6, Zenon DEF CallAt
  <2>4. QED
    BY ONLY <2>1, <2>2, <2>3, Zenon DEF Fits
<1>12. f.at \notin {"wake", "wakeup"}
  BY ONLY <1>1, <1>3, Zenon DEF BottomAt, ThreadAt, SchedAt
<1>13. Watches(f, g, k) /\ ProcStep(k)
  BY <1>0, <1>2, <1>5, <1>12, WatchesNone, ProcSame
<1>14. ~trapPanic' /\ UNCHANGED lockVars /\ g.at \notin {"zombie", "slept", "yielded"}
  BY <1>0, <1>2, <1>5
<1>15. QED
  BY <1>6, <1>7, <1>8, <1>9, <1>10, <1>11, <1>13, <1>14, Turn, Zenon DEF Owns, k, f

LEMMA StepReturnFromTrap ==
  ASSUME TrapInv, TickInv, NEW c \in Harts, ReturnFromTrap(c)
  PROVE  TrapInv' /\ TickInv'
<1> DEFINE k == current[c]
           f == Top(c)
<1>0. f \in Frame /\ StackInv /\ ThreadInv /\ ~trapPanic
  BY Runs, Zenon DEF TrapInv
<1>1. /\ f.at = "iret" /\ f.op = "none" /\ frames' = [frames EXCEPT ![k] = Tail(@)] /\ sie' = [sie EXCEPT ![c] = TRUE]
      /\ UNCHANGED <<noff, intena, current, lockVars, procVars, ticks, trapPanic>>
  BY DEF ReturnFromTrap, AtLabel
<1>2. Len(frames[k]) = 2 /\ frames[k] \in Seq(Frame) /\ k \in Contexts /\ Shape(f, k)
  <2>1. Len(frames[k]) = 2
    BY <1>0, <1>1, Where, Zenon DEF HandlerAt
  <2>2. QED
    BY <1>0, <2>1, Runs, Zenon
<1>3. PICK u \in Frame : u = frames[k][2]
  BY <1>2
<1>4. u.at \in BottomAt(k) /\ Shape(u, k) /\ Depth(u) = 0 /\ (u.op = "off" => u.old)
  BY <1>0, <1>2, <1>3, Zenon DEF StackInv, Sound
<1>5. PICK s \in Seq(Frame) : Stack(c, s) /\ Len(s) = 1 /\ s[1] = u
  <2>1. Tail(frames[k]) \in Seq(Frame) /\ Len(Tail(frames[k])) = 1 /\ Tail(frames[k])[1] = frames[k][2]
    BY <1>2, Popped, Zenon
  <2>2. Stack(c, Tail(frames[k]))
    BY <1>1, Zenon DEF Stack
  <2>3. QED
    BY <1>3, <2>1, <2>2, Zenon
<1> HIDE DEF k, f
<1>6. Depth(f) = 0
  BY <1>1 DEF Depth, Count, TickAt, OwnAt, PickAt
<1>7. (\A l \in SpinLocks : ~Holds(f, k, l)) /\ \A l \in SpinLocks : ~Holds(u, k, l)
  BY ONLY Zenon, <1>0, <1>2, <1>4, <1>6, NothingHeld
<1>8. Sound(s, k)
  BY ONLY <1>4, <1>5 DEF Sound
<1>9. Registers(c) /\ sie'[c] = TRUE /\ noff'[c] = noff[c] /\ intena'[c] = intena[c]
  BY <1>0, <1>1, SieSet, Zenon
<1>10. noff[c] = 0
  BY <1>0, <1>6, Runs, Zenon DEF Fits, f
<1>11. Fits(s[1], Len(s) = 2, sie'[c], noff'[c], intena'[c])
  <2>1. u.old \in BOOLEAN
    BY FrameIs
  <2>2. ~(Len(s) = 2) /\ noff'[c] = 0 /\ ~(noff'[c] > 0)
    BY <1>5, <1>9, <1>10
  <2>3. u.op = "off" => u.old = sie'[c]
    BY Zenon, <1>4, <1>9, <2>1
  <2>4. QED
    BY <1>4, <1>5, <1>9, <2>2, <2>3, Zenon DEF Fits
<1>12. u.at \notin {"sleep", "asleep", "zombie", "slept", "yielded"}
  BY <1>4, DepthNat
<1>13. Watches(f, u, k) /\ ProcStep(k)
  BY <1>0, <1>1, <1>12, WatchesNone, ProcSame
<1>14. ~trapPanic' /\ UNCHANGED lockVars /\ u.at \notin {"zombie", "slept", "yielded"}
  BY <1>0, <1>1, <1>12
<1>15. QED
  BY <1>5, <1>7, <1>8, <1>9, <1>11, <1>13, <1>14, Turn, Zenon DEF Owns, k, f

\* The end of a timer interrupt: back, to exit() or to yield().
LEMMA StepTimerYield ==
  ASSUME TrapInv, TickInv, NEW c \in Harts, TimerYield(c)
  PROVE  TrapInv' /\ TickInv'
<1> DEFINE k == current[c]
<1>0. Top(c) \in Frame /\ StackInv /\ ThreadInv /\ ~trapPanic
  BY Runs, Zenon DEF TrapInv
<1>1. Top(c).at = "yield" /\ Top(c).op = "none" /\ UNCHANGED <<hartVars, current, lockVars, procVars, ticks, trapPanic>>
  BY DEF TimerYield, AtLabel
<1>2. Len(frames[k]) = 2
  BY <1>0, <1>1, Where DEF HandlerAt
<1>3. CASE Continue(c, "iret")
  <2>1. ASSUME NEW g \in Frame, g.at = "iret", g.op = "none"
        PROVE  Moves(Top(c), g, k, Len(frames[k]) = 2)
    BY Zenon, <1>1, <1>2, <2>1
       DEF Moves, Shape, Depth, Count, Holds, Owns, Has, TickAt, OwnAt, PickAt, HandlerAt, CallAt
  <2>2. "iret" \in Ats
    BY Zenon DEF Ats, HandlerAt
  <2>3. QED
    BY <1>1, <1>3, <2>1, <2>2, ContinueMove
<1>4. CASE k \in Threads /\ Call(c, "acquire", k, "yielding")
  <2>1. ASSUME NEW g \in Frame, g.at = "yielding", g.op = "acquire", g.lk = k
        PROVE  Moves(Top(c), g, k, Len(frames[k]) = 2)
    <3>1. Len(frames[k]) = 2 /\ k \in Threads
      BY <1>2, <1>4, Zenon
    <3> HIDE DEF k
    <3>2. Shape(g, k) /\ g.op # "off" /\ g.at \in HandlerAt \ {"yielded"} /\ Top(c).at # "yielded"
      BY <1>1, <2>1, <3>1 DEF Shape, PickAt, OwnAt, HandlerAt
    <3>3. Depth(g) = 0 /\ Depth(Top(c)) = 0
      BY <1>1, <2>1 DEF Depth, Count, TickAt, OwnAt, PickAt
    <3>4. \A l \in SpinLocks : ~Holds(g, k, l)
      BY <3>2, <3>3, NothingHeld, Zenon
    <3>5. \A l \in SpinLocks : ~Holds(Top(c), k, l)
      BY <1>0, <3>3, NothingHeld, Runs, Zenon DEF k
    <3>6. QED
      BY <3>1, <3>2, <3>3, <3>4, <3>5, Zenon DEF Moves, Owns
  <2>2. "yielding" \in Ats /\ "acquire" \in Ops /\ k \in SpinLocks
    BY <1>4 DEF Ats, HandlerAt, Ops, SpinLocks
  <2>3. QED
    BY <1>1, <1>4, <2>1, <2>2, CallMove
<1>5. CASE /\ k \in Threads
           /\ frames' = [frames EXCEPT ![k] = <<[Top(c) EXCEPT !.at = "exit", !.op = "acquire", !.lk = k]>>]
  <2>1. PICK g : g = [Top(c) EXCEPT !.at = "exit", !.op = "acquire", !.lk = k] /\ frames' = [frames EXCEPT ![k] = <<g>>]
    BY <1>5, Zenon
  <2>2. g \in Frame /\ g.at = "exit" /\ g.op = "acquire" /\ g.lk = k
    BY <1>0, <1>5, <2>1, Zenon DEF Frame, SpinLocks
  <2>3. PICK s \in Seq(Frame) : Stack(c, s) /\ Len(s) = 1 /\ s[1] = g
    <3>1. <<g>> \in Seq(Frame) /\ Len(<<g>>) = 1 /\ <<g>>[1] = g
      BY <2>2
    <3>2. Stack(c, <<g>>)
      BY <1>1, <2>1, Zenon DEF Stack
    <3>3. QED
      BY <3>1, <3>2, Zenon
  <2>4. k \in Threads
    BY ONLY <1>5
  <2> HIDE DEF k
  <2>5. /\ Shape(g, k) /\ Depth(g) = 0 /\ Depth(Top(c)) = 0 /\ g.at \in BottomAt(k)
        /\ \A l \in SpinLocks : ~Holds(g, k, l) /\ ~Holds(Top(c), k, l)
    <3>1. Shape(g, k) /\ g.at \in BottomAt(k)
      BY ONLY <2>2, <2>4, Zenon DEF Shape, PickAt, OwnAt, BottomAt, ThreadAt
    <3>2. Depth(g) = 0
      BY ONLY <2>2 DEF Depth, Count, TickAt, OwnAt
    <3>3. \A l \in SpinLocks : ~Holds(g, k, l)
      BY <2>2, <3>1, <3>2, NothingHeld, Zenon
    <3>4. Top(c).op = "none" /\ Top(c).at \notin TickAt /\ Top(c).at \notin OwnAt /\ Top(c).at \notin PickAt
      BY ONLY <1>1, Zenon DEF TickAt, OwnAt, PickAt
    <3>5. Depth(Top(c)) = 0 /\ \A l \in SpinLocks : ~Holds(Top(c), k, l)
      BY ONLY <3>4, Lockless, Zenon
    <3>6. QED
      BY ONLY <3>1, <3>2, <3>3, <3>5, Zenon
  <2>6. Sound(s, k)
    BY ONLY <2>3, <2>5 DEF Sound
  <2>7. sie' = sie /\ noff' = noff /\ intena' = intena
    BY <1>1 DEF hartVars
  <2>8. Registers(c)
    BY <1>0, <2>7, Zenon DEF Registers, StackInv, RegisterTypes
  <2>9. noff'[c] = 0
    BY <1>0, <2>5, <2>7, Runs, Zenon DEF Fits
  <2>10. Fits(s[1], Len(s) = 2, sie'[c], noff'[c], intena'[c])
    <3>1. ~(Len(s) = 2) /\ ~(noff'[c] > 0) /\ g.at \notin CallAt /\ g.op # "off"
      BY <2>2, <2>3, <2>9 DEF CallAt
    <3>2. QED
      BY <2>3, <2>5, <2>9, <3>1, Zenon DEF Fits
  <2>11. Watches(Top(c), g, k) /\ ProcStep(k)
    BY <1>0, <1>1, <2>2, WatchesNone, ProcSame
  <2>12. ~trapPanic' /\ UNCHANGED lockVars /\ g.at \notin {"zombie", "slept", "yielded"}
    BY <1>0, <1>1, <2>2
  <2>13. QED
    BY <2>3, <2>5, <2>6, <2>8, <2>10, <2>11, <2>12, Turn, Zenon DEF Owns, k
<1>6. QED
  BY <1>3, <1>4, <1>5, Zenon DEF TimerYield

\* A process that has come back takes its own intena, whatever the hart had.
LEMMA ComesBack ==
  ASSUME TrapInv, TickInv, NEW c \in Harts, NEW a, ReturnFromSched(c, a), Top(c).op = "none",
         \/ Top(c).at = "slept" /\ a = "again"
         \/ Top(c).at = "yielded" /\ a = "iret"
  PROVE  TrapInv' /\ TickInv'
<1> DEFINE k == current[c]
<1>0. /\ Top(c) \in Frame /\ StackInv /\ ThreadInv /\ ~trapPanic /\ Shape(Top(c), k) /\ k \in Contexts
      /\ Len(frames[k]) \in {1, 2} /\ Fits(Top(c), Len(frames[k]) = 2, sie[c], noff[c], intena[c])
      /\ Top(c) = frames[k][1]
  BY Runs, Zenon DEF TrapInv
<1>1. /\ intena' = [intena EXCEPT ![c] = saved[k]] /\ saved' = [saved EXCEPT ![k] = FALSE]
      /\ Call(c, "release", k, a)
      /\ UNCHANGED <<sie, noff, current, lockVars, pstate, wanted, ticks0, doomed, ticks, trapPanic>>
  BY DEF ReturnFromSched
<1>2. k \in Threads
  BY <1>0, Zenon DEF Shape, OwnAt
<1>3. /\ Top(c).at = "slept" => Len(frames[k]) = 1
      /\ Top(c).at = "yielded" => Len(frames[k]) = 2
  BY <1>0, Where, Zenon DEF ThreadAt, HandlerAt
<1>4. (Top(c).at = "slept" => saved[k]) /\ (Top(c).at = "yielded" => ~saved[k]) /\ saved[k] \in BOOLEAN
  <2>1. ThreadOK(k) /\ saved[k] \in BOOLEAN
    BY <1>0, <1>2, Zenon DEF ThreadInv
  <2>2. QED
    BY <1>0, <2>1, Zenon DEF ThreadOK
<1>5. PICK g : SetTop(c, g) /\ g = [Top(c) EXCEPT !.at = a, !.op = "release", !.lk = k]
  BY <1>1, Zenon DEF Call
<1>6. g \in Frame /\ g.at = a /\ g.op = "release" /\ g.lk = k
  BY <1>0, <1>2, <1>5, Zenon DEF Frame, SpinLocks
<1> HIDE DEF k
<1>7. /\ Shape(g, k) /\ Depth(g) = 1 /\ Depth(Top(c)) = 1
      /\ \A l \in SpinLocks : /\ Holds(g, k, l) <=> Holds(Top(c), k, l)
                              /\ Owns(g, k, l) <=> Owns(Top(c), k, l)
  <2>1. Top(c).op = "none" /\ Top(c).at \in OwnOnly
    BY DEF OwnOnly
  <2>2. /\ Depth(Top(c)) = 1
        /\ \A l \in SpinLocks : (Holds(Top(c), k, l) <=> l = k) /\ (Owns(Top(c), k, l) <=> l = k)
    BY ONLY <2>1, OwnLock, Zenon
  <2>3. g.at \in {"again", "iret"} /\ g.op = "release" /\ g.lk = k /\ k \in Threads
    BY <1>2, <1>6
  <2>4. Shape(g, k) /\ g.at \notin TickAt /\ g.at \notin OwnAt /\ g.at \notin PickAt
    BY ONLY <2>3, Zenon DEF Shape, TickAt, OwnAt, PickAt
  <2>5. /\ Depth(g) = 1
        /\ \A l \in SpinLocks : (Holds(g, k, l) <=> l = g.lk) /\ (Owns(g, k, l) <=> l = g.lk)
    BY ONLY <2>3, <2>4, Releasing, Zenon
  <2>6. QED
    BY ONLY <2>2, <2>3, <2>4, <2>5, Zenon
<1>8. (Len(frames[k]) = 1 => g.at \in BottomAt(k)) /\ (Len(frames[k]) = 2 => g.at \in HandlerAt)
  BY <1>2, <1>3, <1>6 DEF BottomAt, ThreadAt, HandlerAt
<1>9. /\ Registers(c) /\ sie'[c] = sie[c] /\ noff'[c] = noff[c] /\ intena'[c] = saved[k]
  <2>1. sie' = sie /\ noff' = noff
    BY <1>1
  <2>2. intena' \in [Harts -> BOOLEAN] /\ intena'[c] = saved[k] /\ \A d \in Harts \ {c} : intena'[d] = intena[d]
    BY <1>0, <1>1, <1>4, Zenon DEF StackInv, RegisterTypes
  <2>3. QED
    BY <1>0, <2>1, <2>2, Zenon DEF Registers, StackInv, RegisterTypes
<1>10. Fits(g, Len(frames[k]) = 2, sie'[c], noff'[c], intena'[c])
  <2>1. noff[c] = 1 /\ ~sie[c]
    <3>1. noff[c] = 1 /\ (noff[c] > 0 => ~sie[c])
      BY <1>0, <1>7, Zenon DEF Fits
    <3>2. noff[c] > 0
      BY ONLY <3>1
    <3>3. QED
      BY ONLY <3>1, <3>2, Zenon
  <2>2. noff'[c] = Depth(g) /\ noff'[c] # 0 /\ ~sie'[c] /\ g.op # "off" /\ intena'[c] = saved[k]
    <3>1. noff'[c] = 1 /\ noff'[c] = Depth(g) /\ ~sie'[c] /\ g.op # "off" /\ intena'[c] = saved[k]
      BY ONLY <1>6, <1>7, <1>9, <2>1, Zenon
    <3>2. noff'[c] # 0
      BY ONLY <3>1
    <3>3. QED
      BY ONLY <3>1, <3>2, Zenon
  <2>3. CASE Top(c).at = "slept"
    <3>1. ~(Len(frames[k]) = 2) /\ saved[k]
      BY <1>3, <1>4, <2>3
    <3>2. QED
      BY <2>2, <3>1, Zenon DEF Fits
  <2>4. CASE Top(c).at = "yielded"
    <3>1. Len(frames[k]) = 2 /\ ~saved[k]
      BY <1>3, <1>4, <2>4, Zenon
    <3>2. QED
      BY <2>2, <3>1, Zenon DEF Fits
  <2>5. QED
    BY <2>3, <2>4, Zenon
<1>11. Watches(Top(c), g, k)
  BY <1>6, WatchesNone
<1>12. ProcStep(k)
  <2>1. saved' \in [Threads -> BOOLEAN] /\ \A p \in Threads : p # k => saved'[p] = saved[p]
    BY <1>0, <1>1, <1>2, Zenon DEF ThreadInv
  <2>2. pstate' = pstate /\ wanted' = wanted /\ ticks0' = ticks0 /\ doomed' = doomed /\ ticks' = ticks
    BY <1>1
  <2>3. QED
    BY <1>0, <2>1, <2>2, Zenon DEF ProcStep, ProcTypes, ThreadInv
<1>13. ~trapPanic' /\ UNCHANGED <<lockVars, current>> /\ g.at \notin {"zombie", "slept", "yielded"}
  BY Zenon, <1>0, <1>1, <1>6
<1>14. QED
  BY <1>5, <1>6, <1>7, <1>8, <1>9, <1>10, <1>11, <1>12, <1>13, TurnTop, Zenon DEF k

LEMMA StepComesBack ==
  ASSUME TrapInv, TickInv, NEW c \in Harts, Slept(c) \/ Yielded(c)
  PROVE  TrapInv' /\ TickInv'
BY ComesBack DEF Slept, Yielded, AtLabel

\* Hart c leaves a context, whose stack becomes s, for context j.  The locks of the
\* one are the locks of the other.
LEMMA Switch ==
  ASSUME StackInv, LockInv, NEW c \in Harts, NEW s \in Seq(Frame), NEW j \in Contexts,
         frames' = [frames EXCEPT ![current[c]] = s], current' = [current EXCEPT ![c] = j],
         UNCHANGED <<hartVars, lockVars>>,
         \A d \in Harts : current[d] # j, j \in Threads \cup {c}, j # c => current[c] = c /\ Parked(s, j),
         Sound(s, current[c]), Fits(frames[j][1], Len(frames[j]) = 2, sie[c], noff[c], intena[c]),
         \A l \in SpinLocks : /\ Holds(frames[j][1], j, l) <=> HoldsAt(c, l)
                              /\ Owns(frames[j][1], j, l) <=> OwnsAt(c, l)
  PROVE  /\ StackInv' /\ LockInv'
         /\ frames'[current[c]] = s /\ \A k \in Contexts \ {current[c]} : frames'[k] = frames[k]
         /\ current'[c] = j /\ \A d \in Harts \ {c} : current'[d] = current[d] /\ frames'[current'[d]] = frames[current[d]]
<1>1. /\ current[c] \in Contexts /\ current[c] \in Threads \cup {c} /\ j # current[c]
      /\ \A d \in Harts \ {c} : current[d] \in Contexts \ {current[c]}
  BY Zenon DEF StackInv, HartOK
<1>2. /\ frames'[current[c]] = s /\ \A k \in Contexts \ {current[c]} : frames'[k] = frames[k]
      /\ frames' \in [Contexts -> Seq(Frame)]
  BY <1>1, Zenon DEF StackInv
<1>3. /\ current'[c] = j /\ \A d \in Harts \ {c} : current'[d] = current[d]
      /\ current' \in [Harts -> Contexts]
  BY Zenon DEF StackInv
<1>4. /\ frames'[current'[c]] = frames[j]
      /\ \A d \in Harts \ {c} : frames'[current'[d]] = frames[current[d]]
  BY <1>1, <1>2, <1>3, Zenon
<1>5. sie' = sie /\ noff' = noff /\ intena' = intena /\ locked' = locked /\ owner' = owner
  BY Zenon DEF hartVars, lockVars
<1>6. \A k \in Contexts : Sound(frames'[k], k)
  BY <1>2, Zenon DEF StackInv
<1>7. ASSUME NEW d \in Harts PROVE HartOK(d)'
  <2>1. CASE d = c
    <3>1. j # c => Parked(frames'[c], j)
      BY <1>2, Zenon
    <3>2. QED
      BY <1>3, <1>4, <1>5, <2>1, <3>1, Zenon DEF HartOK
  <2>2. CASE d # c
    <3>1. d \in Contexts /\ d # current[c]
      BY Zenon, <1>1, <2>2, TrapAssumption DEF Contexts
    <3>2. frames'[d] = frames[d] /\ current'[d] = current[d] /\ frames'[current'[d]] = frames[current[d]]
      BY <1>2, <1>3, <1>4, <2>2, <3>1, Zenon
    <3>3. HartOK(d)
      BY Zenon DEF StackInv
    <3>4. QED
      BY <1>5, <3>2, <3>3, Zenon DEF HartOK
  <2>3. QED
    BY Zenon, <2>1, <2>2
<1>8. \A d, x \in Harts : current'[d] = current'[x] => d = x
  BY <1>3, Zenon DEF StackInv
<1>9. StackInv'
  BY <1>2, <1>3, <1>5, <1>6, <1>7, <1>8, Zenon DEF StackInv, RegisterTypes
<1>10. ASSUME NEW l \in SpinLocks, NEW d \in Harts
       PROVE  (HoldsAt(d, l)' <=> HoldsAt(d, l)) /\ (OwnsAt(d, l)' <=> OwnsAt(d, l))
  <2>1. CASE d = c
    <3>1. (HoldsAt(c, l)' <=> Holds(frames[j][1], j, l)) /\ (OwnsAt(c, l)' <=> Owns(frames[j][1], j, l))
      BY <1>3, <1>4, Zenon DEF HoldsAt, OwnsAt
    <3>2. QED
      BY <2>1, <3>1, Zenon
  <2>2. CASE d # c
    BY <1>3, <1>4, <2>2, Zenon DEF HoldsAt, OwnsAt
  <2>3. QED
    BY Zenon, <2>1, <2>2
<1>11. LockInv'
  BY <1>5, <1>10, ZenonT(60) DEF LockInv
<1>12. QED
  BY <1>2, <1>3, <1>4, <1>9, <1>11, Zenon

\* What a switch leaves of the sleepers.
LEMMA SwitchTicks ==
  ASSUME StackInv, TickInv, NEW c \in Harts, UNCHANGED <<wanted, ticks0, ticks>>,
         \A p \in Threads : Dozing(p)' => Dozing(p),
         \A p \in Threads : ~Visits(Top(c), p),
         \A d \in Harts \ {c} : frames'[current'[d]] = frames[current[d]]
  PROVE  TickInv'
<1>1. Top(c) = frames[current[c]][1]
  BY Runs, Zenon
<1>2. wanted' = wanted /\ ticks0' = ticks0 /\ ticks' = ticks
  BY Zenon
<1>3. \A p : Elapsed(p)' = Elapsed(p)
  BY <1>2, Zenon DEF Elapsed
<1>4. ASSUME NEW p \in Threads, Dozing(p)'
      PROVE  Elapsed(p)' < wanted'[p] \/ \E d \in Harts : Visits(frames'[current'[d]][1], p)
  <2>1. Elapsed(p) < wanted[p] \/ \E d \in Harts : Visits(frames[current[d]][1], p)
    BY <1>4, Zenon DEF TickInv
  <2>2. CASE Elapsed(p) < wanted[p]
    BY <1>2, <1>3, <2>2, Zenon
  <2>3. CASE \E d \in Harts : Visits(frames[current[d]][1], p)
    <3>1. PICK d \in Harts : Visits(frames[current[d]][1], p)
      BY <2>3, Zenon
    <3>2. d # c
      BY <1>1, <3>1, Zenon
    <3>3. QED
      BY <3>1, <3>2, Zenon
  <2>4. QED
    BY Zenon, <2>1, <2>2, <2>3
<1>5. QED
  BY <1>4, Zenon DEF TickInv

\* sched(): the process leaves the hart to the scheduler, with p->lock.
LEMMA Leaves ==
  ASSUME TrapInv, TickInv, NEW c \in Harts, NEW t, NEW a, Sched(c, current[c], t, a), Top(c).op = "none",
         \/ Top(c).at = "asleep" /\ t = "SLEEPING" /\ a = "slept"
         \/ Top(c).at = "yielding" /\ t = "RUNNABLE" /\ a = "yielded"
         \/ Top(c).at = "exit" /\ t = "ZOMBIE" /\ a = "zombie"
  PROVE  TrapInv' /\ TickInv'
<1> PICK k : k = current[c]
  OBVIOUS
<1> PICK f : f = Top(c)
  OBVIOUS
<1>0. /\ f \in Frame /\ StackInv /\ ThreadInv /\ LockInv /\ ~trapPanic /\ Shape(f, k) /\ k \in Contexts
      /\ frames[k] \in Seq(Frame) /\ Len(frames[k]) \in {1, 2} /\ f = frames[k][1]
      /\ Fits(f, Len(frames[k]) = 2, sie[c], noff[c], intena[c])
  BY Zenon, Runs DEF TrapInv
<1>1. /\ trapPanic' = (~holding(c, k) \/ noff[c] # 1 \/ sie[c])
      /\ pstate' = [pstate EXCEPT ![k] = t] /\ saved' = [saved EXCEPT ![k] = intena[c]]
      /\ current' = [current EXCEPT ![c] = c] /\ Continue(c, a)
      /\ UNCHANGED <<hartVars, lockVars, wanted, ticks0, doomed, ticks>>
  BY Zenon DEF Sched
<1>2. f.at \in {"asleep", "yielding", "exit"} /\ f.op = "none" /\ a \in {"slept", "yielded", "zombie"}
  OBVIOUS
<1>3. k \in Threads /\ c \notin Threads /\ c # k /\ c \in Contexts
  BY Zenon, <1>0, <1>2, TrapAssumption DEF Shape, OwnAt, Contexts
<1>4. (f.at \in {"asleep", "exit"} => Len(frames[k]) = 1) /\ (f.at = "yielding" => Len(frames[k]) = 2)
  BY Zenon, <1>0, Where DEF ThreadAt, HandlerAt
<1>5. PICK g : SetTop(c, g) /\ g = [f EXCEPT !.at = a]
  BY <1>1, Zenon DEF Continue
<1>6. g \in Frame /\ g.at = a /\ g.op = "none"
  BY <1>0, <1>2, <1>5, Zenon DEF Frame
<1>7. PICK s \in Seq(Frame) : /\ frames' = [frames EXCEPT ![current[c]] = s] /\ Len(s) = Len(frames[k]) /\ s[1] = g
                              /\ Len(frames[k]) = 2 => s[2] = frames[k][2]
  <2> DEFINE z == <<g>> \o Tail(frames[k])
  <2>1. z \in Seq(Frame) /\ Len(z) = Len(frames[k]) /\ z[1] = g /\ (Len(frames[k]) = 2 => z[2] = frames[k][2])
    BY Zenon, <1>0, <1>6, Stacks
  <2>2. frames' = [frames EXCEPT ![current[c]] = z]
    BY <1>5, Zenon DEF SetTop
  <2>3. QED
    BY <2>1, <2>2, Zenon
<1>8. Shape(g, k) /\ (Len(s) = 1 => g.at \in BottomAt(k)) /\ (Len(s) = 2 => g.at \in HandlerAt)
  <2>1. Shape(g, k)
    BY ONLY <1>2, <1>3, <1>6, Zenon DEF Shape, PickAt
  <2>2. k \in Threads /\ (Len(s) = 1 => g.at \in {"slept", "zombie"}) /\ (Len(s) = 2 => g.at = "yielded")
    BY <1>3, <1>4, <1>6, <1>7
  <2>3. QED
    BY ONLY <2>1, <2>2, Zenon DEF BottomAt, ThreadAt, HandlerAt
<1>9. Sound(s, k)
  <2>1. Sound(frames[k], k)
    BY <1>0, Zenon DEF StackInv
  <2>2. QED
    BY <1>7, <1>8, <2>1, Zenon DEF Sound
<1>10. /\ Depth(f) = 1
       /\ \A l \in SpinLocks : (Holds(f, k, l) <=> l = k) /\ (Owns(f, k, l) <=> l = k)
  <2>1. f.at \in OwnOnly /\ f.op = "none"
    BY <1>2 DEF OwnOnly
  <2>2. QED
    BY ONLY <2>1, OwnLock, Zenon
<1>11. PICK u \in Frame : u = frames[c][1] /\ Len(frames[c]) = 1 /\ u.at = "back" /\ u.op = "none" /\ u.lk = k
  <2>1. Parked(frames[c], k) /\ frames[c] \in Seq(Frame)
    BY <1>0, <1>3, Zenon DEF StackInv, HartOK
  <2>2. frames[c][1] \in Frame
    BY ONLY <2>1 DEF Parked
  <2>3. QED
    BY <2>1, <2>2, Zenon DEF Parked
<1>12. /\ Depth(u) = 1 /\ u.at \notin CallAt
       /\ \A l \in SpinLocks : (Holds(u, c, l) <=> l = k) /\ (Owns(u, c, l) <=> l = k)
  <2>1. u.at \notin CallAt
    BY <1>11 DEF CallAt
  <2>2. u.at \in {"try", "back"} /\ u.op = "none"
    BY <1>11, Zenon
  <2>3. /\ Depth(u) = 1
        /\ \A l \in SpinLocks : (Holds(u, c, l) <=> l = u.lk) /\ (Owns(u, c, l) <=> l = u.lk)
    BY ONLY <2>2, PickLock, Zenon
  <2>4. QED
    BY <1>11, <2>1, <2>3, Zenon
<1>13. noff[c] = 1 /\ ~sie[c] /\ (f.at = "asleep" => intena[c]) /\ (f.at = "yielding" => ~intena[c])
  <2>1. noff[c] = 1 /\ noff[c] > 0 /\ noff[c] # 0
    <3>1. noff[c] = 1
      BY ONLY <1>0, <1>10, Zenon DEF Fits
    <3>2. QED
      BY ONLY <3>1
  <2>2. /\ f.at = "asleep" => ~(Len(frames[k]) = 2) /\ f.at \in CallAt
        /\ f.at = "yielding" => Len(frames[k]) = 2 /\ f.at # "yielded"
    BY ONLY <1>4 DEF CallAt
  <2>3. QED
    BY <1>0, <2>1, <2>2, Zenon DEF Fits
<1>14. ~trapPanic'
  <2>1. k \in SpinLocks /\ HoldsAt(c, k) /\ OwnsAt(c, k)
    BY <1>0, <1>3, <1>10, Zenon DEF HoldsAt, OwnsAt, SpinLocks
  <2>2. locked[k] /\ owner[k] = c
    <3>1. (\E d \in Harts : HoldsAt(d, k)) => locked[k]
      BY <1>0, <2>1, Zenon DEF LockInv
    <3>2. \A d \in Harts : owner[k] = d <=> OwnsAt(d, k)
      BY <1>0, <2>1, Zenon DEF LockInv
    <3>3. QED
      BY <2>1, <3>1, <3>2, Zenon
  <2>3. QED
    BY Zenon, <1>1, <1>13, <2>2 DEF holding
<1>15. \A d \in Harts : current[d] # c
  <2>1. \A d \in Harts : current[d] \in Threads \cup {d}
    BY <1>0, Zenon DEF StackInv, HartOK
  <2>2. QED
    BY <1>3, <2>1, Zenon
<1>16. Fits(u, Len(frames[c]) = 2, sie[c], noff[c], intena[c])
  <2>1. ~(Len(frames[c]) = 2) /\ noff[c] = Depth(u) /\ ~sie[c] /\ u.op # "off"
    <3>1. Len(frames[c]) = 1 /\ noff[c] = Depth(u) /\ ~sie[c] /\ u.op # "off"
      BY ONLY <1>11, <1>12, <1>13, Zenon
    <3>2. QED
      BY ONLY <3>1
  <2>2. QED
    BY <1>12, <2>1, Zenon DEF Fits
<1>17. \A l \in SpinLocks : /\ Holds(frames[c][1], c, l) <=> HoldsAt(c, l)
                            /\ Owns(frames[c][1], c, l) <=> OwnsAt(c, l)
  BY <1>0, <1>10, <1>11, <1>12, Zenon DEF HoldsAt, OwnsAt
<1>18. /\ StackInv' /\ LockInv'
       /\ frames'[k] = s /\ \A x \in Contexts \ {k} : frames'[x] = frames[x]
       /\ current'[c] = c /\ \A d \in Harts \ {c} : current'[d] = current[d] /\ frames'[current'[d]] = frames[current[d]]
  <2>1. UNCHANGED <<hartVars, lockVars>> /\ c \in Threads \cup {c} /\ (c # c => current[c] = c /\ Parked(s, c))
    BY Zenon, <1>1
  <2>2. Fits(frames[c][1], Len(frames[c]) = 2, sie[c], noff[c], intena[c]) /\ Sound(s, current[c])
    BY <1>9, <1>11, <1>16, Zenon
  <2>3. /\ StackInv' /\ LockInv'
        /\ frames'[current[c]] = s /\ \A x \in Contexts \ {current[c]} : frames'[x] = frames[x]
        /\ current'[c] = c /\ \A d \in Harts \ {c} : current'[d] = current[d] /\ frames'[current'[d]] = frames[current[d]]
    BY <1>0, <1>1, <1>3, <1>7, <1>15, <1>17, <2>1, <2>2, Switch, Zenon
  <2>4. QED
    BY <2>3, Zenon
<1>19. /\ pstate' \in [Threads -> {"RUNNABLE", "RUNNING", "SLEEPING", "ZOMBIE"}] /\ pstate'[k] = t
       /\ \A p \in Threads : p # k => pstate'[p] = pstate[p]
       /\ saved' \in [Threads -> BOOLEAN] /\ saved'[k] = intena[c] /\ \A p \in Threads : p # k => saved'[p] = saved[p]
  <2>1. t \in {"RUNNABLE", "RUNNING", "SLEEPING", "ZOMBIE"} /\ intena[c] \in BOOLEAN
    BY <1>0, Zenon DEF StackInv, RegisterTypes
  <2>2. QED
    BY <1>0, <1>1, <1>3, <2>1, Zenon DEF ThreadInv
<1>20. ASSUME NEW p \in Threads PROVE ThreadOK(p)'
  <2>1. CASE p = k
    <3>1. ~ \E d \in Harts : current'[d] = p
      <4>1. \A d \in Harts : d # c => current[d] # k
        BY <1>0, Zenon DEF StackInv
      <4>2. QED
        BY <1>3, <1>18, <2>1, <4>1, Zenon
    <3>2. frames'[p][1] = g
      BY <1>7, <1>18, <2>1, Zenon
    <3>3. pstate'[p] = t /\ saved'[p] = intena[c]
      BY <1>19, <2>1, Zenon
    <3>4. (a = "slept" => f.at = "asleep" /\ t = "SLEEPING") /\ (a = "yielded" => f.at = "yielding") /\ (a = "zombie" <=> t = "ZOMBIE")
          /\ (t = "SLEEPING" => a = "slept") /\ t # "RUNNING"
      OBVIOUS
    <3>5. (a = "slept" => intena[c]) /\ (a = "yielded" => ~intena[c])
      BY Zenon, <1>13, <3>4
    <3>6. QED
      BY <1>2, <1>6, <3>1, <3>2, <3>3, <3>4, <3>5, Zenon DEF ThreadOK
  <2>2. CASE p # k
    <3>1. frames'[p] = frames[p] /\ pstate'[p] = pstate[p] /\ saved'[p] = saved[p]
      BY <1>18, <1>19, <2>2, Zenon DEF Contexts
    <3>2. (\E d \in Harts : current'[d] = p) <=> (\E d \in Harts : current[d] = p)
      BY <1>3, <1>18, <2>2, Zenon
    <3>3. ThreadOK(p)
      BY <1>0, Zenon DEF ThreadInv
    <3>4. QED
      BY <3>1, <3>2, <3>3, Zenon DEF ThreadOK
  <2>3. QED
    BY ONLY <2>1, <2>2
<1>21. wanted' = wanted /\ ticks0' = ticks0 /\ doomed' = doomed /\ ticks' = ticks
  BY Zenon, <1>1
<1>22. ThreadInv'
  BY <1>0, <1>19, <1>20, <1>21, Zenon DEF ThreadInv
<1>23. ASSUME NEW p \in Threads, Dozing(p)' PROVE Dozing(p)
  <2>1. CASE p = k
    <3>1. pstate'[p] = t /\ frames'[p][1].at = a
      BY <1>6, <1>7, <1>18, <1>19, <2>1, Zenon
    <3>2. t = "SLEEPING"
      BY ONLY <1>2, <1>23, <3>1 DEF Dozing
    <3>3. frames[p][1].at = "asleep"
      BY Zenon, <1>0, <2>1, <3>2
    <3>4. QED
      BY <3>3, Zenon DEF Dozing
  <2>2. CASE p # k
    <3>1. frames'[p] = frames[p] /\ pstate'[p] = pstate[p]
      BY <1>18, <1>19, <2>2, Zenon DEF Contexts
    <3>2. QED
      BY <1>23, <3>1, Zenon DEF Dozing
  <2>3. QED
    BY <2>1, <2>2
<1>24. \A p \in Threads : ~Visits(Top(c), p)
  BY Zenon DEF Visits
<1>25. TickInv'
  BY <1>0, <1>18, <1>21, <1>23, <1>24, SwitchTicks, Zenon
<1>26. QED
  BY <1>14, <1>18, <1>22, <1>25, Zenon DEF TrapInv

LEMMA StepLeaves ==
  ASSUME TrapInv, TickInv, NEW c \in Harts, FallAsleep(c) \/ Yielding(c) \/ Exit(c)
  PROVE  TrapInv' /\ TickInv'
BY Leaves DEF FallAsleep, Yielding, Exit, AtLabel

\* The scheduler gives the hart, with p->lock, to a process that no other hart runs.
LEMMA Enters ==
  ASSUME TrapInv, TickInv, NEW c \in Harts, NEW p, p = Top(c).lk, Top(c).at = "try", Top(c).op = "none",
         pstate[p] = "RUNNABLE", pstate' = [pstate EXCEPT ![p] = "RUNNING"], current' = [current EXCEPT ![c] = p],
         Continue(c, "back"), UNCHANGED <<hartVars, lockVars, saved, wanted, ticks0, doomed, ticks, trapPanic>>
  PROVE  TrapInv' /\ TickInv'
<1> PICK f : f = Top(c)
  OBVIOUS
<1>0. f \in Frame /\ StackInv /\ ThreadInv /\ LockInv /\ ~trapPanic /\ Shape(f, current[c])
  BY Runs, Zenon DEF TrapInv
<1>1. current[c] = c /\ c \notin Threads /\ Len(frames[c]) = 1
  BY <1>0, Where DEF SchedAt
<1>2. /\ frames[c] \in Seq(Frame) /\ f = frames[c][1] /\ c \in Contexts
      /\ Fits(f, Len(frames[c]) = 2, sie[c], noff[c], intena[c])
  BY <1>0, <1>1, Runs, Zenon
<1>3. p \in Threads /\ p \in SpinLocks /\ p \in Contexts /\ f.at = "try" /\ f.op = "none" /\ f.lk = p
  BY <1>0, Zenon DEF Shape, PickAt, SpinLocks, Contexts
<1>4. PICK g : SetTop(c, g) /\ g = [f EXCEPT !.at = "back"]
  BY Zenon DEF Continue
<1>5. g \in Frame /\ g.at = "back" /\ g.op = "none" /\ g.lk = p
  BY <1>0, <1>3, <1>4, Zenon DEF Frame
<1>6. PICK s \in Seq(Frame) : frames' = [frames EXCEPT ![current[c]] = s] /\ Len(s) = 1 /\ s[1] = g
  <2> DEFINE z == <<g>> \o Tail(frames[c])
  <2>1. z \in Seq(Frame) /\ Len(z) = 1 /\ z[1] = g
    BY Zenon, <1>1, <1>2, <1>5, Stacks
  <2>2. frames' = [frames EXCEPT ![current[c]] = z]
    BY <1>1, <1>4, Zenon DEF SetTop
  <2>3. QED
    BY <2>1, <2>2, Zenon
<1>7. Sound(s, current[c]) /\ Parked(s, p)
  <2>1. Shape(g, c) /\ g.at \in BottomAt(c)
    BY <1>1, <1>3, <1>5, Zenon DEF Shape, PickAt, OwnAt, BottomAt, SchedAt
  <2>2. Len(s) # 2
    BY <1>6
  <2>3. QED
    BY <1>1, <1>5, <1>6, <2>1, <2>2, Zenon DEF Sound, Parked
<1>8. /\ Depth(f) = 1
      /\ \A l \in SpinLocks : (Holds(f, c, l) <=> l = p) /\ (Owns(f, c, l) <=> l = p)
  <2>1. f.at \in {"try", "back"} /\ f.op = "none"
    BY <1>3, Zenon
  <2>2. /\ Depth(f) = 1
        /\ \A l \in SpinLocks : (Holds(f, c, l) <=> l = f.lk) /\ (Owns(f, c, l) <=> l = f.lk)
    BY ONLY <2>1, PickLock, Zenon
  <2>3. QED
    BY <1>3, <2>2, Zenon
<1>9. noff[c] = 1 /\ ~sie[c]
  <2>1. noff[c] = Depth(f) /\ (noff[c] > 0 => ~sie[c])
    BY <1>2, Zenon DEF Fits
  <2>2. noff[c] = 1 /\ noff[c] > 0
    <3>1. noff[c] = 1
      BY ONLY <1>8, <2>1, Zenon
    <3>2. QED
      BY ONLY <3>1
  <2>3. QED
    BY <2>1, <2>2, Zenon
<1>10. ThreadOK(p) /\ pstate[p] # "RUNNING" /\ pstate[p] # "ZOMBIE"
  BY <1>0, <1>3, Zenon DEF ThreadInv
<1>11. PICK u : u = frames[p][1] /\ u.at \in {"fork", "slept", "yielded"} /\ u.op = "none"
  BY <1>10, Zenon DEF ThreadOK
<1>12. Sound(frames[p], p)
  BY <1>0, <1>3, Zenon DEF StackInv
<1>13. Len(frames[p]) = 2 => u.at = "yielded"
  BY Zenon, <1>11, <1>12 DEF Sound, HandlerAt
<1>14. /\ Depth(u) = 1 /\ u.at \notin CallAt /\ u.op # "off"
       /\ \A l \in SpinLocks : (Holds(u, p, l) <=> l = p) /\ (Owns(u, p, l) <=> l = p)
  <2>1. u.at \notin CallAt /\ u.op # "off"
    BY ONLY <1>11 DEF CallAt
  <2>2. u.at \in OwnOnly /\ u.op = "none"
    BY <1>11, Zenon DEF OwnOnly
  <2>3. QED
    BY ONLY <2>1, <2>2, OwnLock, Zenon
<1>15. Fits(frames[p][1], Len(frames[p]) = 2, sie[c], noff[c], intena[c])
  BY <1>9, <1>11, <1>13, <1>14, Zenon DEF Fits
<1>16. \A d \in Harts : current[d] # p
  BY <1>10, Zenon DEF ThreadOK
<1>17. \A l \in SpinLocks : /\ Holds(frames[p][1], p, l) <=> HoldsAt(c, l)
                            /\ Owns(frames[p][1], p, l) <=> OwnsAt(c, l)
  BY <1>1, <1>2, <1>8, <1>11, <1>14, Zenon DEF HoldsAt, OwnsAt
<1>18. UNCHANGED <<hartVars, lockVars>> /\ p \in Threads \cup {c}
  BY <1>3
<1>19. /\ StackInv' /\ LockInv'
       /\ frames'[current[c]] = s /\ \A x \in Contexts \ {current[c]} : frames'[x] = frames[x]
       /\ current'[c] = p /\ \A d \in Harts \ {c} : current'[d] = current[d] /\ frames'[current'[d]] = frames[current[d]]
  BY <1>0, <1>1, <1>3, <1>6, <1>7, <1>15, <1>16, <1>17, <1>18, Switch, Zenon
<1>20. /\ pstate' \in [Threads -> {"RUNNABLE", "RUNNING", "SLEEPING", "ZOMBIE"}] /\ pstate'[p] = "RUNNING"
       /\ \A q \in Threads : q # p => pstate'[q] = pstate[q]
  BY <1>0, <1>3, Zenon DEF ThreadInv
<1>21. saved' = saved /\ wanted' = wanted /\ ticks0' = ticks0 /\ doomed' = doomed /\ ticks' = ticks
  OBVIOUS
<1>22. \A q \in Threads : frames'[q] = frames[q]
  BY <1>1, <1>19, Zenon DEF Contexts
<1>23. ASSUME NEW q \in Threads PROVE ThreadOK(q)'
  <2>1. CASE q = p
    <3>1. \E d \in Harts : current'[d] = q
      BY <1>19, <2>1, Zenon
    <3>2. pstate'[q] = "RUNNING" /\ frames'[q] = frames[q] /\ saved'[q] = saved[q]
      BY <1>20, <1>21, <1>22, <2>1, Zenon
    <3>3. u.at # "zombie" /\ frames'[q][1] = u
      BY Zenon, <1>11, <2>1, <3>2
    <3>4. QED
      BY Zenon, <1>10, <1>11, <2>1, <3>1, <3>2, <3>3 DEF ThreadOK
  <2>2. CASE q # p
    <3>1. frames'[q] = frames[q] /\ pstate'[q] = pstate[q] /\ saved'[q] = saved[q]
      BY <1>20, <1>21, <1>22, <2>2, Zenon
    <3>2. (\E d \in Harts : current'[d] = q) <=> (\E d \in Harts : current[d] = q)
      <4>1. \A d \in Harts : current'[d] = q => d # c /\ current[d] = q
        BY <1>19, <2>2, Zenon
      <4>2. ASSUME NEW d \in Harts, current[d] = q PROVE current'[d] = q
        <5>1. d # c
          BY <1>1, <4>2, Zenon
        <5>2. QED
          BY <1>19, <4>2, <5>1, Zenon
      <4>3. QED
        BY <4>1, <4>2, Zenon
    <3>3. ThreadOK(q)
      BY <1>0, Zenon DEF ThreadInv
    <3>4. QED
      BY <3>1, <3>2, <3>3, Zenon DEF ThreadOK
  <2>3. QED
    BY Zenon, <2>1, <2>2
<1>24. ThreadInv'
  BY <1>0, <1>20, <1>21, <1>23, Zenon DEF ThreadInv
<1>25. ASSUME NEW q \in Threads, Dozing(q)' PROVE Dozing(q)
  <2>1. pstate'[q] = "SLEEPING" => pstate[q] = "SLEEPING"
    BY Zenon, <1>20
  <2>2. QED
    BY <1>22, <1>25, <2>1, Zenon DEF Dozing
<1>26. \A q \in Threads : ~Visits(Top(c), q)
  BY Zenon DEF Visits
<1>27. TickInv'
  BY <1>0, <1>19, <1>21, <1>25, <1>26, SwitchTicks, Zenon
<1>28. ~trapPanic'
  BY Zenon, <1>0
<1>29. QED
  BY <1>19, <1>24, <1>27, <1>28, Zenon DEF TrapInv

LEMMA StepTryRun ==
  ASSUME TrapInv, TickInv, NEW c \in Harts, TryRun(c)
  PROVE  TrapInv' /\ TickInv'
<1> PICK p : p = Top(c).lk
  OBVIOUS
<1>1. /\ Top(c).at = "try" /\ Top(c).op = "none"
      /\ UNCHANGED <<hartVars, lockVars, saved, wanted, ticks0, doomed, ticks, trapPanic>>
  BY Zenon DEF TryRun, AtLabel
<1>2. CASE pstate[p] = "RUNNABLE"
  BY <1>1, <1>2, Enters, Zenon DEF TryRun
<1>3. CASE pstate[p] # "RUNNABLE"
  <2>1. Call(c, "release", p, "scan") /\ UNCHANGED <<pstate, current>>
    BY <1>3, Zenon DEF TryRun
  <2>2. Len(frames[current[c]]) = 1 /\ current[c] = c /\ c \notin Threads
    BY <1>1, Where, Zenon DEF TrapInv, SchedAt
  <2>3. p \in Threads
    BY Zenon, <1>1, Runs DEF TrapInv, Shape, PickAt
  <2>4. ASSUME NEW g \in Frame, g.at = "scan", g.op = "release", g.lk = p
        PROVE  Moves(Top(c), g, current[c], Len(frames[current[c]]) = 2)
    <3>1. Shape(g, current[c]) /\ g.op # "off"
      BY <2>3, <2>4, Zenon DEF Shape, PickAt, OwnAt
    <3>2. ~(Len(frames[current[c]]) = 2) /\ g.at \in BottomAt(current[c]) \ {"zombie", "slept", "yielded"} /\ g.at \notin CallAt
      <4>1. ~(Len(frames[current[c]]) = 2)
        BY ONLY <2>2
      <4>2. QED
        BY ONLY <2>2, <2>4, <4>1, Zenon DEF BottomAt, SchedAt, CallAt
    <3>3. Depth(g) = 1
      BY ONLY <2>4 DEF Depth, Count, TickAt, OwnAt, PickAt
    <3>4. \A l \in SpinLocks : (Holds(g, current[c], l) <=> l = p) /\ (Owns(g, current[c], l) <=> l = p)
      BY <2>4, Zenon DEF Holds, Owns, Has, TickAt, OwnAt, PickAt
    <3>5. /\ Depth(Top(c)) = 1
          /\ \A l \in SpinLocks : (Holds(Top(c), current[c], l) <=> l = p) /\ (Owns(Top(c), current[c], l) <=> l = p)
      <4>1. Top(c).at \in {"try", "back"} /\ Top(c).op = "none"
        BY <1>1, Zenon
      <4>2. /\ Depth(Top(c)) = 1
            /\ \A l \in SpinLocks : /\ Holds(Top(c), current[c], l) <=> l = Top(c).lk
                                    /\ Owns(Top(c), current[c], l) <=> l = Top(c).lk
        BY ONLY <4>1, PickLock, Zenon
      <4>3. QED
        BY <4>2, Zenon
    <3>6. QED
      BY <3>1, <3>2, <3>3, <3>4, <3>5, Zenon DEF Moves
  <2>5. /\ "scan" \in Ats /\ "release" \in Ops /\ p \in SpinLocks
        /\ Top(c).at \notin {"wake", "wakeup"} /\ "scan" \notin {"sleep", "asleep"}
    BY <1>1, <2>3, Zenon DEF Ats, SchedAt, Ops, SpinLocks
  <2>6. UNCHANGED <<hartVars, current, lockVars, procVars, ticks, trapPanic>>
    BY <1>1, <2>1, Zenon DEF procVars
  <2>7. \A g \in Frame : g.at = "scan" /\ g.op = "release" /\ g.lk = p
                         => Moves(Top(c), g, current[c], Len(frames[current[c]]) = 2)
    BY <2>4, Zenon
  <2>8. /\ "scan" \in Ats /\ "release" \in Ops /\ p \in SpinLocks /\ Call(c, "release", p, "scan")
        /\ UNCHANGED <<hartVars, current, lockVars, procVars, ticks, trapPanic>>
        /\ Top(c).at \notin {"wake", "wakeup"} /\ "scan" \notin {"sleep", "asleep"}
        /\ \A g \in Frame : g.at = "scan" /\ g.op = "release" /\ g.lk = p
                           => Moves(Top(c), g, current[c], Len(frames[current[c]]) = 2)
        /\ TrapInv /\ TickInv /\ c \in Harts
    BY <2>1, <2>5, <2>6, <2>7, Zenon
  <2>9. QED
    BY ONLY <2>8, CallMove
<1>4. QED
  BY Zenon, <1>2, <1>3

-----------------------------------------------------------------------------
(* The steps of acquire() and release()                                    *)

\* A step inside acquire() or release() is nothing to the processes.
LEMMA SpinMove ==
  ASSUME TrapInv, TickInv, NEW c \in Harts, NEW g, NEW s, Stack(c, s), s[1] = g, UNCHANGED <<procVars, ticks>>,
         g.at = Top(c).at, g.todo = Top(c).todo, g.lk = Top(c).lk \/ g.at # "wakeup", Top(c).op # "none",
         StackInv', LockInv', ~trapPanic'
  PROVE  TrapInv' /\ TickInv'
<1>0. StackInv /\ ThreadInv /\ Top(c) \in Frame /\ Shape(Top(c), current[c])
  BY Runs, Zenon DEF TrapInv
<1>1. Top(c).op \in Ops
  BY Zenon, <1>0, FrameIs
<1>2. g.at \notin {"zombie", "slept", "yielded"}
  BY Zenon, <1>0, <1>1 DEF Shape, Ops
<1>3. wanted' = wanted /\ ticks0' = ticks0
  BY Zenon DEF procVars
<1>4. \A p \in Threads : Visits(Top(c), p) => Visits(g, p)
  BY Zenon DEF Visits
<1>5. Watches(Top(c), g, current[c])
  BY <1>3, <1>4, Zenon DEF Watches
<1>6. ThreadInv' /\ TickInv'
  BY <1>0, <1>2, <1>5, ProcSame, MoveProcs, Zenon
<1>7. QED
  BY <1>6, Zenon DEF TrapInv

\* A step that takes, frees, marks or unmarks lock m, which no other hart has.
LEMMA LockChanged ==
  ASSUME StackInv, LockInv, NEW c \in Harts, NEW s, Stack(c, s), NEW m \in SpinLocks, NEW b \in BOOLEAN, NEW o \in {c, Nohart},
         locked' \in [SpinLocks -> BOOLEAN], owner' \in [SpinLocks -> Harts \cup {Nohart}],
         locked'[m] = b, owner'[m] = o, \A l \in SpinLocks \ {m} : locked'[l] = locked[l] /\ owner'[l] = owner[l],
         \A l \in SpinLocks \ {m} : /\ Holds(s[1], current[c], l) <=> HoldsAt(c, l)
                                    /\ Owns(s[1], current[c], l) <=> OwnsAt(c, l),
         \A d \in Harts \ {c} : ~HoldsAt(d, m),
         Holds(s[1], current[c], m) <=> b, Owns(s[1], current[c], m) <=> o = c
  PROVE  LockInv'
<1>0. /\ frames'[current'[c]] = s /\ current' = current
      /\ \A d \in Harts \ {c} : frames'[current'[d]] = frames[current[d]]
  BY StackIs, Zenon
<1>1. \A l \in SpinLocks : (HoldsAt(c, l)' <=> Holds(s[1], current[c], l)) /\ (OwnsAt(c, l)' <=> Owns(s[1], current[c], l))
  BY <1>0, Zenon DEF HoldsAt, OwnsAt
<1>2. \A l \in SpinLocks : \A d \in Harts \ {c} : (HoldsAt(d, l)' <=> HoldsAt(d, l)) /\ (OwnsAt(d, l)' <=> OwnsAt(d, l))
  BY <1>0, Zenon DEF HoldsAt, OwnsAt
<1>3. ASSUME NEW l \in SpinLocks, l # m
      PROVE  \A d \in Harts : (HoldsAt(d, l)' <=> HoldsAt(d, l)) /\ (OwnsAt(d, l)' <=> OwnsAt(d, l))
  BY <1>1, <1>2, <1>3, Zenon
<1>4. \A d \in Harts : (HoldsAt(d, m)' <=> d = c /\ b) /\ (OwnsAt(d, m)' <=> d = c /\ o = c)
  <2>1. \A d \in Harts \ {c} : ~OwnsAt(d, m)
    BY Zenon DEF OwnsAt, HoldsAt, Owns
  <2>2. QED
    BY <1>1, <1>2, <2>1, Zenon
<1>5. ASSUME NEW l \in SpinLocks PROVE locked'[l] <=> \E d \in Harts : HoldsAt(d, l)'
  <2>1. CASE l = m
    BY <1>4, <2>1, Zenon
  <2>2. CASE l # m
    <3>1. locked[l] <=> \E d \in Harts : HoldsAt(d, l)
      BY Zenon DEF LockInv
    <3>2. QED
      BY <1>3, <2>2, <3>1, Zenon
  <2>3. QED
    BY Zenon, <2>1, <2>2
<1>6. ASSUME NEW l \in SpinLocks, NEW d \in Harts, NEW e \in Harts, HoldsAt(d, l)', HoldsAt(e, l)' PROVE d = e
  <2>1. CASE l = m
    BY <1>4, <1>6, <2>1, Zenon
  <2>2. CASE l # m
    BY <1>3, <1>6, <2>2, Zenon DEF LockInv
  <2>3. QED
    BY Zenon, <2>1, <2>2
<1>7. ASSUME NEW l \in SpinLocks, NEW d \in Harts PROVE owner'[l] = d <=> OwnsAt(d, l)'
  <2>1. CASE l = m
    <3>1. o = d <=> d = c /\ o = c
      BY Zenon, TrapAssumption
    <3>2. QED
      BY <1>4, <2>1, <3>1, Zenon
  <2>2. CASE l # m
    <3>1. owner[l] = d <=> OwnsAt(d, l)
      BY Zenon DEF LockInv
    <3>2. QED
      BY <1>3, <2>2, <3>1, Zenon
  <2>3. QED
    BY Zenon, <2>1, <2>2
<1>8. QED
  BY <1>5, <1>6, <1>7, Zenon DEF LockInv

\* The locks of a frame from step to step.
LEMMA SpinShape ==
  ASSUME NEW f \in Frame, NEW g \in Frame, NEW k, Shape(f, k), g.at = f.at, g.lk = f.lk,
         \/ f.op = "acquire" /\ g.op = "off"
         \/ f.op = "off" /\ g.op = "swap"
         \/ f.op = "swap" /\ g.op = "own"
         \/ f.op = "own" /\ g.op = "none"
         \/ f.op = "release" /\ g.op = "unlock"
         \/ f.op = "unlock" /\ g.op = "pop"
  PROVE  /\ Shape(g, k) /\ Depth(g) = Depth(f) + (IF f.op = "off" THEN 1 ELSE 0)
         /\ \A l \in SpinLocks \ {f.lk} : (Holds(g, k, l) <=> Holds(f, k, l)) /\ (Owns(g, k, l) <=> Owns(f, k, l))
         /\ Holds(f, k, f.lk) <=> f.op \in {"own", "release", "unlock"}
         /\ Holds(g, k, f.lk) <=> f.op \in {"swap", "own", "release"}
         /\ Owns(g, k, f.lk) <=> f.op = "own"
         /\ Owns(f, k, f.lk) <=> f.op = "release"
<1>1. Count(f) \in 0..2 /\ Count(g) = Count(f)
  BY FrameIs, Zenon DEF Count
<1>2. Shape(g, k)
  BY Zenon DEF Shape
<1>3. Depth(g) = Depth(f) + (IF f.op = "off" THEN 1 ELSE 0)
  BY <1>1 DEF Depth
<1>4. \A l : Has(g, k, l) <=> Has(f, k, l)
  BY Zenon DEF Has
<1>5. ASSUME NEW l \in SpinLocks \ {f.lk}
      PROVE  (Holds(g, k, l) <=> Holds(f, k, l)) /\ (Owns(g, k, l) <=> Owns(f, k, l))
  <2>1. (Holds(f, k, l) <=> Has(f, k, l)) /\ (Holds(g, k, l) <=> Has(f, k, l))
    BY <1>4, <1>5, Zenon DEF Holds
  <2>2. QED
    BY <1>5, <2>1, Zenon DEF Owns
<1>6. f.op = "own" => Has(f, k, f.lk)
  BY Zenon DEF Shape, Has, TickAt, OwnAt, PickAt
<1>7. f.op = "unlock" => ~Has(f, k, f.lk)
  BY TrapAssumption, Zenon DEF Shape, Has, TickAt, OwnAt, PickAt
<1>8. f.op = "swap" => Has(f, k, f.lk)
  BY Zenon DEF Shape, Has, TickAt, OwnAt, PickAt
<1>9. /\ Holds(f, k, f.lk) <=> f.op \in {"own", "release", "unlock"}
      /\ Holds(g, k, f.lk) <=> f.op \in {"swap", "own", "release"}
  BY <1>4, <1>6, <1>7, <1>8, Zenon DEF Holds
<1>10. (Owns(g, k, f.lk) <=> f.op = "own") /\ (Owns(f, k, f.lk) <=> f.op = "release")
  BY <1>9, Zenon DEF Owns
<1>11. QED
  BY <1>2, <1>3, <1>5, <1>9, <1>10, Zenon

\* A step of acquire() or release() at which the hart's registers stay.
LEMMA SpinStack ==
  ASSUME StackInv, NEW c \in Harts, NEW g \in Frame, SetTop(c, g), UNCHANGED <<hartVars, current>>,
         g.at = Top(c).at, Top(c).op # "none", Shape(g, current[c]), Depth(g) = Depth(Top(c)), g.op = "off" => g.old = sie[c]
  PROVE  StackInv' /\ \E s \in Seq(Frame) : Stack(c, s) /\ s[1] = g
<1>1. /\ Top(c) \in Frame /\ Shape(Top(c), current[c])
      /\ Len(frames[current[c]]) = 1 => Top(c).at \in BottomAt(current[c])
      /\ Len(frames[current[c]]) = 2 => Top(c).at \in HandlerAt
  BY Runs, Zenon
<1>2. Top(c).op \in Ops
  BY Zenon, <1>1, FrameIs
<1>3. Top(c).at # "yielded"
  BY Zenon, <1>1, <1>2 DEF Shape, Ops
<1>4. QED
  BY <1>1, <1>3, MoveStack, Zenon

\* Who holds a lock alone.
LEMMA Alone ==
  ASSUME LockInv, NEW c \in Harts, NEW m \in SpinLocks, HoldsAt(c, m)
  PROVE  locked[m] /\ (\A d \in Harts \ {c} : ~HoldsAt(d, m)) /\ owner[m] \in {c, Nohart}
<1>1. locked[m]
  <2>1. (\E d \in Harts : HoldsAt(d, m)) => locked[m]
    BY Zenon DEF LockInv
  <2>2. QED
    BY <2>1, Zenon
<1>2. \A d \in Harts \ {c} : ~HoldsAt(d, m)
  BY Zenon DEF LockInv
<1>3. \A d \in Harts \ {c} : owner[m] # d
  <2>1. \A d \in Harts : owner[m] = d <=> OwnsAt(d, m)
    BY Zenon DEF LockInv
  <2>2. QED
    BY <1>2, <2>1, Zenon DEF OwnsAt, HoldsAt, Owns
<1>4. owner[m] \in Harts \cup {Nohart}
  BY Zenon DEF LockInv
<1>5. QED
  BY <1>1, <1>2, <1>3, <1>4, Zenon

LEMMA StepPushRead ==
  ASSUME TrapInv, TickInv, NEW c \in Harts, PushRead(c)
  PROVE  TrapInv' /\ TickInv'
<1> PICK f : f = Top(c)
  BY Zenon
<1> PICK k : k = current[c]
  OBVIOUS
<1>0. f \in Frame /\ StackInv /\ ThreadInv /\ LockInv /\ ~trapPanic /\ Shape(f, k) /\ f = frames[k][1]
  BY Zenon, Runs DEF TrapInv
<1>1. f.op = "acquire" /\ UNCHANGED <<hartVars, current>> /\ UNCHANGED lockVars /\ UNCHANGED <<procVars, ticks>> /\ trapPanic' = trapPanic
  BY DEF PushRead, AtOp
<1>2. PICK g : SetTop(c, g) /\ g = [f EXCEPT !.op = "off", !.old = sie[c]]
  BY Zenon DEF PushRead
<1>3. sie[c] \in BOOLEAN /\ f.lk \in SpinLocks
  BY Zenon, <1>0, FrameIs DEF StackInv, RegisterTypes
<1>4. g \in Frame /\ g.at = f.at /\ g.op = "off" /\ g.lk = f.lk /\ g.old = sie[c] /\ g.todo = f.todo
  BY <1>0, <1>2, <1>3, Zenon DEF Frame
<1>5. /\ Shape(g, k) /\ Depth(g) = Depth(f) + (IF f.op = "off" THEN 1 ELSE 0)
      /\ \A l \in SpinLocks \ {f.lk} : (Holds(g, k, l) <=> Holds(f, k, l)) /\ (Owns(g, k, l) <=> Owns(f, k, l))
      /\ Holds(f, k, f.lk) <=> f.op \in {"own", "release", "unlock"}
      /\ Holds(g, k, f.lk) <=> f.op \in {"swap", "own", "release"}
  BY <1>0, <1>1, <1>4, SpinShape, Zenon
<1>6. Depth(g) = Depth(f) /\ ~Holds(f, k, f.lk) /\ ~Holds(g, k, f.lk) /\ f.op # "none"
  <2>1. Depth(f) \in Int
    BY Zenon, <1>0, FrameIs
  <2>2. f.op # "off" /\ f.op \notin {"own", "release", "unlock"} /\ f.op \notin {"swap", "own", "release"} /\ f.op # "none"
    BY ONLY <1>1, Zenon
  <2>3. Depth(g) = Depth(f) + 0
    BY ONLY <1>5, <2>2, Zenon
  <2>4. Depth(g) = Depth(f)
    BY ONLY <2>1, <2>3
  <2>5. QED
    BY ONLY <1>5, <2>2, <2>4, Zenon
<1>7. StackInv' /\ \E s \in Seq(Frame) : Stack(c, s) /\ s[1] = g
  <2>1. /\ g \in Frame /\ SetTop(c, g) /\ UNCHANGED <<hartVars, current>> /\ g.at = Top(c).at /\ Top(c).op # "none"
        /\ Shape(g, current[c]) /\ Depth(g) = Depth(Top(c)) /\ (g.op = "off" => g.old = sie[c]) /\ StackInv
    BY <1>0, <1>1, <1>2, <1>4, <1>5, <1>6, Zenon
  <2>2. QED
    BY <2>1, SpinStack, Zenon
<1>8. PICK s \in Seq(Frame) : Stack(c, s) /\ s[1] = g
  BY <1>7, Zenon
<1>9. \A l \in SpinLocks : (Holds(g, k, l) <=> Holds(f, k, l)) /\ (Owns(g, k, l) <=> Owns(f, k, l))
  BY <1>5, <1>6, Zenon DEF Owns
<1>10. LockInv'
  <2>1. \A l \in SpinLocks : (Holds(s[1], current[c], l) <=> HoldsAt(c, l)) /\ (Owns(s[1], current[c], l) <=> OwnsAt(c, l))
    BY <1>0, <1>8, <1>9, Zenon DEF HoldsAt, OwnsAt
  <2>2. QED
    BY <1>0, <1>1, <1>8, <2>1, LocksKept, Zenon
<1>11. ~trapPanic'
  BY Zenon, <1>0, <1>1
<1>12. QED
  BY <1>1, <1>4, <1>6, <1>7, <1>8, <1>10, <1>11, SpinMove, Zenon

\* The swap finds a lock that no hart has.
LEMMA StepSwap ==
  ASSUME TrapInv, TickInv, NEW c \in Harts, Swap(c)
  PROVE  TrapInv' /\ TickInv'
<1> PICK f : f = Top(c)
  OBVIOUS
<1> PICK k : k = current[c]
  OBVIOUS
<1>0. f \in Frame /\ StackInv /\ ThreadInv /\ LockInv /\ ~trapPanic /\ Shape(f, k) /\ f = frames[k][1]
  BY Zenon, Runs DEF TrapInv
<1>1. f.op = "swap" /\ UNCHANGED <<hartVars, current>> /\ UNCHANGED <<procVars, ticks>>
  BY Zenon DEF Swap, AtOp
<1>2. PICK g : SetTop(c, g) /\ g = [f EXCEPT !.op = "own"]
  BY Zenon DEF Swap, NextOp
<1>3. PICK m \in SpinLocks : m = f.lk
  BY Zenon, <1>0, FrameIs
<1>4. g \in Frame /\ g.at = f.at /\ g.op = "own" /\ g.lk = f.lk /\ g.todo = f.todo
  BY <1>0, <1>2, Zenon DEF Frame
<1>5. /\ Shape(g, k) /\ Depth(g) = Depth(f) + (IF f.op = "off" THEN 1 ELSE 0)
      /\ \A l \in SpinLocks \ {m} : (Holds(g, k, l) <=> Holds(f, k, l)) /\ (Owns(g, k, l) <=> Owns(f, k, l))
      /\ Holds(f, k, m) <=> f.op \in {"own", "release", "unlock"}
      /\ Holds(g, k, m) <=> f.op \in {"swap", "own", "release"}
      /\ Owns(g, k, m) <=> f.op = "own"
      /\ Owns(f, k, m) <=> f.op = "release"
  BY <1>0, <1>1, <1>3, <1>4, SpinShape, Zenon
<1>6. /\ Depth(g) = Depth(f) /\ f.op # "none" /\ g.op # "off"
      /\ (Holds(f, k, m) <=> FALSE) /\ (Holds(g, k, m) <=> TRUE)
      /\ (Owns(f, k, m) <=> FALSE) /\ (Owns(g, k, m) <=> FALSE)
  <2>1. Depth(f) \in Int
    BY Zenon, <1>0, FrameIs
  <2>2. f.op # "off" /\ f.op # "none" /\ g.op # "off"
    BY ONLY <1>1, <1>4, Zenon
  <2>3. Depth(g) = Depth(f) + 0
    BY ONLY <1>5, <2>2, Zenon
  <2>4. Depth(g) = Depth(f)
    BY ONLY <2>1, <2>3
  <2>5. QED
    BY ONLY <1>1, <1>5, <2>2, <2>4, Zenon
<1>7. StackInv' /\ \E s \in Seq(Frame) : Stack(c, s) /\ s[1] = g
  <2>1. /\ g \in Frame /\ SetTop(c, g) /\ UNCHANGED <<hartVars, current>> /\ g.at = Top(c).at /\ Top(c).op # "none"
        /\ Shape(g, current[c]) /\ Depth(g) = Depth(Top(c)) /\ (g.op = "off" => g.old = sie[c]) /\ StackInv
    BY <1>0, <1>1, <1>2, <1>4, <1>5, <1>6, Zenon
  <2>2. QED
    BY <2>1, SpinStack, Zenon
<1>8. PICK s \in Seq(Frame) : Stack(c, s) /\ s[1] = g
  BY <1>7, Zenon
<1>9. \A l \in SpinLocks \ {m} : (Holds(s[1], current[c], l) <=> HoldsAt(c, l)) /\ (Owns(s[1], current[c], l) <=> OwnsAt(c, l))
  BY <1>0, <1>5, <1>8, Zenon DEF HoldsAt, OwnsAt
<1>10. ~locked[m]
  BY <1>3, Zenon DEF Swap
<1>11. (\A d \in Harts : ~HoldsAt(d, m)) /\ owner[m] = Nohart
  <2>1. locked[m] <=> \E d \in Harts : HoldsAt(d, m)
    BY <1>0, Zenon DEF LockInv
  <2>2. \A d \in Harts : ~HoldsAt(d, m)
    BY <1>10, <2>1, Zenon
  <2>3. \A d \in Harts : owner[m] = d <=> OwnsAt(d, m)
    BY <1>0, Zenon DEF LockInv
  <2>4. \A d \in Harts : owner[m] # d
    BY <2>2, <2>3, Zenon DEF OwnsAt, HoldsAt, Owns
  <2>5. owner[m] \in Harts \cup {Nohart}
    BY <1>0, Zenon DEF LockInv
  <2>6. QED
    BY <2>2, <2>4, <2>5, Zenon
<1>12. /\ locked' \in [SpinLocks -> BOOLEAN] /\ owner' \in [SpinLocks -> Harts \cup {Nohart}]
       /\ locked'[m] = TRUE /\ owner'[m] = Nohart /\ \A l \in SpinLocks \ {m} : locked'[l] = locked[l] /\ owner'[l] = owner[l]
       /\ Nohart \in {c, Nohart} /\ (Owns(g, k, m) <=> Nohart = c)
  <2>1. locked' = [locked EXCEPT ![m] = TRUE] /\ owner' = owner
    BY <1>3, Zenon DEF Swap
  <2>2. locked \in [SpinLocks -> BOOLEAN] /\ owner \in [SpinLocks -> Harts \cup {Nohart}]
    BY <1>0, Zenon DEF LockInv
  <2>3. Nohart # c
    BY Zenon, TrapAssumption
  <2>5. QED
    BY ONLY Zenon, <1>6, <1>11, <2>1, <2>2, <2>3
<1>13. LockInv'
  BY <1>0, <1>6, <1>8, <1>9, <1>11, <1>12, LockChanged, Zenon
<1>14. ~trapPanic'
  BY <1>0, Zenon DEF Swap
<1>15. QED
  BY <1>1, <1>4, <1>6, <1>7, <1>8, <1>13, <1>14, SpinMove, Zenon

LEMMA StepOwn ==
  ASSUME TrapInv, TickInv, NEW c \in Harts, Own(c)
  PROVE  TrapInv' /\ TickInv'
<1> PICK f : f = Top(c)
  OBVIOUS
<1> PICK k : k = current[c]
  OBVIOUS
<1>0. f \in Frame /\ StackInv /\ ThreadInv /\ LockInv /\ ~trapPanic /\ Shape(f, k) /\ f = frames[k][1]
  BY Zenon, Runs DEF TrapInv
<1>1. f.op = "own" /\ UNCHANGED <<hartVars, current>> /\ UNCHANGED <<procVars, ticks>>
  BY Zenon DEF Own, AtOp
<1>2. PICK g : SetTop(c, g) /\ g = [f EXCEPT !.op = "none"]
  BY Zenon DEF Own, NextOp
<1>3. PICK m \in SpinLocks : m = f.lk
  BY <1>0, FrameIs
<1>4. g \in Frame /\ g.at = f.at /\ g.op = "none" /\ g.lk = f.lk /\ g.todo = f.todo
  BY <1>0, <1>2, Zenon DEF Frame
<1>5. /\ Shape(g, k) /\ Depth(g) = Depth(f) + (IF f.op = "off" THEN 1 ELSE 0)
      /\ \A l \in SpinLocks \ {m} : (Holds(g, k, l) <=> Holds(f, k, l)) /\ (Owns(g, k, l) <=> Owns(f, k, l))
      /\ Holds(f, k, m) <=> f.op \in {"own", "release", "unlock"}
      /\ Holds(g, k, m) <=> f.op \in {"swap", "own", "release"}
      /\ Owns(g, k, m) <=> f.op = "own"
      /\ Owns(f, k, m) <=> f.op = "release"
  BY <1>0, <1>1, <1>3, <1>4, SpinShape, Zenon
<1>6. /\ Depth(g) = Depth(f) /\ f.op # "none" /\ g.op # "off"
      /\ (Holds(f, k, m) <=> TRUE) /\ (Holds(g, k, m) <=> TRUE)
      /\ (Owns(f, k, m) <=> FALSE) /\ (Owns(g, k, m) <=> TRUE)
  <2>1. Depth(f) \in Int
    BY Zenon, <1>0, FrameIs
  <2>2. f.op # "off" /\ f.op # "none" /\ g.op # "off"
    BY ONLY <1>1, <1>4, Zenon
  <2>3. Depth(g) = Depth(f) + 0
    BY ONLY <1>5, <2>2, Zenon
  <2>4. Depth(g) = Depth(f)
    BY ONLY <2>1, <2>3
  <2>5. QED
    BY ONLY <1>1, <1>5, <2>2, <2>4, Zenon
<1>7. StackInv' /\ \E s \in Seq(Frame) : Stack(c, s) /\ s[1] = g
  <2>1. /\ g \in Frame /\ SetTop(c, g) /\ UNCHANGED <<hartVars, current>> /\ g.at = Top(c).at /\ Top(c).op # "none"
        /\ Shape(g, current[c]) /\ Depth(g) = Depth(Top(c)) /\ (g.op = "off" => g.old = sie[c]) /\ StackInv
    BY <1>0, <1>1, <1>2, <1>4, <1>5, <1>6, Zenon
  <2>2. QED
    BY <2>1, SpinStack, Zenon
<1>8. PICK s \in Seq(Frame) : Stack(c, s) /\ s[1] = g
  BY <1>7, Zenon
<1>9. \A l \in SpinLocks \ {m} : (Holds(s[1], current[c], l) <=> HoldsAt(c, l)) /\ (Owns(s[1], current[c], l) <=> OwnsAt(c, l))
  BY <1>0, <1>5, <1>8, Zenon DEF HoldsAt, OwnsAt
<1>10. HoldsAt(c, m)
  BY <1>0, <1>6, Zenon DEF HoldsAt
<1>11. locked[m] /\ (\A d \in Harts \ {c} : ~HoldsAt(d, m)) /\ owner[m] \in {c, Nohart}
  BY <1>0, <1>10, Alone, Zenon
<1>12. /\ locked' \in [SpinLocks -> BOOLEAN] /\ owner' \in [SpinLocks -> Harts \cup {Nohart}]
       /\ locked'[m] = TRUE /\ owner'[m] = c /\ \A l \in SpinLocks \ {m} : locked'[l] = locked[l] /\ owner'[l] = owner[l]
       /\ c \in {c, Nohart} /\ (Owns(g, k, m) <=> c = c)
  <2>1. owner' = [owner EXCEPT ![m] = c] /\ locked' = locked
    BY <1>3, Zenon DEF Own
  <2>2. locked \in [SpinLocks -> BOOLEAN] /\ owner \in [SpinLocks -> Harts \cup {Nohart}]
    BY <1>0, Zenon DEF LockInv
  <2>3. Nohart # c
    BY TrapAssumption
  <2>5. QED
    BY ONLY Zenon, <1>6, <1>11, <2>1, <2>2, <2>3
<1>13. LockInv'
  BY <1>0, <1>6, <1>8, <1>9, <1>11, <1>12, LockChanged, Zenon
<1>14. ~trapPanic'
  BY <1>0, Zenon DEF Own
<1>15. QED
  BY <1>1, <1>4, <1>6, <1>7, <1>8, <1>13, <1>14, SpinMove, Zenon

\* release() finds its hart in lk->cpu.
LEMMA StepRelease ==
  ASSUME TrapInv, TickInv, NEW c \in Harts, Release(c)
  PROVE  TrapInv' /\ TickInv'
<1> PICK f : f = Top(c)
  OBVIOUS
<1> PICK k : k = current[c]
  OBVIOUS
<1>0. f \in Frame /\ StackInv /\ ThreadInv /\ LockInv /\ ~trapPanic /\ Shape(f, k) /\ f = frames[k][1]
  BY Zenon, Runs DEF TrapInv
<1>1. f.op = "release" /\ UNCHANGED <<hartVars, current>> /\ UNCHANGED <<procVars, ticks>>
  BY Zenon DEF Release, AtOp
<1>2. PICK g : SetTop(c, g) /\ g = [f EXCEPT !.op = "unlock"]
  BY Zenon DEF Release, NextOp
<1>3. PICK m \in SpinLocks : m = f.lk
  BY <1>0, FrameIs
<1>4. g \in Frame /\ g.at = f.at /\ g.op = "unlock" /\ g.lk = f.lk /\ g.todo = f.todo
  BY <1>0, <1>2, Zenon DEF Frame
<1>5. /\ Shape(g, k) /\ Depth(g) = Depth(f) + (IF f.op = "off" THEN 1 ELSE 0)
      /\ \A l \in SpinLocks \ {m} : (Holds(g, k, l) <=> Holds(f, k, l)) /\ (Owns(g, k, l) <=> Owns(f, k, l))
      /\ Holds(f, k, m) <=> f.op \in {"own", "release", "unlock"}
      /\ Holds(g, k, m) <=> f.op \in {"swap", "own", "release"}
      /\ Owns(g, k, m) <=> f.op = "own"
      /\ Owns(f, k, m) <=> f.op = "release"
  BY <1>0, <1>1, <1>3, <1>4, SpinShape, Zenon
<1>6. /\ Depth(g) = Depth(f) /\ f.op # "none" /\ g.op # "off"
      /\ (Holds(f, k, m) <=> TRUE) /\ (Holds(g, k, m) <=> TRUE)
      /\ (Owns(f, k, m) <=> TRUE) /\ (Owns(g, k, m) <=> FALSE)
  <2>1. Depth(f) \in Int
    BY <1>0, FrameIs
  <2>2. f.op # "off" /\ f.op # "none" /\ g.op # "off"
    BY ONLY <1>1, <1>4, Zenon
  <2>3. Depth(g) = Depth(f) + 0
    BY ONLY <1>5, <2>2, Zenon
  <2>4. Depth(g) = Depth(f)
    BY ONLY <2>1, <2>3
  <2>5. QED
    BY ONLY <1>1, <1>5, <2>2, <2>4, Zenon
<1>7. StackInv' /\ \E s \in Seq(Frame) : Stack(c, s) /\ s[1] = g
  <2>1. /\ g \in Frame /\ SetTop(c, g) /\ UNCHANGED <<hartVars, current>> /\ g.at = Top(c).at /\ Top(c).op # "none"
        /\ Shape(g, current[c]) /\ Depth(g) = Depth(Top(c)) /\ (g.op = "off" => g.old = sie[c]) /\ StackInv
    BY <1>0, <1>1, <1>2, <1>4, <1>5, <1>6, Zenon
  <2>2. QED
    BY <2>1, SpinStack, Zenon
<1>8. PICK s \in Seq(Frame) : Stack(c, s) /\ s[1] = g
  BY <1>7, Zenon
<1>9. \A l \in SpinLocks \ {m} : (Holds(s[1], current[c], l) <=> HoldsAt(c, l)) /\ (Owns(s[1], current[c], l) <=> OwnsAt(c, l))
  BY <1>0, <1>5, <1>8, Zenon DEF HoldsAt, OwnsAt
<1>10. HoldsAt(c, m)
  BY <1>0, <1>6, Zenon DEF HoldsAt
<1>11. locked[m] /\ (\A d \in Harts \ {c} : ~HoldsAt(d, m)) /\ owner[m] \in {c, Nohart}
  BY <1>0, <1>10, Alone, Zenon
<1>12. /\ locked' \in [SpinLocks -> BOOLEAN] /\ owner' \in [SpinLocks -> Harts \cup {Nohart}]
       /\ locked'[m] = TRUE /\ owner'[m] = Nohart /\ \A l \in SpinLocks \ {m} : locked'[l] = locked[l] /\ owner'[l] = owner[l]
       /\ Nohart \in {c, Nohart} /\ (Owns(g, k, m) <=> Nohart = c)
  <2>1. owner' = [owner EXCEPT ![m] = Nohart] /\ locked' = locked
    BY <1>3, Zenon DEF Release
  <2>2. locked \in [SpinLocks -> BOOLEAN] /\ owner \in [SpinLocks -> Harts \cup {Nohart}]
    BY <1>0, Zenon DEF LockInv
  <2>3. Nohart # c
    BY TrapAssumption
  <2>5. QED
    BY Zenon, <1>6, <1>11, <2>1, <2>2, <2>3
<1>13. LockInv'
  BY <1>0, <1>6, <1>8, <1>9, <1>11, <1>12, LockChanged, Zenon
<1>14. ~trapPanic'
  <2>1. \A d \in Harts : owner[m] = d <=> OwnsAt(d, m)
    BY <1>0, Zenon DEF LockInv
  <2>2. owner[m] = c
    BY <1>0, <1>6, <2>1, Zenon DEF OwnsAt
  <2>3. trapPanic' = ~holding(c, m)
    BY <1>3, Zenon DEF Release
  <2>4. QED
    BY Zenon, <1>11, <2>2, <2>3 DEF holding
<1>15. QED
  BY <1>1, <1>4, <1>6, <1>7, <1>8, <1>13, <1>14, SpinMove, Zenon

LEMMA StepUnlock ==
  ASSUME TrapInv, TickInv, NEW c \in Harts, Unlock(c)
  PROVE  TrapInv' /\ TickInv'
<1> PICK f : f = Top(c)
  OBVIOUS
<1> PICK k : k = current[c]
  OBVIOUS
<1>0. f \in Frame /\ StackInv /\ ThreadInv /\ LockInv /\ ~trapPanic /\ Shape(f, k) /\ f = frames[k][1]
  BY Zenon, Runs DEF TrapInv
<1>1. f.op = "unlock" /\ UNCHANGED <<hartVars, current>> /\ UNCHANGED <<procVars, ticks>>
  BY Zenon DEF Unlock, AtOp
<1>2. PICK g : SetTop(c, g) /\ g = [f EXCEPT !.op = "pop"]
  BY Zenon DEF Unlock, NextOp
<1>3. PICK m \in SpinLocks : m = f.lk
  BY <1>0, FrameIs
<1>4. g \in Frame /\ g.at = f.at /\ g.op = "pop" /\ g.lk = f.lk /\ g.todo = f.todo
  BY <1>0, <1>2, Zenon DEF Frame
<1>5. /\ Shape(g, k) /\ Depth(g) = Depth(f) + (IF f.op = "off" THEN 1 ELSE 0)
      /\ \A l \in SpinLocks \ {m} : (Holds(g, k, l) <=> Holds(f, k, l)) /\ (Owns(g, k, l) <=> Owns(f, k, l))
      /\ Holds(f, k, m) <=> f.op \in {"own", "release", "unlock"}
      /\ Holds(g, k, m) <=> f.op \in {"swap", "own", "release"}
      /\ Owns(g, k, m) <=> f.op = "own"
      /\ Owns(f, k, m) <=> f.op = "release"
  BY <1>0, <1>1, <1>3, <1>4, SpinShape, Zenon
<1>6. /\ Depth(g) = Depth(f) /\ f.op # "none" /\ g.op # "off"
      /\ (Holds(f, k, m) <=> TRUE) /\ (Holds(g, k, m) <=> FALSE)
      /\ (Owns(f, k, m) <=> FALSE) /\ (Owns(g, k, m) <=> FALSE)
  <2>1. Depth(f) \in Int
    BY <1>0, FrameIs
  <2>2. f.op # "off" /\ f.op # "none" /\ g.op # "off"
    BY ONLY <1>1, <1>4, Zenon
  <2>3. Depth(g) = Depth(f) + 0
    BY ONLY <1>5, <2>2, Zenon
  <2>4. Depth(g) = Depth(f)
    BY ONLY <2>1, <2>3
  <2>5. QED
    BY ONLY <1>1, <1>5, <2>2, <2>4, Zenon
<1>7. StackInv' /\ \E s \in Seq(Frame) : Stack(c, s) /\ s[1] = g
  <2>1. /\ g \in Frame /\ SetTop(c, g) /\ UNCHANGED <<hartVars, current>> /\ g.at = Top(c).at /\ Top(c).op # "none"
        /\ Shape(g, current[c]) /\ Depth(g) = Depth(Top(c)) /\ (g.op = "off" => g.old = sie[c]) /\ StackInv
    BY <1>0, <1>1, <1>2, <1>4, <1>5, <1>6, Zenon
  <2>2. QED
    BY <2>1, SpinStack, Zenon
<1>8. PICK s \in Seq(Frame) : Stack(c, s) /\ s[1] = g
  BY <1>7, Zenon
<1>9. \A l \in SpinLocks \ {m} : (Holds(s[1], current[c], l) <=> HoldsAt(c, l)) /\ (Owns(s[1], current[c], l) <=> OwnsAt(c, l))
  BY <1>0, <1>5, <1>8, Zenon DEF HoldsAt, OwnsAt
<1>10. HoldsAt(c, m)
  BY <1>0, <1>6, Zenon DEF HoldsAt
<1>11. locked[m] /\ (\A d \in Harts \ {c} : ~HoldsAt(d, m)) /\ owner[m] \in {c, Nohart}
  BY <1>0, <1>10, Alone, Zenon
<1>12. /\ locked' \in [SpinLocks -> BOOLEAN] /\ owner' \in [SpinLocks -> Harts \cup {Nohart}]
       /\ locked'[m] = FALSE /\ owner'[m] = Nohart /\ \A l \in SpinLocks \ {m} : locked'[l] = locked[l] /\ owner'[l] = owner[l]
       /\ Nohart \in {c, Nohart} /\ (Owns(g, k, m) <=> Nohart = c)
  <2>1. locked' = [locked EXCEPT ![m] = FALSE] /\ owner' = owner
    BY <1>3, Zenon DEF Unlock
  <2>2. locked \in [SpinLocks -> BOOLEAN] /\ owner \in [SpinLocks -> Harts \cup {Nohart}]
    BY <1>0, Zenon DEF LockInv
  <2>3. Nohart # c
    BY TrapAssumption
  <2>4. owner[m] # c
    <3>1. \A d \in Harts : owner[m] = d <=> OwnsAt(d, m)
      BY <1>0, Zenon DEF LockInv
    <3>2. QED
      BY <1>0, <1>6, <3>1, Zenon DEF OwnsAt
  <2>5. QED
    BY ONLY Zenon, <1>6, <1>11, <2>1, <2>2, <2>3, <2>4
<1>13. LockInv'
  BY <1>0, <1>6, <1>8, <1>9, <1>11, <1>12, LockChanged, Zenon
<1>14. ~trapPanic'
  BY <1>0, Zenon DEF Unlock
<1>15. QED
  BY <1>1, <1>4, <1>6, <1>7, <1>8, <1>13, <1>14, SpinMove, Zenon

\* push_off(): intena is what interrupts were when the first lock was taken.
LEMMA StepPushOff ==
  ASSUME TrapInv, TickInv, NEW c \in Harts, PushOff(c)
  PROVE  TrapInv' /\ TickInv'
<1> PICK f : f = Top(c)
  OBVIOUS
<1> PICK k : k = current[c]
  OBVIOUS
<1> PICK deep \in BOOLEAN : deep <=> Len(frames[k]) = 2
  BY Zenon
<1>0. /\ f \in Frame /\ StackInv /\ ThreadInv /\ LockInv /\ ~trapPanic /\ Shape(f, k) /\ f = frames[k][1]
      /\ Fits(f, Len(frames[k]) = 2, sie[c], noff[c], intena[c])
      /\ Len(frames[k]) = 1 => f.at \in BottomAt(k)
      /\ Len(frames[k]) = 2 => f.at \in HandlerAt
  BY Zenon, Runs DEF TrapInv
<1>1. /\ f.op = "off" /\ sie' = [sie EXCEPT ![c] = FALSE]
      /\ intena' = [intena EXCEPT ![c] = IF noff[c] = 0 THEN f.old ELSE @]
      /\ noff' = [noff EXCEPT ![c] = @ + 1] /\ trapPanic' = holding(c, f.lk)
      /\ current' = current /\ UNCHANGED lockVars /\ UNCHANGED <<procVars, ticks>>
  BY DEF PushOff, AtOp
<1>2. PICK g : SetTop(c, g) /\ g = [f EXCEPT !.op = "swap", !.old = FALSE]
  BY Zenon DEF PushOff
<1>3. f.lk \in SpinLocks /\ f.old \in BOOLEAN /\ f.at \notin {"yielded", "zombie", "slept"}
  BY Zenon, <1>0, <1>1, FrameIs DEF Shape
<1>4. g \in Frame /\ g.at = f.at /\ g.op = "swap" /\ g.lk = f.lk /\ g.todo = f.todo
  BY <1>0, <1>2, Zenon DEF Frame
<1>5. /\ Shape(g, k) /\ Depth(g) = Depth(f) + (IF f.op = "off" THEN 1 ELSE 0)
      /\ \A l \in SpinLocks \ {f.lk} : (Holds(g, k, l) <=> Holds(f, k, l)) /\ (Owns(g, k, l) <=> Owns(f, k, l))
      /\ Holds(f, k, f.lk) <=> f.op \in {"own", "release", "unlock"}
      /\ Holds(g, k, f.lk) <=> f.op \in {"swap", "own", "release"}
  BY <1>0, <1>1, <1>4, SpinShape, Zenon
<1>6. /\ Depth(g) = Depth(f) + 1 /\ ~Holds(f, k, f.lk) /\ ~Holds(g, k, f.lk) /\ f.op # "none"
      /\ Depth(f) >= 0 /\ Depth(f) \in Int
  BY Zenon, <1>0, <1>1, <1>5, FrameIs, DepthNat
<1>7. PICK i \in BOOLEAN : i = IF noff[c] = 0 THEN f.old ELSE intena[c]
  BY Zenon, <1>0, <1>3 DEF StackInv, RegisterTypes
<1>8. /\ sie'[c] = FALSE /\ noff'[c] = noff[c] + 1 /\ intena'[c] = i /\ Registers(c)
  <2>1. sie \in [Harts -> BOOLEAN] /\ noff \in [Harts -> Int] /\ intena \in [Harts -> BOOLEAN]
    BY <1>0, Zenon DEF StackInv, RegisterTypes
  <2>2. noff' = [noff EXCEPT ![c] = noff[c] + 1] /\ noff[c] + 1 \in Int
    BY ONLY <1>1, <2>1
  <2>3. intena' = [intena EXCEPT ![c] = i]
    BY Zenon, <1>1, <1>7
  <2>4. RegisterTypes'
    <3>1. sie' \in [Harts -> BOOLEAN] /\ intena' \in [Harts -> BOOLEAN]
      BY <1>1, <2>1, <2>3, Zenon
    <3>2. noff' \in [Harts -> Int]
      BY <2>1, <2>2, Zenon
    <3>3. QED
      BY <3>1, <3>2, Zenon DEF RegisterTypes
  <2>5. QED
    BY <1>1, <2>1, <2>2, <2>3, <2>4, Zenon DEF Registers
<1>9. /\ noff[c] = Depth(f) /\ (f.op = "off" => f.old = sie[c])
      /\ deep => ~sie[c] /\ (noff[c] > 0 => ~intena[c])
      /\ ~deep /\ f.at \in CallAt => (noff[c] = 0 => sie[c]) /\ (noff[c] > 0 => intena[c])
  <2>1. f.at # "yielded"
    BY ONLY <1>3
  <2>2. QED
    BY <1>0, <2>1, Zenon DEF Fits
<1>10. /\ noff'[c] = Depth(g) /\ noff'[c] > 0 /\ noff'[c] # 0
       /\ deep => ~i
       /\ ~deep /\ f.at \in CallAt => i
  BY ONLY <1>1, <1>6, <1>7, <1>8, <1>9
<1>11. Fits(g, Len(frames[k]) = 2, sie'[c], noff'[c], intena'[c])
  <2>1. g.op # "off" /\ ~sie'[c]
    BY Zenon, <1>4, <1>8
  <2>2. QED
    BY <1>4, <1>8, <1>10, <2>1, Zenon DEF Fits
<1>12. StackInv' /\ \E s \in Seq(Frame) : Stack(c, s) /\ s[1] = g
  <2>1. /\ Shape(g, current[c]) /\ Fits(g, Len(frames[current[c]]) = 2, sie'[c], noff'[c], intena'[c])
        /\ Len(frames[current[c]]) = 1 => g.at \in BottomAt(current[c])
        /\ Len(frames[current[c]]) = 2 => g.at \in HandlerAt
    BY <1>0, <1>4, <1>5, <1>11, Zenon
  <2>2. QED
    BY <1>0, <1>1, <1>2, <1>4, <1>8, <2>1, TopStep, Zenon
<1>13. PICK s \in Seq(Frame) : Stack(c, s) /\ s[1] = g
  BY <1>12, Zenon
<1>14. LockInv'
  <2>1. \A l \in SpinLocks : (Holds(g, k, l) <=> Holds(f, k, l)) /\ (Owns(g, k, l) <=> Owns(f, k, l))
    BY <1>5, <1>6, Zenon DEF Owns
  <2>2. \A l \in SpinLocks : (Holds(s[1], current[c], l) <=> HoldsAt(c, l)) /\ (Owns(s[1], current[c], l) <=> OwnsAt(c, l))
    BY <1>0, <1>13, <2>1, Zenon DEF HoldsAt, OwnsAt
  <2>3. QED
    BY <1>0, <1>1, <1>13, <2>2, LocksKept, Zenon
<1>15. ~trapPanic'
  <2>1. \A d \in Harts : owner[f.lk] = d <=> OwnsAt(d, f.lk)
    BY <1>0, <1>3, Zenon DEF LockInv
  <2>2. owner[f.lk] # c
    BY <1>0, <1>6, <2>1, Zenon DEF OwnsAt, Owns
  <2>3. QED
    BY <1>1, <2>2, Zenon DEF holding
<1>16. QED
  BY <1>1, <1>4, <1>6, <1>12, <1>13, <1>14, <1>15, SpinMove, Zenon

\* pop_off(): interrupts come back with the last lock, for a system call and never
\* for a handler.
LEMMA StepPopOff ==
  ASSUME TrapInv, TickInv, NEW c \in Harts, PopOff(c)
  PROVE  TrapInv' /\ TickInv'
<1> PICK f : f = Top(c)
  OBVIOUS
<1> PICK k : k = current[c]
  OBVIOUS
<1> PICK deep \in BOOLEAN : deep <=> Len(frames[k]) = 2
  BY Zenon
<1>0. /\ f \in Frame /\ StackInv /\ ThreadInv /\ LockInv /\ ~trapPanic /\ Shape(f, k) /\ f = frames[k][1]
      /\ Fits(f, Len(frames[k]) = 2, sie[c], noff[c], intena[c])
      /\ Len(frames[k]) = 1 => f.at \in BottomAt(k)
      /\ Len(frames[k]) = 2 => f.at \in HandlerAt
  BY Runs, Zenon DEF TrapInv
<1>1. /\ f.op = "pop" /\ trapPanic' = (sie[c] \/ noff[c] < 1) /\ noff' = [noff EXCEPT ![c] = @ - 1]
      /\ sie' = [sie EXCEPT ![c] = @ \/ (noff[c] = 1 /\ intena[c])]
      /\ intena' = intena /\ current' = current /\ UNCHANGED lockVars /\ UNCHANGED <<procVars, ticks>>
  BY DEF PopOff, AtOp
<1>2. PICK g : SetTop(c, g) /\ g = [f EXCEPT !.op = "none", !.lk = Tickslock]
  BY Zenon DEF PopOff
<1>3. /\ f.at \in {"asleep", "done", "yield", "first", "again", "iret", "scan", "wake"}
      /\ f.at \in OwnAt => k \in Threads
  BY Zenon, <1>0, <1>1 DEF Shape
<1>4. g \in Frame /\ g.at = f.at /\ g.op = "none" /\ g.todo = f.todo
  BY <1>0, <1>2, Zenon DEF Frame, SpinLocks
<1>5. \A l \in SpinLocks : (Holds(g, k, l) <=> Holds(f, k, l)) /\ (Owns(g, k, l) <=> Owns(f, k, l))
  BY Zenon, <1>1, <1>3, <1>4 DEF Holds, Owns, Has, PickAt
<1>6. Shape(g, k) /\ Depth(g) = Depth(f) - 1 /\ Depth(f) >= 1 /\ Depth(f) \in Int
  <2>1. Shape(g, k)
    BY <1>3, <1>4, Zenon DEF Shape, PickAt
  <2>2. Count(f) \in 0..2 /\ Count(g) = Count(f)
    BY Zenon, <1>0, <1>4, FrameIs DEF Count
  <2>3. Depth(g) = Count(f) /\ Depth(f) = Count(f) + 1
    BY ONLY <1>1, <1>4, <2>2 DEF Depth
  <2>4. QED
    BY ONLY <2>1, <2>2, <2>3
<1>7. /\ noff[c] = Depth(f) /\ (noff[c] > 0 => ~sie[c])
      /\ deep => ~sie[c] /\ (noff[c] > 0 => ~intena[c])
      /\ ~deep /\ f.at \in CallAt => (noff[c] > 0 => intena[c])
  <2>1. f.at # "yielded"
    BY <1>3
  <2>2. QED
    BY <1>0, <2>1, Zenon DEF Fits
<1>8. PICK b \in BOOLEAN : b <=> noff[c] = 1 /\ intena[c]
  BY Zenon
<1>9. ~sie[c] /\ noff[c] >= 1 /\ noff[c] \in Int
  <2>1. noff[c] = Depth(f) /\ Depth(f) >= 1 /\ Depth(f) \in Int
    BY <1>6, <1>7, Zenon
  <2>2. noff[c] >= 1 /\ noff[c] > 0 /\ noff[c] \in Int
    BY ONLY <2>1
  <2>3. QED
    BY <1>7, <2>2, Zenon
<1>10. /\ sie'[c] = b /\ noff'[c] = noff[c] - 1 /\ intena'[c] = intena[c] /\ Registers(c)
  <2>1. sie \in [Harts -> BOOLEAN] /\ noff \in [Harts -> Int] /\ intena \in [Harts -> BOOLEAN]
    BY <1>0, Zenon DEF StackInv, RegisterTypes
  <2>2. noff' = [noff EXCEPT ![c] = noff[c] - 1] /\ noff[c] - 1 \in Int
    BY ONLY <1>1, <2>1
  <2>3. (sie[c] \/ (noff[c] = 1 /\ intena[c])) = b
    BY Zenon, <1>8, <1>9
  <2>4. sie' = [sie EXCEPT ![c] = b]
    BY <1>1, <2>3, Zenon
  <2>5. RegisterTypes'
    <3>1. sie' \in [Harts -> BOOLEAN] /\ intena' \in [Harts -> BOOLEAN]
      BY <1>1, <2>1, <2>4, Zenon
    <3>2. noff' \in [Harts -> Int]
      BY <2>1, <2>2, Zenon
    <3>3. QED
      BY <3>1, <3>2, Zenon DEF RegisterTypes
  <2>6. QED
    BY <1>1, <2>1, <2>2, <2>4, <2>5, Zenon DEF Registers
<1>11. /\ noff'[c] = Depth(g) /\ (noff'[c] > 0 => ~b)
       /\ deep => ~b /\ ~intena[c]
       /\ ~deep /\ f.at \in CallAt => (noff'[c] = 0 => b) /\ intena[c]
  <2>1. noff'[c] = noff[c] - 1 /\ noff[c] = Depth(f) /\ Depth(g) = Depth(f) - 1 /\ noff[c] >= 1 /\ noff[c] \in Int
    BY <1>6, <1>7, <1>9, <1>10, Zenon
  <2>2. noff'[c] = Depth(g)
    BY ONLY <2>1
  <2>3. noff[c] > 0 /\ (noff'[c] > 0 => noff[c] # 1) /\ (noff'[c] = 0 => noff[c] = 1)
    BY ONLY <2>1
  <2>4. QED
    BY <1>7, <1>8, <2>2, <2>3, Zenon
<1>12. Fits(g, Len(frames[k]) = 2, sie'[c], noff'[c], intena'[c])
  <2>1. g.op # "off"
    BY Zenon, <1>4
  <2>2. QED
    BY <1>4, <1>10, <1>11, <2>1, Zenon DEF Fits
<1>13. StackInv' /\ \E s \in Seq(Frame) : Stack(c, s) /\ s[1] = g
  <2>1. /\ Shape(g, current[c]) /\ Fits(g, Len(frames[current[c]]) = 2, sie'[c], noff'[c], intena'[c])
        /\ Len(frames[current[c]]) = 1 => g.at \in BottomAt(current[c])
        /\ Len(frames[current[c]]) = 2 => g.at \in HandlerAt
    BY <1>0, <1>4, <1>6, <1>12, Zenon
  <2>2. QED
    BY <1>0, <1>1, <1>2, <1>4, <1>10, <2>1, TopStep, Zenon
<1>14. PICK s \in Seq(Frame) : Stack(c, s) /\ s[1] = g
  BY <1>13, Zenon
<1>15. LockInv'
  <2>1. \A l \in SpinLocks : (Holds(s[1], current[c], l) <=> HoldsAt(c, l)) /\ (Owns(s[1], current[c], l) <=> OwnsAt(c, l))
    BY <1>0, <1>5, <1>14, Zenon DEF HoldsAt, OwnsAt
  <2>2. QED
    BY <1>0, <1>1, <1>14, <2>1, LocksKept, Zenon
<1>16. ~trapPanic'
  <2>1. ~(noff[c] < 1)
    BY ONLY <1>9
  <2>2. QED
    BY <1>1, <1>9, <2>1, Zenon
<1>17. g.at # "wakeup" /\ f.op # "none"
  BY Zenon, <1>1, <1>3, <1>4
<1>18. QED
  BY <1>1, <1>4, <1>13, <1>14, <1>15, <1>16, <1>17, SpinMove, Zenon

-----------------------------------------------------------------------------
(* The invariant                                                           *)

\* kkill wakes a sleeper; it changes no stack and no lock.
LEMMA StepKillPauser ==
  ASSUME TrapInv, TickInv, NEW p \in Threads, KillPauser(p)
  PROVE  TrapInv' /\ TickInv'
<1>0. StackInv /\ LockInv /\ ThreadInv /\ ~trapPanic
  BY Zenon DEF TrapInv
<1>1. /\ sie' = sie /\ noff' = noff /\ intena' = intena /\ current' = current /\ locked' = locked /\ owner' = owner
      /\ frames' = frames /\ saved' = saved /\ wanted' = wanted /\ ticks0' = ticks0 /\ ticks' = ticks
      /\ trapPanic' = trapPanic
  BY Zenon DEF KillPauser, hartVars, lockVars
<1>2. doomed' \in [Threads -> BOOLEAN]
  BY <1>0, Zenon DEF KillPauser, ThreadInv
<1>3. /\ pstate' \in [Threads -> {"RUNNABLE", "RUNNING", "SLEEPING", "ZOMBIE"}]
      /\ \A q \in Threads : pstate'[q] = pstate[q] \/ (pstate[q] = "SLEEPING" /\ pstate'[q] = "RUNNABLE")
  BY <1>0, Zenon DEF KillPauser, ThreadInv
<1>4. StackInv'
  BY <1>0, <1>1, Zenon DEF StackInv, HartOK, RegisterTypes
<1>5. LockInv'
  BY <1>0, <1>1, Zenon DEF LockInv, HoldsAt, OwnsAt
<1>6. ASSUME NEW q \in Threads PROVE ThreadOK(q)'
  <2>1. ThreadOK(q)
    BY <1>0, Zenon DEF ThreadInv
  <2>2. CASE pstate'[q] = pstate[q]
    BY <1>1, <2>1, <2>2, Zenon DEF ThreadOK
  <2>3. CASE pstate[q] = "SLEEPING" /\ pstate'[q] = "RUNNABLE"
    BY <1>1, <2>1, <2>3, Zenon DEF ThreadOK
  <2>4. QED
    BY <1>3, <2>2, <2>3, Zenon
<1>7. ThreadInv'
  BY <1>0, <1>1, <1>2, <1>3, <1>6, Zenon DEF ThreadInv
<1>8. \A q \in Threads : Dozing(q)' => Dozing(q)
  <2>1. \A q \in Threads : pstate'[q] = "SLEEPING" => pstate[q] = "SLEEPING"
    BY <1>3
  <2>2. QED
    BY <1>1, <2>1, Zenon DEF Dozing
<1>9. TickInv'
  <2>1. \A q : Elapsed(q)' = Elapsed(q)
    BY <1>1, Zenon DEF Elapsed
  <2>2. QED
    BY <1>1, <1>8, <2>1, Zenon DEF TickInv
<1>10. ~trapPanic'
  BY <1>0, <1>1
<1>11. QED
  BY <1>4, <1>5, <1>7, <1>9, <1>10, Zenon DEF TrapInv

LEMMA TrapStarts == TrapInit => TrapInv /\ TickInv
<1> SUFFICES ASSUME TrapInit PROVE TrapInv /\ TickInv
  OBVIOUS
<1>1. ASSUME NEW k \in Contexts
      PROVE  /\ frames[k] \in Seq(Frame) /\ Len(frames[k]) = 1 /\ frames[k][1].op = "none" /\ frames[k][1].lk = Tickslock
             /\ frames[k][1].at = IF k \in Threads THEN "fork" ELSE "idle"
  <2> DEFINE f == [at |-> IF k \in Threads THEN "fork" ELSE "idle", op |-> "none", lk |-> Tickslock, old |-> FALSE, todo |-> {}]
  <2>1. frames[k] = <<f>>
    BY <1>1, Zenon DEF TrapInit
  <2>2. f \in Frame /\ f.at = (IF k \in Threads THEN "fork" ELSE "idle") /\ f.op = "none" /\ f.lk = Tickslock
    BY Zenon DEF Frame, SpinLocks
  <2> HIDE DEF f
  <2>3. frames[k] \in Seq(Frame) /\ Len(frames[k]) = 1 /\ frames[k][1] = f
    BY ONLY <2>1, <2>2
  <2>4. QED
    BY <2>2, <2>3, Zenon
<1>2. \A c \in Harts : current[c] = c /\ c \in Contexts /\ c \notin Threads /\ ~sie[c] /\ noff[c] = 0
  BY TrapAssumption, Zenon DEF TrapInit, Contexts
<1>3. \A k \in Contexts : Sound(frames[k], k)
  <2> TAKE k \in Contexts
  <2>1. Shape(frames[k][1], k) /\ frames[k][1].at \in BottomAt(k)
    BY <1>1, Zenon DEF Shape, PickAt, OwnAt, BottomAt, ThreadAt, SchedAt
  <2>2. Len(frames[k]) = 1 /\ Len(frames[k]) # 2
    BY <1>1
  <2>3. QED
    BY <2>1, <2>2, Zenon DEF Sound
<1>4. ASSUME NEW c \in Harts
      PROVE  /\ frames[current[c]][1].at = "idle" /\ frames[current[c]][1].op = "none" /\ Len(frames[current[c]]) = 1
             /\ \A l \in SpinLocks : ~HoldsAt(c, l) /\ ~OwnsAt(c, l)
  <2>1. frames[current[c]][1].at = "idle" /\ frames[current[c]][1].op = "none" /\ Len(frames[current[c]]) = 1
    BY Zenon, <1>1, <1>2
  <2>2. QED
    BY Zenon, <2>1 DEF HoldsAt, OwnsAt, Holds, Owns, Has, TickAt, OwnAt, PickAt
<1>5. \A c \in Harts : HartOK(c)
  <2> TAKE c \in Harts
  <2>1. Fits(frames[current[c]][1], Len(frames[current[c]]) = 2, sie[c], noff[c], intena[c])
    <3> PICK f : f = frames[current[c]][1]
      OBVIOUS
    <3>1. f.at = "idle" /\ f.op = "none" /\ ~(Len(frames[current[c]]) = 2)
      BY <1>4
    <3>2. noff[c] = 0 /\ ~(noff[c] > 0)
      BY ONLY <1>2
    <3>3. Depth(f) = 0 /\ f.at \notin CallAt /\ f.op # "off"
      BY ONLY <3>1 DEF Depth, Count, TickAt, OwnAt, PickAt, CallAt
    <3>4. QED
      BY <3>1, <3>2, <3>3, Zenon DEF Fits
  <2>2. QED
    BY <1>2, <2>1, Zenon DEF HartOK
<1>6. StackInv
  <2>1. frames \in [Contexts -> Seq(Frame)]
    <3>1. frames = [k \in Contexts |-> frames[k]]
      BY Zenon DEF TrapInit
    <3>2. QED
      BY <1>1, <3>1, Zenon
  <2>2. RegisterTypes /\ current \in [Harts -> Contexts]
    <3>1. \A c \in Harts : c \in Contexts
      BY Zenon DEF Contexts
    <3>2. sie \in [Harts -> BOOLEAN] /\ intena \in [Harts -> BOOLEAN] /\ current \in [Harts -> Contexts]
      BY <3>1, Zenon DEF TrapInit
    <3>3. noff = [c \in Harts |-> 0]
      BY Zenon DEF TrapInit
    <3>4. noff \in [Harts -> Int]
      BY ONLY <3>3
    <3>5. QED
      BY <3>2, <3>4, Zenon DEF RegisterTypes
  <2>3. QED
    BY <1>2, <1>3, <1>5, <2>1, <2>2, Zenon DEF StackInv
<1>7. LockInv
  <2>1. \A l \in SpinLocks : ~locked[l] /\ owner[l] = Nohart
    BY Zenon DEF TrapInit
  <2>2. locked \in [SpinLocks -> BOOLEAN] /\ owner \in [SpinLocks -> Harts \cup {Nohart}]
    BY Zenon DEF TrapInit
  <2>3. \A c \in Harts : c # Nohart
    BY ONLY TrapAssumption
  <2>4. QED
    BY <1>4, <2>1, <2>2, <2>3, Zenon DEF LockInv
<1>8. ASSUME NEW p \in Threads PROVE frames[p][1].at = "fork" /\ frames[p][1].op = "none" /\ pstate[p] = "RUNNABLE"
  BY <1>1, Zenon DEF Contexts, TrapInit
<1>9. ThreadInv
  <2>1. \A p \in Threads : ~ \E c \in Harts : current[c] = p
    BY <1>2, Zenon
  <2>2. \A p \in Threads : ThreadOK(p)
    BY ONLY <1>8, <2>1, Zenon DEF ThreadOK
  <2>3. /\ pstate \in [Threads -> {"RUNNABLE", "RUNNING", "SLEEPING", "ZOMBIE"}] /\ saved \in [Threads -> BOOLEAN]
        /\ wanted \in [Threads -> Naps \cup {0}] /\ ticks0 \in [Threads -> 0..TICKMOD - 1]
        /\ doomed \in [Threads -> BOOLEAN] /\ ticks \in 0..TICKMOD - 1
    <3>1. TICKMOD - 1 \in Nat /\ 0 \in 0..TICKMOD - 1
      BY ONLY TrapAssumption
    <3>2. QED
      BY <3>1, Zenon DEF TrapInit
  <2>4. QED
    BY <2>2, <2>3, Zenon DEF ThreadInv
<1>10. TickInv
  <2>1. \A p \in Threads : ~Dozing(p)
    BY ONLY <1>8, Zenon DEF Dozing
  <2>2. QED
    BY <2>1, Zenon DEF TickInv
<1>11. ~trapPanic
  BY Zenon DEF TrapInit
<1>12. QED
  BY <1>6, <1>7, <1>9, <1>10, <1>11, Zenon DEF TrapInv

LEMMA TrapSteps == TrapInv /\ TickInv /\ [TrapNext]_trapVars => TrapInv' /\ TickInv'
<1> SUFFICES ASSUME TrapInv, TickInv, [TrapNext]_trapVars PROVE TrapInv' /\ TickInv'
  OBVIOUS
<1>1. ASSUME NEW c \in Harts, SpinStep(c) PROVE TrapInv' /\ TickInv'
  BY <1>1, StepPushRead, StepPushOff, StepSwap, StepOwn, StepRelease, StepUnlock, StepPopOff, Zenon DEF SpinStep
<1>2. ASSUME NEW c \in Harts, SchedulerStep(c) PROVE TrapInv' /\ TickInv'
  BY <1>2, StepIntrOn, StepIntrOff, StepScan, StepTryRun, StepSwitchedBack, Zenon DEF SchedulerStep
<1>3. ASSUME NEW c \in Harts, ThreadStep(c) PROVE TrapInv' /\ TickInv'
  BY Zenon, <1>3, StepForkret, StepReturnToUser, StepPauseReads, StepPauseTest, StepPause, StepSleepReleases, StepLeaves,
     StepComesBack, StepSleepReacquires, Zenon DEF ThreadStep
<1>4. ASSUME NEW c \in Harts, HandlerStep(c) PROVE TrapInv' /\ TickInv'
  BY Zenon, <1>4, StepInterrupt, StepClockIntr, StepTick, StepWakeNext, StepWakeOne, StepTimerYield, StepLeaves,
     StepComesBack, StepReturnFromTrap, Zenon DEF HandlerStep
<1>5. CASE TrapPanicLoop
  BY <1>5, Zenon DEF TrapPanicLoop, TrapInv
<1>6. CASE UNCHANGED trapVars
  <2>1. /\ sie' = sie /\ noff' = noff /\ intena' = intena /\ current' = current /\ locked' = locked /\ owner' = owner
        /\ frames' = frames /\ pstate' = pstate /\ saved' = saved /\ wanted' = wanted /\ ticks0' = ticks0
        /\ doomed' = doomed /\ ticks' = ticks /\ trapPanic' = trapPanic
    BY <1>6, Zenon DEF trapVars, hartVars, lockVars, procVars
  <2>2. StackInv'
    BY <2>1, Zenon DEF TrapInv, StackInv, HartOK, RegisterTypes
  <2>3. LockInv'
    BY <2>1, Zenon DEF TrapInv, LockInv, HoldsAt, OwnsAt
  <2>4. ThreadInv'
    <3>1. ASSUME NEW p \in Threads PROVE ThreadOK(p)'
      <4>1. ThreadOK(p)
        BY Zenon DEF TrapInv, ThreadInv
      <4>2. QED
        BY <2>1, <4>1, Zenon DEF ThreadOK
    <3>2. QED
      BY <2>1, <3>1, Zenon DEF TrapInv, ThreadInv
  <2>5. TickInv'
    BY <2>1, Zenon DEF TickInv, Dozing, Elapsed
  <2>6. ~trapPanic'
    BY <2>1, Zenon DEF TrapInv
  <2>7. QED
    BY <2>2, <2>3, <2>4, <2>5, <2>6, Zenon DEF TrapInv
<1>7. QED
  BY <1>1, <1>2, <1>3, <1>4, <1>5, <1>6, StepKillPauser, Zenon DEF TrapNext

\* What a hart holds is what its frame says, always.
LEMMA TrapInvHolds == TrapSpec => [](TrapInv /\ TickInv)
<1>1. TrapInit => TrapInv /\ TickInv
  BY TrapStarts
<1>2. (TrapInv /\ TickInv) /\ [TrapNext]_trapVars => (TrapInv /\ TickInv)'
  BY TrapSteps
<1>3. QED
  BY <1>1, <1>2, PTL DEF TrapSpec

-----------------------------------------------------------------------------
(* The properties                                                          *)

\* For any number of harts and processes: a system call that holds no lock runs with
\* interrupts on and a handler with interrupts off, on whichever hart sched() has
\* brought it to (the save and restore of intena in sched(), kernel/proc.c).
THEOREM InterruptsRestoredAlways == TrapSpec => []InterruptsRestored
<1>1. ASSUME TrapInv PROVE InterruptsRestored
  <2> SUFFICES ASSUME NEW c \in Harts, noff[c] = 0
               PROVE  CASE Top(c).at \in {"ticks0", "again", "done", "user"} /\ Len(frames[current[c]]) = 1 -> sie[c]
                        [] Len(frames[current[c]]) = 2 -> ~sie[c]
                        [] OTHER -> TRUE
    BY Zenon DEF InterruptsRestored
  <2>1. Fits(Top(c), Len(frames[current[c]]) = 2, sie[c], noff[c], intena[c]) /\ sie[c] \in BOOLEAN
    BY <1>1, Runs, Zenon DEF TrapInv, StackInv, RegisterTypes
  <2>2. Len(frames[current[c]]) = 2 => ~sie[c]
    BY <2>1, Zenon DEF Fits
  <2>3. Top(c).at \in {"ticks0", "again", "done", "user"} /\ Len(frames[current[c]]) = 1 => sie[c]
    <3>1. Top(c).at \in {"ticks0", "again", "done", "user"} /\ Len(frames[current[c]]) = 1
            => Top(c).at \in CallAt /\ ~(Len(frames[current[c]]) = 2)
      BY DEF CallAt
    <3>2. QED
      BY <2>1, <3>1, Zenon DEF Fits
  <2>4. QED
    BY <2>1, <2>2, <2>3
<1>2. QED
  BY <1>1, TrapInvHolds, PTL

\* For any number of harts and processes and any range of ticks: whoever sleeps in
\* pause() while tickslock is free has ticks to wait for, since sleep() takes p->lock
\* before it gives up tickslock and wakeup() takes it too (kernel/proc.c).
THEOREM NoMissedTickAlways == TrapSpec => []NoMissedTick
<1>1. ASSUME TrapInv, TickInv PROVE NoMissedTick
  <2> SUFFICES ASSUME ~locked[Tickslock], NEW p \in Threads, pstate[p] = "SLEEPING"
               PROVE  Elapsed(p) < wanted[p]
    BY Zenon DEF NoMissedTick
  <2>1. ASSUME NEW d \in Harts PROVE ~Visits(frames[current[d]][1], p)
    <3>1. SUFFICES ASSUME Visits(frames[current[d]][1], p) PROVE FALSE
      BY Zenon
    <3> PICK f : f = frames[current[d]][1]
      BY Zenon
    <3>2. f \in Frame /\ Shape(f, current[d])
      BY <1>1, Runs, Zenon DEF TrapInv
    <3>3. f.op \in Ops /\ f.at \in {"wake", "wakeup"}
      BY <3>1, <3>2, FrameIs, Zenon DEF Visits
    <3>4. Holds(f, current[d], Tickslock)
      BY <3>2, <3>3, TrapAssumption, Zenon DEF Shape, Holds, Has, TickAt, PickAt, Ops
    <3>5. HoldsAt(d, Tickslock) /\ Tickslock \in SpinLocks
      BY <3>4, Zenon DEF HoldsAt, SpinLocks
    <3>6. QED
      BY <1>1, <3>5, Alone, Zenon DEF TrapInv
  <2>2. Dozing(p)
    BY Zenon DEF Dozing
  <2>3. QED
    BY <1>1, <2>1, <2>2, Zenon DEF TickInv
<1>2. QED
  BY <1>1, TrapInvHolds, PTL
=============================================================================
