-------------------------------- MODULE Pipe --------------------------------
(***************************************************************************)
(* A kernel pipe (kernel/pipe.c): a ring of PIPESIZE bytes shared by the   *)
(* processes that hold a file descriptor on one of its ends, protected by  *)
(* pi->lock, with sleep/wakeup on &pi->nread and &pi->nwrite.              *)
(*                                                                         *)
(* One step is what a process does between two points at which another     *)
(* process can act.  pi->lock is explicit, because kkill() does not take   *)
(* it: a kill lands between any two iterations of the copy loops, and      *)
(* between the test of killed() and the sleep() that follows it.           *)
(***************************************************************************)
EXTENDS Naturals, FiniteSets, Sequences

CONSTANTS
  Procs,      \* processes that ever hold a descriptor of the pipe
  Creator,    \* the one that called pipe(); the others are forked
  Killable,   \* processes that kill() may be aimed at
  Byte,       \* byte values
  NoByte,     \* what a slot holds before its first write
  PIPESIZE,   \* slots of pi->data
  UINT_MOD,   \* 2^32 in the code: nread and nwrite wrap here
  MAXN,       \* bound on the byte count of one read() or write()
  Counts,     \* byte counts that programs pass
  Eof,        \* a read of n > 0 bytes that returned 0
  None        \* no process, no channel

ASSUME PipeAssumption ==
  /\ Creator \in Procs /\ Killable \subseteq Procs /\ None \notin Procs
  /\ None \notin {"nread", "nwrite"}
  /\ NoByte \notin Byte \cup {Eof} /\ Eof \notin Byte
  /\ PIPESIZE \in Nat \ {0} /\ UINT_MOD \in Nat /\ MAXN \in Nat
  /\ Counts \subseteq 0..MAXN
  /\ UINT_MOD > PIPESIZE

\* PIPESIZE divides 2^32, so that the slot of a counter survives its wrap.
ASSUME SlotAssumption == UINT_MOD % PIPESIZE = 0

VARIABLES
  nread, nwrite,        \* pi->nread, pi->nwrite
  data,                 \* pi->data
  readopen, writeopen,  \* pi->readopen, pi->writeopen
  freed,                \* kfree(pi) has run
  lock,                 \* holder of pi->lock
  rfd, wfd,             \* processes whose ofile[] refers to each end's file
  pc,                   \* where each process is in the pipe code
  n, i,                 \* the count argument and the loop index
  chan,                 \* channel a SLEEPING process sleeps on, or None
  killed,               \* p->killed
  out                   \* ghost: the last byte a reader got, or Eof

ring  == <<nread, nwrite, data>>
ends  == <<readopen, writeopen, freed>>
procs == <<pc, n, i, chan>>
vars  == <<ring, ends, lock, rfd, wfd, procs, killed, out>>

Chans == {"nread", "nwrite"}

\* The points of pipewrite, piperead and pipeclose a process can be at.
\* "wacquire" and "racquire" also stand for a process inside sleep(): asleep
\* while chan # None, and about to re-acquire pi->lock once woken.
Labels == {"none", "idle", "exited",
           "wacquire", "wloop", "wsleep",
           "racquire", "rloop", "rsleep", "rcopy",
           "closew", "closer", "kfree"}

Inside(p)  == pc[p] \notin {"none", "idle", "exited"}
Holding(p) == pc[p] \in {"wloop", "wsleep", "rloop", "rsleep", "rcopy"}

Empty == nread = nwrite

Full  == nwrite = (nread + PIPESIZE) % UINT_MOD

Goto(p, l) == pc' = [pc EXCEPT ![p] = l]

\* The system call returns; its locals are gone.
Return(p) ==
  /\ Goto(p, "idle")
  /\ n' = [n EXCEPT ![p] = 0] /\ i' = [i EXCEPT ![p] = 0]

\* chan as wakeup(c) leaves it: every process asleep on c is RUNNABLE.
Woken(c) == [p \in Procs |-> IF chan[p] = c THEN None ELSE chan[p]]

\* chan as sleep(c, &pi->lock) leaves it.  p->lock, held from before the
\* release of pi->lock until p is off its CPU, makes this one step for wakeup.
Asleep(p, c) == [chan EXCEPT ![p] = c]

-----------------------------------------------------------------------------
(* pipealloc: the creator holds both ends of an empty pipe.                *)
Init ==
  /\ nread = 0 /\ nwrite = 0
  /\ data = [s \in 0..(PIPESIZE-1) |-> NoByte]
  /\ readopen = TRUE /\ writeopen = TRUE /\ freed = FALSE
  /\ lock = None
  /\ rfd = {Creator} /\ wfd = {Creator}
  /\ pc = [p \in Procs |-> IF p = Creator THEN "idle" ELSE "none"]
  /\ n = [p \in Procs |-> 0] /\ i = [p \in Procs |-> 0]
  /\ chan = [p \in Procs |-> None]
  /\ killed = [p \in Procs |-> FALSE]
  /\ out = NoByte

(* kfork: the child's ofile[] gets a filedup of each descriptor of p.      *)
Fork(p, c) ==
  /\ pc[p] = "idle" /\ ~killed[p] /\ pc[c] = "none"
  /\ Goto(c, "idle")
  /\ rfd' = IF p \in rfd THEN rfd \cup {c} ELSE rfd
  /\ wfd' = IF p \in wfd THEN wfd \cup {c} ELSE wfd
  /\ UNCHANGED <<ring, ends, lock, n, i, chan, killed, out>>

(* kkill(pid): sets killed and makes a sleeper runnable.                   *)
Kill(p) ==
  /\ pc[p] \notin {"none", "exited"} /\ ~killed[p]
  /\ killed' = [killed EXCEPT ![p] = TRUE]
  /\ chan' = [chan EXCEPT ![p] = None]
  /\ UNCHANGED <<ring, ends, lock, rfd, wfd, pc, n, i, out>>

-----------------------------------------------------------------------------
(* pipewrite                                                               *)

WriteEnter(p, cnt) ==
  /\ pc[p] = "idle" /\ p \in wfd /\ ~killed[p]
  /\ Goto(p, "wacquire")
  /\ n' = [n EXCEPT ![p] = cnt] /\ i' = [i EXCEPT ![p] = 0]
  /\ UNCHANGED <<ring, ends, lock, rfd, wfd, chan, killed, out>>

\* acquire(&pi->lock), at the top or at the end of sleep().
WriteAcquire(p) ==
  /\ pc[p] = "wacquire" /\ chan[p] = None /\ lock = None
  /\ lock' = p
  /\ Goto(p, "wloop")
  /\ UNCHANGED <<ring, ends, rfd, wfd, n, i, chan, killed, out>>

CannotWrite(p) == ~readopen \/ killed[p]

\* No reader is left, or p was killed: release and return -1.
WriteAbort(p) ==
  /\ pc[p] = "wloop" /\ i[p] < n[p] /\ CannotWrite(p)
  /\ lock' = None
  /\ Return(p)
  /\ UNCHANGED <<ring, ends, rfd, wfd, chan, killed, out>>

\* Mutant: the writer goes to sleep without waking the readers.
WriteFullSilent(p) ==
  /\ pc[p] = "wloop" /\ i[p] < n[p] /\ ~CannotWrite(p) /\ Full
  /\ Goto(p, "wsleep")
  /\ UNCHANGED <<ring, ends, lock, rfd, wfd, n, i, chan, killed, out>>

\* The ring is full: wake the readers and go on to sleep(&pi->nwrite).
WriteFull(p) ==
  /\ pc[p] = "wloop" /\ i[p] < n[p] /\ ~CannotWrite(p) /\ Full
  /\ chan' = Woken("nread")
  /\ Goto(p, "wsleep")
  /\ UNCHANGED <<ring, ends, lock, rfd, wfd, n, i, killed, out>>

WriteSleep(p) ==
  /\ pc[p] = "wsleep"
  /\ lock' = None
  /\ chan' = Asleep(p, "nwrite")
  /\ Goto(p, "wacquire")
  /\ UNCHANGED <<ring, ends, rfd, wfd, n, i, killed, out>>

\* copyin() succeeds: one byte enters the ring.
WriteByte(p, b) ==
  /\ pc[p] = "wloop" /\ i[p] < n[p] /\ ~CannotWrite(p) /\ ~Full
  /\ data' = [data EXCEPT ![nwrite % PIPESIZE] = b]
  /\ nwrite' = (nwrite + 1) % UINT_MOD
  /\ i' = [i EXCEPT ![p] = @ + 1]
  /\ UNCHANGED <<nread, ends, lock, rfd, wfd, pc, n, chan, killed, out>>

\* Mutant: the writer returns with pi->lock held.
WriteReturnLocked(p) ==
  /\ pc[p] = "wloop"
  /\ i[p] = n[p] \/ (~CannotWrite(p) /\ ~Full)
  /\ chan' = Woken("nread")
  /\ Return(p)
  /\ UNCHANGED <<ring, ends, lock, rfd, wfd, killed, out>>

\* All n bytes are in, or copyin() fails on the next one: wake the readers,
\* release and return i.
WriteReturn(p) ==
  /\ pc[p] = "wloop"
  /\ i[p] = n[p] \/ (~CannotWrite(p) /\ ~Full)
  /\ chan' = Woken("nread")
  /\ lock' = None
  /\ Return(p)
  /\ UNCHANGED <<ring, ends, rfd, wfd, killed, out>>

-----------------------------------------------------------------------------
(* piperead                                                                *)

ReadEnter(p, cnt) ==
  /\ pc[p] = "idle" /\ p \in rfd /\ ~killed[p]
  /\ Goto(p, "racquire")
  /\ n' = [n EXCEPT ![p] = cnt] /\ i' = [i EXCEPT ![p] = 0]
  /\ UNCHANGED <<ring, ends, lock, rfd, wfd, chan, killed, out>>

ReadAcquire(p) ==
  /\ pc[p] = "racquire" /\ chan[p] = None /\ lock = None
  /\ lock' = p
  /\ Goto(p, "rloop")
  /\ UNCHANGED <<ring, ends, rfd, wfd, n, i, chan, killed, out>>

MustWait == Empty /\ writeopen

\* Nothing to read and p was killed: release and return -1.
ReadAbort(p) ==
  /\ pc[p] = "rloop" /\ MustWait /\ killed[p]
  /\ lock' = None
  /\ Return(p)
  /\ UNCHANGED <<ring, ends, rfd, wfd, chan, killed, out>>

\* Nothing to read: go on to sleep(&pi->nread).
ReadEmpty(p) ==
  /\ pc[p] = "rloop" /\ MustWait /\ ~killed[p]
  /\ Goto(p, "rsleep")
  /\ UNCHANGED <<ring, ends, lock, rfd, wfd, n, i, chan, killed, out>>

ReadSleep(p) ==
  /\ pc[p] = "rsleep"
  /\ lock' = None
  /\ chan' = Asleep(p, "nread")
  /\ Goto(p, "racquire")
  /\ UNCHANGED <<ring, ends, rfd, wfd, n, i, killed, out>>

\* Data, or end of file: fall through to the copy loop.
ReadReady(p) ==
  /\ pc[p] = "rloop" /\ ~MustWait
  /\ Goto(p, "rcopy")
  /\ UNCHANGED <<ring, ends, lock, rfd, wfd, n, i, chan, killed, out>>

\* copyout() succeeds: one byte leaves the ring.
ReadByte(p) ==
  /\ pc[p] = "rcopy" /\ i[p] < n[p] /\ ~Empty
  /\ nread' = (nread + 1) % UINT_MOD
  /\ i' = [i EXCEPT ![p] = @ + 1]
  /\ out' = data[nread % PIPESIZE]
  /\ UNCHANGED <<nwrite, data, ends, lock, rfd, wfd, pc, n, chan, killed>>

\* Mutant: nread is incremented before copyout(), whose failure loses the byte.
ReadReturnLosing(p) ==
  /\ pc[p] = "rcopy"
  /\ nread' = IF i[p] < n[p] /\ ~Empty THEN (nread + 1) % UINT_MOD ELSE nread
  /\ chan' = Woken("nwrite")
  /\ lock' = None
  /\ Return(p)
  /\ out' = IF Empty /\ i[p] = 0 /\ n[p] > 0 THEN Eof ELSE out
  /\ UNCHANGED <<nwrite, data, ends, rfd, wfd, killed>>

\* The count is reached, the ring is empty, or copyout() fails on the next
\* byte, which then stays in the ring: wake the writers, release and return.
ReadReturn(p) ==
  /\ pc[p] = "rcopy"
  /\ chan' = Woken("nwrite")
  /\ lock' = None
  /\ Return(p)
  /\ out' = IF Empty /\ i[p] = 0 /\ n[p] > 0 THEN Eof ELSE out
  /\ UNCHANGED <<ring, ends, rfd, wfd, killed>>

-----------------------------------------------------------------------------
(* fileclose and pipeclose                                                 *)

\* fileclose drops p's reference; the last one of an end calls pipeclose.
CloseWriteFd(p) ==
  /\ pc[p] = "idle" /\ p \in wfd
  /\ wfd' = wfd \ {p}
  /\ Goto(p, IF wfd = {p} THEN "closew" ELSE "idle")
  /\ UNCHANGED <<ring, ends, lock, rfd, n, i, chan, killed, out>>

CloseReadFd(p) ==
  /\ pc[p] = "idle" /\ p \in rfd
  /\ rfd' = rfd \ {p}
  /\ Goto(p, IF rfd = {p} THEN "closer" ELSE "idle")
  /\ UNCHANGED <<ring, ends, lock, wfd, n, i, chan, killed, out>>

\* Mutant: the pipe is freed when the write end closes, whatever the other end.
PipeCloseWriteFrees(p) ==
  /\ pc[p] = "closew" /\ lock = None
  /\ writeopen' = FALSE
  /\ chan' = Woken("nread")
  /\ Goto(p, "kfree")
  /\ UNCHANGED <<ring, readopen, freed, lock, rfd, wfd, n, i, killed, out>>

\* pipeclose(pi, 1): nothing else happens while it holds pi->lock.
PipeCloseWrite(p) ==
  /\ pc[p] = "closew" /\ lock = None
  /\ writeopen' = FALSE
  /\ chan' = Woken("nread")
  /\ Goto(p, IF readopen THEN "idle" ELSE "kfree")
  /\ UNCHANGED <<ring, readopen, freed, lock, rfd, wfd, n, i, killed, out>>

\* pipeclose(pi, 0)
PipeCloseRead(p) ==
  /\ pc[p] = "closer" /\ lock = None
  /\ readopen' = FALSE
  /\ chan' = Woken("nwrite")
  /\ Goto(p, IF writeopen THEN "idle" ELSE "kfree")
  /\ UNCHANGED <<ring, writeopen, freed, lock, rfd, wfd, n, i, killed, out>>

PipeClose(p) == PipeCloseWrite(p) \/ PipeCloseRead(p)

\* The end of pipeclose when both ends are closed, after the release.
KFree(p) ==
  /\ pc[p] = "kfree"
  /\ freed' = TRUE
  /\ Goto(p, "idle")
  /\ UNCHANGED <<ring, readopen, writeopen, lock, rfd, wfd, n, i, chan, killed, out>>

\* The process is gone once kexit() has closed its descriptors.
Exit(p) ==
  /\ pc[p] = "idle" /\ p \notin rfd \cup wfd
  /\ Goto(p, "exited")
  /\ UNCHANGED <<ring, ends, lock, rfd, wfd, n, i, chan, killed, out>>

-----------------------------------------------------------------------------
\* What p does on its own once it is inside the pipe code.
Step(p) ==
  \/ WriteAcquire(p) \/ WriteAbort(p) \/ WriteFull(p) \/ WriteSleep(p)
  \/ (\E b \in Byte : WriteByte(p, b)) \/ WriteReturn(p)
  \/ ReadAcquire(p) \/ ReadAbort(p) \/ ReadEmpty(p) \/ ReadSleep(p)
  \/ ReadReady(p) \/ ReadByte(p) \/ ReadReturn(p)
  \/ PipeClose(p) \/ KFree(p)

\* The calls a user program may or may not make.
Call(p) ==
  \/ \E c \in Procs : Fork(p, c)
  \/ \E cnt \in Counts : WriteEnter(p, cnt) \/ ReadEnter(p, cnt)
  \/ CloseWriteFd(p) \/ CloseReadFd(p) \/ Exit(p)

Next ==
  \/ \E p \in Procs : Step(p) \/ Call(p)
  \/ \E p \in Killable : Kill(p)

Spec == Init /\ [][Next]_vars

\* The CPUs keep running the processes that are inside the pipe code: they
\* hold a spinlock, spin on one, or are RUNNABLE in a round-robin scheduler.  A
\* process that spins on a lock that is free again and again gets it.
FairSpec ==
  Spec /\ \A p \in Procs :
            WF_vars(Step(p)) /\ SF_vars(WriteAcquire(p) \/ ReadAcquire(p) \/ PipeClose(p))

-----------------------------------------------------------------------------
(* Properties                                                              *)

TypeOK ==
  /\ nread \in 0..(UINT_MOD-1) /\ nwrite \in 0..(UINT_MOD-1)
  /\ data \in [0..(PIPESIZE-1) -> Byte \cup {NoByte}]
  /\ readopen \in BOOLEAN /\ writeopen \in BOOLEAN /\ freed \in BOOLEAN
  /\ lock \in Procs \cup {None}
  /\ rfd \subseteq Procs /\ wfd \subseteq Procs
  /\ pc \in [Procs -> Labels]
  /\ n \in [Procs -> 0..MAXN] /\ i \in [Procs -> 0..MAXN]
  /\ chan \in [Procs -> Chans \cup {None}]
  /\ killed \in [Procs -> BOOLEAN]
  /\ out \in Byte \cup {NoByte, Eof}

\* Bytes in the ring, from two counters that wrap.
Count == (nwrite + UINT_MOD - nread) % UINT_MOD

\* The ring never holds more than PIPESIZE bytes: however the writers and
\* readers interleave, and across the wrap of the 32-bit counters, no byte that
\* has not been read is overwritten (the test at "DOC: pipewrite-full").
RingBound == Count <= PIPESIZE

\* wakeup(&pi->nread) is never missed.  A reader is asleep only while there is
\* nothing to read and a writer is left, or while a writer is still in its loop
\* and will wake it before it lets go of pi->lock.  The one exception is the
\* early return of a killed writer, which does not call wakeup.
NoStrandedReader ==
  \A p \in Procs : chan[p] = "nread" =>
    \/ MustWait
    \/ \E w \in Procs : lock = w /\ pc[w] = "wloop"
    \/ \E k \in Procs : killed[k]

\* wakeup(&pi->nwrite) is never missed, killed processes included: a writer is
\* asleep only while the ring is full and a reader is left, or while a reader
\* is in its copy loop and will wake it.
NoStrandedWriter ==
  \A p \in Procs : chan[p] = "nwrite" =>
    \/ Full /\ readopen
    \/ \E r \in Procs : lock = r /\ pc[r] = "rcopy"

\* No wakeup is missed, by a reader or by a writer.
NoStrandedSleeper == NoStrandedReader /\ NoStrandedWriter

\* kfree(pi) comes after the last use: no process is inside the pipe code, waits
\* for pi->lock or sleeps on the pipe, and no descriptor refers to it.
NoUseAfterFree ==
  freed => rfd = {} /\ wfd = {} /\ \A p \in Procs : ~Inside(p)

\* End of file is final: once a read of n > 0 bytes has returned 0 the ring is
\* empty and no writer is left, so that no later read returns a byte.
EofIsFinal == out = Eof => Empty /\ ~writeopen

\* What every call can rely on when it has pi->lock: the pipe is still there, the
\* ring has not overflowed, and an end of file that was reported stays true.
PipeConsistent == TypeOK /\ RingBound /\ NoUseAfterFree /\ EofIsFinal

\* The contents of the ring, oldest byte first.
Contents ==
  [k \in 1..Count |-> data[((nread + k - 1) % UINT_MOD) % PIPESIZE]]

Channel == INSTANCE PipeChannel WITH
  Capacity <- PIPESIZE, queue <- Contents, ropen <- readopen, wopen <- writeopen

\* The ring, its locks and its sleeps implement a bounded FIFO channel: every
\* byte pipewrite stored reaches a reader once, in order, unless the read end
\* is closed first; a failed copyout() loses none.
ImplementsChannel == Channel!Spec

\* Every call ends: a process does not stay for ever inside piperead, pipewrite
\* or pipeclose unless it sleeps on an empty ring that has writers or on a full
\* one that has readers (or a killed writer left bytes without a wakeup).
CallsReturn ==
  \A p \in Procs :
    []<>(\/ ~Inside(p)
         \/ chan[p] = "nread" /\ (MustWait \/ \E k \in Procs : killed[k])
         \/ chan[p] = "nwrite" /\ Full /\ readopen)
=============================================================================
