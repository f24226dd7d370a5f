----------------------------- MODULE PipeProofs -----------------------------
(***************************************************************************)
(* Proofs about Pipe for every set of processes, ring size and counter     *)
(* width: the ring is bounded, no wakeup is missed, the pipe is freed      *)
(* after its last use, and it implements PipeChannel.                      *)
(***************************************************************************)
EXTENDS Pipe, Integers, SequenceTheorems, TLAPS

-----------------------------------------------------------------------------
(* Arithmetic of the wrapping counters.                                    *)

\* A remainder is below its modulus.
LEMMA ModRange ==
  ASSUME NEW x \in Nat, NEW m \in Nat \ {0}
  PROVE  x % m \in 0..(m-1)
OBVIOUS

\* The number of bytes between two counters in 0..(UINT_MOD-1).
Dist(r, w) == (w + UINT_MOD - r) % UINT_MOD

\* The bytes between two counters, without the remainder.
LEMMA DistCases ==
  ASSUME NEW r \in 0..(UINT_MOD-1), NEW w \in 0..(UINT_MOD-1)
  PROVE  Dist(r, w) = IF w >= r THEN w - r ELSE w + UINT_MOD - r
<1>1. UINT_MOD \in Nat \ {0}
  BY PipeAssumption
<1>2. CASE w >= r
  <2>1. w + UINT_MOD - r \in Nat /\ w + UINT_MOD - r >= UINT_MOD
        /\ w + UINT_MOD - r < UINT_MOD + UINT_MOD
    BY <1>1, <1>2
  <2>2. QED
    BY <1>1, <1>2, <2>1 DEF Dist
<1>3. CASE w < r
  <2>1. w + UINT_MOD - r \in Nat /\ w + UINT_MOD - r < UINT_MOD
    BY <1>1, <1>3
  <2>2. QED
    BY <1>1, <1>3, <2>1 DEF Dist
<1>4. QED
  BY <1>2, <1>3

\* Advancing the write counter of a ring that is not full adds one byte.
LEMMA DistAfterWrite ==
  ASSUME NEW r \in 0..(UINT_MOD-1), NEW w \in 0..(UINT_MOD-1),
         Dist(r, w) <= PIPESIZE, w # (r + PIPESIZE) % UINT_MOD
  PROVE  /\ Dist(r, (w + 1) % UINT_MOD) <= PIPESIZE
         /\ (w + 1) % UINT_MOD \in 0..(UINT_MOD-1)
         /\ (w + 1) % UINT_MOD # r
<1>1. UINT_MOD \in Nat \ {0} /\ PIPESIZE \in Nat \ {0} /\ UINT_MOD > PIPESIZE
  BY PipeAssumption
<1>2. (w + 1) % UINT_MOD = IF w + 1 < UINT_MOD THEN w + 1 ELSE w + 1 - UINT_MOD
  BY <1>1
<1>3. (r + PIPESIZE) % UINT_MOD =
        IF r + PIPESIZE < UINT_MOD THEN r + PIPESIZE ELSE r + PIPESIZE - UINT_MOD
  BY <1>1
<1>4. (w + 1) % UINT_MOD \in 0..(UINT_MOD-1)
  BY <1>1, <1>2
<1>5. Dist(r, w) = IF w >= r THEN w - r ELSE w + UINT_MOD - r
  BY DistCases
<1>6. Dist(r, (w + 1) % UINT_MOD) =
        IF (w + 1) % UINT_MOD >= r THEN ((w + 1) % UINT_MOD) - r
                                   ELSE ((w + 1) % UINT_MOD) + UINT_MOD - r
  BY <1>4, DistCases
<1>7. QED
  BY <1>1, <1>2, <1>3, <1>4, <1>5, <1>6

\* Advancing the read counter of a ring that is not empty removes one byte.
LEMMA DistAfterRead ==
  ASSUME NEW r \in 0..(UINT_MOD-1), NEW w \in 0..(UINT_MOD-1),
         Dist(r, w) <= PIPESIZE, r # w
  PROVE  /\ Dist((r + 1) % UINT_MOD, w) <= PIPESIZE
         /\ (r + 1) % UINT_MOD \in 0..(UINT_MOD-1)
<1>1. UINT_MOD \in Nat \ {0} /\ PIPESIZE \in Nat \ {0}
  BY PipeAssumption
<1>2. (r + 1) % UINT_MOD = IF r + 1 < UINT_MOD THEN r + 1 ELSE r + 1 - UINT_MOD
  BY <1>1
<1>3. (r + 1) % UINT_MOD \in 0..(UINT_MOD-1)
  BY <1>1, <1>2
<1>4. QED
  BY <1>1, <1>2, <1>3, DistCases

-----------------------------------------------------------------------------
(* Type correctness.                                                       *)

\* Every variable of the pipe keeps its type; nread and nwrite stay 32-bit.
THEOREM TypeCorrect == Spec => []TypeOK
<1> USE PipeAssumption
<1>1. Init => TypeOK
  <2> SUFFICES ASSUME Init PROVE TypeOK
    OBVIOUS
  <2>1. nread \in 0..(UINT_MOD-1) /\ nwrite \in 0..(UINT_MOD-1)
    BY DEF Init
  <2>2. n \in [Procs -> 0..MAXN] /\ i \in [Procs -> 0..MAXN]
    BY DEF Init
  <2>3. data \in [0..(PIPESIZE-1) -> Byte \cup {NoByte}]
    BY DEF Init
  <2>4. pc \in [Procs -> Labels] /\ chan \in [Procs -> Chans \cup {None}]
    BY DEF Init, Labels
  <2>5. QED
    BY Zenon, <2>1, <2>2, <2>3, <2>4 DEF Init, TypeOK
<1>2. TypeOK /\ [Next]_vars => TypeOK'
  <2> SUFFICES ASSUME TypeOK, [Next]_vars PROVE TypeOK'
    OBVIOUS
  <2> USE DEF TypeOK, Labels, Chans, Goto, Return, Woken, Asleep, ring, ends
  <2>1. ASSUME NEW p \in Procs, NEW b \in Byte, WriteByte(p, b) PROVE TypeOK'
    <3>1. (nwrite + 1) % UINT_MOD \in 0..(UINT_MOD-1)
      BY ModRange
    <3>2. i[p] + 1 \in 0..MAXN
      <4>1. i[p] \in 0..MAXN /\ n[p] \in 0..MAXN /\ i[p] < n[p]
        BY <2>1 DEF WriteByte
      <4>2. QED
        BY <4>1
    <3>3. nwrite % PIPESIZE \in 0..(PIPESIZE-1)
      BY ModRange
    <3>4. QED
      BY <2>1, <3>1, <3>2, <3>3 DEF WriteByte
  <2>2. ASSUME NEW p \in Procs, ReadByte(p) PROVE TypeOK'
    <3>1. (nread + 1) % UINT_MOD \in 0..(UINT_MOD-1)
      BY ModRange
    <3>2. i[p] + 1 \in 0..MAXN
      BY <2>2 DEF ReadByte
    <3>3. data[nread % PIPESIZE] \in Byte \cup {NoByte}
      BY ModRange
    <3>4. QED
      BY Zenon, <2>2, <3>1, <3>2, <3>3 DEF ReadByte
  <2>3. ASSUME NEW p \in Procs, NEW c \in Procs, Fork(p, c) PROVE TypeOK'
    BY <2>3 DEF Fork
  <2>4. ASSUME NEW p \in Procs, NEW cnt \in Counts, WriteEnter(p, cnt) PROVE TypeOK'
    BY <2>4 DEF WriteEnter
  <2>4r. ASSUME NEW p \in Procs, NEW cnt \in Counts, ReadEnter(p, cnt) PROVE TypeOK'
    BY <2>4r DEF ReadEnter
  <2>5. ASSUME NEW p \in Procs, Kill(p) PROVE TypeOK'
    BY <2>5 DEF Kill
  <2>6. ASSUME NEW p \in Procs, WriteAcquire(p) PROVE TypeOK'
    BY <2>6 DEF WriteAcquire
  <2>7. ASSUME NEW p \in Procs, WriteAbort(p) PROVE TypeOK'
    BY <2>7 DEF WriteAbort
  <2>8. ASSUME NEW p \in Procs, WriteFull(p) PROVE TypeOK'
    BY <2>8 DEF WriteFull
  <2>9. ASSUME NEW p \in Procs, WriteSleep(p) PROVE TypeOK'
    BY <2>9 DEF WriteSleep
  <2>10. ASSUME NEW p \in Procs, WriteReturn(p) PROVE TypeOK'
    BY <2>10 DEF WriteReturn
  <2>11. ASSUME NEW p \in Procs, ReadAcquire(p) PROVE TypeOK'
    BY <2>11 DEF ReadAcquire
  <2>12. ASSUME NEW p \in Procs, ReadAbort(p) PROVE TypeOK'
    BY <2>12 DEF ReadAbort
  <2>13. ASSUME NEW p \in Procs, ReadEmpty(p) PROVE TypeOK'
    BY <2>13 DEF ReadEmpty
  <2>14. ASSUME NEW p \in Procs, ReadSleep(p) PROVE TypeOK'
    BY <2>14 DEF ReadSleep
  <2>15. ASSUME NEW p \in Procs, ReadReady(p) PROVE TypeOK'
    BY <2>15 DEF ReadReady
  <2>16. ASSUME NEW p \in Procs, ReadReturn(p) PROVE TypeOK'
    BY <2>16 DEF ReadReturn
  <2>17. ASSUME NEW p \in Procs, PipeCloseWrite(p) PROVE TypeOK'
    BY Zenon, <2>17 DEF PipeCloseWrite
  <2>18. ASSUME NEW p \in Procs, PipeCloseRead(p) PROVE TypeOK'
    BY Zenon, <2>18 DEF PipeCloseRead
  <2>19. ASSUME NEW p \in Procs, KFree(p) PROVE TypeOK'
    BY <2>19 DEF KFree
  <2>20. ASSUME NEW p \in Procs, CloseWriteFd(p) PROVE TypeOK'
    BY <2>20 DEF CloseWriteFd
  <2>21. ASSUME NEW p \in Procs, CloseReadFd(p) PROVE TypeOK'
    BY <2>21 DEF CloseReadFd
  <2>22. ASSUME NEW p \in Procs, Exit(p) PROVE TypeOK'
    BY <2>22 DEF Exit
  <2>23. CASE UNCHANGED vars
    BY <2>23 DEF vars, procs
  <2> HIDE DEF TypeOK, Labels, Chans, Goto, Return, Woken, Asleep, ring, ends
  <2>24. QED
    BY <2>1, <2>2, <2>3, <2>4, <2>4r, <2>5, <2>6, <2>7, <2>8, <2>9, <2>10, <2>11, <2>12, <2>13, <2>14, <2>15, <2>16, <2>17, <2>18, <2>19, <2>20, <2>21, <2>22, <2>23 DEF Next, Step, PipeClose, Call
<1>3. QED
  BY <1>1, <1>2, PTL DEF Spec

-----------------------------------------------------------------------------
(* The inductive invariant.                                                *)

\* pi->lock is held exactly by the process that is inside a critical section.
LockInv == \A p \in Procs : Holding(p) <=> lock = p

Writing(p) == pc[p] \in {"wacquire", "wloop", "wsleep"}
Reading(p) == pc[p] \in {"racquire", "rloop", "rsleep", "rcopy"}

\* The references behind each position: who is in pipewrite or piperead holds a
\* descriptor, an end is closed by the one process that dropped its last
\* descriptor, and the pipe is freed by the one that closed the second end.
RefInv ==
  /\ \A p \in Procs : Writing(p) => p \in wfd
  /\ \A p \in Procs : Reading(p) => p \in rfd
  /\ \A p \in Procs : pc[p] = "closew" => wfd = {} /\ writeopen
  /\ \A p \in Procs : pc[p] = "closer" => rfd = {} /\ readopen
  /\ \A p \in Procs : pc[p] = "kfree" => ~readopen /\ ~writeopen
  /\ \A p, q \in Procs : pc[p] = pc[q] /\ pc[p] \in {"closew", "closer", "kfree"} => p = q
  /\ ~writeopen => wfd = {}
  /\ ~readopen => rfd = {}
  /\ freed => ~readopen /\ ~writeopen /\ \A p \in Procs : pc[p] # "kfree"

\* Who sleeps, or is about to, and why.
SleepInv ==
  /\ \A p \in Procs : chan[p] = "nread" => pc[p] = "racquire"
  /\ \A p \in Procs : chan[p] = "nwrite" => pc[p] = "wacquire"
  /\ \A p \in Procs : pc[p] = "rsleep" => MustWait
  /\ \A p \in Procs : pc[p] = "wsleep" => Full /\ readopen
  /\ \A p \in Procs : pc[p] = "rcopy" /\ i[p] = 0 => ~MustWait

\* lock changes hands only through the actions that acquire and release it.
THEOREM LockDiscipline == Spec => []LockInv
<1> USE PipeAssumption
<1>1. Init => LockInv
  BY DEF Init, LockInv, Holding
<1>2. TypeOK /\ LockInv /\ [Next]_vars => LockInv'
  <2> SUFFICES ASSUME TypeOK, LockInv, [Next]_vars PROVE LockInv'
    OBVIOUS
  <2>0. lock \in Procs \cup {None} /\ pc \in [Procs -> Labels]
    BY DEF TypeOK
  <2> USE <2>0 DEF LockInv, Holding, Goto, Return
  <2>1. ASSUME NEW p \in Procs, Step(p) PROVE LockInv'
    BY <2>1, SMTT(30) DEF Step, PipeClose, WriteAcquire, WriteAbort, WriteFull, WriteSleep, WriteByte, WriteReturn,
       ReadAcquire, ReadAbort, ReadEmpty, ReadSleep, ReadReady, ReadByte, ReadReturn,
       PipeCloseWrite, PipeCloseRead, KFree
  <2>2. ASSUME NEW p \in Procs, Call(p) PROVE LockInv'
    BY <2>2 DEF Call, Fork, WriteEnter, ReadEnter, CloseWriteFd, CloseReadFd, Exit
  <2>3. ASSUME NEW p \in Procs, Kill(p) PROVE LockInv'
    BY <2>3 DEF Kill
  <2>4. CASE UNCHANGED vars
    BY <2>4 DEF vars, procs
  <2> HIDE DEF LockInv
  <2>5. QED
    BY <2>1, <2>2, <2>3, <2>4 DEF Next
<1>3. QED
  BY <1>1, <1>2, TypeCorrect, PTL DEF Spec

\* The descriptors, the open flags and the positions of the processes agree:
\* see RefInv.
THEOREM References == Spec => []RefInv
<1> USE PipeAssumption
<1>1. Init => RefInv
  BY DEF Init, RefInv, Writing, Reading
<1>2. TypeOK /\ LockInv /\ RefInv /\ [Next]_vars => RefInv'
  <2> SUFFICES ASSUME TypeOK, LockInv, RefInv, [Next]_vars PROVE RefInv'
    OBVIOUS
  <2>0. /\ pc \in [Procs -> Labels] /\ rfd \subseteq Procs /\ wfd \subseteq Procs
        /\ readopen \in BOOLEAN /\ writeopen \in BOOLEAN /\ freed \in BOOLEAN
    BY DEF TypeOK
  <2> USE <2>0 DEF RefInv, Writing, Reading, Goto, Return, ring, ends
  <2>1. ASSUME NEW p \in Procs, WriteAcquire(p) PROVE RefInv'
    BY <2>1 DEF WriteAcquire
  <2>2. ASSUME NEW p \in Procs, WriteAbort(p) PROVE RefInv'
    BY <2>2 DEF WriteAbort
  <2>3. ASSUME NEW p \in Procs, WriteFull(p) PROVE RefInv'
    BY <2>3 DEF WriteFull
  <2>4. ASSUME NEW p \in Procs, WriteSleep(p) PROVE RefInv'
    BY <2>4 DEF WriteSleep
  <2>5. ASSUME NEW p \in Procs, NEW b \in Byte, WriteByte(p, b) PROVE RefInv'
    BY <2>5 DEF WriteByte
  <2>6. ASSUME NEW p \in Procs, WriteReturn(p) PROVE RefInv'
    BY <2>6 DEF WriteReturn
  <2>7. ASSUME NEW p \in Procs, ReadAcquire(p) PROVE RefInv'
    BY <2>7 DEF ReadAcquire
  <2>8. ASSUME NEW p \in Procs, ReadAbort(p) PROVE RefInv'
    BY <2>8 DEF ReadAbort
  <2>9. ASSUME NEW p \in Procs, ReadEmpty(p) PROVE RefInv'
    BY <2>9 DEF ReadEmpty
  <2>10. ASSUME NEW p \in Procs, ReadSleep(p) PROVE RefInv'
    BY <2>10 DEF ReadSleep
  <2>11. ASSUME NEW p \in Procs, ReadReady(p) PROVE RefInv'
    BY <2>11 DEF ReadReady
  <2>12. ASSUME NEW p \in Procs, ReadByte(p) PROVE RefInv'
    BY <2>12 DEF ReadByte
  <2>13. ASSUME NEW p \in Procs, ReadReturn(p) PROVE RefInv'
    BY <2>13 DEF ReadReturn
  <2>14. ASSUME NEW p \in Procs, PipeCloseWrite(p) PROVE RefInv'
    BY <2>14 DEF PipeCloseWrite
  <2>15. ASSUME NEW p \in Procs, PipeCloseRead(p) PROVE RefInv'
    BY <2>15 DEF PipeCloseRead
  <2>16. ASSUME NEW p \in Procs, KFree(p) PROVE RefInv'
    BY <2>16 DEF KFree
  <2>17. ASSUME NEW p \in Procs, NEW c \in Procs, Fork(p, c) PROVE RefInv'
    BY <2>17 DEF Fork
  <2>18. ASSUME NEW p \in Procs, NEW cnt \in Counts, WriteEnter(p, cnt) PROVE RefInv'
    BY <2>18 DEF WriteEnter
  <2>19. ASSUME NEW p \in Procs, NEW cnt \in Counts, ReadEnter(p, cnt) PROVE RefInv'
    BY <2>19 DEF ReadEnter
  <2>20. ASSUME NEW p \in Procs, CloseWriteFd(p) PROVE RefInv'
    BY <2>20 DEF CloseWriteFd
  <2>21. ASSUME NEW p \in Procs, CloseReadFd(p) PROVE RefInv'
    BY <2>21 DEF CloseReadFd
  <2>22. ASSUME NEW p \in Procs, Exit(p) PROVE RefInv'
    BY <2>22 DEF Exit
  <2>23. ASSUME NEW p \in Procs, Kill(p) PROVE RefInv'
    BY <2>23 DEF Kill
  <2>24. CASE UNCHANGED vars
    BY <2>24 DEF vars, procs
  <2> HIDE DEF RefInv
  <2>25. QED
    BY <2>1, <2>2, <2>3, <2>4, <2>5, <2>6, <2>7, <2>8, <2>9, <2>10, <2>11, <2>12, <2>13, <2>14, <2>15, <2>16, <2>17, <2>18, <2>19, <2>20, <2>21, <2>22, <2>23, <2>24 DEF Next, Step, PipeClose, Call
<1>3. QED
  BY <1>1, <1>2, TypeCorrect, LockDiscipline, PTL DEF Spec

\* A process asleep on the pipe is at the sleep() of the matching call, and what
\* it tested before that sleep() still holds while it keeps pi->lock.
THEOREM SleepConditions == Spec => []SleepInv
<1> USE PipeAssumption
<1>1. Init => SleepInv
  BY DEF Init, SleepInv
<1>2. TypeOK /\ LockInv /\ SleepInv /\ [Next]_vars => SleepInv'
  <2> SUFFICES ASSUME TypeOK, LockInv, SleepInv, [Next]_vars PROVE SleepInv'
    OBVIOUS
  <2>0. /\ pc \in [Procs -> Labels] /\ chan \in [Procs -> Chans \cup {None}]
        /\ lock \in Procs \cup {None} /\ i \in [Procs -> 0..MAXN]
        /\ nread \in 0..(UINT_MOD-1) /\ nwrite \in 0..(UINT_MOD-1)
    BY DEF TypeOK
  <2> USE <2>0 DEF SleepInv, LockInv, Holding, MustWait, Empty, Full, Goto, Return, Woken, Asleep, ring, ends
  <2>1. ASSUME NEW p \in Procs, WriteAcquire(p) PROVE SleepInv'
    BY <2>1 DEF WriteAcquire
  <2>2. ASSUME NEW p \in Procs, WriteAbort(p) PROVE SleepInv'
    BY <2>2 DEF WriteAbort
  <2>3. ASSUME NEW p \in Procs, WriteFull(p) PROVE SleepInv'
    <3>1. UNCHANGED <<nread, nwrite, writeopen, readopen, i>> /\ Full /\ readopen
      BY <2>3 DEF WriteFull, CannotWrite
    <3>2. (MustWait' <=> MustWait) /\ Full'
      BY <3>1 DEF MustWait, Empty, Full
    <3> HIDE DEF MustWait, Empty, Full
    <3>3. QED
      BY <2>3, <3>1, <3>2 DEF WriteFull
  <2>4. ASSUME NEW p \in Procs, WriteSleep(p) PROVE SleepInv'
    BY <2>4 DEF WriteSleep
  <2>5. ASSUME NEW p \in Procs, NEW b \in Byte, WriteByte(p, b) PROVE SleepInv'
    BY <2>5 DEF WriteByte
  <2>6. ASSUME NEW p \in Procs, WriteReturn(p) PROVE SleepInv'
    BY <2>6 DEF WriteReturn
  <2>7. ASSUME NEW p \in Procs, ReadAcquire(p) PROVE SleepInv'
    BY <2>7 DEF ReadAcquire
  <2>8. ASSUME NEW p \in Procs, ReadAbort(p) PROVE SleepInv'
    BY <2>8 DEF ReadAbort
  <2>9. ASSUME NEW p \in Procs, ReadEmpty(p) PROVE SleepInv'
    BY <2>9 DEF ReadEmpty
  <2>10. ASSUME NEW p \in Procs, ReadSleep(p) PROVE SleepInv'
    BY <2>10 DEF ReadSleep
  <2>11. ASSUME NEW p \in Procs, ReadReady(p) PROVE SleepInv'
    BY <2>11 DEF ReadReady
  <2>12. ASSUME NEW p \in Procs, ReadByte(p) PROVE SleepInv'
    BY <2>12 DEF ReadByte
  <2>13. ASSUME NEW p \in Procs, ReadReturn(p) PROVE SleepInv'
    BY <2>13 DEF ReadReturn
  <2>14. ASSUME NEW p \in Procs, PipeCloseWrite(p) PROVE SleepInv'
    BY <2>14 DEF PipeCloseWrite
  <2>15. ASSUME NEW p \in Procs, PipeCloseRead(p) PROVE SleepInv'
    BY <2>15 DEF PipeCloseRead
  <2>16. ASSUME NEW p \in Procs, KFree(p) PROVE SleepInv'
    BY <2>16 DEF KFree
  <2>17. ASSUME NEW p \in Procs, NEW c \in Procs, Fork(p, c) PROVE SleepInv'
    BY <2>17 DEF Fork
  <2>18. ASSUME NEW p \in Procs, NEW cnt \in Counts, WriteEnter(p, cnt) PROVE SleepInv'
    BY <2>18 DEF WriteEnter
  <2>19. ASSUME NEW p \in Procs, NEW cnt \in Counts, ReadEnter(p, cnt) PROVE SleepInv'
    BY <2>19 DEF ReadEnter
  <2>20. ASSUME NEW p \in Procs, CloseWriteFd(p) PROVE SleepInv'
    BY <2>20 DEF CloseWriteFd
  <2>21. ASSUME NEW p \in Procs, CloseReadFd(p) PROVE SleepInv'
    BY <2>21 DEF CloseReadFd
  <2>22. ASSUME NEW p \in Procs, Exit(p) PROVE SleepInv'
    BY <2>22 DEF Exit
  <2>23. ASSUME NEW p \in Procs, Kill(p) PROVE SleepInv'
    BY <2>23 DEF Kill
  <2>24. CASE UNCHANGED vars
    BY <2>24 DEF vars, procs
  <2> HIDE DEF SleepInv
  <2>25. QED
    BY <2>1, <2>2, <2>3, <2>4, <2>5, <2>6, <2>7, <2>8, <2>9, <2>10, <2>11, <2>12, <2>13, <2>14, <2>15, <2>16, <2>17, <2>18, <2>19, <2>20, <2>21, <2>22, <2>23, <2>24, Zenon DEF Next, Step, PipeClose, Call
<1>3. QED
  BY <1>1, <1>2, TypeCorrect, LockDiscipline, PTL DEF Spec

\* No wakeup of a reader is missed, except after the kill of some process.
THEOREM ReadersNotStranded == Spec => []NoStrandedReader
<1> USE PipeAssumption
<1>1. Init => NoStrandedReader
  BY DEF Init, NoStrandedReader
<1>2. TypeOK /\ LockInv /\ RefInv /\ SleepInv /\ NoStrandedReader /\ [Next]_vars => NoStrandedReader'
  <2> SUFFICES ASSUME TypeOK, LockInv, RefInv, SleepInv, NoStrandedReader, [Next]_vars PROVE NoStrandedReader'
    OBVIOUS
  <2>0. /\ pc \in [Procs -> Labels] /\ chan \in [Procs -> Chans \cup {None}]
        /\ lock \in Procs \cup {None} /\ killed \in [Procs -> BOOLEAN]
    BY DEF TypeOK
  <2>00. \A p \in Procs : chan[p] = "nread" => readopen
    BY DEF SleepInv, RefInv, Reading
  <2>m. UNCHANGED <<nread, nwrite, writeopen>> => (MustWait' <=> MustWait)
    BY DEF MustWait, Empty
  <2>e. ~Empty => ~MustWait
    BY DEF MustWait
  <2> USE <2>0, <2>00, <2>m, <2>e DEF NoStrandedReader, SleepInv, LockInv, Holding, CannotWrite, Goto, Return, Woken, Asleep, ring, ends
  <2>1. ASSUME NEW p \in Procs, WriteAcquire(p) PROVE NoStrandedReader'
    BY <2>1 DEF WriteAcquire
  <2>2. ASSUME NEW p \in Procs, WriteAbort(p) PROVE NoStrandedReader'
    BY <2>2 DEF WriteAbort
  <2>3. ASSUME NEW p \in Procs, WriteFull(p) PROVE NoStrandedReader'
    BY <2>3 DEF WriteFull
  <2>4. ASSUME NEW p \in Procs, WriteSleep(p) PROVE NoStrandedReader'
    BY <2>4 DEF WriteSleep
  <2>5. ASSUME NEW p \in Procs, NEW b \in Byte, WriteByte(p, b) PROVE NoStrandedReader'
    BY <2>5 DEF WriteByte
  <2>6. ASSUME NEW p \in Procs, WriteReturn(p) PROVE NoStrandedReader'
    BY <2>6 DEF WriteReturn
  <2>7. ASSUME NEW p \in Procs, ReadAcquire(p) PROVE NoStrandedReader'
    BY <2>7 DEF ReadAcquire
  <2>8. ASSUME NEW p \in Procs, ReadAbort(p) PROVE NoStrandedReader'
    BY <2>8 DEF ReadAbort
  <2>9. ASSUME NEW p \in Procs, ReadEmpty(p) PROVE NoStrandedReader'
    BY <2>9 DEF ReadEmpty
  <2>10. ASSUME NEW p \in Procs, ReadSleep(p) PROVE NoStrandedReader'
    BY <2>10 DEF ReadSleep
  <2>11. ASSUME NEW p \in Procs, ReadReady(p) PROVE NoStrandedReader'
    BY <2>11 DEF ReadReady
  <2>12. ASSUME NEW p \in Procs, ReadByte(p) PROVE NoStrandedReader'
    BY <2>12 DEF ReadByte
  <2>13. ASSUME NEW p \in Procs, ReadReturn(p) PROVE NoStrandedReader'
    BY <2>13 DEF ReadReturn
  <2>14. ASSUME NEW p \in Procs, PipeCloseWrite(p) PROVE NoStrandedReader'
    BY <2>14 DEF PipeCloseWrite
  <2>15. ASSUME NEW p \in Procs, PipeCloseRead(p) PROVE NoStrandedReader'
    BY <2>15 DEF PipeCloseRead
  <2>16. ASSUME NEW p \in Procs, KFree(p) PROVE NoStrandedReader'
    BY <2>16 DEF KFree
  <2>17. ASSUME NEW p \in Procs, NEW c \in Procs, Fork(p, c) PROVE NoStrandedReader'
    BY <2>17 DEF Fork
  <2>18. ASSUME NEW p \in Procs, NEW cnt \in Counts, WriteEnter(p, cnt) PROVE NoStrandedReader'
    BY <2>18 DEF WriteEnter
  <2>19. ASSUME NEW p \in Procs, NEW cnt \in Counts, ReadEnter(p, cnt) PROVE NoStrandedReader'
    BY <2>19 DEF ReadEnter
  <2>20. ASSUME NEW p \in Procs, CloseWriteFd(p) PROVE NoStrandedReader'
    BY <2>20 DEF CloseWriteFd
  <2>21. ASSUME NEW p \in Procs, CloseReadFd(p) PROVE NoStrandedReader'
    BY <2>21 DEF CloseReadFd
  <2>22. ASSUME NEW p \in Procs, Exit(p) PROVE NoStrandedReader'
    BY <2>22 DEF Exit
  <2>23. ASSUME NEW p \in Procs, Kill(p) PROVE NoStrandedReader'
    BY <2>23 DEF Kill
  <2>24. CASE UNCHANGED vars
    BY <2>24 DEF vars, procs
  <2> HIDE DEF NoStrandedReader
  <2>25. QED
    BY <2>1, <2>2, <2>3, <2>4, <2>5, <2>6, <2>7, <2>8, <2>9, <2>10, <2>11, <2>12, <2>13, <2>14, <2>15, <2>16, <2>17, <2>18, <2>19, <2>20, <2>21, <2>22, <2>23, <2>24 DEF Next, Step, PipeClose, Call
<1>3. QED
  BY <1>1, <1>2, TypeCorrect, LockDiscipline, References, SleepConditions, PTL DEF Spec

\* No wakeup of a writer is missed, whoever is killed.
THEOREM WritersNotStranded == Spec => []NoStrandedWriter
<1> USE PipeAssumption
<1>1. Init => NoStrandedWriter
  BY DEF Init, NoStrandedWriter
<1>2. TypeOK /\ LockInv /\ RefInv /\ SleepInv /\ NoStrandedWriter /\ [Next]_vars => NoStrandedWriter'
  <2> SUFFICES ASSUME TypeOK, LockInv, RefInv, SleepInv, NoStrandedWriter, [Next]_vars PROVE NoStrandedWriter'
    OBVIOUS
  <2>0. /\ pc \in [Procs -> Labels] /\ chan \in [Procs -> Chans \cup {None}]
        /\ lock \in Procs \cup {None}
    BY DEF TypeOK
  <2>f. UNCHANGED <<nread, nwrite>> => (Full' <=> Full)
    BY DEF Full
  <2> USE <2>0, <2>f DEF NoStrandedWriter, SleepInv, LockInv, Holding, Goto, Return, Woken, Asleep, ring, ends
  <2>1. ASSUME NEW p \in Procs, WriteAcquire(p) PROVE NoStrandedWriter'
    BY <2>1 DEF WriteAcquire
  <2>2. ASSUME NEW p \in Procs, WriteAbort(p) PROVE NoStrandedWriter'
    BY <2>2 DEF WriteAbort
  <2>3. ASSUME NEW p \in Procs, WriteFull(p) PROVE NoStrandedWriter'
    BY <2>3 DEF WriteFull
  <2>4. ASSUME NEW p \in Procs, WriteSleep(p) PROVE NoStrandedWriter'
    BY <2>4 DEF WriteSleep
  <2>5. ASSUME NEW p \in Procs, NEW b \in Byte, WriteByte(p, b) PROVE NoStrandedWriter'
    BY <2>5 DEF WriteByte
  <2>6. ASSUME NEW p \in Procs, WriteReturn(p) PROVE NoStrandedWriter'
    BY <2>6 DEF WriteReturn
  <2>7. ASSUME NEW p \in Procs, ReadAcquire(p) PROVE NoStrandedWriter'
    BY <2>7 DEF ReadAcquire
  <2>8. ASSUME NEW p \in Procs, ReadAbort(p) PROVE NoStrandedWriter'
    BY <2>8 DEF ReadAbort
  <2>9. ASSUME NEW p \in Procs, ReadEmpty(p) PROVE NoStrandedWriter'
    BY <2>9 DEF ReadEmpty
  <2>10. ASSUME NEW p \in Procs, ReadSleep(p) PROVE NoStrandedWriter'
    BY <2>10 DEF ReadSleep
  <2>11. ASSUME NEW p \in Procs, ReadReady(p) PROVE NoStrandedWriter'
    BY <2>11 DEF ReadReady
  <2>12. ASSUME NEW p \in Procs, ReadByte(p) PROVE NoStrandedWriter'
    BY <2>12 DEF ReadByte
  <2>13. ASSUME NEW p \in Procs, ReadReturn(p) PROVE NoStrandedWriter'
    BY <2>13 DEF ReadReturn
  <2>14. ASSUME NEW p \in Procs, PipeCloseWrite(p) PROVE NoStrandedWriter'
    BY <2>14 DEF PipeCloseWrite
  <2>15. ASSUME NEW p \in Procs, PipeCloseRead(p) PROVE NoStrandedWriter'
    BY <2>15 DEF PipeCloseRead
  <2>16. ASSUME NEW p \in Procs, KFree(p) PROVE NoStrandedWriter'
    BY <2>16 DEF KFree
  <2>17. ASSUME NEW p \in Procs, NEW c \in Procs, Fork(p, c) PROVE NoStrandedWriter'
    BY <2>17 DEF Fork
  <2>18. ASSUME NEW p \in Procs, NEW cnt \in Counts, WriteEnter(p, cnt) PROVE NoStrandedWriter'
    BY <2>18 DEF WriteEnter
  <2>19. ASSUME NEW p \in Procs, NEW cnt \in Counts, ReadEnter(p, cnt) PROVE NoStrandedWriter'
    BY <2>19 DEF ReadEnter
  <2>20. ASSUME NEW p \in Procs, CloseWriteFd(p) PROVE NoStrandedWriter'
    BY <2>20 DEF CloseWriteFd
  <2>21. ASSUME NEW p \in Procs, CloseReadFd(p) PROVE NoStrandedWriter'
    BY <2>21 DEF CloseReadFd
  <2>22. ASSUME NEW p \in Procs, Exit(p) PROVE NoStrandedWriter'
    BY <2>22 DEF Exit
  <2>23. ASSUME NEW p \in Procs, Kill(p) PROVE NoStrandedWriter'
    BY <2>23 DEF Kill
  <2>24. CASE UNCHANGED vars
    BY <2>24 DEF vars, procs
  <2> HIDE DEF NoStrandedWriter
  <2>25. QED
    BY <2>1, <2>2, <2>3, <2>4, <2>5, <2>6, <2>7, <2>8, <2>9, <2>10, <2>11, <2>12, <2>13, <2>14, <2>15, <2>16, <2>17, <2>18, <2>19, <2>20, <2>21, <2>22, <2>23, <2>24 DEF Next, Step, PipeClose, Call
<1>3. QED
  BY <1>1, <1>2, TypeCorrect, LockDiscipline, References, SleepConditions, PTL DEF Spec

\* The ring never holds more than PIPESIZE bytes, whatever the number of
\* processes, the ring size and the width of the counters.
THEOREM RingBounded == Spec => []RingBound
<1> USE PipeAssumption
<1>1. Init => RingBound
  BY DistCases DEF Init, RingBound, Count, Dist
<1>2. TypeOK /\ RingBound /\ [Next]_vars => RingBound'
  <2> SUFFICES ASSUME TypeOK, RingBound, [Next]_vars PROVE RingBound'
    OBVIOUS
  <2>0. /\ nread \in 0..(UINT_MOD-1) /\ nwrite \in 0..(UINT_MOD-1)
        /\ Dist(nread, nwrite) <= PIPESIZE
    BY DEF TypeOK, RingBound, Count, Dist
  <2>u. UNCHANGED <<nread, nwrite>> => RingBound'
    BY DEF RingBound, Count
  <2>1. ASSUME NEW p \in Procs, WriteAcquire(p) PROVE RingBound'
    BY <2>1, <2>u DEF WriteAcquire, ring
  <2>2. ASSUME NEW p \in Procs, WriteAbort(p) PROVE RingBound'
    BY <2>2, <2>u DEF WriteAbort, ring
  <2>3. ASSUME NEW p \in Procs, WriteFull(p) PROVE RingBound'
    BY <2>3, <2>u DEF WriteFull, ring
  <2>4. ASSUME NEW p \in Procs, WriteSleep(p) PROVE RingBound'
    BY <2>4, <2>u DEF WriteSleep, ring
  <2>5. ASSUME NEW p \in Procs, NEW b \in Byte, WriteByte(p, b) PROVE RingBound'
    <3>1. nwrite # (nread + PIPESIZE) % UINT_MOD /\ nwrite' = (nwrite + 1) % UINT_MOD /\ nread' = nread
      BY <2>5 DEF WriteByte, Full
    <3>2. Dist(nread, (nwrite + 1) % UINT_MOD) <= PIPESIZE
      BY <2>0, <3>1, DistAfterWrite
    <3>3. QED
      BY <3>1, <3>2 DEF RingBound, Count, Dist
  <2>6. ASSUME NEW p \in Procs, WriteReturn(p) PROVE RingBound'
    BY <2>6, <2>u DEF WriteReturn, ring
  <2>7. ASSUME NEW p \in Procs, ReadAcquire(p) PROVE RingBound'
    BY <2>7, <2>u DEF ReadAcquire, ring
  <2>8. ASSUME NEW p \in Procs, ReadAbort(p) PROVE RingBound'
    BY <2>8, <2>u DEF ReadAbort, ring
  <2>9. ASSUME NEW p \in Procs, ReadEmpty(p) PROVE RingBound'
    BY <2>9, <2>u DEF ReadEmpty, ring
  <2>10. ASSUME NEW p \in Procs, ReadSleep(p) PROVE RingBound'
    BY <2>10, <2>u DEF ReadSleep, ring
  <2>11. ASSUME NEW p \in Procs, ReadReady(p) PROVE RingBound'
    BY <2>11, <2>u DEF ReadReady, ring
  <2>12. ASSUME NEW p \in Procs, ReadByte(p) PROVE RingBound'
    <3>1. nread # nwrite /\ nread' = (nread + 1) % UINT_MOD /\ nwrite' = nwrite
      BY <2>12 DEF ReadByte, Empty
    <3>2. Dist((nread + 1) % UINT_MOD, nwrite) <= PIPESIZE
      BY <2>0, <3>1, DistAfterRead
    <3>3. QED
      BY <3>1, <3>2 DEF RingBound, Count, Dist
  <2>13. ASSUME NEW p \in Procs, ReadReturn(p) PROVE RingBound'
    BY <2>13, <2>u DEF ReadReturn, ring
  <2>14. ASSUME NEW p \in Procs, PipeCloseWrite(p) PROVE RingBound'
    BY <2>14, <2>u DEF PipeCloseWrite, ring
  <2>15. ASSUME NEW p \in Procs, PipeCloseRead(p) PROVE RingBound'
    BY <2>15, <2>u DEF PipeCloseRead, ring
  <2>16. ASSUME NEW p \in Procs, KFree(p) PROVE RingBound'
    BY <2>16, <2>u DEF KFree, ring
  <2>17. ASSUME NEW p \in Procs, NEW c \in Procs, Fork(p, c) PROVE RingBound'
    BY <2>17, <2>u DEF Fork, ring
  <2>18. ASSUME NEW p \in Procs, NEW cnt \in Counts, WriteEnter(p, cnt) PROVE RingBound'
    BY <2>18, <2>u DEF WriteEnter, ring
  <2>19. ASSUME NEW p \in Procs, NEW cnt \in Counts, ReadEnter(p, cnt) PROVE RingBound'
    BY <2>19, <2>u DEF ReadEnter, ring
  <2>20. ASSUME NEW p \in Procs, CloseWriteFd(p) PROVE RingBound'
    BY <2>20, <2>u DEF CloseWriteFd, ring
  <2>21. ASSUME NEW p \in Procs, CloseReadFd(p) PROVE RingBound'
    BY <2>21, <2>u DEF CloseReadFd, ring
  <2>22. ASSUME NEW p \in Procs, Exit(p) PROVE RingBound'
    BY <2>22, <2>u DEF Exit, ring
  <2>23. ASSUME NEW p \in Procs, Kill(p) PROVE RingBound'
    BY <2>23, <2>u DEF Kill, ring
  <2>24. CASE UNCHANGED vars
    BY <2>24, <2>u DEF vars, ring
  <2>25. QED
    BY <2>1, <2>2, <2>3, <2>4, <2>5, <2>6, <2>7, <2>8, <2>9, <2>10, <2>11, <2>12, <2>13, <2>14, <2>15, <2>16, <2>17, <2>18, <2>19, <2>20, <2>21, <2>22, <2>23, <2>24, Zenon DEF Next, Step, PipeClose, Call
<1>3. QED
  BY <1>1, <1>2, TypeCorrect, PTL DEF Spec

\* Once a reader has seen the end of file, nothing is left to read and nobody
\* is left to write.
THEOREM EofFinal == Spec => []EofIsFinal
<1> USE PipeAssumption
<1>1. Init => EofIsFinal
  BY DEF Init, EofIsFinal
<1>2. TypeOK /\ LockInv /\ RefInv /\ SleepInv /\ EofIsFinal /\ [Next]_vars => EofIsFinal'
  <2> SUFFICES ASSUME TypeOK, LockInv, RefInv, SleepInv, EofIsFinal, [Next]_vars PROVE EofIsFinal'
    OBVIOUS
  <2>0. \A p \in Procs : pc[p] = "wloop" => writeopen
    BY DEF RefInv, Writing
  <2>u. UNCHANGED <<nread, nwrite, writeopen, out>> => EofIsFinal'
    BY DEF EofIsFinal, Empty
  <2>1. ASSUME NEW p \in Procs, WriteAcquire(p) PROVE EofIsFinal'
    BY <2>1, <2>u DEF WriteAcquire, ring, ends
  <2>2. ASSUME NEW p \in Procs, WriteAbort(p) PROVE EofIsFinal'
    BY <2>2, <2>u DEF WriteAbort, ring, ends
  <2>3. ASSUME NEW p \in Procs, WriteFull(p) PROVE EofIsFinal'
    BY <2>3, <2>u DEF WriteFull, ring, ends
  <2>4. ASSUME NEW p \in Procs, WriteSleep(p) PROVE EofIsFinal'
    BY <2>4, <2>u DEF WriteSleep, ring, ends
  <2>5. ASSUME NEW p \in Procs, NEW b \in Byte, WriteByte(p, b) PROVE EofIsFinal'
    BY <2>5, <2>0 DEF WriteByte, EofIsFinal, ends
  <2>6. ASSUME NEW p \in Procs, WriteReturn(p) PROVE EofIsFinal'
    BY <2>6, <2>u DEF WriteReturn, ring, ends
  <2>7. ASSUME NEW p \in Procs, ReadAcquire(p) PROVE EofIsFinal'
    BY <2>7, <2>u DEF ReadAcquire, ring, ends
  <2>8. ASSUME NEW p \in Procs, ReadAbort(p) PROVE EofIsFinal'
    BY <2>8, <2>u DEF ReadAbort, ring, ends
  <2>9. ASSUME NEW p \in Procs, ReadEmpty(p) PROVE EofIsFinal'
    BY <2>9, <2>u DEF ReadEmpty, ring, ends
  <2>10. ASSUME NEW p \in Procs, ReadSleep(p) PROVE EofIsFinal'
    BY <2>10, <2>u DEF ReadSleep, ring, ends
  <2>11. ASSUME NEW p \in Procs, ReadReady(p) PROVE EofIsFinal'
    BY <2>11, <2>u DEF ReadReady, ring, ends
  <2>12. ASSUME NEW p \in Procs, ReadByte(p) PROVE EofIsFinal'
    <3>1. nread % PIPESIZE \in 0..(PIPESIZE-1)
      BY ModRange DEF TypeOK
    <3>2. data[nread % PIPESIZE] # Eof
      BY <3>1 DEF TypeOK
    <3>3. QED
      BY <2>12, <3>2 DEF ReadByte, EofIsFinal
  <2>13. ASSUME NEW p \in Procs, ReadReturn(p) PROVE EofIsFinal'
    BY <2>13 DEF ReadReturn, EofIsFinal, SleepInv, MustWait, Empty, ring, ends
  <2>14. ASSUME NEW p \in Procs, PipeCloseWrite(p) PROVE EofIsFinal'
    BY <2>14 DEF PipeCloseWrite, EofIsFinal, Empty, ring
  <2>15. ASSUME NEW p \in Procs, PipeCloseRead(p) PROVE EofIsFinal'
    BY <2>15, <2>u DEF PipeCloseRead, ring, ends
  <2>16. ASSUME NEW p \in Procs, KFree(p) PROVE EofIsFinal'
    BY <2>16, <2>u DEF KFree, ring, ends
  <2>17. ASSUME NEW p \in Procs, NEW c \in Procs, Fork(p, c) PROVE EofIsFinal'
    BY <2>17, <2>u DEF Fork, ring, ends
  <2>18. ASSUME NEW p \in Procs, NEW cnt \in Counts, WriteEnter(p, cnt) PROVE EofIsFinal'
    BY <2>18, <2>u DEF WriteEnter, ring, ends
  <2>19. ASSUME NEW p \in Procs, NEW cnt \in Counts, ReadEnter(p, cnt) PROVE EofIsFinal'
    BY <2>19, <2>u DEF ReadEnter, ring, ends
  <2>20. ASSUME NEW p \in Procs, CloseWriteFd(p) PROVE EofIsFinal'
    BY <2>20, <2>u DEF CloseWriteFd, ring, ends
  <2>21. ASSUME NEW p \in Procs, CloseReadFd(p) PROVE EofIsFinal'
    BY <2>21, <2>u DEF CloseReadFd, ring, ends
  <2>22. ASSUME NEW p \in Procs, Exit(p) PROVE EofIsFinal'
    BY <2>22, <2>u DEF Exit, ring, ends
  <2>23. ASSUME NEW p \in Procs, Kill(p) PROVE EofIsFinal'
    BY <2>23, <2>u DEF Kill, ring, ends
  <2>24. CASE UNCHANGED vars
    BY <2>24, <2>u DEF vars, ring, ends
  <2>25. QED
    BY <2>1, <2>2, <2>3, <2>4, <2>5, <2>6, <2>7, <2>8, <2>9, <2>10, <2>11, <2>12, <2>13, <2>14, <2>15, <2>16, <2>17, <2>18, <2>19, <2>20, <2>21, <2>22, <2>23, <2>24, Zenon DEF Next, Step, PipeClose, Call
<1>3. QED
  BY <1>1, <1>2, TypeCorrect, LockDiscipline, References, SleepConditions, PTL DEF Spec

\* A freed pipe is used by nobody: see RefInv.
THEOREM FreedAfterLastUse == Spec => []NoUseAfterFree
<1>1. TypeOK /\ RefInv => NoUseAfterFree
  BY Zenon DEF TypeOK, RefInv, NoUseAfterFree, Inside, Writing, Reading, Labels
<1>2. QED
  BY <1>1, TypeCorrect, References, PTL

\* No wakeup of pipewrite, piperead or pipeclose is missed by either side.
THEOREM SleepersNotStranded == Spec => []NoStrandedSleeper
<1>1. NoStrandedReader /\ NoStrandedWriter => NoStrandedSleeper
  BY DEF NoStrandedSleeper
<1>2. QED
  BY <1>1, ReadersNotStranded, WritersNotStranded, PTL

\* At every step of every call the pipe is allocated as long as it is used, its
\* ring within bounds, and an end of file that was reported final.
THEOREM Consistent == Spec => []PipeConsistent
<1>1. TypeOK /\ RingBound /\ NoUseAfterFree /\ EofIsFinal => PipeConsistent
  BY DEF PipeConsistent
<1>2. QED
  BY <1>1, TypeCorrect, RingBounded, FreedAfterLastUse, EofFinal, PTL
-----------------------------------------------------------------------------
(* The ring implements the channel.                                        *)

\* Where the byte of a counter is.
Slot(x) == (x % UINT_MOD) % PIPESIZE

LEMMA Sizes ==
  /\ UINT_MOD \in Nat \ {0} /\ PIPESIZE \in Nat \ {0} /\ UINT_MOD > PIPESIZE
  /\ NoByte \notin Byte \cup {Eof} /\ Eof \notin Byte
BY PipeAssumption

LEMMA Division ==
  ASSUME NEW s \in Nat \ {0}, NEW x \in Int
  PROVE  x = s * (x \div s) + (x % s) /\ x % s \in 0..s - 1 /\ x \div s \in Int
OBVIOUS

LEMMA Remainder ==
  ASSUME NEW s \in Nat \ {0}, NEW x \in Int, NEW q \in Int, NEW b \in 0..s - 1, x = s * q + b
  PROVE  x % s = b
OBVIOUS

LEMMA Distribute ==
  ASSUME NEW s \in Int, NEW j \in Int, NEW k \in Int
  PROVE  s * j + s * k = s * (j + k) /\ s * 1 = s /\ s * j \in Int
OBVIOUS

\* Adding a multiple of the ring's size changes no slot.
LEMMA ModMultiple ==
  ASSUME NEW s \in Nat \ {0}, NEW m \in Nat, m % s = 0, NEW y \in Int
  PROVE  (m + y) % s = y % s
<1> DEFINE u == m \div s
           v == y \div s
           b == y % s
<1>1. u \in Int /\ v \in Int /\ b \in 0..s - 1 /\ m = s * u + 0 /\ y = s * v + b
  BY Division
<1> HIDE DEF u, v, b
<1>2. s * u + s * v = s * (u + v) /\ s * u \in Int /\ s * v \in Int /\ s * (u + v) \in Int
  BY <1>1, Distribute
<1>3. m + y = s * (u + v) + b /\ m + y \in Int /\ u + v \in Int
  BY <1>1, <1>2
<1>4. (m + y) % s = b
  BY <1>1, <1>3, Remainder
<1>5. QED
  BY <1>4 DEF b

\* Counters less than the ring's size apart have different slots.
LEMMA ModDistinct ==
  ASSUME NEW s \in Nat \ {0}, NEW y \in Int, NEW d \in 1..s - 1
  PROVE  (y + d) % s # y % s
<1> DEFINE v == y \div s
           b == y % s
<1>1. v \in Int /\ b \in 0..s - 1 /\ y = s * v + b
  BY Division
<1>2. s * v + s * 1 = s * (v + 1) /\ s * 1 = s /\ s * v \in Int
  BY <1>1, Distribute
<1> HIDE DEF v, b
<1>3. CASE b + d < s
  <2>1. b + d \in 0..s - 1 /\ y + d = s * v + (b + d) /\ y + d \in Int
    BY <1>1, <1>2, <1>3
  <2>2. (y + d) % s = b + d
    BY <1>1, <2>1, Remainder
  <2>3. QED
    BY <1>1, <2>2 DEF b
<1>4. CASE b + d >= s
  <2>1. b + d - s \in 0..s - 1 /\ y + d = s * (v + 1) + (b + d - s) /\ y + d \in Int /\ v + 1 \in Int
    BY <1>1, <1>2, <1>4
  <2>2. (y + d) % s = b + d - s
    BY <2>1, Remainder, Zenon
  <2>3. b + d - s # b
    BY <1>1
  <2>4. QED
    BY <2>2, <2>3 DEF b
<1>5. QED
  BY <1>1, <1>3, <1>4

\* A counter that has run past its range once.
LEMMA WrapOnce ==
  ASSUME NEW y \in 0..UINT_MOD - 1
  PROVE  (UINT_MOD + y) % UINT_MOD = y /\ y % UINT_MOD = y
<1>1. UINT_MOD \in Nat \ {0} /\ UINT_MOD + y \in Int /\ UINT_MOD + y = UINT_MOD * 1 + y
      /\ y = UINT_MOD * 0 + y /\ 1 \in Int /\ 0 \in Int /\ y \in Int
  BY Sizes
<1>2. QED
  BY <1>1, Remainder, Zenon

LEMMA SlotIs ==
  ASSUME NEW x \in Nat, x < UINT_MOD + UINT_MOD
  PROVE  Slot(x) = x % PIPESIZE /\ Slot(x) \in 0..PIPESIZE - 1
<1>1. x % PIPESIZE \in 0..PIPESIZE - 1
  <2>1. x \in Int
    OBVIOUS
  <2>2. QED
    BY <2>1, Division, Sizes, Zenon
<1>2. CASE x < UINT_MOD
  <2>1. x \in 0..UINT_MOD - 1
    BY <1>2, Sizes
  <2>2. x % UINT_MOD = x
    BY <2>1, WrapOnce, Zenon
  <2>3. QED
    BY <1>1, <2>2, Zenon DEF Slot
<1>3. CASE ~(x < UINT_MOD)
  <2>1. PICK y : y = x - UINT_MOD
    OBVIOUS
  <2>2. y \in 0..UINT_MOD - 1 /\ x = UINT_MOD + y /\ y \in Int /\ UINT_MOD \in Nat
    BY <1>3, <2>1, Sizes
  <2>3. x % UINT_MOD = y
    BY <2>2, WrapOnce, Zenon
  <2>4. x % PIPESIZE = y % PIPESIZE
    BY <2>2, ModMultiple, SlotAssumption, Sizes, Zenon
  <2>5. QED
    BY <1>1, <2>3, <2>4, Zenon DEF Slot
<1>4. QED
  BY <1>2, <1>3

LEMMA SlotApart ==
  ASSUME NEW x \in Nat, NEW d \in 1..PIPESIZE - 1, x + d < UINT_MOD + UINT_MOD
  PROVE  Slot(x + d) # Slot(x)
<1>1. x + d \in Nat /\ x < UINT_MOD + UINT_MOD /\ x \in Int
  BY Sizes
<1>2. Slot(x) = x % PIPESIZE /\ Slot(x + d) = (x + d) % PIPESIZE
  BY <1>1, SlotIs, Zenon
<1>3. (x + d) % PIPESIZE # x % PIPESIZE
  BY <1>1, ModDistinct, Sizes, Zenon
<1>4. QED
  BY <1>2, <1>3, Zenon

\* The bytes between two counters of a ring, oldest first.
Cells(r, w, d) == [k \in 1..Dist(r, w) |-> d[Slot(r + k - 1)]]

Counters == 0..UINT_MOD - 1
Rings    == [0..PIPESIZE - 1 -> Byte \cup {NoByte}]

LEMMA DistIs ==
  ASSUME NEW r \in Counters, NEW w \in Counters
  PROVE  /\ Dist(r, w) = IF w >= r THEN w - r ELSE w + UINT_MOD - r
         /\ Dist(r, w) \in Counters
<1>1. Dist(r, w) = IF w >= r THEN w - r ELSE w + UINT_MOD - r
  BY DistCases, Zenon DEF Counters
<1>2. Dist(r, w) \in Counters
  BY <1>1, Sizes DEF Counters
<1>3. QED
  BY <1>1, <1>2

LEMMA CellSlot ==
  ASSUME NEW r \in Counters, NEW w \in Counters, Dist(r, w) <= PIPESIZE, NEW k \in 1..Dist(r, w)
  PROVE  /\ r + k - 1 \in Nat /\ r + k - 1 < UINT_MOD + UINT_MOD
         /\ Slot(r + k - 1) \in 0..PIPESIZE - 1
<1>1. r + k - 1 \in Nat /\ r + k - 1 < UINT_MOD + UINT_MOD
  BY DistIs, Sizes DEF Counters
<1>2. Slot(r + k - 1) \in 0..PIPESIZE - 1
  BY <1>1, SlotIs, Zenon
<1>3. QED
  BY <1>1, <1>2

LEMMA CellsAre ==
  ASSUME NEW r \in Counters, NEW w \in Counters, NEW d \in Rings, Dist(r, w) <= PIPESIZE
  PROVE  /\ Cells(r, w, d) \in Seq(Byte \cup {NoByte})
         /\ Len(Cells(r, w, d)) = Dist(r, w)
         /\ Dist(r, w) \in Nat
<1>1. Dist(r, w) \in Nat
  BY DistIs, Sizes DEF Counters
<1>2. ASSUME NEW k \in 1..Dist(r, w) PROVE d[Slot(r + k - 1)] \in Byte \cup {NoByte}
  <2>1. Slot(r + k - 1) \in 0..PIPESIZE - 1
    BY CellSlot, Zenon
  <2>2. QED
    BY ONLY <2>1, d \in Rings DEF Rings
<1>3. Cells(r, w, d) \in [1..Dist(r, w) -> Byte \cup {NoByte}]
  BY ONLY <1>2, Zenon DEF Cells
<1> HIDE DEF Cells, Dist
<1>4. Cells(r, w, d) \in Seq(Byte \cup {NoByte})
  BY ONLY <1>1, <1>3, SeqDef, Zenon
<1>5. Len(Cells(r, w, d)) = Dist(r, w)
  BY ONLY <1>1, <1>3, <1>4, LenProperties
<1>6. QED
  BY <1>1, <1>4, <1>5

\* The slot after the last byte is the one pipewrite fills.
LEMMA NextSlot ==
  ASSUME NEW r \in Counters, NEW w \in Counters
  PROVE  Slot(r + Dist(r, w)) = w % PIPESIZE
<1>0. Dist(r, w) = IF w >= r THEN w - r ELSE w + UINT_MOD - r
  BY DistIs, Zenon
<1>1. r + Dist(r, w) = w \/ r + Dist(r, w) = UINT_MOD + w
  BY ONLY <1>0, Sizes, r \in Counters, w \in Counters DEF Counters
<1>2. (r + Dist(r, w)) % UINT_MOD = w
  BY <1>1, WrapOnce, Zenon DEF Counters
<1>3. QED
  BY <1>2, Zenon DEF Slot

\* A counter after its increment.
LEMMA Increment ==
  ASSUME NEW x \in Counters
  PROVE  /\ (x + 1) % UINT_MOD = IF x + 1 = UINT_MOD THEN 0 ELSE x + 1
         /\ (x + 1) % UINT_MOD \in Counters
<1>1. CASE x + 1 = UINT_MOD
  <2>1. 0 \in Counters /\ x + 1 = UINT_MOD + 0
    BY <1>1, Sizes DEF Counters
  <2>2. (x + 1) % UINT_MOD = 0
    BY <2>1, WrapOnce, Zenon DEF Counters
  <2>3. QED
    BY <1>1, <2>1, <2>2, Zenon
<1>2. CASE x + 1 # UINT_MOD
  <2>1. x + 1 \in Counters
    BY <1>2, Sizes DEF Counters
  <2>2. (x + 1) % UINT_MOD = x + 1
    BY <2>1, WrapOnce, Zenon DEF Counters
  <2>3. QED
    BY <1>2, <2>1, <2>2, Zenon
<1>3. QED
  BY <1>1, <1>2

\* The ring is full exactly when PIPESIZE bytes are in it.
LEMMA FullIs ==
  ASSUME NEW r \in Counters, NEW w \in Counters, w # (r + PIPESIZE) % UINT_MOD
  PROVE  Dist(r, w) # PIPESIZE
<1> SUFFICES ASSUME Dist(r, w) = PIPESIZE PROVE FALSE
  OBVIOUS
<1>0. PIPESIZE = IF w >= r THEN w - r ELSE w + UINT_MOD - r
  BY DistIs, Zenon
<1>1. r + PIPESIZE = w \/ r + PIPESIZE = UINT_MOD + w
  BY ONLY <1>0, Sizes, r \in Counters, w \in Counters DEF Counters
<1>2. (r + PIPESIZE) % UINT_MOD = w
  BY <1>1, WrapOnce, Zenon DEF Counters
<1>3. QED
  BY <1>2

\* pipewrite's byte goes behind the others and disturbs none.
LEMMA WriteAppends ==
  ASSUME NEW r \in Counters, NEW w \in Counters, NEW d \in Rings, NEW b \in Byte,
         Dist(r, w) < PIPESIZE
  PROVE  Cells(r, (w + 1) % UINT_MOD, [d EXCEPT ![w % PIPESIZE] = b])
           = Append(Cells(r, w, d), b)
<1>1. PICK v, e, m, s :
        /\ v = (w + 1) % UINT_MOD /\ e = [d EXCEPT ![w % PIPESIZE] = b] /\ m = Dist(r, w)
        /\ s = w % PIPESIZE
  BY Zenon
<1>2. v \in Counters /\ v = IF w + 1 = UINT_MOD THEN 0 ELSE w + 1
  BY <1>1, Increment, Zenon
<1>3. Dist(r, v) = m + 1 /\ m \in Nat /\ m < PIPESIZE
  <2>1. m = (IF w >= r THEN w - r ELSE w + UINT_MOD - r) /\ m \in Counters
    BY <1>1, DistIs, Zenon
  <2>2. Dist(r, v) = IF v >= r THEN v - r ELSE v + UINT_MOD - r
    BY <1>2, DistIs, Zenon
  <2>3. m < PIPESIZE
    BY <1>1
  <2>4. QED
    BY ONLY <1>2, <2>1, <2>2, <2>3, Sizes, r \in Counters, w \in Counters DEF Counters
<1>4. s \in 0..PIPESIZE - 1 /\ Slot(r + m) = s
  <2>1. Slot(r + m) = s
    BY <1>1, NextSlot, Zenon
  <2>2. w \in Int
    BY Sizes DEF Counters
  <2>3. QED
    BY <1>1, <2>1, <2>2, Division, Sizes, Zenon
<1>5. e \in Rings /\ e[s] = b /\ \A x \in 0..PIPESIZE - 1 : x # s => e[x] = d[x]
  <2>1. e = [d EXCEPT ![s] = b]
    BY <1>1, Zenon
  <2>2. QED
    BY ONLY <2>1, <1>4, d \in Rings, b \in Byte DEF Rings
<1>6. Cells(r, v, e) \in Seq(Byte \cup {NoByte}) /\ Len(Cells(r, v, e)) = m + 1
  <2>1. Dist(r, v) <= PIPESIZE
    BY <1>3, Sizes
  <2>2. QED
    BY <1>2, <1>3, <1>5, <2>1, CellsAre, Zenon
<1>7. Cells(r, w, d) \in Seq(Byte \cup {NoByte}) /\ Len(Cells(r, w, d)) = m
  <2>1. Dist(r, w) <= PIPESIZE
    BY <1>3, <1>1, Sizes
  <2>2. QED
    BY <1>1, <2>1, CellsAre, Zenon
<1>8. ASSUME NEW k \in 1..m PROVE Cells(r, v, e)[k] = Cells(r, w, d)[k]
  <2>1. r + k - 1 \in Nat /\ Slot(r + k - 1) \in 0..PIPESIZE - 1
    <3>1. Dist(r, w) <= PIPESIZE /\ k \in 1..Dist(r, w)
      BY <1>1, <1>3, Sizes
    <3>2. QED
      BY <3>1, CellSlot, Zenon
  <2>2. Slot(r + k - 1) # s
    <3>1. PICK x, g : x = r + k - 1 /\ g = m - k + 1
      OBVIOUS
    <3>2. x \in Nat /\ g \in 1..PIPESIZE - 1 /\ x + g = r + m /\ x + g < UINT_MOD + UINT_MOD
      BY <3>1, <2>1, <1>3, Sizes DEF Counters
    <3>3. Slot(x + g) # Slot(x)
      BY <3>2, SlotApart, Zenon
    <3>4. QED
      BY <3>1, <3>2, <3>3, <1>4, Zenon
  <2>3. e[Slot(r + k - 1)] = d[Slot(r + k - 1)]
    BY <1>5, <2>1, <2>2, Zenon
  <2>4. k \in 1..Dist(r, w) /\ k \in 1..Dist(r, v)
    BY <1>1, <1>3
  <2>5. QED
    BY ONLY <2>3, <2>4, Zenon DEF Cells
<1>9. Cells(r, v, e)[m + 1] = b
  <2>1. m + 1 \in 1..Dist(r, v) /\ r + (m + 1) - 1 = r + m
    BY <1>3, Sizes DEF Counters
  <2>2. Cells(r, v, e)[m + 1] = e[Slot(r + (m + 1) - 1)]
    BY ONLY <2>1, Zenon DEF Cells
  <2>3. QED
    BY <2>1, <2>2, <1>4, <1>5, Zenon
<1>10. PICK c, q : c = Cells(r, w, d) /\ q = Cells(r, v, e)
  OBVIOUS
<1>11. /\ c \in Seq(Byte \cup {NoByte}) /\ Len(c) = m /\ m \in Nat
       /\ q \in Seq(Byte \cup {NoByte}) /\ Len(q) = m + 1
       /\ \A k \in 1..m : q[k] = c[k]
       /\ q[m + 1] = b
  BY <1>3, <1>6, <1>7, <1>8, <1>9, <1>10, Zenon
<1>12. q = Append(c, b)
  <2>1. b \in Byte \cup {NoByte}
    OBVIOUS
  <2>2. /\ Append(c, b) \in Seq(Byte \cup {NoByte}) /\ Len(Append(c, b)) = m + 1
        /\ \A k \in 1..m : Append(c, b)[k] = c[k]
        /\ Append(c, b)[m + 1] = b
    BY ONLY <1>11, <2>1, AppendProperties
  <2>3. \A k \in 1..m + 1 : q[k] = Append(c, b)[k]
    BY ONLY <1>11, <2>2
  <2>4. QED
    BY ONLY <1>11, <2>2, <2>3, SeqEqual, Zenon
<1>13. QED
  BY <1>1, <1>10, <1>12, Zenon

\* piperead takes the oldest byte and leaves the others.
LEMMA ReadRemoves ==
  ASSUME NEW r \in Counters, NEW w \in Counters, NEW d \in Rings, Dist(r, w) <= PIPESIZE, r # w
  PROVE  /\ Cells(r, w, d) # <<>>
         /\ Head(Cells(r, w, d)) = d[r % PIPESIZE]
         /\ Cells((r + 1) % UINT_MOD, w, d) = Tail(Cells(r, w, d))
<1>1. PICK v, m : v = (r + 1) % UINT_MOD /\ m = Dist(r, w)
  OBVIOUS
<1>2. v \in Counters /\ v = IF r + 1 = UINT_MOD THEN 0 ELSE r + 1
  BY <1>1, Increment, Zenon
<1>3. Dist(v, w) = m - 1 /\ m \in Nat /\ m >= 1 /\ m <= PIPESIZE
  <2>1. m = (IF w >= r THEN w - r ELSE w + UINT_MOD - r) /\ m \in Counters
    BY <1>1, DistIs, Zenon
  <2>2. Dist(v, w) = IF w >= v THEN w - v ELSE w + UINT_MOD - v
    BY <1>2, DistIs, Zenon
  <2>3. m <= PIPESIZE /\ r # w
    BY <1>1
  <2>4. QED
    BY ONLY <1>2, <2>1, <2>2, <2>3, Sizes, r \in Counters, w \in Counters DEF Counters
<1>4. PICK c, q : c = Cells(r, w, d) /\ q = Cells(v, w, d)
  OBVIOUS
<1>5. c \in Seq(Byte \cup {NoByte}) /\ Len(c) = m
  BY <1>1, <1>4, CellsAre, Zenon
<1>6. q \in Seq(Byte \cup {NoByte}) /\ Len(q) = m - 1
  <2>1. Dist(v, w) <= PIPESIZE
    BY <1>3, Sizes
  <2>2. QED
    BY <1>2, <1>3, <1>4, <2>1, CellsAre, Zenon
<1>7. c[1] = d[r % PIPESIZE]
  <2>1. 1 \in 1..Dist(r, w) /\ r + 1 - 1 = r
    BY <1>1, <1>3, Sizes DEF Counters
  <2>2. c[1] = d[Slot(r + 1 - 1)]
    BY ONLY <1>4, <2>1, Zenon DEF Cells
  <2>3. r \in Nat /\ r < UINT_MOD + UINT_MOD
    BY Sizes DEF Counters
  <2>4. Slot(r) = r % PIPESIZE
    BY <2>3, SlotIs, Zenon
  <2>5. QED
    BY <2>1, <2>2, <2>4, Zenon
<1>8. ASSUME NEW k \in 1..m - 1 PROVE q[k] = c[k + 1]
  <2>1. k \in 1..Dist(v, w) /\ k + 1 \in 1..Dist(r, w)
    BY <1>1, <1>3
  <2>2. q[k] = d[Slot(v + k - 1)] /\ c[k + 1] = d[Slot(r + (k + 1) - 1)]
    BY ONLY <1>4, <2>1, Zenon DEF Cells
  <2>3. Slot(v + k - 1) = Slot(r + (k + 1) - 1)
    <3>1. CASE r + 1 = UINT_MOD
      <4>1. k - 1 \in 0..UINT_MOD - 1 /\ v + k - 1 = k - 1 /\ r + (k + 1) - 1 = UINT_MOD + (k - 1)
        BY <3>1, <1>2, <1>3, Sizes DEF Counters
      <4>2. (v + k - 1) % UINT_MOD = (r + (k + 1) - 1) % UINT_MOD
        BY <4>1, WrapOnce, Zenon
      <4>3. QED
        BY <4>2, Zenon DEF Slot
    <3>2. CASE r + 1 # UINT_MOD
      <4>1. v + k - 1 = r + (k + 1) - 1
        BY <3>2, <1>2, Sizes DEF Counters
      <4>2. QED
        BY <4>1, Zenon
    <3>3. QED
      BY <3>1, <3>2
  <2>4. QED
    BY <2>2, <2>3, Zenon
<1>9. c # <<>>
  BY ONLY <1>3, <1>5
<1>10. Head(c) = c[1] /\ Tail(c) \in Seq(Byte \cup {NoByte}) /\ Len(Tail(c)) = m - 1
       /\ \A k \in 1..m - 1 : Tail(c)[k] = c[k + 1]
  BY ONLY <1>3, <1>5, <1>9, HeadTailProperties
<1>11. q = Tail(c)
  <2>1. \A k \in 1..m - 1 : q[k] = Tail(c)[k]
    BY ONLY <1>8, <1>10, Zenon
  <2>2. QED
    BY ONLY <1>6, <1>10, <2>1, SeqEqual, Zenon
<1>12. QED
  BY <1>1, <1>4, <1>7, <1>9, <1>10, <1>11, Zenon

LEMMA RingTypes ==
  ASSUME TypeOK, RingBound
  PROVE  /\ nread \in Counters /\ nwrite \in Counters /\ data \in Rings
         /\ Dist(nread, nwrite) <= PIPESIZE
BY Zenon DEF TypeOK, RingBound, Count, Dist, Counters, Rings

LEMMA ContentsAre ==
  /\ Contents = Cells(nread, nwrite, data)
  /\ Contents' = Cells(nread', nwrite', data')
BY Zenon DEF Contents, Cells, Count, Dist, Slot

\* A step that leaves the ring, the ends and the reader's last byte alone.
LEMMA ChannelStutters ==
  ASSUME UNCHANGED <<nread, nwrite, data>>, UNCHANGED <<readopen, writeopen, out>>
  PROVE  UNCHANGED Channel!vars
<1>1. nread' = nread /\ nwrite' = nwrite /\ data' = data
  OBVIOUS
<1>2. Contents' = Contents
  BY ONLY <1>1, ContentsAre, Zenon
<1>3. QED
  BY ONLY <1>2, UNCHANGED <<readopen, writeopen, out>> DEF Channel!vars

LEMMA ChannelSend ==
  ASSUME TypeOK, RingBound, RefInv, NEW p \in Procs, NEW b \in Byte, WriteByte(p, b)
  PROVE  Channel!Send(b)
<1>1. /\ pc[p] = "wloop" /\ readopen /\ nwrite # (nread + PIPESIZE) % UINT_MOD
      /\ data' = [data EXCEPT ![nwrite % PIPESIZE] = b]
      /\ nwrite' = (nwrite + 1) % UINT_MOD /\ nread' = nread
  BY ONLY WriteByte(p, b), Zenon DEF WriteByte, CannotWrite, Full
<1>2. UNCHANGED <<readopen, writeopen, out>>
  BY ONLY WriteByte(p, b) DEF WriteByte, ends
<1>3. writeopen
  <2>1. p \in wfd
    BY ONLY RefInv, <1>1, p \in Procs, Zenon DEF RefInv, Writing
  <2>2. QED
    BY ONLY RefInv, <2>1 DEF RefInv
<1>4. Dist(nread, nwrite) < PIPESIZE
  <2>1. Dist(nread, nwrite) # PIPESIZE
    BY <1>1, RingTypes, FullIs, Zenon
  <2>2. Dist(nread, nwrite) <= PIPESIZE /\ Dist(nread, nwrite) \in Nat
    BY RingTypes, CellsAre, Zenon
  <2>3. QED
    BY ONLY <2>1, <2>2, Sizes
<1>5. Contents' = Append(Contents, b)
  BY <1>1, <1>4, RingTypes, ContentsAre, WriteAppends, Zenon
<1>6. Len(Contents) < PIPESIZE
  <2>1. Len(Contents) = Dist(nread, nwrite)
    BY RingTypes, ContentsAre, CellsAre, Zenon
  <2>2. QED
    BY ONLY <1>4, <2>1, Zenon
<1>7. QED
  BY ONLY <1>1, <1>2, <1>3, <1>5, <1>6 DEF Channel!Send

LEMMA ChannelReceive ==
  ASSUME TypeOK, RingBound, RefInv, NEW p \in Procs, ReadByte(p)
  PROVE  Channel!Receive
<1>1. /\ pc[p] = "rcopy" /\ nread # nwrite /\ out' = data[nread % PIPESIZE]
      /\ nread' = (nread + 1) % UINT_MOD /\ nwrite' = nwrite /\ data' = data
  BY ONLY ReadByte(p), Zenon DEF ReadByte, Empty
<1>2. UNCHANGED <<readopen, writeopen>>
  BY ONLY ReadByte(p) DEF ReadByte, ends
<1>3. readopen
  <2>1. p \in rfd
    BY ONLY RefInv, <1>1, p \in Procs, Zenon DEF RefInv, Reading
  <2>2. QED
    BY ONLY RefInv, <2>1 DEF RefInv
<1>4. Contents # <<>> /\ Head(Contents) = data[nread % PIPESIZE] /\ Contents' = Tail(Contents)
  BY <1>1, RingTypes, ContentsAre, ReadRemoves, Zenon
<1>5. QED
  BY ONLY <1>1, <1>2, <1>3, <1>4 DEF Channel!Receive

\* An empty ring is an empty queue.
LEMMA EmptyContents ==
  ASSUME NEW r \in Counters, NEW d
  PROVE  Cells(r, r, d) = <<>>
<1>1. Dist(r, r) = 0
  <2>1. Dist(r, r) = IF r >= r THEN r - r ELSE r + UINT_MOD - r
    BY DistIs, Zenon
  <2>2. QED
    BY ONLY <2>1, Sizes, r \in Counters DEF Counters
<1>2. QED
  BY ONLY <1>1 DEF Cells

\* The read that returns 0 finds no writer and no byte; the others take none.
LEMMA ChannelEof ==
  ASSUME TypeOK, RingBound, RefInv, SleepInv, NEW p \in Procs, ReadReturn(p)
  PROVE  Channel!EndOfFile \/ UNCHANGED Channel!vars
<1>1. /\ pc[p] = "rcopy" /\ nread' = nread /\ nwrite' = nwrite /\ data' = data
      /\ readopen' = readopen /\ writeopen' = writeopen
      /\ out' = IF Empty /\ i[p] = 0 /\ n[p] > 0 THEN Eof ELSE out
  BY ONLY ReadReturn(p) DEF ReadReturn, ring, ends
<1>2. Contents' = Contents
  BY ONLY <1>1, ContentsAre, Zenon
<1>3. CASE Empty /\ i[p] = 0 /\ n[p] > 0
  <2>1. ~writeopen
    BY ONLY SleepInv, <1>1, <1>3, p \in Procs, Zenon DEF SleepInv, MustWait
  <2>2. readopen
    <3>1. p \in rfd
      BY ONLY RefInv, <1>1, p \in Procs, Zenon DEF RefInv, Reading
    <3>2. QED
      BY ONLY RefInv, <3>1 DEF RefInv
  <2>3. Contents = <<>>
    BY <1>3, RingTypes, ContentsAre, EmptyContents, ZenonT(60) DEF Empty
  <2>4. QED
    BY ONLY <1>1, <1>2, <1>3, <2>1, <2>2, <2>3 DEF Channel!EndOfFile
<1>4. CASE ~(Empty /\ i[p] = 0 /\ n[p] > 0)
  <2>1. out' = out
    BY ONLY <1>1, <1>4, Zenon
  <2>2. UNCHANGED <<readopen, writeopen, out>> /\ UNCHANGED <<nread, nwrite, data>>
    BY ONLY <1>1, <2>1
  <2>3. QED
    BY ONLY <2>2, ChannelStutters, Zenon
<1>5. QED
  BY <1>3, <1>4

LEMMA ChannelClose ==
  ASSUME RefInv, NEW p \in Procs, PipeClose(p)
  PROVE  Channel!CloseWrite \/ Channel!CloseRead
<1>1. CASE PipeCloseWrite(p)
  <2>1. /\ pc[p] = "closew" /\ nread' = nread /\ nwrite' = nwrite /\ data' = data
        /\ writeopen' = FALSE /\ readopen' = readopen /\ out' = out
    BY ONLY PipeCloseWrite(p), <1>1 DEF PipeCloseWrite, ring
  <2>2. writeopen
    BY ONLY RefInv, <2>1, p \in Procs, Zenon DEF RefInv
  <2>3. Contents' = Contents
    BY ONLY <2>1, ContentsAre, Zenon
  <2>4. QED
    BY ONLY <2>1, <2>2, <2>3 DEF Channel!CloseWrite
<1>2. CASE PipeCloseRead(p)
  <2>1. /\ pc[p] = "closer" /\ nread' = nread /\ nwrite' = nwrite /\ data' = data
        /\ readopen' = FALSE /\ writeopen' = writeopen /\ out' = out
    BY ONLY PipeCloseRead(p), <1>2 DEF PipeCloseRead, ring
  <2>2. readopen
    BY ONLY RefInv, <2>1, p \in Procs, Zenon DEF RefInv
  <2>3. Contents' = Contents
    BY ONLY <2>1, ContentsAre, Zenon
  <2>4. QED
    BY ONLY <2>1, <2>2, <2>3 DEF Channel!CloseRead
<1>3. QED
  BY ONLY <1>1, <1>2, PipeClose(p), Zenon DEF PipeClose

LEMMA ChannelInit == Init => Channel!Init
<1> SUFFICES ASSUME Init PROVE Channel!Init
  OBVIOUS
<1>1. nread = 0 /\ nwrite = 0 /\ readopen = TRUE /\ writeopen = TRUE /\ out = NoByte
  BY ONLY Init, Zenon DEF Init
<1>2. 0 \in Counters
  BY Sizes DEF Counters
<1>3. Contents = <<>>
  BY ONLY <1>1, <1>2, ContentsAre, EmptyContents, Zenon
<1>4. QED
  BY ONLY <1>1, <1>3, Zenon DEF Channel!Init

\* Every step of a process is a step of the channel or leaves it alone.
LEMMA ChannelNext ==
  ASSUME TypeOK, RingBound, RefInv, SleepInv, [Next]_vars
  PROVE  [Channel!Next]_Channel!vars
<1> DEFINE Mapped == [Channel!Next]_Channel!vars
<1>1. ASSUME NEW p \in Procs, NEW b \in Byte, WriteByte(p, b) PROVE Mapped
  <2>1. Channel!Send(b)
    BY <1>1, ChannelSend, Zenon
  <2>2. QED
    BY ONLY <2>1, b \in Byte, Zenon DEF Channel!Next
<1>2. ASSUME NEW p \in Procs, ReadByte(p) PROVE Mapped
  <2>1. Channel!Receive
    BY <1>2, ChannelReceive, Zenon
  <2>2. QED
    BY ONLY <2>1, Zenon DEF Channel!Next
<1>3. ASSUME NEW p \in Procs, ReadReturn(p) PROVE Mapped
  <2>1. Channel!EndOfFile \/ UNCHANGED Channel!vars
    BY <1>3, ChannelEof, Zenon
  <2>2. QED
    BY ONLY <2>1, Zenon DEF Channel!Next
<1>4. ASSUME NEW p \in Procs, PipeClose(p) PROVE Mapped
  <2>1. Channel!CloseWrite \/ Channel!CloseRead
    BY <1>4, ChannelClose, Zenon
  <2>2. QED
    BY ONLY <2>1, Zenon DEF Channel!Next
<1>5. ASSUME UNCHANGED <<nread, nwrite, data>>, UNCHANGED <<readopen, writeopen, out>>
      PROVE  Mapped
  BY ONLY <1>5, ChannelStutters, Zenon
<1> HIDE DEF Mapped
<1>6. ASSUME NEW p \in Procs, Step(p) PROVE Mapped
  <2>1. CASE WriteAcquire(p)
    <3>1. UNCHANGED <<nread, nwrite, data>> /\ UNCHANGED <<readopen, writeopen, out>>
      BY ONLY <2>1 DEF WriteAcquire, ring, ends
    <3>2. QED
      BY ONLY <1>5, <3>1, Zenon
  <2>2. CASE WriteAbort(p)
    <3>1. UNCHANGED <<nread, nwrite, data>> /\ UNCHANGED <<readopen, writeopen, out>>
      BY ONLY <2>2 DEF WriteAbort, ring, ends
    <3>2. QED
      BY ONLY <1>5, <3>1, Zenon
  <2>3. CASE WriteFull(p)
    <3>1. UNCHANGED <<nread, nwrite, data>> /\ UNCHANGED <<readopen, writeopen, out>>
      BY ONLY <2>3 DEF WriteFull, ring, ends
    <3>2. QED
      BY ONLY <1>5, <3>1, Zenon
  <2>4. CASE WriteSleep(p)
    <3>1. UNCHANGED <<nread, nwrite, data>> /\ UNCHANGED <<readopen, writeopen, out>>
      BY ONLY <2>4 DEF WriteSleep, ring, ends
    <3>2. QED
      BY ONLY <1>5, <3>1, Zenon
  <2>5. CASE WriteReturn(p)
    <3>1. UNCHANGED <<nread, nwrite, data>> /\ UNCHANGED <<readopen, writeopen, out>>
      BY ONLY <2>5 DEF WriteReturn, ring, ends
    <3>2. QED
      BY ONLY <1>5, <3>1, Zenon
  <2>6. CASE ReadAcquire(p)
    <3>1. UNCHANGED <<nread, nwrite, data>> /\ UNCHANGED <<readopen, writeopen, out>>
      BY ONLY <2>6 DEF ReadAcquire, ring, ends
    <3>2. QED
      BY ONLY <1>5, <3>1, Zenon
  <2>7. CASE ReadAbort(p)
    <3>1. UNCHANGED <<nread, nwrite, data>> /\ UNCHANGED <<readopen, writeopen, out>>
      BY ONLY <2>7 DEF ReadAbort, ring, ends
    <3>2. QED
      BY ONLY <1>5, <3>1, Zenon
  <2>8. CASE ReadEmpty(p)
    <3>1. UNCHANGED <<nread, nwrite, data>> /\ UNCHANGED <<readopen, writeopen, out>>
      BY ONLY <2>8 DEF ReadEmpty, ring, ends
    <3>2. QED
      BY ONLY <1>5, <3>1, Zenon
  <2>9. CASE ReadSleep(p)
    <3>1. UNCHANGED <<nread, nwrite, data>> /\ UNCHANGED <<readopen, writeopen, out>>
      BY ONLY <2>9 DEF ReadSleep, ring, ends
    <3>2. QED
      BY ONLY <1>5, <3>1, Zenon
  <2>10. CASE ReadReady(p)
    <3>1. UNCHANGED <<nread, nwrite, data>> /\ UNCHANGED <<readopen, writeopen, out>>
      BY ONLY <2>10 DEF ReadReady, ring, ends
    <3>2. QED
      BY ONLY <1>5, <3>1, Zenon
  <2>11. CASE KFree(p)
    <3>1. UNCHANGED <<nread, nwrite, data>> /\ UNCHANGED <<readopen, writeopen, out>>
      BY ONLY <2>11 DEF KFree, ring
    <3>2. QED
      BY ONLY <1>5, <3>1, Zenon
  <2>12. QED
    BY ONLY <1>1, <1>2, <1>3, <1>4, <1>6, <2>1, <2>2, <2>3, <2>4, <2>5, <2>6, <2>7, <2>8,
            <2>9, <2>10, <2>11, p \in Procs, Zenon DEF Step
<1>7. ASSUME NEW p \in Procs, Call(p) PROVE Mapped
  <2>1. ASSUME NEW c \in Procs, Fork(p, c) PROVE Mapped
    <3>1. UNCHANGED <<nread, nwrite, data>> /\ UNCHANGED <<readopen, writeopen, out>>
      BY ONLY <2>1 DEF Fork, ring, ends
    <3>2. QED
      BY ONLY <1>5, <3>1, Zenon
  <2>2. ASSUME NEW cnt \in Counts, WriteEnter(p, cnt) PROVE Mapped
    <3>1. UNCHANGED <<nread, nwrite, data>> /\ UNCHANGED <<readopen, writeopen, out>>
      BY ONLY <2>2 DEF WriteEnter, ring, ends
    <3>2. QED
      BY ONLY <1>5, <3>1, Zenon
  <2>3. ASSUME NEW cnt \in Counts, ReadEnter(p, cnt) PROVE Mapped
    <3>1. UNCHANGED <<nread, nwrite, data>> /\ UNCHANGED <<readopen, writeopen, out>>
      BY ONLY <2>3 DEF ReadEnter, ring, ends
    <3>2. QED
      BY ONLY <1>5, <3>1, Zenon
  <2>4. CASE CloseWriteFd(p)
    <3>1. UNCHANGED <<nread, nwrite, data>> /\ UNCHANGED <<readopen, writeopen, out>>
      BY ONLY <2>4 DEF CloseWriteFd, ring, ends
    <3>2. QED
      BY ONLY <1>5, <3>1, Zenon
  <2>5. CASE CloseReadFd(p)
    <3>1. UNCHANGED <<nread, nwrite, data>> /\ UNCHANGED <<readopen, writeopen, out>>
      BY ONLY <2>5 DEF CloseReadFd, ring, ends
    <3>2. QED
      BY ONLY <1>5, <3>1, Zenon
  <2>6. CASE Exit(p)
    <3>1. UNCHANGED <<nread, nwrite, data>> /\ UNCHANGED <<readopen, writeopen, out>>
      BY ONLY <2>6 DEF Exit, ring, ends
    <3>2. QED
      BY ONLY <1>5, <3>1, Zenon
  <2>7. QED
    BY ONLY <1>7, <2>1, <2>2, <2>3, <2>4, <2>5, <2>6, Zenon DEF Call
<1>8. ASSUME NEW p \in Procs, Kill(p) PROVE Mapped
  <2>1. UNCHANGED <<nread, nwrite, data>> /\ UNCHANGED <<readopen, writeopen, out>>
    BY ONLY <1>8 DEF Kill, ring, ends
  <2>2. QED
    BY ONLY <1>5, <2>1, Zenon
<1>9. ASSUME UNCHANGED vars PROVE Mapped
  <2>1. UNCHANGED <<nread, nwrite, data>> /\ UNCHANGED <<readopen, writeopen, out>>
    BY ONLY <1>9 DEF vars, ring, ends
  <2>2. QED
    BY ONLY <1>5, <2>1, Zenon
<1>10. Killable \subseteq Procs
  BY PipeAssumption, Zenon
<1>11. Mapped
  BY ONLY <1>6, <1>7, <1>8, <1>9, <1>10, [Next]_vars, Zenon DEF Next
<1>12. QED
  BY ONLY <1>11, Zenon DEF Mapped

\* However the processes interleave, are killed or leave, and across every wrap
\* of the 32-bit counters, pipewrite, piperead and pipeclose act as one bounded
\* FIFO channel: no byte is lost, duplicated or reordered, none enters a full
\* ring or a ring without readers, and 0 is returned only at the end.
THEOREM ChannelImplemented == Spec => ImplementsChannel
<1>1. TypeOK /\ RingBound /\ RefInv /\ SleepInv /\ [Next]_vars => [Channel!Next]_Channel!vars
  BY ChannelNext, Zenon
<1>2. QED
  BY <1>1, ChannelInit, TypeCorrect, RingBounded, References, SleepConditions, PTL
     DEF Spec, ImplementsChannel, Channel!Spec
=============================================================================
