--------------------------- MODULE ConsoleProofs ----------------------------
(***************************************************************************)
(* Proofs about the console, for any number of processes and any sizes of  *)
(* the ring and of its indices: the indices stay in order, no reader       *)
(* sleeps on a line that is there, no writer is left asleep, and the ring  *)
(* implements LineInput.                                                   *)
(***************************************************************************)
EXTENDS Console, SequenceTheorems, TLAPS

-----------------------------------------------------------------------------
(* Arithmetic of the indices                                               *)

\* The constants, but for the divisibility that only the ring's positions need.
LEMMA Sizes ==
  /\ INPUT_BUF_SIZE \in Nat \ {0} /\ UINT_MOD \in Nat \ {0} /\ UINT_MOD > INPUT_BUF_SIZE
  /\ Lengths \subseteq Nat /\ Readers \cup Writers \subseteq Procs
  /\ BATCH \in Nat \ {0} /\ FIFO \in Nat \ {0, 1} /\ None \notin Procs
BY ConsoleAssumption, Zenon

LEMMA MinusIs ==
  ASSUME NEW a \in 0..UINT_MOD - 1, NEW b \in 0..UINT_MOD - 1
  PROVE  Minus(a, b) = IF b <= a THEN a - b ELSE a - b + UINT_MOD
<1>1. CASE b <= a
  BY <1>1, Sizes DEF Minus
<1>2. CASE ~(b <= a)
  BY <1>2, Sizes DEF Minus
<1>3. QED
  BY <1>1, <1>2

LEMMA Plus1Is ==
  ASSUME NEW a \in 0..UINT_MOD - 1
  PROVE  Plus1(a) = IF a = UINT_MOD - 1 THEN 0 ELSE a + 1
BY Sizes DEF Plus1

\* r, w and e are counters that have wrapped: w is A and e is B ahead of r.
LEMMA Ahead ==
  ASSUME NEW a \in 0..UINT_MOD - 1, NEW b \in 0..UINT_MOD - 1
  PROVE  /\ Minus(a, b) \in 0..UINT_MOD - 1
         /\ Minus(a, b) = 0 <=> a = b
BY MinusIs, Sizes

LEMMA AheadPlus ==
  ASSUME NEW a \in 0..UINT_MOD - 1, NEW b \in 0..UINT_MOD - 1
  PROVE  /\ Plus1(a) \in 0..UINT_MOD - 1
         /\ Minus(a, b) < UINT_MOD - 1 => Minus(Plus1(a), b) = Minus(a, b) + 1
         /\ a # b => Minus(a, Plus1(b)) = Minus(a, b) - 1
<1>1. Plus1(a) \in 0..UINT_MOD - 1 /\ Plus1(b) \in 0..UINT_MOD - 1
  BY Plus1Is, Sizes
<1>2. /\ Plus1(a) = IF a = UINT_MOD - 1 THEN 0 ELSE a + 1
      /\ Plus1(b) = IF b = UINT_MOD - 1 THEN 0 ELSE b + 1
  BY Plus1Is
<1>3. Minus(a, b) = IF b <= a THEN a - b ELSE a - b + UINT_MOD
  BY MinusIs
<1>4. Minus(Plus1(a), b) = IF b <= Plus1(a) THEN Plus1(a) - b ELSE Plus1(a) - b + UINT_MOD
  BY <1>1, MinusIs
<1>5. Minus(a, Plus1(b)) = IF Plus1(b) <= a THEN a - Plus1(b) ELSE a - Plus1(b) + UINT_MOD
  BY <1>1, MinusIs
<1>6. QED
  BY <1>1, <1>2, <1>3, <1>4, <1>5, Sizes

\* Going i back from a, which is at least i ahead of b.
LEMMA AheadBack ==
  ASSUME NEW a \in 0..UINT_MOD - 1, NEW b \in 0..UINT_MOD - 1, NEW i \in 0..UINT_MOD - 1, i <= Minus(a, b)
  PROVE  /\ Minus(a, i) \in 0..UINT_MOD - 1
         /\ Minus(Minus(a, i), b) = Minus(a, b) - i
<1>1. Minus(a, i) \in 0..UINT_MOD - 1
  BY Ahead
<1>2. Minus(a, i) = IF i <= a THEN a - i ELSE a - i + UINT_MOD
  BY MinusIs
<1>3. Minus(a, b) = IF b <= a THEN a - b ELSE a - b + UINT_MOD
  BY MinusIs
<1>4. Minus(Minus(a, i), b) = IF b <= Minus(a, i) THEN Minus(a, i) - b ELSE Minus(a, i) - b + UINT_MOD
  BY <1>1, MinusIs
<1>5. QED
  BY <1>1, <1>2, <1>3, <1>4, Sizes

\* The edited line is what e is ahead of w.
LEMMA LineLength ==
  ASSUME NEW a \in 0..UINT_MOD - 1, NEW b \in 0..UINT_MOD - 1, NEW c \in 0..UINT_MOD - 1,
         Minus(b, c) <= Minus(a, c)
  PROVE  Minus(a, b) = Minus(a, c) - Minus(b, c)
BY MinusIs, Sizes

-----------------------------------------------------------------------------
(* Input                                                                   *)

Labels == {"user", "read", "loop", "read-asleep", "write", "batch", "write-asleep", "gone"}

\* The steps that move no index.
LEMMA IndexFrame ==
  ASSUME IndexOrder, UNCHANGED <<r, w, e>>
  PROVE  IndexOrder'
BY DEF IndexOrder, Minus

\* A reader takes a character.
LEMMA IndexRead ==
  ASSUME TypeOK, IndexOrder, r # w, r' = Plus1(r), UNCHANGED <<w, e>>
  PROVE  IndexOrder' /\ r' \in 0..UINT_MOD - 1
<1>1. r \in 0..UINT_MOD - 1 /\ w \in 0..UINT_MOD - 1 /\ e \in 0..UINT_MOD - 1
  BY DEF TypeOK
<1>2. Minus(w, r) \in 0..UINT_MOD - 1 /\ Minus(w, r) # 0 /\ Minus(e, r) \in 0..UINT_MOD - 1
  BY <1>1, Ahead
<1>3. e # r
  BY <1>1, <1>2, Ahead DEF IndexOrder
<1>4. Minus(w, Plus1(r)) = Minus(w, r) - 1 /\ Minus(e, Plus1(r)) = Minus(e, r) - 1 /\ Plus1(r) \in 0..UINT_MOD - 1
  BY <1>1, <1>3, AheadPlus
<1>5. Minus(w, r)' = Minus(w, r) - 1 /\ Minus(e, r)' = Minus(e, r) - 1
  BY <1>4 DEF Minus
<1>6. QED
  BY <1>2, <1>4, <1>5, Sizes DEF IndexOrder

\* The interrupt stores a character, and may complete the line.
LEMMA IndexType ==
  ASSUME TypeOK, IndexOrder, Room, e' = Plus1(e), w' \in {w, Plus1(e)}, r' = r
  PROVE  IndexOrder' /\ e' \in 0..UINT_MOD - 1 /\ w' \in 0..UINT_MOD - 1
<1>1. r \in 0..UINT_MOD - 1 /\ w \in 0..UINT_MOD - 1 /\ e \in 0..UINT_MOD - 1
  BY DEF TypeOK
<1>2. Minus(w, r) \in 0..UINT_MOD - 1 /\ Minus(e, r) \in 0..UINT_MOD - 1 /\ Minus(e, r) < INPUT_BUF_SIZE
  BY <1>1, Ahead DEF Room
<1>3. Minus(Plus1(e), r) = Minus(e, r) + 1 /\ Plus1(e) \in 0..UINT_MOD - 1
  BY <1>1, <1>2, AheadPlus, Sizes
<1>4. Minus(e, r)' = Minus(e, r) + 1 /\ Minus(w, r)' \in {Minus(w, r), Minus(e, r) + 1}
  BY <1>3 DEF Minus
<1>5. QED
  BY <1>1, <1>2, <1>3, <1>4, Sizes DEF IndexOrder

\* An edit takes back at most the characters of the line.
LEMMA IndexBack ==
  ASSUME TypeOK, IndexOrder, NEW i \in 1..Minus(e, w), e' = Minus(e, i), UNCHANGED <<w, r>>
  PROVE  IndexOrder' /\ e' \in 0..UINT_MOD - 1
<1>1. r \in 0..UINT_MOD - 1 /\ w \in 0..UINT_MOD - 1 /\ e \in 0..UINT_MOD - 1
  BY DEF TypeOK
<1>2. Minus(w, r) \in 0..UINT_MOD - 1 /\ Minus(e, r) \in 0..UINT_MOD - 1 /\ Minus(e, w) \in 0..UINT_MOD - 1
  BY <1>1, Ahead
<1>3. Minus(e, w) = Minus(e, r) - Minus(w, r)
  BY <1>1, LineLength DEF IndexOrder
<1>4. i \in 0..UINT_MOD - 1 /\ i <= Minus(e, r)
  BY <1>2, <1>3, Sizes
<1>5. Minus(Minus(e, i), r) = Minus(e, r) - i /\ Minus(e, i) \in 0..UINT_MOD - 1
  BY <1>1, <1>4, AheadBack
<1>6. Minus(e, r)' = Minus(e, r) - i /\ Minus(w, r)' = Minus(w, r)
  BY <1>5 DEF Minus
<1>7. QED
  BY <1>2, <1>3, <1>4, <1>5, <1>6, Sizes DEF IndexOrder

\* The end of a call.
LEMMA LeaveTypes ==
  ASSUME TypeOK, NEW p \in Procs, Leave(p)
  PROVE  /\ pc' \in [Procs -> Labels] /\ n' \in [Procs -> Nat] /\ target' \in [Procs -> Lengths \cup {0}]
         /\ \A q \in Procs : pc'[q] \in {"read-asleep", "write-asleep"} => pc[q] = pc'[q]
<1>1. n' \in [Procs -> Nat] /\ target' \in [Procs -> Lengths \cup {0}]
  BY Sizes DEF TypeOK, Leave
<1>2. PICK l \in {"gone", "user"} : pc' = [pc EXCEPT ![p] = l]
  BY Zenon DEF Leave
<1>3. pc \in [Procs -> Labels]
  BY DEF TypeOK, Labels
<1>4. pc' \in [Procs -> Labels] /\ \A q \in Procs : pc'[q] \in {"read-asleep", "write-asleep"} => pc[q] = pc'[q]
  BY <1>2, <1>3 DEF Labels
<1>5. QED
  BY <1>1, <1>4

\* A step of a process that leaves the ring and its indices alone.
LEMMA ProcStep ==
  ASSUME InputConsistent, NEW p \in Procs,
         \/ Enter(p, "read") \/ Enter(p, "write") \/ Kkill(p) \/ ReadAcquire(p) \/ ReadDone(p)
         \/ ReadWaits(p) \/ WriteFails(p) \/ WriteByte(p) \/ WriteWaits(p) \/ WriteDone(p)
  PROVE  InputConsistent'
<1> USE Sizes
<1>0. TypeOK /\ IndexOrder /\ NoStrandedReader
  BY DEF InputConsistent
<1>1. UNCHANGED <<buf, r, w, e, irq, intr>>
  BY Zenon DEF Enter, Kkill, ReadAcquire, ReadDone, ReadWaits, WriteFails, WriteByte, WriteWaits, WriteDone, input, output
<1>2. lock' \in Procs \cup {None}
  BY <1>0, Zenon DEF TypeOK, Enter, Kkill, ReadAcquire, ReadDone, ReadWaits, WriteFails, WriteByte, WriteWaits, WriteDone
<1>3. killed' \in [Procs -> BOOLEAN]
  <2>1. killed \in [Procs -> BOOLEAN] /\ (killed' = killed \/ killed' = [killed EXCEPT ![p] = TRUE])
    BY <1>0, Zenon DEF TypeOK, Enter, Kkill, ReadAcquire, ReadDone, ReadWaits, WriteFails, WriteByte, WriteWaits, WriteDone
  <2>2. QED
    BY Zenon, <2>1
<1>4. tx_busy' \in BOOLEAN
  BY <1>0, Zenon DEF TypeOK, Enter, Kkill, ReadAcquire, ReadDone, ReadWaits, WriteFails, WriteByte, WriteWaits, WriteDone, output
<1>5. n' \in [Procs -> Nat] /\ target' \in [Procs -> Lengths \cup {0}]
  <2>0. n \in [Procs -> Nat] /\ target \in [Procs -> Lengths \cup {0}]
    BY <1>0 DEF TypeOK
  <2>1. CASE Leave(p)
    BY <1>0, <2>1, LeaveTypes
  <2>2. CASE WriteByte(p)
    BY <2>0, <2>2 DEF WriteByte
  <2>3. CASE \E k \in Lengths : n' = [n EXCEPT ![p] = k] /\ target' = [target EXCEPT ![p] = k]
    BY <2>0, <2>3
  <2>4. CASE UNCHANGED <<n, target>>
    BY <2>0, <2>4
  <2>5. QED
    BY <2>1, <2>2, <2>3, <2>4, Zenon DEF Enter, Kkill, ReadAcquire, ReadDone, ReadWaits, WriteFails, WriteWaits, WriteDone
<1>6. /\ pc' \in [Procs -> Labels]
      /\ \A q \in Procs : pc'[q] = "read-asleep" => r = w
  <2>0. pc \in [Procs -> Labels] /\ \A q \in Procs : pc[q] = "read-asleep" => r = w
    BY <1>0 DEF TypeOK, NoStrandedReader, Labels
  <2>1. CASE Leave(p)
    BY <1>0, <2>0, <2>1, LeaveTypes
  <2>2. CASE \E l \in {"read", "write", "loop", "write-asleep"} : pc' = [pc EXCEPT ![p] = l]
    BY <2>0, <2>2 DEF Labels
  <2>3. CASE r = w /\ pc' = [pc EXCEPT ![p] = "read-asleep"]
    BY <2>0, <2>3 DEF Labels
  <2>4. CASE Kkill(p)
    <3>1. PICK l \in {"read", "batch", "gone", pc[p]} : pc' = [pc EXCEPT ![p] = l]
      BY Zenon, <2>4 DEF Kkill
    <3>2. QED
      BY <2>0, <3>1 DEF Labels
  <2>5. QED
    BY <2>1, <2>2, <2>3, <2>4, Zenon DEF Enter, ReadAcquire, ReadDone, ReadWaits, WriteFails, WriteByte, WriteWaits, WriteDone
<1>7. TypeOK'
  BY <1>0, <1>1, <1>2, <1>3, <1>4, <1>5, <1>6, Zenon DEF TypeOK, Labels
<1>8. NoStrandedReader'
  BY <1>1, <1>6 DEF NoStrandedReader
<1>9. QED
  BY <1>0, <1>1, <1>7, <1>8, IndexFrame DEF InputConsistent

\* A reader takes what it finds; as it finds something, nobody sleeps.
LEMMA ReadStep ==
  ASSUME InputConsistent, NEW p \in Procs, ReadEof(p) \/ ReadChar(p) \/ ReadFails(p)
  PROVE  InputConsistent'
<1> USE Sizes
<1>0. TypeOK /\ IndexOrder /\ NoStrandedReader
  BY DEF InputConsistent
<1>1. r # w /\ r' \in {r, Plus1(r)} /\ UNCHANGED <<buf, w, e, killed, tx_busy, irq, intr>> /\ lock' \in {lock, None}
  BY Zenon DEF ReadEof, ReadChar, ReadFails, AfterEof, output
<1>2. IndexOrder' /\ r' \in 0..UINT_MOD - 1
  <2>1. CASE r' = r
    BY <1>0, <1>1, <2>1, IndexFrame DEF TypeOK
  <2>2. CASE r' = Plus1(r)
    BY <1>0, <1>1, <2>2, IndexRead
  <2>3. QED
    BY <1>1, <2>1, <2>2
<1>3. /\ pc' \in [Procs -> Labels] /\ n' \in [Procs -> Nat] /\ target' \in [Procs -> Lengths \cup {0}]
      /\ \A q \in Procs : pc'[q] = "read-asleep" => pc[q] = "read-asleep"
  <2>1. CASE Leave(p)
    BY <1>0, <2>1, LeaveTypes
  <2>2. CASE n[p] > 0 /\ n' = [n EXCEPT ![p] = n[p] - 1] /\ UNCHANGED <<pc, target>>
    BY <1>0, <2>2 DEF TypeOK, Labels
  <2>3. QED
    BY <2>1, <2>2, Zenon DEF ReadEof, ReadChar, ReadFails
<1>4. TypeOK'
  BY <1>0, <1>1, <1>2, <1>3, Zenon DEF TypeOK, Labels
<1>5. NoStrandedReader'
  BY <1>0, <1>1, <1>3 DEF NoStrandedReader
<1>6. QED
  BY <1>2, <1>4, <1>5 DEF InputConsistent

LEMMA WokenLabels ==
  ASSUME TypeOK, NEW s, NEW t \in Labels
  PROVE  Woken(s, t) \in [Procs -> Labels] /\ \A q \in Procs : Woken(s, t)[q] = s \/ Woken(s, t)[q] # t => Woken(s, t)[q] = pc[q]
BY DEF TypeOK, Labels, Woken

\* consoleintr: a completed line wakes every reader.
LEMMA TypeStep ==
  ASSUME InputConsistent, NEW c \in Chars, TypeChar(c)
  PROVE  InputConsistent'
<1> USE Sizes
<1>0. TypeOK /\ IndexOrder /\ NoStrandedReader
  BY DEF InputConsistent
<1>1. /\ Room /\ e' = Plus1(e) /\ UNCHANGED <<r, lock, n, target, killed, tx_busy, irq, intr>>
      /\ buf' = [buf EXCEPT ![e % INPUT_BUF_SIZE] = c]
      /\ \/ w' = Plus1(e) /\ pc' = Woken("read-asleep", "read")
         \/ w' = w /\ pc' = pc
  BY Zenon DEF TypeChar, ReadersWoken
<1>2. IndexOrder' /\ e' \in 0..UINT_MOD - 1 /\ w' \in 0..UINT_MOD - 1
  BY <1>0, <1>1, IndexType
<1>3. buf' \in [0..INPUT_BUF_SIZE - 1 -> Chars]
  BY <1>0, <1>1 DEF TypeOK
<1>4. /\ pc' \in [Procs -> Labels]
      /\ \A q \in Procs : pc'[q] = "read-asleep" => w' = w /\ pc[q] = "read-asleep"
  <2>1. "read" \in Labels
    BY DEF Labels
  <2>2. QED
    BY <1>0, <1>1, <2>1, WokenLabels DEF TypeOK, Labels, Woken
<1>5. TypeOK'
  BY <1>0, <1>1, <1>2, <1>3, <1>4, Zenon DEF TypeOK, Labels
<1>6. NoStrandedReader'
  BY <1>0, <1>1, <1>4 DEF NoStrandedReader
<1>7. QED
  BY <1>2, <1>5, <1>6 DEF InputConsistent

LEMMA EditStep ==
  ASSUME InputConsistent, TypeErase \/ TypeKill
  PROVE  InputConsistent'
<1> USE Sizes
<1>0. TypeOK /\ IndexOrder /\ NoStrandedReader
  BY DEF InputConsistent
<1>1. UNCHANGED <<buf, r, w, lock, pc, n, target, killed, tx_busy, irq, intr>>
  BY Zenon DEF TypeErase, TypeKill, proc
<1>2. \E i \in 1..Minus(e, w) : e' = Minus(e, i)
  <2>1. CASE TypeErase
    <3>1. e \in 0..UINT_MOD - 1 /\ w \in 0..UINT_MOD - 1 /\ e # w
      BY <1>0, <2>1 DEF TypeErase, Erases, TypeOK
    <3>2. Minus(e, w) \in 0..UINT_MOD - 1 /\ Minus(e, w) # 0
      BY <3>1, Ahead
    <3>3. 1 \in 1..Minus(e, w)
      BY <3>2
    <3>4. QED
      BY <2>1, <3>3 DEF TypeErase
  <2>2. CASE TypeKill
    BY <2>2, Zenon DEF TypeKill
  <2>3. QED
    BY <2>1, <2>2
<1>3. IndexOrder' /\ e' \in 0..UINT_MOD - 1
  BY <1>0, <1>1, <1>2, IndexBack
<1>4. TypeOK'
  BY <1>0, <1>1, <1>3, Zenon DEF TypeOK
<1>5. NoStrandedReader'
  BY <1>0, <1>1 DEF NoStrandedReader
<1>6. QED
  BY <1>3, <1>4, <1>5 DEF InputConsistent

\* The transmitter and the output side of the interrupt.
LEMMA OutputStep ==
  ASSUME InputConsistent, Sent \/ IntrAck \/ IntrTx \/ IntrDone
  PROVE  InputConsistent'
<1> USE Sizes
<1>0. TypeOK /\ IndexOrder /\ NoStrandedReader
  BY DEF InputConsistent
<1>1. UNCHANGED <<buf, r, w, e, lock, n, target, killed>>
  BY Zenon DEF Sent, IntrAck, IntrTx, IntrDone, input, proc
<1>2. irq' \in BOOLEAN /\ tx_busy' \in BOOLEAN /\ intr' \in {"none", "tx", "rx"}
  BY <1>0, Zenon DEF Sent, IntrAck, IntrTx, IntrDone, TypeOK
<1>3. pc' = pc \/ pc' = Woken("write-asleep", "batch")
  BY Zenon DEF Sent, IntrAck, IntrTx, IntrDone, proc
<1>4. pc' \in [Procs -> Labels] /\ \A q \in Procs : pc'[q] = "read-asleep" => pc[q] = "read-asleep"
  <2>1. "batch" \in Labels
    BY DEF Labels
  <2>2. QED
    BY <1>0, <1>3, <2>1, WokenLabels DEF TypeOK, Labels, Woken
<1>5. TypeOK'
  BY <1>0, <1>1, <1>2, <1>4, Zenon DEF TypeOK, Labels
<1>6. NoStrandedReader'
  BY <1>0, <1>1, <1>4 DEF NoStrandedReader
<1>7. QED
  BY <1>0, <1>1, <1>5, <1>6, IndexFrame DEF InputConsistent

LEMMA InitInput == Init => InputConsistent
<1> SUFFICES ASSUME Init PROVE InputConsistent
  OBVIOUS
<1>1. TypeOK
  <2>1. buf \in [0..INPUT_BUF_SIZE - 1 -> Chars] /\ {r, w, e} \subseteq 0..UINT_MOD - 1 /\ lock \in Procs \cup {None}
    BY Sizes DEF Init, Chars
  <2>2. /\ pc \in [Procs -> Labels] /\ n \in [Procs -> Nat] /\ target \in [Procs -> Lengths \cup {0}]
        /\ killed \in [Procs -> BOOLEAN]
    BY DEF Init, Labels
  <2>3. tx_busy \in BOOLEAN /\ irq \in BOOLEAN /\ intr \in {"none", "tx", "rx"}
    BY Zenon DEF Init
  <2>4. QED
    BY <2>1, <2>2, <2>3, Zenon DEF TypeOK, Labels
<1>2. Minus(0, 0) = 0
  BY Sizes, MinusIs
<1>3. IndexOrder
  BY <1>2, Sizes DEF Init, IndexOrder
<1>4. QED
  BY <1>1, <1>3 DEF Init, NoStrandedReader, InputConsistent

LEMMA NextInput == InputConsistent /\ [Next]_vars => InputConsistent'
<1> SUFFICES ASSUME InputConsistent, [Next]_vars PROVE InputConsistent'
  OBVIOUS
<1>1. CASE UNCHANGED vars
  BY <1>1, Zenon DEF vars, input, proc, output, InputConsistent, TypeOK, IndexOrder, NoStrandedReader, Minus
<1>2. CASE Next
  BY <1>2, ProcStep, ReadStep, TypeStep, EditStep, OutputStep, Zenon DEF Next
<1>3. QED
  BY <1>1, <1>2

\* The unread, the complete and the edited characters keep their order in the
\* ring, with indices that wrap, and a reader sleeps only while no line is
\* complete: consoleread() and consoleintr() (kernel/console.c).
THEOREM InputConsistentAlways == Spec => []InputConsistent
BY InitInput, NextInput, PTL DEF Spec

-----------------------------------------------------------------------------
(* Output                                                                  *)

\* A writer adds a byte to at most one of the echo.
OutInv ==
  /\ \A p \in Procs : pc[p] = "write-asleep" => tx_busy
  /\ tx_busy => fifo > 0 \/ irq \/ intr = "tx"
  /\ fifo \in 0..2 /\ (~tx_busy => fifo <= 1)

LEMMA InitOut == Init => OutInv
BY DEF Init, OutInv

\* A step after which no more writers sleep, and which leaves the transmitter alone.
LEMMA OutFrame ==
  ASSUME OutInv, UNCHANGED <<tx_busy, fifo, irq, intr>>,
         \A q \in Procs : pc'[q] = "write-asleep" => pc[q] = "write-asleep" \/ tx_busy
  PROVE  OutInv'
BY DEF OutInv

\* Every step of a process but the one that sends a byte.
LEMMA OutProc ==
  ASSUME TypeOK, OutInv, NEW p \in Procs,
         \/ Enter(p, "read") \/ Enter(p, "write") \/ Kkill(p) \/ ReadAcquire(p) \/ ReadWaits(p) \/ ReadEof(p)
         \/ ReadChar(p) \/ ReadFails(p) \/ ReadDone(p) \/ WriteFails(p) \/ WriteWaits(p) \/ WriteDone(p)
  PROVE  OutInv'
<1>1. UNCHANGED <<tx_busy, fifo, irq, intr>>
  BY Zenon DEF Enter, Kkill, ReadAcquire, ReadWaits, ReadEof, ReadChar, ReadFails, ReadDone, WriteFails, WriteWaits,
               WriteDone, output
<1>2. pc \in [Procs -> Labels]
  BY DEF TypeOK, Labels
<1>3. \A q \in Procs : pc'[q] = "write-asleep" => pc[q] = "write-asleep" \/ tx_busy
  <2>1. CASE Leave(p)
    BY <2>1, LeaveTypes
  <2>2. CASE \E l \in {"read", "write", "loop", "read-asleep", "batch", "gone", pc[p]} : pc' = [pc EXCEPT ![p] = l]
    BY <1>2, <2>2
  <2>3. CASE tx_busy
    BY <2>3
  <2>4. CASE pc' = pc
    BY <2>4
  <2>5. QED
    BY <2>1, <2>2, <2>3, <2>4, Zenon
       DEF Enter, Kkill, ReadAcquire, ReadWaits, ReadEof, ReadChar, ReadFails, ReadDone, WriteFails, WriteWaits, WriteDone
<1>4. QED
  BY <1>1, <1>3, OutFrame

LEMMA NextOut == TypeOK /\ OutInv /\ [Next]_vars => OutInv'
<1> SUFFICES ASSUME TypeOK, OutInv, [Next]_vars PROVE OutInv'
  OBVIOUS
<1>0. pc \in [Procs -> Labels]
  BY DEF TypeOK, Labels
<1>1. CASE UNCHANGED vars
  BY <1>1, OutFrame DEF vars, proc, output
<1>2. ASSUME NEW p \in Procs, WriteByte(p) PROVE OutInv'
  BY <1>0, <1>2 DEF OutInv, WriteByte
<1>3. CASE Sent
  <2>1. fifo > 0 /\ fifo' = fifo - 1 /\ UNCHANGED <<pc, tx_busy, intr>> /\ (irq \/ fifo = 1 => irq')
    BY <1>3, Zenon DEF Sent, proc
  <2>2. QED
    BY <2>1 DEF OutInv
<1>4. CASE IntrAck \/ IntrDone
  BY <1>4 DEF OutInv, IntrAck, IntrDone, proc
<1>5. CASE IntrTx
  <2>1. intr = "tx" /\ intr' = "rx" /\ UNCHANGED <<fifo, irq>>
    BY <1>5 DEF IntrTx
  <2>2. CASE fifo = 0
    <3>1. tx_busy' = FALSE /\ pc' = Woken("write-asleep", "batch")
      BY <1>5, <2>2 DEF IntrTx, TxIdle
    <3>2. \A q \in Procs : pc'[q] # "write-asleep"
      BY <3>1 DEF Woken
    <3>3. QED
      BY <2>1, <2>2, <3>1, <3>2 DEF OutInv
  <2>3. CASE fifo # 0
    BY <1>5, <2>1, <2>3 DEF IntrTx, TxIdle, OutInv
  <2>4. QED
    BY <2>2, <2>3
<1>6. CASE (\E c \in Chars : TypeChar(c)) \/ TypeErase \/ TypeKill
  <2>1. fifo = 0 /\ fifo' = 1 /\ UNCHANGED <<tx_busy, irq, intr>>
    BY <1>6, Zenon DEF TypeChar, TypeErase, TypeKill, Echo, TxIdle
  <2>2. pc' = pc \/ pc' = Woken("read-asleep", "read")
    BY <1>6, Zenon DEF TypeChar, TypeErase, TypeKill, proc, ReadersWoken
  <2>3. \A q \in Procs : pc'[q] = "write-asleep" => pc[q] = "write-asleep"
    BY <2>2 DEF Woken
  <2>4. QED
    BY <2>1, <2>3 DEF OutInv
<1>7. QED
  BY <1>1, <1>2, <1>3, <1>4, <1>5, <1>6, OutProc, Zenon DEF Next

\* A writer that sleeps in uartwrite() has an interrupt to come, whatever the echo
\* does with the transmitter, and the transmitter is never given more than it
\* holds: uartwrite(), uartputc_sync() and uartintr() (kernel/uart.c).
THEOREM OutputConsistentAlways == Spec => []OutputConsistent
<1>1. InputConsistent => TypeOK
  BY DEF InputConsistent
<1>2. OutInv => OutputConsistent
  BY Sizes DEF OutInv, OutputConsistent, WriterWillWake, NoOverrun
<1>3. QED
  BY <1>1, <1>2, InputConsistentAlways, InitOut, NextOut, PTL DEF Spec

-----------------------------------------------------------------------------
(* Positions in the ring                                                   *)

LEMMA Division ==
  ASSUME NEW s \in Nat \ {0}, NEW x \in Int
  PROVE  x = s * (x \div s) + (x % s) /\ x % s \in 0..s - 1 /\ x \div s \in Int
OBVIOUS

LEMMA Remainder ==
  ASSUME NEW s \in Nat \ {0}, NEW x \in Int, NEW q \in Int, NEW b \in 0..s - 1, x = s * q + b
  PROVE  x % s = b
OBVIOUS

LEMMA Distribute ==
  ASSUME NEW s \in Int, NEW j \in Int, NEW k \in Int
  PROVE  s * j + s * k = s * (j + k) /\ s * 1 = s /\ s * j \in Int
OBVIOUS

\* A multiple of the size makes no difference.
LEMMA ModMultiple ==
  ASSUME NEW s \in Nat \ {0}, NEW m \in Nat, m % s = 0, NEW y \in Int
  PROVE  (m + y) % s = y % s
<1> DEFINE u == m \div s
           v == y \div s
           b == y % s
<1>1. u \in Int /\ v \in Int /\ b \in 0..s - 1 /\ m = s * u + 0 /\ y = s * v + b
  BY Division
<1> HIDE DEF u, v, b
<1>2. s * u + s * v = s * (u + v) /\ s * u \in Int /\ s * v \in Int /\ s * (u + v) \in Int
  BY <1>1, Distribute
<1>3. m + y = s * (u + v) + b /\ m + y \in Int /\ u + v \in Int
  BY <1>1, <1>2
<1>4. (m + y) % s = b
  BY <1>1, <1>3, Remainder
<1>5. QED
  BY <1>4 DEF b

\* Positions less than the size apart differ.
LEMMA ModDistinct ==
  ASSUME NEW s \in Nat \ {0}, NEW y \in Int, NEW d \in 1..s - 1
  PROVE  (y + d) % s # y % s
<1> DEFINE v == y \div s
           b == y % s
<1>1. v \in Int /\ b \in 0..s - 1 /\ y = s * v + b
  BY Division
<1>2. s * v + s * 1 = s * (v + 1) /\ s * 1 = s /\ s * v \in Int
  BY <1>1, Distribute
<1> HIDE DEF v, b
<1>3. CASE b + d < s
  <2>1. b + d \in 0..s - 1 /\ y + d = s * v + (b + d) /\ y + d \in Int
    BY <1>1, <1>2, <1>3
  <2>2. (y + d) % s = b + d
    BY <1>1, <2>1, Remainder
  <2>3. QED
    BY <1>1, <2>2 DEF b
<1>4. CASE b + d >= s
  <2>1. b + d - s \in 0..s - 1 /\ y + d = s * (v + 1) + (b + d - s) /\ y + d \in Int /\ v + 1 \in Int
    BY <1>1, <1>2, <1>4
  <2>2. (y + d) % s = b + d - s
    BY <2>1, Remainder, Zenon
  <2>3. b + d - s # b
    BY <1>1
  <2>4. QED
    BY <2>2, <2>3 DEF b
<1>5. QED
  BY <1>1, <1>3, <1>4

\* An index and its distance to another say where the other is.
LEMMA RingAhead ==
  ASSUME NEW a \in 0..UINT_MOD - 1, NEW b \in 0..UINT_MOD - 1, NEW j \in Int
  PROVE  (b + Minus(a, b) + j) % INPUT_BUF_SIZE = (a + j) % INPUT_BUF_SIZE
<1>1. Minus(a, b) = a - b \/ Minus(a, b) = a - b + UINT_MOD
  BY MinusIs
<1>2. CASE Minus(a, b) = a - b
  <2>1. b + Minus(a, b) + j = a + j
    BY <1>2
  <2>2. QED
    BY <2>1
<1>3. CASE Minus(a, b) = a - b + UINT_MOD
  <2>1. b + Minus(a, b) + j = UINT_MOD + (a + j) /\ a + j \in Int
    BY <1>3, Sizes
  <2>2. (UINT_MOD + (a + j)) % INPUT_BUF_SIZE = (a + j) % INPUT_BUF_SIZE
    BY <2>1, ModMultiple, ConsoleAssumption, Zenon
  <2>3. QED
    BY <2>1, <2>2
<1>4. QED
  BY <1>1, <1>2, <1>3

LEMMA RingPlus ==
  ASSUME NEW a \in 0..UINT_MOD - 1, NEW j \in Int
  PROVE  (Plus1(a) + j) % INPUT_BUF_SIZE = (a + 1 + j) % INPUT_BUF_SIZE
<1>1. Plus1(a) = a + 1 \/ (Plus1(a) = 0 /\ a = UINT_MOD - 1)
  BY Plus1Is
<1>2. CASE Plus1(a) = a + 1
  BY <1>2
<1>3. CASE Plus1(a) = 0 /\ a = UINT_MOD - 1
  <2>1. Plus1(a) + j = j /\ a + 1 + j = UINT_MOD + j
    BY <1>3, Sizes
  <2>2. (UINT_MOD + j) % INPUT_BUF_SIZE = j % INPUT_BUF_SIZE
    BY ModMultiple, ConsoleAssumption, Zenon
  <2>3. QED
    BY <2>1, <2>2
<1>4. QED
  BY <1>1, <1>2, <1>3

LEMMA RingBack ==
  ASSUME NEW a \in 0..UINT_MOD - 1, NEW j \in 0..UINT_MOD - 1
  PROVE  Minus(a, j) % INPUT_BUF_SIZE = (a - j) % INPUT_BUF_SIZE
<1>1. Minus(a, j) = a - j \/ Minus(a, j) = UINT_MOD + (a - j)
  BY MinusIs, Sizes
<1>2. (UINT_MOD + (a - j)) % INPUT_BUF_SIZE = (a - j) % INPUT_BUF_SIZE
  <2>1. a - j \in Int /\ UINT_MOD \in Nat
    BY Sizes
  <2>2. QED
    BY <2>1, ModMultiple, ConsoleAssumption, Zenon
<1>3. QED
  BY <1>1, <1>2, Zenon

LEMMA RingPosition ==
  ASSUME NEW x \in Int
  PROVE  x % INPUT_BUF_SIZE \in 0..INPUT_BUF_SIZE - 1
BY Division, Sizes

-----------------------------------------------------------------------------
(* The ring keeps the lines                                                *)

\* What the mapping says of the ring.
Mapped ==
  /\ Minus(w, r) \in Nat /\ Minus(e, w) \in Nat
  /\ Minus(e, r) = Minus(w, r) + Minus(e, w) /\ Minus(e, r) <= INPUT_BUF_SIZE
  /\ Ready \in Seq(Chars) /\ Len(Ready) = Minus(w, r)
  /\ \A i \in 1..Minus(w, r) : Ready[i] = At(r + i - 1)
  /\ Line \in Seq(Chars) /\ Len(Line) = Minus(e, w)
  /\ \A i \in 1..Minus(e, w) : Line[i] = At(w + i - 1)

LEMMA Section ==
  ASSUME TypeOK, NEW a \in 0..UINT_MOD - 1, NEW k \in Nat, NEW s, s = [i \in 1..k |-> At(a + i - 1)]
  PROVE  s \in Seq(Chars) /\ Len(s) = k /\ \A i \in 1..k : s[i] = At(a + i - 1)
<1>1. ASSUME NEW i \in 1..k PROVE At(a + i - 1) \in Chars
  <2>1. a + i - 1 \in Int
    BY Sizes
  <2>2. (a + i - 1) % INPUT_BUF_SIZE \in 0..INPUT_BUF_SIZE - 1
    BY <2>1, RingPosition, Zenon
  <2>3. QED
    BY <2>2, Zenon DEF TypeOK, At
<1>2. s \in [1..k -> Chars]
  BY <1>1, Zenon
<1>3. s \in Seq(Chars)
  BY <1>2, SeqDef, Zenon
<1>4. QED
  BY <1>2, <1>3, LenProperties

LEMMA MappedHolds == InputConsistent => Mapped
<1> SUFFICES ASSUME InputConsistent PROVE Mapped
  OBVIOUS
<1>1. TypeOK /\ IndexOrder /\ r \in 0..UINT_MOD - 1 /\ w \in 0..UINT_MOD - 1 /\ e \in 0..UINT_MOD - 1
  BY DEF InputConsistent, TypeOK
<1>2. Minus(w, r) \in Nat /\ Minus(e, w) \in Nat /\ Minus(e, r) \in Nat
  BY <1>1, Ahead
<1>3. Minus(e, r) = Minus(w, r) + Minus(e, w) /\ Minus(e, r) <= INPUT_BUF_SIZE
  BY <1>1, <1>2, LineLength DEF IndexOrder
<1>4. Ready \in Seq(Chars) /\ Len(Ready) = Minus(w, r) /\ \A i \in 1..Minus(w, r) : Ready[i] = At(r + i - 1)
  BY <1>1, <1>2, Section, Zenon DEF Ready
<1>5. Line \in Seq(Chars) /\ Len(Line) = Minus(e, w) /\ \A i \in 1..Minus(e, w) : Line[i] = At(w + i - 1)
  BY <1>1, <1>2, Section, Zenon DEF Line
<1>6. QED
  BY <1>2, <1>3, <1>4, <1>5, Zenon DEF Mapped

\* The line that is being edited has no end yet.
LineInv == \A i \in 1..Len(Line) : Line[i] # "nl"

\* Storing a character at e leaves the characters between r and e alone.
LEMMA CellsKept ==
  ASSUME TypeOK, Minus(e, r) < INPUT_BUF_SIZE, NEW c, buf' = [buf EXCEPT ![e % INPUT_BUF_SIZE] = c]
  PROVE  /\ \A i \in 1..Minus(e, r) : buf'[(r + i - 1) % INPUT_BUF_SIZE] = At(r + i - 1)
         /\ buf'[(r + Minus(e, r)) % INPUT_BUF_SIZE] = c
<1>1. r \in 0..UINT_MOD - 1 /\ e \in 0..UINT_MOD - 1 /\ Minus(e, r) \in Nat /\ INPUT_BUF_SIZE \in Nat \ {0}
  BY ONLY TypeOK, Ahead, Sizes DEF TypeOK
<1>2. (r + Minus(e, r) + 0) % INPUT_BUF_SIZE = (e + 0) % INPUT_BUF_SIZE
  BY <1>1, RingAhead
<1>3. r + Minus(e, r) + 0 = r + Minus(e, r) /\ e + 0 = e
  BY <1>1
<1>4. (r + Minus(e, r)) % INPUT_BUF_SIZE = e % INPUT_BUF_SIZE
  BY <1>2, <1>3
<1>5. e % INPUT_BUF_SIZE \in 0..INPUT_BUF_SIZE - 1
  BY <1>1, RingPosition
<1>6. ASSUME NEW i \in 1..Minus(e, r)
      PROVE  buf'[(r + i - 1) % INPUT_BUF_SIZE] = At(r + i - 1)
  <2> DEFINE y == r + i - 1
             d == Minus(e, r) - i + 1
  <2>1. y \in Int /\ d \in 1..INPUT_BUF_SIZE - 1 /\ y + d = r + Minus(e, r)
    BY <1>1
  <2>2. (y + d) % INPUT_BUF_SIZE # y % INPUT_BUF_SIZE
    BY <1>1, <2>1, ModDistinct, Zenon
  <2>3. y % INPUT_BUF_SIZE # e % INPUT_BUF_SIZE
    BY <1>4, <2>1, <2>2
  <2>4. y % INPUT_BUF_SIZE \in 0..INPUT_BUF_SIZE - 1
    BY <2>1, RingPosition
  <2> HIDE DEF y
  <2>5. buf'[y % INPUT_BUF_SIZE] = buf[y % INPUT_BUF_SIZE]
    BY <2>3, <2>4 DEF TypeOK
  <2>6. QED
    BY <2>5 DEF y, At
<1>7. buf'[e % INPUT_BUF_SIZE] = c
  BY <1>5 DEF TypeOK
<1>8. QED
  BY <1>4, <1>6, <1>7

\* A reader takes a character.
LEMMA LinesRead ==
  ASSUME InputConsistent, InputConsistent', r # w, r' = Plus1(r), UNCHANGED <<buf, w, e>>
  PROVE  Lines!Read /\ Line' = Line
<1>1. Mapped /\ Mapped'
  BY MappedHolds, PTL
<1>2. Line' = Line
  BY DEF Line, At, Minus
<1>3. r \in 0..UINT_MOD - 1 /\ w \in 0..UINT_MOD - 1
  BY DEF InputConsistent, TypeOK
<1>4. Minus(w, r) # 0 /\ Minus(w, Plus1(r)) = Minus(w, r) - 1 /\ Minus(w, r)' = Minus(w, Plus1(r))
  BY <1>3, Ahead, AheadPlus DEF Minus
<1>5. Ready # <<>>
  BY <1>1, <1>4, EmptySeq DEF Mapped
<1>6. Tail(Ready) \in Seq(Chars) /\ Len(Tail(Ready)) = Len(Ready) - 1 /\ \A i \in 1..Len(Tail(Ready)) : Tail(Ready)[i] = Ready[i + 1]
  BY <1>1, <1>5, HeadTailProperties, Zenon DEF Mapped
<1>7. Len(Ready') = Len(Tail(Ready)) /\ Ready' \in Seq(Chars) /\ Len(Ready) = Minus(w, r) /\ Len(Ready) \in Nat
  BY <1>1, <1>4, <1>6 DEF Mapped
<1>8. ASSUME NEW i \in 1..Len(Tail(Ready)) PROVE Ready'[i] = Tail(Ready)[i]
  <2>1. i \in 1..Len(Ready') /\ i + 1 \in 1..Minus(w, r) /\ i \in Int
    BY <1>6, <1>7
  <2>2. Ready'[i] = buf[(Plus1(r) + i - 1) % INPUT_BUF_SIZE]
    BY <1>1, <2>1 DEF Mapped, At
  <2>3. Ready[i + 1] = buf[(r + (i + 1) - 1) % INPUT_BUF_SIZE]
    BY ONLY <1>1, <2>1 DEF Mapped, At
  <2>4. (Plus1(r) + (i - 1)) % INPUT_BUF_SIZE = (r + 1 + (i - 1)) % INPUT_BUF_SIZE
    BY <1>3, <2>1, RingPlus
  <2>5. Plus1(r) + (i - 1) = Plus1(r) + i - 1 /\ r + 1 + (i - 1) = r + (i + 1) - 1
    BY <1>3, <2>1, AheadPlus
  <2>6. QED
    BY <1>6, <2>2, <2>3, <2>4, <2>5
<1>9. Ready' = Tail(Ready)
  BY <1>6, <1>7, <1>8, SeqEqual
<1>10. QED
  BY <1>2, <1>5, <1>9 DEF Lines!Read

\* Concatenation of the console's sequences.
LEMMA Concat ==
  ASSUME NEW s \in Seq(Chars), NEW t \in Seq(Chars)
  PROVE  /\ s \o t \in Seq(Chars) /\ Len(s \o t) = Len(s) + Len(t)
         /\ \A i \in 1..Len(s) + Len(t) :
              (s \o t)[i] = IF i <= Len(s) THEN s[i] ELSE t[i - Len(s)]
BY ConcatProperties

\* A step that leaves the ring alone.
LEMMA LinesSame ==
  ASSUME UNCHANGED input
  PROVE  Ready' = Ready /\ Line' = Line
BY DEF input, Ready, Line, At, Minus

\* The interrupt stores a character.
LEMMA LinesType ==
  ASSUME InputConsistent, InputConsistent', NEW c \in Chars, TypeChar(c)
  PROVE  Lines!Type(c) /\ (LineInv => LineInv')
<1> DEFINE S == INPUT_BUF_SIZE
           typed == Append(Line, c)
<1>0. /\ Minus(e, r) < S /\ buf' = [buf EXCEPT ![e % S] = c] /\ e' = Plus1(e) /\ r' = r
      /\ w' = IF Completes(c, Plus1(e)) THEN Plus1(e) ELSE w
  BY DEF TypeChar, Room
<1>1. Mapped /\ Mapped'
  BY MappedHolds, PTL
<1>2. /\ r \in 0..UINT_MOD - 1 /\ w \in 0..UINT_MOD - 1 /\ e \in 0..UINT_MOD - 1 /\ TypeOK
      /\ S \in Nat \ {0} /\ S < UINT_MOD /\ UINT_MOD \in Nat
  BY Sizes DEF InputConsistent, TypeOK
<1>3. /\ Minus(w, r) \in Nat /\ Minus(e, w) \in Nat /\ Minus(e, r) = Minus(w, r) + Minus(e, w)
      /\ Ready \in Seq(Chars) /\ Len(Ready) = Minus(w, r) /\ Line \in Seq(Chars) /\ Len(Line) = Minus(e, w)
      /\ Ready' \in Seq(Chars) /\ Line' \in Seq(Chars)
  BY <1>1, Zenon DEF Mapped
<1>4. Minus(Plus1(e), r) = Minus(e, r) + 1 /\ Plus1(e) \in 0..UINT_MOD - 1
  <2>1. Plus1(e) \in 0..UINT_MOD - 1 /\ (Minus(e, r) < UINT_MOD - 1 => Minus(Plus1(e), r) = Minus(e, r) + 1)
    BY <1>2, AheadPlus, Zenon
  <2>2. Minus(e, r) < UINT_MOD - 1
    BY ONLY <1>0, <1>2, <1>3
  <2>3. QED
    BY <2>1, <2>2, Zenon
<1>5. /\ typed \in Seq(Chars) /\ Len(typed) = Len(Line) + 1 /\ typed[Len(Line) + 1] = c
      /\ \A i \in 1..Len(Line) : typed[i] = Line[i]
  BY ONLY <1>3, AppendProperties, c \in Chars DEF typed
<1> HIDE DEF typed
<1>6. \A i \in 1..Minus(e, r) : buf'[(r + i - 1) % S] = At(r + i - 1)
  BY <1>0, <1>2, CellsKept, Zenon
<1>7. buf'[(r + Minus(e, r)) % S] = c
  BY <1>0, <1>2, CellsKept, Zenon
<1>8. \A i \in 1..Minus(w, r) : buf'[(r + i - 1) % S] = Ready[i]
  <2>1. ASSUME NEW i \in 1..Minus(w, r) PROVE buf'[(r + i - 1) % S] = Ready[i]
    <3>1. i \in 1..Minus(e, r)
      BY <1>3
    <3>2. QED
      BY <1>1, <1>6, <3>1, Zenon DEF Mapped
  <2>2. QED
    BY <2>1
\* The characters of the line follow those that are ready.
<1>9. ASSUME NEW k \in 1..Minus(e, w) + 1
      PROVE  (r + (Minus(w, r) + k) - 1) % S = (w + k - 1) % S
  <2>1. (r + Minus(w, r) + (k - 1)) % S = (w + (k - 1)) % S
    <3>1. k - 1 \in Int
      BY <1>3
    <3>2. QED
      BY <1>2, <3>1, RingAhead, Zenon
  <2>2. r + Minus(w, r) + (k - 1) = r + (Minus(w, r) + k) - 1 /\ w + (k - 1) = w + k - 1
    BY <1>2, <1>3
  <2>3. QED
    BY <2>1, <2>2, Zenon
<1>10. \A k \in 1..Minus(e, w) + 1 : buf'[(w + k - 1) % S] = typed[k]
  <2>1. ASSUME NEW k \in 1..Minus(e, w) + 1 PROVE buf'[(w + k - 1) % S] = typed[k]
    <3>1. CASE k = Minus(e, w) + 1
      <4>1. r + (Minus(w, r) + k) - 1 = r + Minus(e, r)
        BY ONLY <1>2, <1>3, <3>1
      <4>2. buf'[(w + k - 1) % S] = c
        BY <1>7, <1>9, <4>1, Zenon
      <4>3. QED
        BY <1>3, <1>5, <3>1, <4>2, Zenon
    <3>2. CASE k # Minus(e, w) + 1
      <4>1. k \in 1..Minus(e, w) /\ Minus(w, r) + k \in 1..Minus(e, r)
        BY <1>3, <3>2
      <4>2. buf'[(r + (Minus(w, r) + k) - 1) % S] = buf[(r + (Minus(w, r) + k) - 1) % S]
        BY <1>6, <4>1, Zenon DEF At
      <4>3. buf'[(w + k - 1) % S] = buf[(w + k - 1) % S]
        BY <1>9, <4>2, Zenon
      <4>4. Line[k] = buf[(w + k - 1) % S] /\ typed[k] = Line[k]
        BY <1>1, <1>3, <1>5, <4>1, Zenon DEF Mapped, At
      <4>5. QED
        BY <4>3, <4>4
    <3>3. QED
      BY <3>1, <3>2
  <2>2. QED
    BY <2>1
<1>11. Completes(c, Plus1(e)) <=> c \in {"nl", "eof"} \/ Len(Ready) + Len(typed) = S
  <2>1. Len(Ready) + Len(typed) = Minus(Plus1(e), r)
    BY <1>3, <1>4, <1>5
  <2>2. QED
    BY <2>1, Zenon DEF Completes
<1>12. Len(Ready) + Len(Line) < S
  BY <1>0, <1>3
<1>13. CASE Completes(c, Plus1(e))
  <2>1. w' = Plus1(e) /\ e' = Plus1(e)
    BY <1>0, <1>13
  <2>2. Minus(e, w)' = Minus(Plus1(e), Plus1(e)) /\ Minus(w, r)' = Minus(Plus1(e), r)
    BY <1>0, <2>1 DEF Minus
  <2>3. Minus(Plus1(e), Plus1(e)) = 0
    BY <1>4, Ahead
  <2>4. Len(Line') = 0 /\ Len(Ready') = Minus(e, r) + 1
    BY <1>1, <1>4, <2>2, <2>3, Zenon DEF Mapped
  <2>5. Line' = <<>>
    BY <1>3, <2>4, EmptySeq
  <2>6. /\ Ready \o typed \in Seq(Chars) /\ Len(Ready \o typed) = Len(Ready) + Len(typed)
        /\ \A i \in 1..Len(Ready) + Len(typed) :
             (Ready \o typed)[i] = IF i <= Len(Ready) THEN Ready[i] ELSE typed[i - Len(Ready)]
    BY <1>3, <1>5, Concat, Zenon
  <2>7. Len(Ready') = Len(Ready \o typed)
    BY <1>3, <1>5, <2>4, <2>6
  <2>8. ASSUME NEW i \in 1..Len(Ready') PROVE Ready'[i] = (Ready \o typed)[i]
    <3>1. Ready'[i] = buf'[(r + i - 1) % S]
      BY <1>0, <1>1, Zenon DEF Mapped, At
    <3>2. CASE i <= Len(Ready)
      <4>1. i \in 1..Minus(w, r) /\ i \in 1..Len(Ready) + Len(typed)
        BY <1>3, <2>6, <2>7, <3>2
      <4>2. QED
        BY <1>8, <2>6, <3>1, <3>2, <4>1, Zenon
    <3>3. CASE ~(i <= Len(Ready))
      <4>1. PICK k \in 1..Minus(e, w) + 1 : i = Minus(w, r) + k
        <5>1. i - Minus(w, r) \in 1..Minus(e, w) + 1 /\ i = Minus(w, r) + (i - Minus(w, r))
          BY <1>3, <2>4, <3>3
        <5>2. QED
          BY <5>1, Zenon
      <4>2. i \in 1..Len(Ready) + Len(typed) /\ i - Len(Ready) = k
        BY ONLY <1>3, <2>6, <2>7, <4>1
      <4>3. (Ready \o typed)[i] = typed[k]
        BY <2>6, <3>3, <4>2, Zenon
      <4>4. buf'[(r + i - 1) % S] = typed[k]
        BY <1>9, <1>10, <4>1, Zenon
      <4>5. QED
        BY <3>1, <4>3, <4>4
    <3>4. QED
      BY Zenon, <3>2, <3>3
  <2>9. Ready' = Ready \o typed
    BY <1>3, <2>6, <2>7, <2>8, SeqEqual, Zenon
  <2>10. LineInv'
    BY <2>4 DEF LineInv
  <2>11. QED
    BY <1>11, <1>12, <1>13, <2>5, <2>9, <2>10, Zenon DEF Lines!Type, typed
<1>14. CASE ~Completes(c, Plus1(e))
  <2>1. w' = w /\ e' = Plus1(e)
    BY <1>0, <1>14
  <2>2. Minus(e, w)' = Minus(Plus1(e), w) /\ Minus(w, r)' = Minus(w, r)
    BY <1>0, <2>1 DEF Minus
  <2>3. Minus(Plus1(e), w) = Minus(e, w) + 1
    <3>1. Minus(e, w) < UINT_MOD - 1 => Minus(Plus1(e), w) = Minus(e, w) + 1
      BY <1>2, AheadPlus, Zenon
    <3>2. Minus(e, w) < UINT_MOD - 1
      BY ONLY <1>0, <1>2, <1>3
    <3>3. QED
      BY <3>1, <3>2, Zenon
  <2>4. Len(Line') = Len(typed) /\ Len(Ready') = Len(Ready)
    BY <1>1, <1>3, <1>5, <2>2, <2>3, Zenon DEF Mapped
  <2>5. ASSUME NEW i \in 1..Len(Ready') PROVE Ready'[i] = Ready[i]
    <3>1. i \in 1..Minus(w, r) /\ Minus(w, r)' = Minus(w, r)
      BY <1>3, <2>2, <2>4, Zenon
    <3>2. Ready'[i] = buf'[(r + i - 1) % S]
      BY <1>0, <1>1, <3>1, Zenon DEF Mapped, At
    <3>3. QED
      BY <1>8, <3>1, <3>2, Zenon
  <2>6. ASSUME NEW i \in 1..Len(Line') PROVE Line'[i] = typed[i]
    BY <1>1, <1>3, <1>5, <1>10, <2>1, <2>2, <2>3, <2>4, Zenon DEF Mapped, At
  <2>7. Ready' = Ready /\ Line' = typed
    BY <1>3, <1>5, <2>4, <2>5, <2>6, SeqEqual, Zenon
  <2>8. c # "nl"
    BY <1>14 DEF Completes
  <2>9. ASSUME LineInv PROVE LineInv'
    <3>1. ASSUME NEW i \in 1..Len(Line') PROVE Line'[i] # "nl"
      <4>1. i \in 1..Len(Line) \/ i = Len(Line) + 1
        BY <1>3, <1>5, <2>4
      <4>2. QED
        BY <1>5, <2>7, <2>8, <2>9, <4>1, Zenon DEF LineInv
    <3>2. QED
      BY <3>1, Zenon DEF LineInv
  <2>10. QED
    BY <1>11, <1>12, <1>14, <2>7, <2>9, Zenon DEF Lines!Type, typed
<1>15. QED
  BY <1>13, <1>14

\* Backspace takes the last character of the line.
LEMMA LinesErase ==
  ASSUME InputConsistent, InputConsistent', TypeErase
  PROVE  Lines!Erase /\ (LineInv => LineInv')
<1>0. e # w /\ e' = Minus(e, 1) /\ UNCHANGED <<buf, r, w>>
  BY DEF TypeErase, Erases
<1>1. Mapped /\ Mapped'
  BY MappedHolds, PTL
<1>2. w \in 0..UINT_MOD - 1 /\ e \in 0..UINT_MOD - 1 /\ UINT_MOD \in Nat /\ UINT_MOD > 1
  BY Sizes DEF InputConsistent, TypeOK
<1>3. /\ Minus(e, w) \in Nat /\ Line \in Seq(Chars) /\ Len(Line) = Minus(e, w)
      /\ Line' \in Seq(Chars) /\ Len(Line') = Minus(e, w)'
  BY <1>1, Zenon DEF Mapped
<1>4. Minus(e, w) # 0
  BY <1>0, <1>2, Ahead
<1>5. Minus(Minus(e, 1), w) = Minus(e, w) - 1
  BY <1>2, <1>3, <1>4, AheadBack
<1>6. Minus(e, w)' = Minus(Minus(e, 1), w) /\ Ready' = Ready
  BY <1>0 DEF Minus, Ready, At
<1>7. Line # <<>>
  BY <1>3, <1>4, EmptySeq
<1> DEFINE kept == SubSeq(Line, 1, Len(Line) - 1)
<1>8. \A i \in 1..Len(Line) - 1 : Line[i] \in Chars
  BY <1>3
<1>9. /\ kept \in Seq(Chars) /\ Len(kept) = Len(Line) - 1
      /\ \A i \in 1..Len(Line) - 1 : kept[i] = Line[i]
  BY <1>3, <1>4, <1>8
<1> HIDE DEF kept
<1>10. Len(Line') = Len(kept)
  BY <1>3, <1>5, <1>6, <1>9
<1>11. ASSUME NEW i \in 1..Len(Line') PROVE Line'[i] = kept[i] /\ Line'[i] = Line[i] /\ i \in 1..Len(Line)
  <2>1. i \in 1..Minus(e, w) /\ i \in 1..Len(Line) - 1 /\ i \in 1..Minus(e, w)'
    BY <1>3, <1>5, <1>6
  <2>2. Line'[i] = At(w + i - 1) /\ Line[i] = At(w + i - 1)
    BY <1>0, <1>1, <2>1, Zenon DEF Mapped, At
  <2>3. QED
    BY <1>3, <1>9, <2>1, <2>2
<1>12. Line' = kept
  BY <1>3, <1>9, <1>10, <1>11, SeqEqual, Zenon
<1>13. LineInv => LineInv'
  BY <1>11, Zenon DEF LineInv
<1>14. QED
  BY <1>6, <1>7, <1>12, <1>13, Zenon DEF Lines!Erase, kept

\* ^U stops at a newline, of which the line has none: it takes the whole line.
LEMMA LinesKill ==
  ASSUME InputConsistent, InputConsistent', LineInv, TypeKill
  PROVE  Lines!EraseLine /\ LineInv'
<1>0. PICK i \in 1..Minus(e, w) : (i = Minus(e, w) \/ At(Minus(e, i + 1)) = "nl") /\ e' = Minus(e, i)
  BY DEF TypeKill
<1>1. UNCHANGED <<buf, r, w>>
  BY DEF TypeKill
<1>2. Mapped /\ Mapped'
  BY MappedHolds, PTL
<1>3. w \in 0..UINT_MOD - 1 /\ e \in 0..UINT_MOD - 1 /\ UINT_MOD \in Nat
  BY Sizes DEF InputConsistent, TypeOK
<1>4. Minus(e, w) \in 0..UINT_MOD - 1 /\ Len(Line) = Minus(e, w) /\ Line' \in Seq(Chars) /\ Len(Line') = Minus(e, w)'
  BY <1>2, <1>3, Ahead, Zenon DEF Mapped
<1>5. i = Minus(e, w)
  <2>1. SUFFICES ASSUME i # Minus(e, w) PROVE FALSE
    OBVIOUS
  <2>2. At(Minus(e, i + 1)) = "nl"
    BY <1>0, <2>1
  <2>3. PICK k \in 1..Minus(e, w) : k = Minus(e, w) - i
    BY <1>3, <1>4, <2>1
  <2>4. Line[k] = At(w + k - 1) /\ Line[k] # "nl"
    BY <1>2, <1>4, <2>3, Zenon DEF Mapped, LineInv
  <2>5. (w + Minus(e, w) + (0 - (i + 1))) % INPUT_BUF_SIZE = (e + (0 - (i + 1))) % INPUT_BUF_SIZE
    BY <1>3, RingAhead
  <2>6. w + Minus(e, w) + (0 - (i + 1)) = w + k - 1 /\ e + (0 - (i + 1)) = e - (i + 1)
    BY ONLY <1>3, <1>4, <2>3
  <2>7. i + 1 \in 0..UINT_MOD - 1
    BY <1>3, <1>4, <2>1
  <2>8. Minus(e, i + 1) % INPUT_BUF_SIZE = (e - (i + 1)) % INPUT_BUF_SIZE
    BY <1>3, <2>7, RingBack
  <2>9. At(Minus(e, i + 1)) = At(w + k - 1)
    BY <2>5, <2>6, <2>8, Zenon DEF At
  <2>10. QED
    BY <2>2, <2>4, <2>9
<1>6. Minus(Minus(e, i), w) = 0
  BY <1>3, <1>4, <1>5, AheadBack
<1>7. Minus(e, w)' = Minus(Minus(e, i), w) /\ Ready' = Ready
  BY <1>0, <1>1 DEF Minus, Ready, At
<1>8. Len(Line') = 0 /\ Line' = <<>>
  BY <1>4, <1>6, <1>7, EmptySeq
<1>9. QED
  BY <1>7, <1>8 DEF Lines!EraseLine, LineInv

LEMMA LinesInit == Init => Lines!LineInit /\ LineInv
<1> SUFFICES ASSUME Init PROVE Lines!LineInit /\ LineInv
  OBVIOUS
<1>1. Mapped
  BY InitInput, MappedHolds
<1>2. r = 0 /\ w = 0 /\ e = 0 /\ 0 \in 0..UINT_MOD - 1
  BY Sizes DEF Init
<1>3. Minus(w, r) = 0 /\ Minus(e, w) = 0
  BY <1>2, Ahead
<1>4. Ready \in Seq(Chars) /\ Line \in Seq(Chars) /\ Len(Ready) = 0 /\ Len(Line) = 0
  BY <1>1, <1>3, Zenon DEF Mapped
<1>5. Ready = <<>> /\ Line = <<>>
  BY <1>4, EmptySeq
<1>6. QED
  BY <1>4, <1>5 DEF Lines!LineInit, LineInv

LEMMA LinesNext ==
  ASSUME InputConsistent, InputConsistent', LineInv, [Next]_vars
  PROVE  [Lines!LineNext]_(Lines!lineVars) /\ LineInv'
<1>1. CASE UNCHANGED input
  BY <1>1, LinesSame, Zenon DEF Lines!lineVars, LineInv
<1>2. CASE r # w /\ r' = Plus1(r) /\ UNCHANGED <<buf, w, e>>
  BY <1>2, LinesRead, Zenon DEF Lines!LineNext, LineInv
<1>3. CASE \E c \in Chars : TypeChar(c)
  BY <1>3, LinesType, Zenon DEF Lines!LineNext
<1>4. CASE TypeErase
  BY <1>4, LinesErase, Zenon DEF Lines!LineNext
<1>5. CASE TypeKill
  BY <1>5, LinesKill, Zenon DEF Lines!LineNext
<1>6. ASSUME NEW p \in Procs, ReadEof(p) PROVE UNCHANGED input \/ (r # w /\ r' = Plus1(r) /\ UNCHANGED <<buf, w, e>>)
  BY <1>6 DEF ReadEof, AfterEof, input
<1>7. ASSUME NEW p \in Procs, ReadChar(p) \/ ReadFails(p) PROVE r # w /\ r' = Plus1(r) /\ UNCHANGED <<buf, w, e>>
  BY <1>7, Zenon DEF ReadChar, ReadFails
<1>8. ASSUME NEW p \in Procs,
             \/ Enter(p, "read") \/ Enter(p, "write") \/ Kkill(p) \/ ReadAcquire(p) \/ ReadWaits(p) \/ ReadDone(p)
             \/ WriteFails(p) \/ WriteByte(p) \/ WriteWaits(p) \/ WriteDone(p)
      PROVE  UNCHANGED input
  BY <1>8, Zenon DEF Enter, Kkill, ReadAcquire, ReadWaits, ReadDone, WriteFails, WriteByte, WriteWaits, WriteDone
<1>9. ASSUME Sent \/ IntrAck \/ IntrTx \/ IntrDone \/ UNCHANGED vars PROVE UNCHANGED input
  BY <1>9, Zenon DEF Sent, IntrAck, IntrTx, IntrDone, vars
<1>10. QED
  BY <1>1, <1>2, <1>3, <1>4, <1>5, <1>6, <1>7, <1>8, <1>9, Zenon DEF Next

\* For every size of the ring that divides the range of the indices, what is typed
\* reaches the readers line by line, in order and as edited, however often the
\* indices of consoleintr and consoleread have wrapped.
THEOREM LinesImplemented == Spec => ImplementsLines
<1>1. Init => Lines!LineInit /\ LineInv
  BY LinesInit
<1>2. InputConsistent /\ InputConsistent' /\ LineInv /\ [Next]_vars => [Lines!LineNext]_(Lines!lineVars) /\ LineInv'
  BY LinesNext
<1>3. QED
  BY <1>1, <1>2, InputConsistentAlways, PTL DEF Spec, ImplementsLines, Lines!LineSpec
=============================================================================
