------------------------------ MODULE Console -------------------------------
(***************************************************************************)
(* The console and the UART (kernel/console.c, kernel/uart.c): the input   *)
(* ring with its three indices, processes that read lines and write        *)
(* bytes, the interrupt, and the transmitter that writers and the echo     *)
(* share.                                                                  *)
(*                                                                         *)
(* A step is what a process or the interrupt does between two sleeps,      *)
(* under cons.lock or tx_lock; a reader's loop takes one step a character. *)
(***************************************************************************)
EXTENDS Integers, Sequences, FiniteSets

CONSTANTS
  Procs, None,
  INPUT_BUF_SIZE,
  UINT_MOD,  \* range of the indices, 2^32 in the code
  Lengths,   \* lengths of the reads and the writes
  Readers, Writers,
  BATCH,     \* bytes that consolewrite copies in at a time, 32 in the code
  FIFO,      \* bytes that the transmitter holds, 16 in a 16550 with FCR_FIFO_ENABLE
  BadDst     \* processes that may pass an address that copyout refuses

Chars == {"x", "nl", "eof"}

ASSUME ConsoleAssumption ==
  /\ INPUT_BUF_SIZE \in Nat \ {0} /\ UINT_MOD \in Nat \ {0}
  /\ UINT_MOD % INPUT_BUF_SIZE = 0 /\ UINT_MOD > INPUT_BUF_SIZE
  /\ Lengths \subseteq Nat /\ Readers \cup Writers \subseteq Procs
  /\ BATCH \in Nat \ {0} /\ FIFO \in Nat \ {0, 1} /\ BadDst \subseteq Procs /\ None \notin Procs

VARIABLES
  buf, r, w, e,    \* cons
  lock,            \* holder of cons.lock
  pc, n, target,   \* each process: where it is, bytes to go, bytes asked for
  killed,
  tx_busy,         \* uart.c: a writer's byte is being sent
  fifo,            \* the transmitter: bytes not yet sent
  irq,             \* its interrupt is pending
  intr             \* uartintr: "none", after the acknowledgement, or reading input

input  == <<buf, r, w, e>>
proc   == <<pc, n, target, killed>>
output == <<tx_busy, fifo, irq, intr>>
vars   == <<input, lock, proc, output>>

Init ==
  /\ buf = [i \in 0..INPUT_BUF_SIZE - 1 |-> "x"]
  /\ r = 0 /\ w = 0 /\ e = 0 /\ lock = None
  /\ pc = [p \in Procs |-> "user"] /\ n = [p \in Procs |-> 0] /\ target = [p \in Procs |-> 0]
  /\ killed = [p \in Procs |-> FALSE]
  /\ tx_busy = FALSE /\ fifo = 0 /\ irq = FALSE /\ intr = "none"

\* The difference of two indices, as unsigned integers.
Minus(a, b) == (a - b) % UINT_MOD

Plus1(a) == (a + 1) % UINT_MOD

At(i) == buf[i % INPUT_BUF_SIZE]

-----------------------------------------------------------------------------
(* consoleread                                                             *)

Enter(p, call) ==
  /\ pc[p] = "user"
  /\ p \in IF call = "read" THEN Readers ELSE Writers
  /\ \E k \in Lengths : n' = [n EXCEPT ![p] = k] /\ target' = [target EXCEPT ![p] = k]
  /\ pc' = [pc EXCEPT ![p] = call]
  /\ UNCHANGED <<input, lock, killed, output>>

\* acquire(&cons.lock), at the start or after a sleep.
ReadAcquire(p) ==
  /\ pc[p] = "read" /\ lock = None
  /\ lock' = p
  /\ pc' = [pc EXCEPT ![p] = "loop"]
  /\ UNCHANGED <<input, n, target, killed, output>>

\* The end of a call; a killed process does not come back for another.
Leave(p) ==
  /\ pc' = [pc EXCEPT ![p] = IF killed[p] THEN "gone" ELSE "user"]
  /\ n' = [n EXCEPT ![p] = 0] /\ target' = [target EXCEPT ![p] = 0]

\* No input: give up when killed, sleep otherwise.
ReadWaits(p) ==
  /\ pc[p] = "loop" /\ n[p] > 0 /\ r = w
  /\ lock' = None
  /\ IF killed[p] THEN Leave(p)
     ELSE pc' = [pc EXCEPT ![p] = "read-asleep"] /\ UNCHANGED <<n, target>>
  /\ UNCHANGED <<input, killed, output>>

\* ^D ends the read, and stays for the next one if this one has bytes.
AfterEof(p) == IF n[p] < target[p] THEN r ELSE Plus1(r)

ReadEof(p) ==
  /\ pc[p] = "loop" /\ n[p] > 0 /\ r # w /\ At(r) = "eof"
  /\ r' = AfterEof(p)
  /\ lock' = None /\ Leave(p)
  /\ UNCHANGED <<buf, w, e, killed, output>>

\* One character to the caller; a newline, or the last byte, ends the read.
ReadChar(p) ==
  /\ pc[p] = "loop" /\ n[p] > 0 /\ r # w /\ At(r) # "eof"
  /\ r' = Plus1(r)
  /\ IF At(r) = "nl" \/ n[p] = 1 THEN lock' = None /\ Leave(p)
     ELSE n' = [n EXCEPT ![p] = @ - 1] /\ UNCHANGED <<lock, pc, target>>
  /\ UNCHANGED <<buf, w, e, killed, output>>

\* either_copyout fails: return -1, and the lock is kept.
ReadFails(p) ==
  /\ pc[p] = "loop" /\ n[p] > 0 /\ r # w /\ At(r) # "eof" /\ p \in BadDst
  /\ r' = Plus1(r)
  /\ Leave(p)
  /\ UNCHANGED <<buf, w, e, lock, killed, output>>

\* A read of no bytes.
ReadDone(p) ==
  /\ pc[p] = "loop" /\ n[p] = 0
  /\ lock' = None /\ Leave(p)
  /\ UNCHANGED <<input, killed, output>>

-----------------------------------------------------------------------------
(* uartwrite, from consolewrite                                            *)

\* Bytes of the call sent so far.
Sofar(p) == target[p] - n[p]

\* either_copyin of a batch fails.
WriteFails(p) ==
  /\ pc[p] = "write" /\ n[p] > 0 /\ Sofar(p) % BATCH = 0 /\ p \in BadDst
  /\ Leave(p)
  /\ UNCHANGED <<input, lock, killed, output>>

\* A byte to the transmitter, if none is on its way; under the same tx_lock the
\* loop then sleeps, unless the batch is complete.
WriteByte(p) ==
  /\ pc[p] \in {"write", "batch"} /\ n[p] > 0 /\ ~tx_busy
  /\ fifo' = fifo + 1 /\ tx_busy' = TRUE
  /\ n' = [n EXCEPT ![p] = @ - 1]
  /\ pc' = [pc EXCEPT ![p] =
       IF n[p] = 1 \/ (Sofar(p) + 1) % BATCH = 0 THEN "write" ELSE "write-asleep"]
  /\ UNCHANGED <<input, lock, target, killed, irq, intr>>

WriteWaits(p) ==
  /\ pc[p] \in {"write", "batch"} /\ n[p] > 0 /\ tx_busy
  /\ pc' = [pc EXCEPT ![p] = "write-asleep"]
  /\ UNCHANGED <<input, lock, n, target, killed, output>>

WriteDone(p) ==
  /\ pc[p] = "write" /\ n[p] = 0
  /\ Leave(p)
  /\ UNCHANGED <<input, lock, killed, output>>

\* kkill wakes a sleeper.
Kkill(p) ==
  /\ pc[p] # "gone"
  /\ killed' = [killed EXCEPT ![p] = TRUE]
  /\ pc' = [pc EXCEPT ![p] = CASE pc[p] = "read-asleep" -> "read"
                               [] pc[p] = "write-asleep" -> "batch"
                               [] pc[p] = "user" -> "gone"
                               [] OTHER -> pc[p]]
  /\ UNCHANGED <<input, lock, n, target, output>>

-----------------------------------------------------------------------------
(* uartintr and consoleintr                                                *)

Woken(s, t) == [p \in Procs |-> IF pc[p] = s THEN t ELSE pc[p]]

\* The transmitter sends a byte; when it is empty it interrupts.
Sent ==
  /\ fifo > 0
  /\ fifo' = fifo - 1
  /\ irq' = (irq \/ fifo = 1)
  /\ UNCHANGED <<input, lock, proc, tx_busy, intr>>

\* The acknowledgement; a key may have raised the interrupt as well.
IntrAck ==
  /\ intr = "none"
  /\ irq' = FALSE /\ intr' = "tx"
  /\ UNCHANGED <<input, lock, proc, tx_busy, fifo>>

TxIdle == fifo = 0

\* Under tx_lock: the transmitter is idle, wake the writers.
IntrTx ==
  /\ intr = "tx"
  /\ intr' = "rx"
  /\ IF TxIdle THEN tx_busy' = FALSE /\ pc' = Woken("write-asleep", "batch")
                 ELSE UNCHANGED <<tx_busy, pc>>
  /\ UNCHANGED <<input, lock, n, target, killed, fifo, irq>>

IntrDone ==
  /\ intr = "rx"
  /\ intr' = "none"
  /\ UNCHANGED <<input, lock, proc, tx_busy, fifo, irq>>

\* Mutant: the echo does not wait.
EchoAtOnce == fifo' = fifo + 1
\* consputc, which waits until the transmitter is idle.
Echo == TxIdle /\ fifo' = 1

Room == Minus(e, r) < INPUT_BUF_SIZE

\* Mutant: a full buffer does not complete the line.
EndsLineOnly(c, i) == c \in {"nl", "eof"}
Completes(c, i) == c \in {"nl", "eof"} \/ Minus(i, r) = INPUT_BUF_SIZE

\* Mutant: the readers are not woken.
ReadersAsleep == pc
ReadersWoken == Woken("read-asleep", "read")

TypeChar(c) ==
  /\ intr = "rx" /\ lock = None /\ Room
  /\ Echo
  /\ buf' = [buf EXCEPT ![e % INPUT_BUF_SIZE] = c]
  /\ e' = Plus1(e)
  /\ IF Completes(c, Plus1(e)) THEN w' = Plus1(e) /\ pc' = ReadersWoken ELSE UNCHANGED <<w, pc>>
  /\ UNCHANGED <<r, lock, n, target, killed, tx_busy, irq, intr>>

Erases == e # w

TypeErase ==
  /\ intr = "rx" /\ lock = None /\ Erases
  /\ Echo
  /\ e' = Minus(e, 1)
  /\ UNCHANGED <<buf, r, w, lock, proc, tx_busy, irq, intr>>

\* ^U: back to the start of the line.
TypeKill ==
  /\ intr = "rx" /\ lock = None /\ e # w
  /\ Echo
  /\ \E i \in 1..Minus(e, w) :
       /\ \A j \in 1..i : At(Minus(e, j)) # "nl"
       /\ i = Minus(e, w) \/ At(Minus(e, i + 1)) = "nl"
       /\ e' = Minus(e, i)
  /\ UNCHANGED <<buf, r, w, lock, proc, tx_busy, irq, intr>>

-----------------------------------------------------------------------------
Next ==
  \/ \E p \in Procs :
       \/ Enter(p, "read") \/ Enter(p, "write") \/ Kkill(p)
       \/ ReadAcquire(p) \/ ReadWaits(p) \/ ReadEof(p) \/ ReadChar(p) \/ ReadFails(p) \/ ReadDone(p)
       \/ WriteFails(p) \/ WriteByte(p) \/ WriteWaits(p) \/ WriteDone(p)
  \/ Sent \/ IntrAck \/ IntrTx \/ IntrDone
  \/ (\E c \in Chars : TypeChar(c)) \/ TypeErase \/ TypeKill

Spec == Init /\ [][Next]_vars

-----------------------------------------------------------------------------
(* Properties                                                              *)

TypeOK ==
  /\ buf \in [0..INPUT_BUF_SIZE - 1 -> Chars]
  /\ {r, w, e} \subseteq 0..UINT_MOD - 1 /\ lock \in Procs \cup {None}
  /\ pc \in [Procs -> {"user", "read", "loop", "read-asleep", "write", "batch", "write-asleep",
                    "gone"}]
  /\ n \in [Procs -> Nat] /\ target \in [Procs -> Lengths \cup {0}]
  /\ killed \in [Procs -> BOOLEAN] /\ tx_busy \in BOOLEAN /\ irq \in BOOLEAN
  /\ intr \in {"none", "tx", "rx"}

\* The unread, the complete and the edited characters lie in this order in the
\* ring and fit in it, also when the indices have wrapped.
IndexOrder == Minus(w, r) <= Minus(e, r) /\ Minus(e, r) <= INPUT_BUF_SIZE

\* A reader sleeps only while there is no complete line.
NoStrandedReader == \A p \in Procs : pc[p] = "read-asleep" => r = w

\* The interrupt and the readers agree on what has been typed, and no reader sleeps
\* on a line that is there.
InputConsistent == TypeOK /\ IndexOrder /\ NoStrandedReader

\* A writer sleeps only while a byte is on its way, and then the interrupt that
\* wakes it is to come, whatever the echo does with the transmitter.
WriterWillWake ==
  /\ \A p \in Procs : pc[p] = "write-asleep" => tx_busy
  /\ tx_busy => fifo > 0 \/ irq \/ intr = "tx"

\* The echo and the writers never send more than the transmitter holds.
NoOverrun == fifo <= FIFO

\* The echo and the writers share the transmitter, of which only the writers take
\* turns under tx_lock: no byte is lost and no writer is left asleep.
OutputConsistent == WriterWillWake /\ NoOverrun

\* Readers get complete lines in the order in which they were typed.
Ready == [i \in 1..Minus(w, r) |-> At(r + i - 1)]
Line == [i \in 1..Minus(e, w) |-> At(w + i - 1)]
Lines == INSTANCE LineInput WITH Ends <- {"nl", "eof"}, SIZE <- INPUT_BUF_SIZE, ready <- Ready, line <- Line
ImplementsLines == Lines!LineSpec
=============================================================================
