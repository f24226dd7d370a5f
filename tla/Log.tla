-------------------------------- MODULE Log ---------------------------------
(***************************************************************************)
(* The write-ahead log (kernel/log.c) over the buffer cache and the disk,  *)
(* with crashes at any point, during recovery too.                         *)
(*                                                                         *)
(* A block write reaches the disk whole or not at all.  A buffer is read   *)
(* and modified under its sleep-lock, so that bread, the modification,     *)
(* log_write and brelse are one step; the commit writes one block per      *)
(* step.  log.lock covers each critical section, the test in begin_op and  *)
(* the sleep that follows it included.                                     *)
(***************************************************************************)
EXTENDS Naturals, Sequences, FiniteSets

CONSTANTS
  Procs,        \* processes that make file system calls
  Blocks,       \* home blocks
  Vals,         \* contents of a block
  MAXOPBLOCKS,
  LOGBLOCKS,
  OPBLOCKS,     \* the most blocks that a system call really writes
  Absent        \* contents of a block that is not cached

ASSUME LogAssumption ==
  /\ IsFiniteSet(Procs) /\ Vals # {} /\ Absent \notin Vals
  /\ MAXOPBLOCKS \in Nat \ {0} /\ LOGBLOCKS \in Nat /\ MAXOPBLOCKS <= LOGBLOCKS
  /\ OPBLOCKS \in 0..MAXOPBLOCKS

VARIABLES
  disk,         \* home blocks on disk
  dlog, dhead,  \* the log's data blocks and its header, on disk
  cache,        \* contents of the buffers, by block
  pinned,       \* blocks with a reference taken by bpin
  lh,           \* log.lh, as the sequence of its n block numbers
  outstanding, committing,
  tail,         \* loop variable of write_log and install_trans
  pc,
  wrote,        \* blocks that p's current operation has written
  boot,         \* how far recovery has come
  panicked

durable == <<disk, dlog, dhead>>
vars == <<durable, cache, pinned, lh, outstanding, committing, tail, pc, wrote, boot, panicked>>

Labels == {"idle", "asleep", "woken", "op", "write_log", "write_head", "install", "clear", "done"}

Logged == {lh[j] : j \in 1..Len(lh)}
Up     == boot = "done" /\ ~panicked

\* The contents of b that a bread returns.
Bread(b) == IF cache[b] = Absent THEN disk[b] ELSE cache[b]

\* The machine is booted with the disk that mkfs wrote.
Init ==
  /\ disk \in [Blocks -> Vals]
  /\ \E v \in Vals : dlog = [j \in 1..LOGBLOCKS |-> v]
  /\ dhead = <<>>
  /\ cache = [b \in Blocks |-> Absent] /\ pinned = {} /\ lh = <<>>
  /\ outstanding = 0 /\ committing = FALSE /\ tail = 0
  /\ pc = [p \in Procs |-> "idle"] /\ wrote = [p \in Procs |-> {}]
  /\ boot = "read_head" /\ panicked = FALSE

Goto(p, l) == pc' = [pc EXCEPT ![p] = l]

\* pc after wakeup(&log), p itself going to l.
WakeAll(p, l) ==
  pc' = [q \in Procs |-> IF q = p THEN l ELSE IF pc[q] = "asleep" THEN "woken" ELSE pc[q]]

-----------------------------------------------------------------------------
(* begin_op, log_write, end_op                                             *)

CanBegin == ~committing /\ Len(lh) + (outstanding + 1) * MAXOPBLOCKS <= LOGBLOCKS

BeginOp(p) ==
  /\ Up /\ pc[p] \in {"idle", "woken"} /\ CanBegin
  /\ outstanding' = outstanding + 1
  /\ wrote' = [wrote EXCEPT ![p] = {}]
  /\ Goto(p, "op")
  /\ UNCHANGED <<durable, cache, pinned, lh, committing, tail, boot, panicked>>

BeginSleep(p) ==
  /\ Up /\ pc[p] \in {"idle", "woken"} /\ ~CanBegin
  /\ Goto(p, "asleep")
  /\ UNCHANGED <<durable, cache, pinned, lh, outstanding, committing, tail, wrote, boot, panicked>>

\* A kill makes the sleeper run; begin_op's loop tests again.
Kill(p) ==
  /\ Up /\ pc[p] = "asleep"
  /\ Goto(p, "woken")
  /\ UNCHANGED <<durable, cache, pinned, lh, outstanding, committing, tail, wrote, boot, panicked>>

\* Mutant: log_write does not pin the buffer.
LogWriteUnpinned(p, b, v) ==
  LET full == Len(lh) >= LOGBLOCKS IN
  /\ Up /\ pc[p] = "op"
  /\ b \in wrote[p] \/ Cardinality(wrote[p]) < OPBLOCKS
  /\ panicked' = full
  /\ cache' = [cache EXCEPT ![b] = v]
  /\ lh' = IF full \/ b \in Logged THEN lh ELSE Append(lh, b)
  /\ wrote' = [wrote EXCEPT ![p] = @ \cup {b}]
  /\ UNCHANGED <<durable, pinned, outstanding, committing, tail, pc, boot>>

\* A system call reads block b, changes it to v and calls log_write, which panics
\* ("too big a transaction") if the log is full, before it looks whether b is in it.
LogWrite(p, b, v) ==
  LET full == Len(lh) >= LOGBLOCKS IN
  /\ Up /\ pc[p] = "op"
  /\ b \in wrote[p] \/ Cardinality(wrote[p]) < OPBLOCKS
  /\ panicked' = full
  /\ cache' = [cache EXCEPT ![b] = v]
  /\ lh' = IF full \/ b \in Logged THEN lh ELSE Append(lh, b)
  /\ pinned' = IF full \/ b \in Logged THEN pinned ELSE pinned \cup {b}
  /\ wrote' = [wrote EXCEPT ![p] = @ \cup {b}]
  /\ UNCHANGED <<durable, outstanding, committing, tail, pc, boot>>

\* Mutant: end_op wakes the sleepers only after a commit.
EndOpSilent(p) ==
  /\ Up /\ pc[p] = "op" /\ outstanding > 1
  /\ outstanding' = outstanding - 1
  /\ panicked' = committing
  /\ Goto(p, "idle")
  /\ UNCHANGED <<durable, cache, pinned, lh, committing, tail, wrote, boot>>

\* Another operation is outstanding: only wake those that wait for space.
EndOp(p) ==
  /\ Up /\ pc[p] = "op" /\ outstanding > 1
  /\ outstanding' = outstanding - 1
  /\ panicked' = committing
  /\ WakeAll(p, "idle")
  /\ UNCHANGED <<durable, cache, pinned, lh, committing, tail, wrote, boot>>

\* The last one commits, unless the transaction is empty.
EndOpCommits(p) ==
  /\ Up /\ pc[p] = "op" /\ outstanding = 1
  /\ outstanding' = 0
  /\ panicked' = committing
  /\ committing' = TRUE
  /\ tail' = 0
  /\ Goto(p, IF lh = <<>> THEN "done" ELSE "write_log")
  /\ UNCHANGED <<durable, cache, pinned, lh, wrote, boot>>

-----------------------------------------------------------------------------
(* commit                                                                  *)

\* Copy one block from the cache to the log.
WriteLog(p) ==
  /\ Up /\ pc[p] = "write_log"
  /\ dlog' = [dlog EXCEPT ![tail + 1] = Bread(lh[tail + 1])]
  /\ cache' = [cache EXCEPT ![lh[tail + 1]] = Bread(lh[tail + 1])]
  /\ tail' = tail + 1
  /\ Goto(p, IF tail + 1 = Len(lh) THEN "write_head" ELSE "write_log")
  /\ UNCHANGED <<disk, dhead, pinned, lh, outstanding, committing, wrote, boot, panicked>>

\* The header: the real commit.
WriteHead(p) ==
  /\ Up /\ pc[p] = "write_head"
  /\ dhead' = lh
  /\ tail' = 0
  /\ Goto(p, "install")
  /\ UNCHANGED <<disk, dlog, cache, pinned, lh, outstanding, committing, wrote, boot, panicked>>

\* One iteration of install_trans.
Install ==
  /\ disk' = [disk EXCEPT ![lh[tail + 1]] = dlog[tail + 1]]
  /\ cache' = [cache EXCEPT ![lh[tail + 1]] = dlog[tail + 1]]
  /\ tail' = tail + 1

InstallTrans(p) ==
  /\ Up /\ pc[p] = "install"
  /\ Install
  /\ pinned' = pinned \ {lh[tail + 1]}
  /\ Goto(p, IF tail + 1 = Len(lh) THEN "clear" ELSE "install")
  /\ UNCHANGED <<dlog, dhead, lh, outstanding, committing, wrote, boot, panicked>>

\* log.lh.n = 0 and write_head: erase the transaction.
ClearHead(p) ==
  /\ Up /\ pc[p] = "clear"
  /\ lh' = <<>> /\ dhead' = <<>>
  /\ Goto(p, "done")
  /\ UNCHANGED <<disk, dlog, cache, pinned, outstanding, committing, tail, wrote, boot, panicked>>

\* Mutant: the end of a commit wakes nobody.
EndCommitSilent(p) ==
  /\ Up /\ pc[p] = "done"
  /\ committing' = FALSE
  /\ Goto(p, "idle")
  /\ UNCHANGED <<durable, cache, pinned, lh, outstanding, tail, wrote, boot, panicked>>

EndCommit(p) ==
  /\ Up /\ pc[p] = "done"
  /\ committing' = FALSE
  /\ WakeAll(p, "idle")
  /\ UNCHANGED <<durable, cache, pinned, lh, outstanding, tail, wrote, boot, panicked>>

-----------------------------------------------------------------------------
(* The buffer cache: bread loads a block, bget recycles an unreferenced    *)
(* buffer.                                                                 *)
Load(b) ==
  /\ Up /\ cache[b] = Absent
  /\ cache' = [cache EXCEPT ![b] = disk[b]]
  /\ UNCHANGED <<durable, pinned, lh, outstanding, committing, tail, pc, wrote, boot, panicked>>

Recycle(b) ==
  /\ Up /\ cache[b] # Absent /\ b \notin pinned
  /\ cache' = [cache EXCEPT ![b] = Absent]
  /\ UNCHANGED <<durable, pinned, lh, outstanding, committing, tail, pc, wrote, boot, panicked>>

-----------------------------------------------------------------------------
(* Crash, and recover_from_log at the next boot.                           *)
Crash ==
  /\ cache' = [b \in Blocks |-> Absent] /\ pinned' = {} /\ lh' = <<>>
  /\ outstanding' = 0 /\ committing' = FALSE /\ tail' = 0
  /\ pc' = [p \in Procs |-> "idle"] /\ wrote' = [p \in Procs |-> {}]
  /\ boot' = "read_head" /\ panicked' = FALSE
  /\ UNCHANGED durable

ReadHead ==
  /\ boot = "read_head"
  /\ lh' = dhead
  /\ boot' = IF dhead = <<>> THEN "clear" ELSE "install"
  /\ UNCHANGED <<durable, cache, pinned, outstanding, committing, tail, pc, wrote, panicked>>

RecoverInstall ==
  /\ boot = "install"
  /\ Install
  /\ boot' = IF tail + 1 = Len(lh) THEN "clear" ELSE "install"
  /\ UNCHANGED <<dlog, dhead, pinned, lh, outstanding, committing, pc, wrote, panicked>>

RecoverClear ==
  /\ boot = "clear"
  /\ lh' = <<>> /\ dhead' = <<>>
  /\ boot' = "done"
  /\ UNCHANGED <<disk, dlog, cache, pinned, outstanding, committing, tail, pc, wrote, panicked>>

-----------------------------------------------------------------------------
Recover == ReadHead \/ RecoverInstall \/ RecoverClear

Commits(p) ==
  WriteLog(p) \/ WriteHead(p) \/ InstallTrans(p) \/ ClearHead(p) \/ EndCommit(p)

Finish(p) == EndOp(p) \/ EndOpCommits(p)

Running ==
  \/ Recover
  \/ \E p \in Procs :
       \/ BeginOp(p) \/ BeginSleep(p) \/ Kill(p) \/ Finish(p) \/ Commits(p)
       \/ \E b \in Blocks, v \in Vals : LogWrite(p, b, v)
  \/ \E b \in Blocks : Load(b) \/ Recycle(b)

Next == Running \/ Crash

Spec == Init /\ [][Next]_vars

\* Between crashes system calls finish, and so does every loop of the commit and
\* of recovery.
FairSpec ==
  /\ Spec
  /\ WF_vars(Recover)
  /\ \A p \in Procs : WF_vars(Finish(p)) /\ WF_vars(Commits(p))

-----------------------------------------------------------------------------
(* Properties                                                              *)

TypeOK ==
  /\ disk \in [Blocks -> Vals] /\ dlog \in [1..LOGBLOCKS -> Vals] /\ dhead \in Seq(Blocks)
  /\ cache \in [Blocks -> Vals \cup {Absent}] /\ pinned \subseteq Blocks /\ lh \in Seq(Blocks)
  /\ outstanding \in Nat /\ committing \in BOOLEAN /\ tail \in 0..LOGBLOCKS
  /\ pc \in [Procs -> Labels] /\ wrote \in [Procs -> SUBSET Blocks]
  /\ boot \in {"read_head", "install", "clear", "done"} /\ panicked \in BOOLEAN

\* begin_op's reservation is enough: no system call finds the log full in
\* log_write, whatever the others write, and end_op never meets a commit.
NoPanic == ~panicked

\* Nobody sleeps in begin_op when it could go ahead: every change that makes
\* room or ends a commit wakes the sleepers.
NoStrandedOp == \A p \in Procs : Up /\ pc[p] = "asleep" => ~CanBegin

\* The accounting of the log's space is neither too generous, so that a log_write
\* finds the log full, nor too strict, so that a sleeper waits for space there is.
SpaceSuffices == NoPanic /\ NoStrandedOp

\* The blocks that recovery would produce from home blocks d and a log with data
\* blocks l and header h, and the blocks that system calls see.
RecoveredFrom(d, l, h) ==
  [b \in Blocks |->
     IF \E j \in 1..Len(h) : h[j] = b THEN l[CHOOSE j \in 1..Len(h) : h[j] = b] ELSE d[b]]
Recovered == RecoveredFrom(disk, dlog, dhead)
Current == IF boot = "done" THEN [b \in Blocks |-> Bread(b)] ELSE Recovered

\* end_op returns to the last system call of a transaction only when its
\* updates, and those of the calls that shared the transaction, are durable.
Durable == Up /\ outstanding = 0 /\ ~committing => Recovered = Current

\* The log implements a disk on which a crash never leaves a system call half
\* done, with recovery repeatable and the cache free to drop unpinned buffers.
Open == {p \in Procs : pc[p] = "op"}
Atomic == INSTANCE AtomicDisk WITH cur <- Current, dur <- Recovered, open <- Open
ImplementsAtomicDisk == Atomic!Spec

\* A process that sleeps in begin_op is woken, as long as system calls finish.
SleeperWoken == \A p \in Procs : pc[p] = "asleep" ~> pc[p] # "asleep"
=============================================================================
