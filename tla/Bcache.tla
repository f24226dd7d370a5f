------------------------------- MODULE Bcache -------------------------------
(***************************************************************************)
(* The buffer cache and its sleep-locks (kernel/bio.c, kernel/sleeplock.c), *)
(* over the disk that BlockDevice promises.                                *)
(*                                                                         *)
(* A process reads one block at a time.  It may change it with log_write,  *)
(* which pins the buffer until the log installs the block with bwrite and  *)
(* bunpin, or write it straight through, as the log does with its own      *)
(* blocks.  A step is what a process does under bcache.lock or under the   *)
(* spinlock of one sleep-lock.                                             *)
(***************************************************************************)
EXTENDS BlockDevice, Integers, Sequences, FiniteSets, Functions

CONSTANT MAXPIN   \* blocks that the log holds at most, LOGBLOCKS in the code

\* Each process finds a buffer even when all other processes have one.
ASSUME BcacheAssumption ==
  /\ IsFiniteSet(Procs) /\ IsFiniteSet(Bufs)
  /\ MAXPIN \in Nat /\ Cardinality(Bufs) >= MAXPIN + Cardinality(Procs)
  /\ None \notin Procs \cup Bufs \cup Blocks
  /\ None \notin [b : Bufs, k : Blocks, w : BOOLEAN, done : BOOLEAN]

VARIABLES
  blockno,   \* b->blockno, None before the first use
  valid,     \* b->valid
  refcnt,    \* b->refcnt
  lru,       \* the list from bcache.head.next, most recently used first
  holder,    \* owner of b->lock
  pinned,    \* the blocks in the log's header
  pc, buf    \* the processes, and the buffer that each has

cacheVars == <<blockno, valid, refcnt, lru, holder>>
vars      == <<deviceVars, cacheVars, pinned, pc, buf>>

Init ==
  /\ DeviceInit
  /\ blockno = [b \in Bufs |-> None] /\ valid = [b \in Bufs |-> FALSE]
  /\ refcnt = [b \in Bufs |-> 0] /\ holder = [b \in Bufs |-> None]
  /\ lru = CHOOSE l \in Bijection(1..Cardinality(Bufs), Bufs) : TRUE
  /\ pinned = {}
  /\ pc = [p \in Procs |-> "idle"] /\ buf = [p \in Procs |-> None]

-----------------------------------------------------------------------------
(* bread                                                                   *)

\* The buffers that bget's first loop would return.
Cached(k) == {b \in Bufs : blockno[b] = k}

\* bget, found: b->refcnt++.
BgetHit(p, k) ==
  /\ pc[p] = "idle"
  /\ \E b \in Cached(k) :
       /\ refcnt' = [refcnt EXCEPT ![b] = @ + 1]
       /\ buf' = [buf EXCEPT ![p] = b]
  /\ pc' = [pc EXCEPT ![p] = "lock"]
  /\ UNCHANGED <<deviceVars, blockno, valid, lru, holder, pinned>>

\* Mutant: the recycled buffer stays valid.
RecycledValid(b) == valid
Recycled(b) == [valid EXCEPT ![b] = FALSE]

\* bget, not found: recycle the least recently used buffer without users.
BgetMiss(p, k) ==
  /\ pc[p] = "idle" /\ Cached(k) = {}
  /\ \E n \in 1..Len(lru) :
       LET b == lru[n] IN
       /\ refcnt[b] = 0 /\ \A m \in n + 1..Len(lru) : refcnt[lru[m]] > 0
       /\ blockno' = [blockno EXCEPT ![b] = k]
       /\ valid' = Recycled(b)
       /\ refcnt' = [refcnt EXCEPT ![b] = 1]
       /\ buf' = [buf EXCEPT ![p] = b]
  /\ pc' = [pc EXCEPT ![p] = "lock"]
  /\ UNCHANGED <<deviceVars, lru, holder, pinned>>

\* acquiresleep on a free lock; bread then reads a buffer that is not valid.
Acquire(p) ==
  LET b == buf[p] IN
  /\ pc[p] = "lock" /\ holder[b] = None
  /\ holder' = [holder EXCEPT ![b] = p]
  /\ IF valid[b]
     THEN pc' = [pc EXCEPT ![p] = "own"] /\ UNCHANGED deviceVars
     ELSE pc' = [pc EXCEPT ![p] = "read"] /\ Submit(p, b, blockno[b], FALSE)
  /\ UNCHANGED <<blockno, valid, refcnt, lru, pinned, buf>>

\* acquiresleep on a lock that is taken.
Sleep(p) ==
  /\ pc[p] = "lock" /\ holder[buf[p]] # None
  /\ pc' = [pc EXCEPT ![p] = "asleep"]
  /\ UNCHANGED <<deviceVars, cacheVars, pinned, buf>>

\* kkill wakes a sleeper, whose loop looks at the lock again.
Kkill(p) ==
  /\ pc[p] = "asleep"
  /\ pc' = [pc EXCEPT ![p] = "lock"]
  /\ UNCHANGED <<deviceVars, cacheVars, pinned, buf>>

ReadDone(p) ==
  /\ pc[p] = "read" /\ Return(p)
  /\ valid' = [valid EXCEPT ![buf[p]] = TRUE]
  /\ pc' = [pc EXCEPT ![p] = "own"]
  /\ UNCHANGED <<blockno, refcnt, lru, holder, pinned, buf>>

-----------------------------------------------------------------------------
(* Changes: log_write and bpin, bwrite and bunpin                          *)

Block(p) == blockno[buf[p]]

\* The log has the block, or room for it.
Space(k) == k \in pinned \/ Cardinality(pinned) < MAXPIN

\* Mutant: a block that is in the log is pinned again.
PinsAgain(k) == 1
Pins(k) == IF k \in pinned THEN 0 ELSE 1

\* The data change, and log_write, which pins a block that is new to the log.
LogWrite(p) ==
  /\ pc[p] = "own" /\ Space(Block(p))
  /\ \E v \in Vals : Fill(buf[p], v)
  /\ refcnt' = [refcnt EXCEPT ![buf[p]] = @ + Pins(Block(p))]
  /\ pinned' = pinned \cup {Block(p)}
  /\ UNCHANGED <<blockno, valid, lru, holder, pc, buf>>

\* The data of a block outside the log change, and bwrite must follow.
Modify(p) ==
  /\ pc[p] = "own" /\ Block(p) \notin pinned
  /\ \E v \in Vals : Fill(buf[p], v)
  /\ pc' = [pc EXCEPT ![p] = "dirty"]
  /\ UNCHANGED <<cacheVars, pinned, buf>>

\* bwrite: of such a block, or of one that the log installs.
Bwrite(p) ==
  /\ pc[p] = "dirty" \/ (pc[p] = "own" /\ Block(p) \in pinned)
  /\ Submit(p, buf[p], Block(p), TRUE)
  /\ pc' = [pc EXCEPT ![p] = "write"]
  /\ UNCHANGED <<cacheVars, pinned, buf>>

\* bwrite returns; the log unpins what it has installed.
WriteDone(p) ==
  /\ pc[p] = "write" /\ Return(p)
  /\ refcnt' = [refcnt EXCEPT ![buf[p]] = IF Block(p) \in pinned THEN @ - 1 ELSE @]
  /\ pinned' = pinned \ {Block(p)}
  /\ pc' = [pc EXCEPT ![p] = "own"]
  /\ UNCHANGED <<blockno, valid, lru, holder, buf>>

-----------------------------------------------------------------------------
(* brelse                                                                  *)

\* Mutant: releasesleep without wakeup.
WokenNot(b) == pc
Woken(b) == [p \in Procs |-> IF pc[p] = "asleep" /\ buf[p] = b THEN "lock" ELSE pc[p]]

\* releasesleep.
Brelse(p) ==
  /\ pc[p] = "own"
  /\ holder' = [holder EXCEPT ![buf[p]] = None]
  /\ pc' = [Woken(buf[p]) EXCEPT ![p] = "put"]
  /\ UNCHANGED <<deviceVars, blockno, valid, refcnt, lru, pinned, buf>>

\* The list with b taken out and put behind bcache.head.
Moved(b) ==
  LET n == CHOOSE i \in 1..Len(lru) : lru[i] = b IN
  [i \in 1..Len(lru) |-> IF i = 1 THEN b ELSE IF i <= n THEN lru[i - 1] ELSE lru[i]]

\* b->refcnt--, and an unused buffer moves to the front of the list.
BrelsePut(p) ==
  LET b == buf[p] IN
  /\ pc[p] = "put"
  /\ refcnt' = [refcnt EXCEPT ![b] = @ - 1]
  /\ lru' = IF refcnt[b] = 1 THEN Moved(b) ELSE lru
  /\ buf' = [buf EXCEPT ![p] = None]
  /\ pc' = [pc EXCEPT ![p] = "idle"]
  /\ UNCHANGED <<deviceVars, blockno, valid, holder, pinned>>

-----------------------------------------------------------------------------
DiskTransfer(p) == Transfer(p) /\ UNCHANGED <<cacheVars, pinned, pc, buf>>

Next ==
  \E p \in Procs :
    \/ \E k \in Blocks : BgetHit(p, k) \/ BgetMiss(p, k)
    \/ Acquire(p) \/ Sleep(p) \/ Kkill(p) \/ ReadDone(p)
    \/ LogWrite(p) \/ Modify(p) \/ Bwrite(p) \/ WriteDone(p)
    \/ Brelse(p) \/ BrelsePut(p) \/ DiskTransfer(p)

Spec == Init /\ [][Next]_vars

-----------------------------------------------------------------------------
(* Properties                                                              *)

\* lru is a list of all buffers, each of them once.
TypeOK ==
  /\ platter \in [Blocks -> Vals] /\ data \in [Bufs -> Vals]
  /\ blockno \in [Bufs -> Blocks \cup {None}] /\ valid \in [Bufs -> BOOLEAN]
  /\ refcnt \in [Bufs -> Nat] /\ holder \in [Bufs -> Procs \cup {None}]
  /\ Len(lru) = Cardinality(Bufs) /\ Range(lru) = Bufs
  /\ pinned \subseteq Blocks /\ buf \in [Procs -> Bufs \cup {None}]

\* A block has at most one buffer, whatever the order of lookups and evictions.
OneBufferPerBlock == \A k \in Blocks : Cardinality({b \in Bufs : blockno[b] = k}) <= 1

\* b->refcnt counts the processes that use or wait for b, and the log.
RefcntExact ==
  \A b \in Bufs :
    refcnt[b] = Cardinality({p \in Procs : buf[p] = b}) + (IF blockno[b] \in pinned THEN 1 ELSE 0)

\* bget never panics with "no buffers", as long as the log keeps to its size.
BufferAvailable ==
  \A p \in Procs : pc[p] = "idle" => \E b \in Bufs : refcnt[b] = 0

\* The list, the block numbers and the counts fit together at every release of
\* bcache.lock, so that bget finds a block's only buffer, or one to recycle.
CacheConsistent == TypeOK /\ OneBufferPerBlock /\ RefcntExact /\ BufferAvailable

\* Whoever sleeps on a buffer's lock waits for a holder.
NoStrandedSleeper == \A p \in Procs : pc[p] = "asleep" => holder[buf[p]] # None

\* The cache behaves as one locked contents per block: evictions lose nothing,
\* and a bread sees the last change.
Holding(p) == pc[p] \in {"own", "dirty", "write"}
Content == [k \in Blocks |->
              IF \E b \in Bufs : blockno[b] = k /\ valid[b]
              THEN data[CHOOSE b \in Bufs : blockno[b] = k /\ valid[b]]
              ELSE platter[k]]
Owner == [k \in Blocks |->
            IF \E p \in Procs : Holding(p) /\ Block(p) = k
            THEN CHOOSE p \in Procs : Holding(p) /\ Block(p) = k
            ELSE None]
Store == INSTANCE BlockStore WITH content <- Content, owner <- Owner
ImplementsBlockStore == Store!StoreSpec
=============================================================================
