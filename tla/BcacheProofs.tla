---------------------------- MODULE BcacheProofs ----------------------------
(***************************************************************************)
(* Proofs about the buffer cache, for any number of processes, buffers and *)
(* blocks: the counts and the list are exact, bget() always finds a buffer *)
(* to recycle, no sleeper on a buffer's lock is left behind, and the cache *)
(* implements BlockStore, one locked contents per block.                   *)
(***************************************************************************)
EXTENDS Bcache, FiniteSetTheorems, TLAPS

Labels == {"idle", "lock", "asleep", "read", "own", "dirty", "write", "put"}

\* Where a process has the lock of its buffer.
Using == {"read", "own", "dirty", "write"}

Requests == [b : Bufs, k : Blocks, w : BOOLEAN, done : BOOLEAN]

\* Types, the list apart.
Types ==
  /\ platter \in [Blocks -> Vals] /\ data \in [Bufs -> Vals]
  /\ blockno \in [Bufs -> Blocks \cup {None}] /\ valid \in [Bufs -> BOOLEAN]
  /\ refcnt \in [Bufs -> Nat] /\ holder \in [Bufs -> Procs \cup {None}]
  /\ pinned \subseteq Blocks /\ buf \in [Procs -> Bufs \cup {None}]
  /\ pc \in [Procs -> Labels] /\ io \in [Procs -> Requests \cup {None}]

\* lru is a list of all buffers, each of them once.
ListInv == Len(lru) = Cardinality(Bufs) /\ lru \in [1..Len(lru) -> Bufs] /\ Range(lru) = Bufs

\* What each process may rely on at its label.
ProcOK(p) ==
  /\ buf[p] = None <=> pc[p] = "idle"
  /\ buf[p] # None => blockno[buf[p]] \in Blocks
  /\ pc[p] \in Using => holder[buf[p]] = p
  /\ pc[p] = "read" => ~valid[buf[p]]
  /\ pc[p] \in {"own", "dirty", "write"} => valid[buf[p]]
  /\ pc[p] = "dirty" => blockno[buf[p]] \notin pinned
  /\ pc[p] = "asleep" => holder[buf[p]] # None
  /\ io[p] # None <=> pc[p] \in {"read", "write"}
  /\ io[p] # None => io[p].b = buf[p] /\ io[p].k = blockno[buf[p]] /\ (io[p].w <=> pc[p] = "write")
ProcInv == \A p \in Procs : ProcOK(p)

\* A lock has an owner at a label where it owns it, and a block has one buffer.
BufInv ==
  /\ \A b \in Bufs : holder[b] # None => pc[holder[b]] \in Using /\ buf[holder[b]] = b
  /\ \A b, c \in Bufs : blockno[b] = blockno[c] /\ blockno[b] # None => b = c
  /\ \A b \in Bufs : valid[b] => blockno[b] # None

\* The log has a buffer for each block that it pins, and not more than it may.
PinInv ==
  /\ IsFiniteSet(pinned) /\ Cardinality(pinned) <= MAXPIN
  /\ \A k \in pinned : \E b \in Bufs : blockno[b] = k

CInv == Types /\ ListInv /\ ProcInv /\ BufInv /\ PinInv /\ RefcntExact

-----------------------------------------------------------------------------
(* Counting                                                                *)

\* One more process has buffer b.
LEMMA CountAdd ==
  ASSUME Types, NEW p \in Procs, NEW b \in Bufs, NEW c \in Bufs,
         buf[p] = None, buf' = [buf EXCEPT ![p] = b]
  PROVE  Cardinality({q \in Procs : buf'[q] = c}) =
           Cardinality({q \in Procs : buf[q] = c}) + (IF b = c THEN 1 ELSE 0)
<1> DEFINE A == {q \in Procs : buf[q] = c}
           B == {q \in Procs : buf'[q] = c}
<1>1. IsFiniteSet(A) /\ Cardinality(A) \in Nat
  BY BcacheAssumption, FS_Subset, FS_CardinalityType
<1>2. CASE b = c
  <2>1. B = A \cup {p} /\ p \notin A
    BY <1>2, BcacheAssumption DEF Types
  <2>2. QED
    BY Zenon, <1>1, <1>2, <2>1, FS_AddElement
<1>3. CASE b # c
  <2>1. B = A
    BY <1>3, BcacheAssumption DEF Types
  <2>2. QED
    BY <1>1, <1>3, <2>1
<1>4. QED
  BY <1>2, <1>3

\* One process fewer has its buffer.
LEMMA CountDrop ==
  ASSUME Types, NEW p \in Procs, NEW c \in Bufs, buf' = [buf EXCEPT ![p] = None]
  PROVE  Cardinality({q \in Procs : buf'[q] = c}) =
           Cardinality({q \in Procs : buf[q] = c}) - (IF buf[p] = c THEN 1 ELSE 0)
<1> DEFINE A == {q \in Procs : buf[q] = c}
           B == {q \in Procs : buf'[q] = c}
<1>1. IsFiniteSet(A) /\ Cardinality(A) \in Nat
  BY BcacheAssumption, FS_Subset, FS_CardinalityType
<1>2. B = A \ {p} /\ (p \in A <=> buf[p] = c)
  BY BcacheAssumption DEF Types
<1>3. Cardinality(B) = IF p \in A THEN Cardinality(A) - 1 ELSE Cardinality(A)
  <2> HIDE DEF A, B
  <2>1. QED
    BY Zenon, <1>1, <1>2, FS_RemoveElement
<1>4. QED
  BY <1>1, <1>2, <1>3

\* A buffer without references is nobody's, and its block is not in the log.
LEMMA Unused ==
  ASSUME CInv, NEW b \in Bufs, refcnt[b] = 0
  PROVE  (\A p \in Procs : buf[p] # b) /\ blockno[b] \notin pinned
<1> DEFINE A == {p \in Procs : buf[p] = b}
<1>1. IsFiniteSet(A) /\ Cardinality(A) \in Nat
  BY BcacheAssumption, FS_Subset, FS_CardinalityType
<1>2. refcnt[b] = Cardinality(A) + (IF blockno[b] \in pinned THEN 1 ELSE 0)
  BY Zenon DEF CInv, RefcntExact
<1>3. Cardinality(A) = 0 /\ blockno[b] \notin pinned
  BY <1>1, <1>2
<1>4. A = {}
  BY <1>1, <1>3, FS_EmptySet
<1>5. QED
  BY <1>3, <1>4

-----------------------------------------------------------------------------
(* The disk                                                                *)

\* A request that is handed over is the caller's only one, and not done.
LEMMA Submitted ==
  ASSUME Types, NEW p \in Procs, NEW b \in Bufs, NEW k \in Blocks, NEW w \in BOOLEAN, Submit(p, b, k, w)
  PROVE  /\ io' \in [Procs -> Requests \cup {None}] /\ io'[p] # None
         /\ io'[p].b = b /\ io'[p].k = k /\ io'[p].w = w /\ ~io'[p].done
         /\ \A q \in Procs \ {p} : io'[q] = io[q]
<1> DEFINE R == [b |-> b, k |-> k, w |-> w, done |-> FALSE]
<1>0. R \in Requests
  BY DEF Requests
<1>1. R \in Requests /\ R # None
  <2> HIDE DEF R
  <2>1. QED
    BY <1>0, BcacheAssumption DEF Requests
<1>2. R.b = b /\ R.k = k /\ R.w = w /\ ~R.done
  OBVIOUS
<1>3. io' = [io EXCEPT ![p] = R] /\ io \in [Procs -> Requests \cup {None}]
  BY DEF Submit, Types
<1> HIDE DEF R
<1>4. QED
  BY <1>1, <1>2, <1>3

\* The disk's one step keeps the request and marks it done.
LEMMA Transferred ==
  ASSUME Types, NEW p \in Procs, Transfer(p)
  PROVE  /\ io' \in [Procs -> Requests \cup {None}] /\ io[p] # None /\ io'[p] # None
         /\ io'[p].b = io[p].b /\ io'[p].k = io[p].k /\ io'[p].w = io[p].w /\ io'[p].done
         /\ \A q \in Procs \ {p} : io'[q] = io[q]
<1> DEFINE R == [io[p] EXCEPT !.done = TRUE]
<1>1. io[p] \in Requests /\ io[p] # None /\ io' = [io EXCEPT ![p] = R] /\ io \in [Procs -> Requests \cup {None}]
  BY DEF Transfer, Types
<1>2. R \in Requests /\ R.b = io[p].b /\ R.k = io[p].k /\ R.w = io[p].w /\ R.done
  BY Zenon, <1>1 DEF Requests
<1>3. R # None
  BY Zenon, <1>2, BcacheAssumption DEF Requests
<1> HIDE DEF R
<1>4. QED
  BY <1>1, <1>2, <1>3

-----------------------------------------------------------------------------
(* Each action keeps the invariant.                                        *)

\* acquiresleep on a free lock.
LEMMA AcquireStep ==
  ASSUME CInv, NEW p \in Procs, Acquire(p)
  PROVE  CInv'
<1> USE BcacheAssumption
<1>0. UNCHANGED <<blockno, refcnt, lru, pinned, buf>>
  BY DEF Acquire, deviceVars, cacheVars, Submit
<1>a. buf[p] \in Bufs /\ blockno[buf[p]] \in Blocks /\ holder[buf[p]] = None /\ io[p] = None
  BY DEF CInv, Types, ProcInv, ProcOK, BufInv, Using, Acquire, Submit
<1>b. /\ UNCHANGED <<platter, data>> /\ io' \in [Procs -> Requests \cup {None}]
      /\ \A q \in Procs \ {p} : io'[q] = io[q]
      /\ \/ valid[buf[p]] /\ pc' = [pc EXCEPT ![p] = "own"] /\ io'[p] = None
         \/ /\ ~valid[buf[p]] /\ pc' = [pc EXCEPT ![p] = "read"] /\ io'[p] # None
            /\ io'[p].b = buf[p] /\ io'[p].k = blockno[buf[p]] /\ ~io'[p].w
  <2>1. CASE valid[buf[p]]
    BY <1>a, <2>1 DEF CInv, Types, Acquire, deviceVars
  <2>2. CASE ~valid[buf[p]]
    <3>1. Submit(p, buf[p], blockno[buf[p]], FALSE) /\ pc' = [pc EXCEPT ![p] = "read"]
      BY Zenon, <2>2 DEF Acquire
    <3>2. QED
      BY Zenon, <1>a, <2>2, <3>1, Submitted DEF CInv, Submit
  <2>3. QED
    BY <2>1, <2>2
<1>1. Types'
  BY <1>a, <1>b DEF CInv, Types, Labels, Acquire
<1>2. ListInv'
  BY <1>0 DEF CInv, ListInv
<1>3. ASSUME NEW q \in Procs PROVE ProcOK(q)'
  <2>1. CASE q = p
    BY <1>0, <1>a, <1>b, <2>1 DEF CInv, Types, ProcInv, ProcOK, Using, deviceVars, cacheVars, Acquire
  <2>2. CASE q # p
    BY <1>0, <1>a, <1>b, <2>2 DEF CInv, Types, ProcInv, ProcOK, BufInv, Using, deviceVars, cacheVars, Acquire
  <2>3. QED
    BY <2>1, <2>2
<1>4. BufInv'
  <2>1. holder' = [holder EXCEPT ![buf[p]] = p] /\ UNCHANGED <<blockno, valid, buf>>
    BY DEF Acquire
  <2>2. pc'[p] \in Using /\ \A q \in Procs \ {p} : pc'[q] = pc[q]
    BY <1>b DEF CInv, Types, Using
  <2>3. QED
    BY <1>a, <2>1, <2>2 DEF CInv, Types, BufInv
<1>5. PinInv'
  BY <1>0 DEF CInv, PinInv
<1>6. RefcntExact'
  BY <1>0 DEF CInv, RefcntExact
<1>7. QED
  BY <1>1, <1>2, <1>3, <1>4, <1>5, <1>6 DEF CInv, ProcInv

\* acquiresleep on a lock that is taken.
LEMMA SleepStep ==
  ASSUME CInv, NEW p \in Procs, Sleep(p)
  PROVE  CInv'
<1> USE BcacheAssumption
<1>0. UNCHANGED <<blockno, refcnt, lru, pinned, buf>>
  BY DEF Sleep, deviceVars, cacheVars
<1>a. buf[p] \in Bufs /\ blockno[buf[p]] \in Blocks
  BY DEF CInv, Types, ProcInv, ProcOK, BufInv, Using, Sleep
<1>1. Types'
  BY <1>a DEF CInv, Types, Labels, deviceVars, cacheVars, Sleep
<1>2. ListInv'
  BY <1>0 DEF CInv, ListInv
<1>3. ASSUME NEW q \in Procs PROVE ProcOK(q)'
  <2>1. CASE q = p
    BY <1>0, <1>a, <2>1 DEF CInv, Types, ProcInv, ProcOK, Using, deviceVars, cacheVars, Sleep
  <2>2. CASE q # p
    BY <1>0, <1>a, <2>2 DEF CInv, Types, ProcInv, ProcOK, BufInv, Using, deviceVars, cacheVars, Sleep
  <2>3. QED
    BY <2>1, <2>2
<1>4. BufInv'
  BY <1>a DEF CInv, Types, BufInv, Using, deviceVars, cacheVars, Sleep
<1>5. PinInv'
  BY <1>0 DEF CInv, PinInv
<1>6. RefcntExact'
  BY <1>0 DEF CInv, RefcntExact
<1>7. QED
  BY <1>1, <1>2, <1>3, <1>4, <1>5, <1>6 DEF CInv, ProcInv

\* kkill wakes a sleeper.
LEMMA KkillStep ==
  ASSUME CInv, NEW p \in Procs, Kkill(p)
  PROVE  CInv'
<1> USE BcacheAssumption
<1>0. UNCHANGED <<blockno, refcnt, lru, pinned, buf>>
  BY Zenon DEF Kkill, deviceVars, cacheVars
<1>a. buf[p] \in Bufs /\ blockno[buf[p]] \in Blocks
  BY DEF CInv, Types, ProcInv, ProcOK, BufInv, Using, Kkill
<1>1. Types'
  BY <1>a DEF CInv, Types, Labels, deviceVars, cacheVars, Kkill
<1>2. ListInv'
  BY <1>0 DEF CInv, ListInv
<1>3. ASSUME NEW q \in Procs PROVE ProcOK(q)'
  <2>1. CASE q = p
    BY <1>0, <1>a, <2>1 DEF CInv, Types, ProcInv, ProcOK, Using, deviceVars, cacheVars, Kkill
  <2>2. CASE q # p
    BY <1>0, <1>a, <2>2 DEF CInv, Types, ProcInv, ProcOK, BufInv, Using, deviceVars, cacheVars, Kkill
  <2>3. QED
    BY <2>1, <2>2
<1>4. BufInv'
  BY <1>a DEF CInv, Types, BufInv, Using, deviceVars, cacheVars, Kkill
<1>5. PinInv'
  BY <1>0 DEF CInv, PinInv
<1>6. RefcntExact'
  BY <1>0 DEF CInv, RefcntExact
<1>7. QED
  BY <1>1, <1>2, <1>3, <1>4, <1>5, <1>6 DEF CInv, ProcInv

\* bread returns with the block.
LEMMA ReadDoneStep ==
  ASSUME CInv, NEW p \in Procs, ReadDone(p)
  PROVE  CInv'
<1> USE BcacheAssumption
<1>0. UNCHANGED <<blockno, refcnt, lru, pinned, buf>>
  BY DEF ReadDone, Return, deviceVars, cacheVars
<1>a. buf[p] \in Bufs /\ blockno[buf[p]] \in Blocks /\ holder[buf[p]] = p
  BY DEF CInv, Types, ProcInv, ProcOK, BufInv, Using, ReadDone, Return
<1>1. Types'
  BY <1>a DEF CInv, Types, Labels, deviceVars, cacheVars, ReadDone, Return
<1>2. ListInv'
  BY <1>0 DEF CInv, ListInv
<1>3. ASSUME NEW q \in Procs PROVE ProcOK(q)'
  <2>1. CASE q = p
    BY <1>0, <1>a, <2>1 DEF CInv, Types, ProcInv, ProcOK, Using, deviceVars, cacheVars, ReadDone, Return
  <2>2. CASE q # p
    BY <1>0, <1>a, <2>2 DEF CInv, Types, ProcInv, ProcOK, BufInv, Using, deviceVars, cacheVars, ReadDone, Return
  <2>3. QED
    BY <2>1, <2>2
<1>4. BufInv'
  BY <1>a DEF CInv, Types, BufInv, Using, deviceVars, cacheVars, ReadDone, Return
<1>5. PinInv'
  BY <1>0 DEF CInv, PinInv
<1>6. RefcntExact'
  BY <1>0 DEF CInv, RefcntExact
<1>7. QED
  BY <1>1, <1>2, <1>3, <1>4, <1>5, <1>6 DEF CInv, ProcInv

\* The data change before bwrite.
LEMMA ModifyStep ==
  ASSUME CInv, NEW p \in Procs, Modify(p)
  PROVE  CInv'
<1> USE BcacheAssumption
<1>0. UNCHANGED <<blockno, refcnt, lru, pinned, buf>>
  BY Zenon DEF Modify, Fill, Block, deviceVars, cacheVars
<1>a. buf[p] \in Bufs /\ blockno[buf[p]] \in Blocks /\ holder[buf[p]] = p /\ valid[buf[p]] /\ io[p] = None
  BY DEF CInv, Types, ProcInv, ProcOK, BufInv, Using, Modify, Fill, Block
<1>1. Types'
  BY <1>a DEF CInv, Types, Labels, deviceVars, cacheVars, Modify, Fill, Block
<1>2. ListInv'
  BY <1>0 DEF CInv, ListInv
<1>3. ASSUME NEW q \in Procs PROVE ProcOK(q)'
  <2>1. CASE q = p
    BY <1>0, <1>a, <2>1 DEF CInv, Types, ProcInv, ProcOK, Using, deviceVars, cacheVars, Modify, Fill, Block
  <2>2. CASE q # p
    BY <1>0, <1>a, <2>2 DEF CInv, Types, ProcInv, ProcOK, BufInv, Using, deviceVars, cacheVars, Modify, Fill, Block
  <2>3. QED
    BY <2>1, <2>2
<1>4. BufInv'
  BY <1>a DEF CInv, Types, BufInv, Using, deviceVars, cacheVars, Modify, Fill, Block
<1>5. PinInv'
  BY <1>0 DEF CInv, PinInv
<1>6. RefcntExact'
  BY <1>0 DEF CInv, RefcntExact
<1>7. QED
  BY <1>1, <1>2, <1>3, <1>4, <1>5, <1>6 DEF CInv, ProcInv

\* bwrite hands the buffer to the disk.
LEMMA BwriteStep ==
  ASSUME CInv, NEW p \in Procs, Bwrite(p)
  PROVE  CInv'
<1> USE BcacheAssumption
<1>0. UNCHANGED <<blockno, refcnt, lru, pinned, buf, holder, valid>>
  BY DEF Bwrite, deviceVars, cacheVars, Submit
<1>a. buf[p] \in Bufs /\ blockno[buf[p]] \in Blocks /\ holder[buf[p]] = p /\ valid[buf[p]] /\ io[p] = None
  BY DEF CInv, Types, ProcInv, ProcOK, BufInv, Using, Bwrite, Submit
<1>b. /\ UNCHANGED <<platter, data>> /\ pc' = [pc EXCEPT ![p] = "write"]
      /\ io' \in [Procs -> Requests \cup {None}] /\ io'[p] # None
      /\ io'[p].b = buf[p] /\ io'[p].k = blockno[buf[p]] /\ io'[p].w = TRUE
      /\ \A q \in Procs \ {p} : io'[q] = io[q]
  BY Zenon, <1>a, Submitted DEF CInv, Bwrite, Block, Submit
<1>1. Types'
  BY Zenon, <1>a, <1>b DEF CInv, Types, Labels, cacheVars, Bwrite
<1>2. ListInv'
  BY <1>0, Zenon DEF CInv, ListInv
<1>3. ASSUME NEW q \in Procs PROVE ProcOK(q)'
  <2>1. CASE q = p
    BY <1>0, <1>a, <1>b, <2>1 DEF CInv, Types, ProcInv, ProcOK, Using
  <2>2. CASE q # p
    BY <1>0, <1>a, <1>b, <2>2 DEF CInv, Types, ProcInv, ProcOK, BufInv, Using
  <2>3. QED
    BY <2>1, <2>2
<1>4. BufInv'
  BY <1>0, <1>a, <1>b DEF CInv, Types, BufInv, Using
<1>5. PinInv'
  BY <1>0 DEF CInv, PinInv
<1>6. RefcntExact'
  BY <1>0 DEF CInv, RefcntExact
<1>7. QED
  BY <1>1, <1>2, <1>3, <1>4, <1>5, <1>6 DEF CInv, ProcInv

\* releasesleep wakes those that wait for this lock.
LEMMA BrelseStep ==
  ASSUME CInv, NEW p \in Procs, Brelse(p)
  PROVE  CInv'
<1> USE BcacheAssumption
<1>0. UNCHANGED <<blockno, refcnt, lru, pinned, buf>>
  BY DEF Brelse, Woken, deviceVars, cacheVars
<1>a. buf[p] \in Bufs /\ blockno[buf[p]] \in Blocks /\ holder[buf[p]] = p /\ io[p] = None
  BY DEF CInv, Types, ProcInv, ProcOK, BufInv, Using, Brelse, Woken
<1>1. Types'
  BY <1>a DEF CInv, Types, Labels, deviceVars, cacheVars, Brelse, Woken
<1>2. ListInv'
  BY <1>0 DEF CInv, ListInv
<1>3. ASSUME NEW q \in Procs PROVE ProcOK(q)'
  <2>1. CASE q = p
    BY <1>0, <1>a, <2>1, Zenon DEF CInv, Types, ProcInv, ProcOK, Using, deviceVars, cacheVars, Brelse, Woken
  <2>2. CASE q # p
    <3>1. /\ pc'[q] = IF pc[q] = "asleep" /\ buf[q] = buf[p] THEN "lock" ELSE pc[q]
          /\ holder' = [holder EXCEPT ![buf[p]] = None] /\ UNCHANGED <<io, valid, blockno, pinned, buf>>
      BY <2>2 DEF CInv, Types, Brelse, Woken, deviceVars
    <3>2. ProcOK(q) /\ buf[q] \in Bufs \cup {None} /\ holder \in [Bufs -> Procs \cup {None}]
      BY DEF CInv, ProcInv, Types
    <3>3. QED
      BY <1>a, <2>2, <3>1, <3>2, Zenon DEF ProcOK, Using
  <2>3. QED
    BY <2>1, <2>2
<1>4. BufInv'
  BY <1>a DEF CInv, Types, BufInv, Using, deviceVars, cacheVars, Brelse, Woken
<1>5. PinInv'
  BY <1>0 DEF CInv, PinInv
<1>6. RefcntExact'
  BY <1>0 DEF CInv, RefcntExact
<1>7. QED
  BY <1>1, <1>2, <1>3, <1>4, <1>5, <1>6 DEF CInv, ProcInv

\* The disk copies a block.
LEMMA DiskStep ==
  ASSUME CInv, NEW p \in Procs, DiskTransfer(p)
  PROVE  CInv'
<1> USE BcacheAssumption
<1>0. UNCHANGED <<blockno, refcnt, lru, pinned, buf, pc, holder, valid>>
  BY DEF DiskTransfer, deviceVars, cacheVars, Transfer
<1>a. buf[p] \in Bufs /\ blockno[buf[p]] \in Blocks /\ holder[buf[p]] = p
  BY DEF CInv, Types, ProcInv, ProcOK, BufInv, Using, DiskTransfer, Transfer
<1>b. /\ io' \in [Procs -> Requests \cup {None}] /\ io[p] # None /\ io'[p] # None
      /\ io'[p].b = io[p].b /\ io'[p].k = io[p].k /\ io'[p].w = io[p].w /\ io'[p].done
      /\ \A q \in Procs \ {p} : io'[q] = io[q]
  BY Transferred DEF CInv, DiskTransfer
<1>c. platter' \in [Blocks -> Vals] /\ data' \in [Bufs -> Vals]
  <2>1. io[p].b \in Bufs /\ io[p].k \in Blocks
    BY <1>a, <1>b, Zenon DEF CInv, ProcInv, ProcOK
  <2>2. QED
    BY <2>1 DEF CInv, Types, DiskTransfer, Transfer
<1>1. Types'
  BY <1>0, <1>b, <1>c DEF CInv, Types
<1>2. ListInv'
  BY <1>0 DEF CInv, ListInv
<1>3. ASSUME NEW q \in Procs PROVE ProcOK(q)'
  <2>1. CASE q = p
    BY <1>0, <1>a, <1>b, <2>1 DEF CInv, Types, ProcInv, ProcOK, Using
  <2>2. CASE q # p
    BY <1>0, <1>a, <1>b, <2>2 DEF CInv, Types, ProcInv, ProcOK, BufInv, Using
  <2>3. QED
    BY <2>1, <2>2
<1>4. BufInv'
  BY <1>0, Zenon DEF CInv, BufInv
<1>5. PinInv'
  BY <1>0 DEF CInv, PinInv
<1>6. RefcntExact'
  BY <1>0 DEF CInv, RefcntExact
<1>7. QED
  BY <1>1, <1>2, <1>3, <1>4, <1>5, <1>6 DEF CInv, ProcInv

\* bget finds the block: one more process has the buffer.
LEMMA BgetHitStep ==
  ASSUME CInv, NEW p \in Procs, NEW k \in Blocks, BgetHit(p, k)
  PROVE  CInv'
<1> USE BcacheAssumption
<1>0. PICK b \in Bufs : /\ blockno[b] = k
                        /\ refcnt' = [refcnt EXCEPT ![b] = @ + 1] /\ buf' = [buf EXCEPT ![p] = b]
  BY Zenon DEF BgetHit, Cached
<1>a. /\ pc' = [pc EXCEPT ![p] = "lock"] /\ pc[p] = "idle"
      /\ UNCHANGED <<platter, data, io, blockno, valid, lru, holder, pinned>>
  BY DEF BgetHit, deviceVars
<1>b. buf[p] = None /\ io[p] = None
  BY <1>a, Zenon DEF CInv, ProcInv, ProcOK
<1>1. Types'
  BY <1>0, <1>a DEF CInv, Types, Labels
<1>2. ListInv'
  BY <1>a DEF CInv, ListInv
<1>3. ASSUME NEW q \in Procs PROVE ProcOK(q)'
  <2>1. CASE q = p
    BY <1>0, <1>a, <1>b, <2>1, Zenon DEF CInv, Types, Using, ProcOK
  <2>2. CASE q # p
    BY <1>0, <1>a, <2>2 DEF CInv, Types, ProcInv, ProcOK
  <2>3. QED
    BY <2>1, <2>2
<1>4. BufInv'
  BY <1>0, <1>a, <1>b DEF CInv, Types, BufInv, Using
<1>5. PinInv'
  BY <1>a, Zenon DEF CInv, PinInv
<1>6. ASSUME NEW c \in Bufs
      PROVE  refcnt'[c] = Cardinality({q \in Procs : buf'[q] = c}) + (IF blockno'[c] \in pinned' THEN 1 ELSE 0)
  <2>1. Cardinality({q \in Procs : buf'[q] = c}) =
          Cardinality({q \in Procs : buf[q] = c}) + (IF b = c THEN 1 ELSE 0)
    BY Zenon, <1>0, <1>b, CountAdd DEF CInv
  <2>2. Cardinality({q \in Procs : buf[q] = c}) \in Nat
    BY FS_Subset, FS_CardinalityType
  <2>3. refcnt[c] = Cardinality({q \in Procs : buf[q] = c}) + (IF blockno[c] \in pinned THEN 1 ELSE 0)
    BY Zenon DEF CInv, RefcntExact
  <2>4. refcnt'[c] = refcnt[c] + (IF b = c THEN 1 ELSE 0)
    BY <1>0 DEF CInv, Types
  <2>5. QED
    BY ONLY <1>0, <1>a, <2>1, <2>2, <2>3, <2>4
<1>7. RefcntExact'
  BY <1>6 DEF RefcntExact
<1>8. QED
  BY <1>1, <1>2, <1>3, <1>4, <1>5, <1>7 DEF CInv, ProcInv

\* bget recycles a buffer that nobody refers to.
LEMMA BgetMissStep ==
  ASSUME CInv, NEW p \in Procs, NEW k \in Blocks, BgetMiss(p, k)
  PROVE  CInv'
<1> USE BcacheAssumption
<1>0. PICK b \in Bufs : /\ refcnt[b] = 0
                        /\ blockno' = [blockno EXCEPT ![b] = k] /\ valid' = [valid EXCEPT ![b] = FALSE]
                        /\ refcnt' = [refcnt EXCEPT ![b] = 1] /\ buf' = [buf EXCEPT ![p] = b]
  <2>1. PICK n \in 1..Len(lru) :
          /\ refcnt[lru[n]] = 0
          /\ blockno' = [blockno EXCEPT ![lru[n]] = k] /\ valid' = [valid EXCEPT ![lru[n]] = FALSE]
          /\ refcnt' = [refcnt EXCEPT ![lru[n]] = 1] /\ buf' = [buf EXCEPT ![p] = lru[n]]
    BY Zenon DEF BgetMiss, Recycled
  <2>2. lru[n] \in Bufs
    BY <2>1, Zenon DEF CInv, ListInv
  <2>3. QED
    BY Zenon, <2>1, <2>2
<1>a. /\ pc' = [pc EXCEPT ![p] = "lock"] /\ pc[p] = "idle" /\ \A c \in Bufs : blockno[c] # k
      /\ UNCHANGED <<platter, data, io, lru, holder, pinned>>
  BY DEF BgetMiss, Cached, deviceVars
<1>b. buf[p] = None /\ io[p] = None
  BY <1>a, Zenon DEF CInv, ProcInv, ProcOK
<1>c. (\A q \in Procs : buf[q] # b) /\ blockno[b] \notin pinned
  BY <1>0, Unused
<1>d. k \notin pinned
  BY <1>a DEF CInv, PinInv
<1>1. Types'
  BY <1>0, <1>a, Zenon DEF CInv, Types, Labels
<1>2. ListInv'
  BY <1>a, Zenon DEF CInv, ListInv
<1>3. ASSUME NEW q \in Procs PROVE ProcOK(q)'
  <2>1. CASE q = p
    BY <1>0, <1>a, <1>b, <2>1, Zenon DEF CInv, Types, Using, ProcOK
  <2>2. CASE q # p
    <3>1. buf'[q] = buf[q] /\ buf[q] # b /\ pc'[q] = pc[q]
      BY <1>0, <1>a, <1>c, <2>2, Zenon DEF CInv, Types
    <3>2. buf[q] # None => buf[q] \in Bufs /\ blockno'[buf[q]] = blockno[buf[q]] /\ valid'[buf[q]] = valid[buf[q]]
      BY <1>0, <3>1, Zenon DEF CInv, Types
    <3>3. QED
      BY Zenon, <1>a, <3>1, <3>2 DEF CInv, ProcInv, ProcOK, Using
  <2>3. QED
    BY <2>1, <2>2
<1>4. BufInv'
  <2>1. ASSUME NEW c \in Bufs, holder'[c] # None PROVE pc'[holder'[c]] \in Using /\ buf'[holder'[c]] = c
    <3>1. holder[c] \in Procs /\ pc[holder[c]] \in Using /\ buf[holder[c]] = c
      BY <1>a, <2>1 DEF CInv, Types, BufInv
    <3>2. QED
      BY <1>0, <1>a, <3>1, Zenon DEF CInv, Types, Using
  <2>2. \A c, d \in Bufs : blockno'[c] = blockno'[d] /\ blockno'[c] # None => c = d
    BY <1>0, <1>a DEF CInv, Types, BufInv
  <2>3. \A c \in Bufs : valid'[c] => blockno'[c] # None
    BY <1>0 DEF CInv, Types, BufInv
  <2>4. QED
    BY <2>1, <2>2, <2>3 DEF BufInv
<1>5. PinInv'
  BY <1>0, <1>a, <1>c DEF CInv, Types, PinInv
<1>6. ASSUME NEW c \in Bufs
      PROVE  refcnt'[c] = Cardinality({q \in Procs : buf'[q] = c}) + (IF blockno'[c] \in pinned' THEN 1 ELSE 0)
  <2>1. Cardinality({q \in Procs : buf'[q] = c}) =
          Cardinality({q \in Procs : buf[q] = c}) + (IF b = c THEN 1 ELSE 0)
    BY Zenon, <1>0, <1>b, CountAdd DEF CInv
  <2>2. Cardinality({q \in Procs : buf[q] = c}) \in Nat
    BY FS_Subset, FS_CardinalityType
  <2>3. refcnt[c] = Cardinality({q \in Procs : buf[q] = c}) + (IF blockno[c] \in pinned THEN 1 ELSE 0)
    BY Zenon DEF CInv, RefcntExact
  <2>4. refcnt'[c] = refcnt[c] + (IF b = c THEN 1 ELSE 0)
    BY <1>0 DEF CInv, Types
  <2>5. (blockno'[c] \in pinned') <=> (blockno[c] \in pinned)
    BY <1>0, <1>a, <1>c, <1>d, Zenon DEF CInv, Types
  <2>6. QED
    BY ONLY <1>0, <2>1, <2>2, <2>3, <2>4, <2>5
<1>7. RefcntExact'
  BY <1>6 DEF RefcntExact
<1>8. QED
  BY <1>1, <1>2, <1>3, <1>4, <1>5, <1>7 DEF CInv, ProcInv

\* A block that the log does not have yet is pinned, and counted.
LEMMA LogWriteStep ==
  ASSUME CInv, NEW p \in Procs, LogWrite(p)
  PROVE  CInv'
<1> USE BcacheAssumption
<1> DEFINE b == buf[p]
           k == blockno[buf[p]]
<1>0. /\ pc[p] = "own" /\ (k \in pinned \/ Cardinality(pinned) < MAXPIN)
      /\ refcnt' = [refcnt EXCEPT ![b] = @ + (IF k \in pinned THEN 0 ELSE 1)]
      /\ pinned' = pinned \cup {k}
      /\ UNCHANGED <<platter, io, blockno, valid, lru, holder, pc, buf>>
  BY Zenon DEF LogWrite, Space, Block, Pins, Fill
<1>a. b \in Bufs /\ k \in Blocks /\ holder[b] = p
  BY <1>0 DEF CInv, Types, ProcInv, ProcOK, Using
<1>b. data' \in [Bufs -> Vals]
  BY <1>a, Zenon DEF CInv, Types, LogWrite, Fill
<1> HIDE DEF b, k
<1>1. Types'
  <2>1. refcnt \in [Bufs -> Nat] /\ refcnt' \in [Bufs -> Nat]
    BY <1>0, <1>a DEF CInv, Types
  <2>2. pinned' \subseteq Blocks
    BY <1>0, <1>a DEF CInv, Types
  <2>3. QED
    BY <1>0, <1>b, <2>1, <2>2, Zenon DEF CInv, Types
<1>2. ListInv'
  BY <1>0, Zenon DEF CInv, ListInv
<1>3. ASSUME NEW q \in Procs PROVE ProcOK(q)'
  <2>1. pc[q] = "dirty" => blockno[buf[q]] # k
    <3>1. SUFFICES ASSUME pc[q] = "dirty", blockno[buf[q]] = k PROVE FALSE
      OBVIOUS
    <3>2. buf[q] \in Bufs /\ holder[buf[q]] = q
      BY <3>1 DEF CInv, Types, ProcInv, ProcOK, Using
    <3>3. buf[q] = b
      BY <1>a, <3>1, <3>2 DEF CInv, BufInv, k, b
    <3>4. QED
      BY Zenon, <1>0, <1>a, <3>1, <3>2, <3>3
  <2>2. QED
    BY <1>0, <2>1, Zenon DEF CInv, ProcInv, ProcOK, Using
<1>4. BufInv'
  BY <1>0 DEF CInv, BufInv
<1>5. PinInv'
  <2>1. IsFiniteSet(pinned') /\ Cardinality(pinned') = IF k \in pinned THEN Cardinality(pinned) ELSE Cardinality(pinned) + 1
    BY <1>0, FS_AddElement, Zenon DEF CInv, PinInv
  <2>2. Cardinality(pinned) \in Nat
    BY FS_CardinalityType DEF CInv, PinInv
  <2>3. blockno[b] = k
    BY DEF b, k
  <2>4. QED
    BY <1>0, <1>a, <2>1, <2>2, <2>3 DEF CInv, PinInv
<1>6. ASSUME NEW c \in Bufs
      PROVE  refcnt'[c] = Cardinality({q \in Procs : buf'[q] = c}) + (IF blockno'[c] \in pinned' THEN 1 ELSE 0)
  <2>1. Cardinality({q \in Procs : buf[q] = c}) \in Nat
    BY FS_Subset, FS_CardinalityType
  <2>2. refcnt[c] = Cardinality({q \in Procs : buf[q] = c}) + (IF blockno[c] \in pinned THEN 1 ELSE 0)
    BY Zenon DEF CInv, RefcntExact
  <2>3. refcnt'[c] = refcnt[c] + (IF c = b /\ k \notin pinned THEN 1 ELSE 0)
    BY <1>0, <1>a, <2>1, <2>2 DEF CInv, Types
  <2>4. blockno[c] = k <=> c = b
    BY <1>a, Zenon DEF CInv, BufInv, b, k
  <2>5. QED
    BY <1>0, <2>1, <2>2, <2>3, <2>4
<1>7. RefcntExact'
  BY <1>6 DEF RefcntExact
<1>8. QED
  BY <1>1, <1>2, <1>3, <1>4, <1>5, <1>7 DEF CInv, ProcInv

\* A block that the log has installed is unpinned.
LEMMA WriteDoneStep ==
  ASSUME CInv, NEW p \in Procs, WriteDone(p)
  PROVE  CInv'
<1> USE BcacheAssumption
<1> DEFINE b == buf[p]
           k == blockno[buf[p]]
<1>0. /\ pc[p] = "write" /\ io' = [io EXCEPT ![p] = None]
      /\ refcnt' = [refcnt EXCEPT ![b] = IF k \in pinned THEN @ - 1 ELSE @]
      /\ pinned' = pinned \ {k} /\ pc' = [pc EXCEPT ![p] = "own"]
      /\ UNCHANGED <<platter, data, blockno, valid, lru, holder, buf>>
  BY DEF WriteDone, Block, Return
<1>a. b \in Bufs /\ k \in Blocks /\ holder[b] = p /\ valid[b]
  BY <1>0 DEF CInv, Types, ProcInv, ProcOK, Using
<1>b. blockno[b] = k /\ buf[p] = b
  BY DEF b, k
<1> HIDE DEF b, k
<1>6. ASSUME NEW c \in Bufs
      PROVE  /\ refcnt'[c] = Cardinality({q \in Procs : buf'[q] = c}) + (IF blockno'[c] \in pinned' THEN 1 ELSE 0)
             /\ refcnt'[c] \in Nat
  <2>1. Cardinality({q \in Procs : buf[q] = c}) \in Nat
    BY FS_Subset, FS_CardinalityType
  <2>2. refcnt[c] = Cardinality({q \in Procs : buf[q] = c}) + (IF blockno[c] \in pinned THEN 1 ELSE 0)
    BY Zenon DEF CInv, RefcntExact
  <2>3. refcnt'[c] = refcnt[c] - (IF c = b /\ k \in pinned THEN 1 ELSE 0)
    <3>1. refcnt \in [Bufs -> Nat] /\ refcnt[c] - 0 = refcnt[c]
      BY <2>1, <2>2 DEF CInv, Types
    <3>2. CASE c = b
      BY <1>0, <1>a, <3>1, <3>2
    <3>3. CASE c # b
      BY Zenon, <1>0, <1>a, <3>1, <3>3
    <3>4. QED
      BY <3>2, <3>3
  <2>4. blockno[c] = k <=> c = b
    BY <1>a, <1>b, Zenon DEF CInv, BufInv
  <2>5. QED
    BY ONLY <1>0, <2>1, <2>2, <2>3, <2>4
<1>7. RefcntExact'
  BY <1>6 DEF RefcntExact
<1>1. Types'
  <2>1. refcnt' \in [Bufs -> Nat]
    BY Zenon, <1>0, <1>6 DEF CInv, Types
  <2>2. QED
    BY <1>0, <2>1, Zenon DEF CInv, Types, Labels
<1>2. ListInv'
  BY <1>0, Zenon DEF CInv, ListInv
<1>3. ASSUME NEW q \in Procs PROVE ProcOK(q)'
  <2>1. CASE q = p
    BY Zenon, <1>0, <1>a, <1>b, <2>1 DEF CInv, Types, ProcInv, ProcOK, Using
  <2>2. CASE q # p
    BY <1>0, <2>2 DEF CInv, Types, ProcInv, ProcOK, Using
  <2>3. QED
    BY <2>1, <2>2
<1>4. BufInv'
  BY <1>0, <1>a, <1>b DEF CInv, Types, BufInv, Using
<1>5. PinInv'
  <2>1. IsFiniteSet(pinned') /\ Cardinality(pinned') <= Cardinality(pinned)
    BY <1>0, FS_Subset, Zenon DEF CInv, PinInv
  <2>2. Cardinality(pinned) \in Nat /\ Cardinality(pinned') \in Nat
    BY <2>1, FS_CardinalityType DEF CInv, PinInv
  <2>3. QED
    BY <1>0, <2>1, <2>2 DEF CInv, PinInv
<1>8. QED
  BY <1>1, <1>2, <1>3, <1>4, <1>5, <1>7 DEF CInv, ProcInv

\* The list after a buffer moved to its front is a list of the same buffers.
LEMMA MovedList ==
  ASSUME ListInv, NEW b \in Bufs
  PROVE  /\ Len(Moved(b)) = Len(lru) /\ Moved(b) \in [1..Len(lru) -> Bufs] /\ Range(Moved(b)) = Bufs
<1> DEFINE n == CHOOSE i \in 1..Len(lru) : lru[i] = b
           L == Moved(b)
<1>0. Len(lru) \in Nat
  BY BcacheAssumption, FS_CardinalityType DEF ListInv
<1>1. n \in 1..Len(lru) /\ lru[n] = b
  <2>1. \E i \in 1..Len(lru) : lru[i] = b
    BY DEF ListInv, Range
  <2>2. QED
    BY <2>1
<1>2. L = [i \in 1..Len(lru) |-> IF i = 1 THEN b ELSE IF i <= n THEN lru[i - 1] ELSE lru[i]]
  BY DEF Moved
<1> HIDE DEF n, L
<1>3. L \in [1..Len(lru) -> Bufs]
  BY <1>0, <1>1, <1>2 DEF ListInv
<1>4. L \in Seq(Bufs) /\ Len(L) = Len(lru) /\ DOMAIN L = 1..Len(lru) /\ DOMAIN lru = 1..Len(lru)
  BY <1>0, <1>3 DEF ListInv
<1>5. ASSUME NEW c \in Bufs PROVE \E i \in 1..Len(lru) : L[i] = c
  <2>1. PICK j \in 1..Len(lru) : lru[j] = c
    BY <1>4 DEF ListInv, Range
  <2>2. CASE j = n
    BY <1>0, <1>1, <1>2, <2>1, <2>2
  <2>3. CASE j < n
    <3>1. j + 1 \in 1..Len(lru) /\ j + 1 # 1 /\ j + 1 <= n /\ (j + 1) - 1 = j
      BY <1>0, <1>1, <2>3
    <3>2. L[j + 1] = lru[j]
      BY <1>2, <3>1
    <3>3. QED
      BY <2>1, <3>1, <3>2
  <2>4. CASE j > n
    BY <1>0, <1>1, <1>2, <2>1, <2>4
  <2>5. QED
    BY <1>0, <1>1, <2>2, <2>3, <2>4
<1>6. Range(L) = Bufs
  BY <1>3, <1>4, <1>5 DEF Range
<1>7. QED
  BY <1>3, <1>4, <1>6 DEF L

\* One process fewer refers to the buffer, which may move to the front.
LEMMA BrelsePutStep ==
  ASSUME CInv, NEW p \in Procs, BrelsePut(p)
  PROVE  CInv'
<1> USE BcacheAssumption
<1> DEFINE b == buf[p]
<1>0. /\ pc[p] = "put" /\ refcnt' = [refcnt EXCEPT ![b] = @ - 1]
      /\ lru' = IF refcnt[b] = 1 THEN Moved(b) ELSE lru
      /\ buf' = [buf EXCEPT ![p] = None] /\ pc' = [pc EXCEPT ![p] = "idle"]
      /\ UNCHANGED <<platter, data, io, blockno, valid, holder, pinned>>
  BY DEF BrelsePut, deviceVars
<1>a. b \in Bufs /\ io[p] = None
  BY <1>0, Zenon DEF CInv, Types, ProcInv, ProcOK
<1>b. buf[p] = b
  OBVIOUS
<1> HIDE DEF b
<1>6. ASSUME NEW c \in Bufs
      PROVE  /\ refcnt'[c] = Cardinality({q \in Procs : buf'[q] = c}) + (IF blockno'[c] \in pinned' THEN 1 ELSE 0)
             /\ refcnt'[c] \in Nat
  <2>1. Cardinality({q \in Procs : buf[q] = c}) \in Nat /\ Cardinality({q \in Procs : buf'[q] = c}) \in Nat
    BY Zenon, FS_Subset, FS_CardinalityType
  <2>2. refcnt[c] = Cardinality({q \in Procs : buf[q] = c}) + (IF blockno[c] \in pinned THEN 1 ELSE 0)
    BY Zenon DEF CInv, RefcntExact
  <2>3. refcnt'[c] = refcnt[c] - (IF b = c THEN 1 ELSE 0)
    <3>1. refcnt \in [Bufs -> Nat] /\ refcnt[c] - 0 = refcnt[c]
      BY <2>1, <2>2 DEF CInv, Types
    <3>2. CASE c = b
      BY Zenon, <1>0, <1>a, <3>1, <3>2
    <3>3. CASE c # b
      BY Zenon, <1>0, <1>a, <3>1, <3>3
    <3>4. QED
      BY <3>2, <3>3
  <2>4. Cardinality({q \in Procs : buf'[q] = c}) =
          Cardinality({q \in Procs : buf[q] = c}) - (IF b = c THEN 1 ELSE 0)
    BY Zenon, <1>0, <1>b, CountDrop DEF CInv
  <2>5. QED
    BY <1>0, <2>1, <2>2, <2>3, <2>4
<1>7. RefcntExact'
  BY <1>6 DEF RefcntExact
<1>1. Types'
  <2>1. refcnt' \in [Bufs -> Nat]
    BY Zenon, <1>0, <1>6 DEF CInv, Types
  <2>2. QED
    BY <1>0, <2>1, Zenon DEF CInv, Types, Labels
<1>2. ListInv'
  <2>1. CASE refcnt[b] = 1
    BY Zenon, <1>0, <1>a, <2>1, MovedList DEF CInv, ListInv
  <2>2. CASE refcnt[b] # 1
    BY <1>0, <2>2, Zenon DEF CInv, ListInv
  <2>3. QED
    BY <2>1, <2>2
<1>3. ASSUME NEW q \in Procs PROVE ProcOK(q)'
  <2>1. CASE q = p
    BY <1>0, <1>a, <2>1, Zenon DEF CInv, Types, ProcOK, Using
  <2>2. CASE q # p
    BY Zenon, <1>0, <2>2 DEF CInv, Types, ProcInv, ProcOK
  <2>3. QED
    BY <2>1, <2>2
<1>4. BufInv'
  BY <1>0, <1>a DEF CInv, Types, BufInv, Using
<1>5. PinInv'
  BY <1>0, Zenon DEF CInv, PinInv
<1>8. QED
  BY <1>1, <1>2, <1>3, <1>4, <1>5, <1>7 DEF CInv, ProcInv

-----------------------------------------------------------------------------
(* The theorems                                                            *)

\* binit puts every buffer on the list, once.
LEMMA InitList ==
  ASSUME lru = CHOOSE l \in Bijection(1..Cardinality(Bufs), Bufs) : TRUE
  PROVE  ListInv
<1> DEFINE n == Cardinality(Bufs)
<1>1. n \in Nat /\ ExistsBijection(1..n, Bufs)
  BY BcacheAssumption, FS_CardinalityType
<1>2. lru \in Bijection(1..n, Bufs)
  BY <1>1, Zenon DEF ExistsBijection
<1>3. lru \in [1..n -> Bufs] /\ \A b \in Bufs : \E i \in 1..n : lru[i] = b
  BY <1>2, Zenon DEF Bijection, Injection, Surjection
<1> HIDE DEF n
<1>4. Len(lru) = n /\ DOMAIN lru = 1..n
  BY <1>1, <1>3
<1>5. Range(lru) = Bufs
  BY Zenon, <1>3, <1>4 DEF Range
<1>6. QED
  BY Zenon, <1>3, <1>4, <1>5 DEF ListInv, n

LEMMA InitCInv ==
  ASSUME Init
  PROVE  CInv
<1> USE BcacheAssumption
<1>1. Types
  BY Zenon DEF Init, DeviceInit, Types, Labels
<1>2. ListInv
  BY InitList DEF Init
<1>3. ProcInv
  BY Zenon DEF Init, DeviceInit, ProcInv, ProcOK, Using
<1>4. BufInv
  BY DEF Init, BufInv
<1>5. PinInv
  BY FS_EmptySet DEF Init, PinInv
<1>6. RefcntExact
  <2>1. SUFFICES ASSUME NEW b \in Bufs
                 PROVE  refcnt[b] = Cardinality({p \in Procs : buf[p] = b}) + (IF blockno[b] \in pinned THEN 1 ELSE 0)
    BY Zenon DEF RefcntExact
  <2>2. {p \in Procs : buf[p] = b} = {} /\ refcnt[b] = 0 /\ blockno[b] \notin pinned
    BY DEF Init
  <2>3. QED
    BY <2>2, FS_EmptySet
<1>7. QED
  BY <1>1, <1>2, <1>3, <1>4, <1>5, <1>6 DEF CInv

LEMMA NextCInv ==
  ASSUME CInv, [Next]_vars
  PROVE  CInv'
<1>1. CASE UNCHANGED vars
  <2>1. UNCHANGED <<platter, data, io, blockno, valid, refcnt, lru, holder, pinned, pc, buf>>
    BY <1>1 DEF vars, deviceVars, cacheVars
  <2>2. Types' /\ ListInv' /\ BufInv' /\ PinInv'
    BY <2>1, Zenon DEF CInv, Types, ListInv, BufInv, PinInv
  <2>3. ProcInv' /\ RefcntExact'
    BY <2>1 DEF CInv, ProcInv, ProcOK, RefcntExact
  <2>4. QED
    BY <2>2, <2>3 DEF CInv
<1>2. CASE Next
  BY Zenon, <1>2, BgetHitStep, BgetMissStep, AcquireStep, SleepStep, KkillStep, ReadDoneStep, LogWriteStep,
     ModifyStep, BwriteStep, WriteDoneStep, BrelseStep, BrelsePutStep, DiskStep DEF Next
<1>3. QED
  BY <1>1, <1>2

LEMMA CInvAlways == Spec => []CInv
BY InitCInv, NextCInv, PTL DEF Spec

\* The buffers that processes have, and those of the log, are not all buffers
\* as long as one process has none.
LEMMA Available ==
  ASSUME CInv, NEW p \in Procs, pc[p] = "idle"
  PROVE  \E b \in Bufs : refcnt[b] = 0
<1> USE BcacheAssumption
<1>0. SUFFICES ASSUME \A b \in Bufs : refcnt[b] # 0 PROVE FALSE
  OBVIOUS
<1> DEFINE Q == Procs \ {p}
           U == {b \in Bufs : \E q \in Q : buf[q] = b}
           V == {b \in Bufs : blockno[b] \in pinned}
<1>1. IsFiniteSet(Q) /\ Cardinality(Q) = Cardinality(Procs) - 1
  BY Zenon, FS_RemoveElement
<1>2. IsFiniteSet(U) /\ Cardinality(U) <= Cardinality(Q)
  <2> DEFINE f == [b \in U |-> CHOOSE q \in Q : buf[q] = b]
  <2>1. f \in [U -> Q] /\ \A b \in U : buf[f[b]] = b
    BY Zenon
  <2>2. f \in Injection(U, Q)
    BY Zenon, <2>1 DEF Injection, IsInjective
  <2> HIDE DEF f, U, Q
  <2>3. QED
    BY Zenon, <1>1, <2>2, FS_Injection
<1>3. IsFiniteSet(V) /\ Cardinality(V) <= Cardinality(pinned)
  <2> DEFINE f == [b \in V |-> blockno[b]]
  <2>1. f \in [V -> pinned]
    OBVIOUS
  <2>2. f \in Injection(V, pinned)
    BY <2>1 DEF Injection, IsInjective, CInv, BufInv, Types
  <2> HIDE DEF f, V
  <2>3. QED
    BY <2>2, FS_Injection, Zenon DEF CInv, PinInv
<1>4. Bufs = U \cup V
  <2>1. ASSUME NEW b \in Bufs, b \notin V PROVE b \in U
    <3>1. refcnt[b] = Cardinality({q \in Procs : buf[q] = b}) + 0
      BY Zenon, <2>1 DEF CInv, RefcntExact
    <3>2. {q \in Procs : buf[q] = b} # {}
      BY ONLY <1>0, <3>1, FS_EmptySet
    <3>3. buf[p] # b
      BY Zenon DEF CInv, ProcInv, ProcOK
    <3>4. QED
      BY <3>2, <3>3
  <2>2. QED
    BY Zenon, <2>1
<1> HIDE DEF Q, U, V
<1>5. Cardinality(U \cup V) <= Cardinality(U) + Cardinality(V)
  <2>1. Cardinality(U \cup V) = Cardinality(U) + Cardinality(V) - Cardinality(U \cap V)
    BY Zenon, <1>2, <1>3, FS_Union
  <2>2. IsFiniteSet(U \cap V)
    BY <1>2, FS_Subset
  <2>3. QED
    BY ONLY <1>2, <1>3, <2>1, <2>2, FS_CardinalityType
<1>6. /\ Cardinality(U) \in Nat /\ Cardinality(V) \in Nat /\ Cardinality(Bufs) \in Nat
      /\ Cardinality(pinned) \in Nat /\ Cardinality(pinned) <= MAXPIN /\ Cardinality(Procs) \in Nat
  BY <1>2, <1>3, FS_CardinalityType, Zenon DEF CInv, PinInv
<1>7. QED
  BY <1>1, <1>2, <1>3, <1>4, <1>5, <1>6

\* bcache stays in order through every lookup, eviction, change, write-back and
\* release of any processes: the list holds each buffer once, no block has two
\* buffers, b->refcnt is the number of its users and of the log's pins, and bget
\* never comes to its panic("bget: no buffers").
THEOREM CacheConsistentAlways == Spec => []CacheConsistent
<1>1. ASSUME CInv PROVE CacheConsistent
  <2>1. TypeOK
    BY <1>1, Zenon DEF CInv, Types, ListInv, TypeOK
  <2>2. OneBufferPerBlock
    <3>1. SUFFICES ASSUME NEW k \in Blocks PROVE Cardinality({b \in Bufs : blockno[b] = k}) <= 1
      BY DEF OneBufferPerBlock
    <3>2. CASE \A b \in Bufs : blockno[b] # k
      <4>1. {b \in Bufs : blockno[b] = k} = {}
        BY <3>2
      <4>2. QED
        BY <4>1, FS_EmptySet
    <3>3. CASE \E b \in Bufs : blockno[b] = k
      <4>1. PICK b \in Bufs : blockno[b] = k
        BY <3>3
      <4>2. {c \in Bufs : blockno[c] = k} = {b}
        BY <1>1, <4>1, BcacheAssumption, Zenon DEF CInv, BufInv
      <4>3. QED
        BY ONLY <4>2, FS_Singleton
    <3>4. QED
      BY <3>2, <3>3
  <2>3. BufferAvailable
    BY <1>1, Available DEF BufferAvailable
  <2>4. QED
    BY <1>1, <2>1, <2>2, <2>3 DEF CInv, CacheConsistent
<1>2. QED
  BY <1>1, CInvAlways, PTL

\* Nobody is left asleep on the sleep-lock of a buffer that has no holder: the
\* test and the sleep of acquiresleep, and the wakeup of releasesleep, are each
\* under the lock's spinlock.
THEOREM NoStrandedSleeperAlways == Spec => []NoStrandedSleeper
<1>1. ASSUME CInv PROVE NoStrandedSleeper
  BY <1>1, Zenon DEF CInv, ProcInv, ProcOK, NoStrandedSleeper
<1>2. QED
  BY <1>1, CInvAlways, PTL

-----------------------------------------------------------------------------
\* A buffer that is neither in the log nor being changed has the contents of its
\* block on disk, and so has one whose transfer is done.
DataInv ==
  /\ \A b \in Bufs :
       valid[b] /\ blockno[b] \notin pinned /\ (\A p \in Procs : buf[p] = b => pc[p] \notin {"dirty", "write"})
         => data[b] = platter[blockno[b]]
  /\ \A p \in Procs : pc[p] \in {"read", "write"} /\ io[p].done => data[buf[p]] = platter[blockno[buf[p]]]

\* A process inside the cache has a buffer of some block.
LEMMA UsedBuf ==
  ASSUME CInv, NEW q \in Procs, pc[q] # "idle"
  PROVE  buf[q] \in Bufs /\ blockno[buf[q]] \in Blocks /\ ProcOK(q)
<1>1. ProcOK(q) /\ buf[q] \in Bufs \cup {None}
  BY Zenon DEF CInv, ProcInv, Types
<1>2. QED
  BY ONLY <1>1, pc[q] # "idle", Zenon DEF ProcOK

LEMMA InitData == Init => DataInv
BY DEF Init, DeviceInit, DataInv

\* A step that leaves the data and the disk alone, and moves no buffer out of the
\* exceptions.
LEMMA DataFrame ==
  ASSUME CInv, DataInv, UNCHANGED <<platter, data, blockno, valid, pinned>>,
         \A p \in Procs : /\ pc[p] \in {"dirty", "write"} => pc'[p] \in {"dirty", "write"} /\ buf'[p] = buf[p]
                          /\ pc'[p] \in {"read", "write"} /\ io'[p].done =>
                               pc[p] \in {"read", "write"} /\ io[p].done /\ buf'[p] = buf[p]
  PROVE  DataInv'
<1>1. ASSUME NEW b \in Bufs, valid'[b], blockno'[b] \notin pinned',
             \A q \in Procs : buf'[q] = b => pc'[q] \notin {"dirty", "write"}
      PROVE  data'[b] = platter'[blockno'[b]]
  <2>1. \A q \in Procs : buf[q] = b => pc[q] \notin {"dirty", "write"}
    BY Zenon, <1>1
  <2>2. QED
    BY <1>1, <2>1, Zenon DEF DataInv
<1>2. ASSUME NEW q \in Procs, pc'[q] \in {"read", "write"}, io'[q].done
      PROVE  data'[buf'[q]] = platter'[blockno'[buf'[q]]]
  BY <1>2 DEF DataInv
<1>3. QED
  BY <1>1, <1>2, Zenon DEF DataInv

LEMMA DataBgetMiss ==
  ASSUME CInv, DataInv, NEW p \in Procs, NEW k \in Blocks, BgetMiss(p, k)
  PROVE  DataInv'
<1> USE BcacheAssumption
<1>0. PICK b \in Bufs : /\ refcnt[b] = 0
                        /\ blockno' = [blockno EXCEPT ![b] = k] /\ valid' = [valid EXCEPT ![b] = FALSE]
                        /\ buf' = [buf EXCEPT ![p] = b]
  <2>1. PICK n \in 1..Len(lru) :
          /\ refcnt[lru[n]] = 0
          /\ blockno' = [blockno EXCEPT ![lru[n]] = k] /\ valid' = [valid EXCEPT ![lru[n]] = FALSE]
          /\ buf' = [buf EXCEPT ![p] = lru[n]]
    BY Zenon DEF BgetMiss, Recycled
  <2>2. lru[n] \in Bufs
    BY <2>1, Zenon DEF CInv, ListInv
  <2>3. QED
    BY <2>1, <2>2, Zenon
<1>a. pc' = [pc EXCEPT ![p] = "lock"] /\ pc[p] = "idle" /\ UNCHANGED <<platter, data, io, pinned>>
  BY Zenon DEF BgetMiss, deviceVars
<1>c. \A q \in Procs : buf[q] # b
  BY <1>0, Unused
<1>1. ASSUME NEW c \in Bufs, valid'[c], blockno'[c] \notin pinned',
             \A q \in Procs : buf'[q] = c => pc'[q] \notin {"dirty", "write"}
      PROVE  data'[c] = platter'[blockno'[c]]
  <2>1. c # b /\ valid[c] /\ blockno'[c] = blockno[c]
    BY <1>0, <1>1, Zenon DEF CInv, Types
  <2>2. \A q \in Procs : buf[q] = c => pc[q] \notin {"dirty", "write"}
    BY ONLY <1>0, <1>1, <1>a, <2>1 DEF CInv, Types
  <2>3. QED
    BY <1>1, <1>a, <2>1, <2>2, Zenon DEF DataInv
<1>2. ASSUME NEW q \in Procs, pc'[q] \in {"read", "write"}, io'[q].done
      PROVE  data'[buf'[q]] = platter'[blockno'[buf'[q]]]
  <2>1. q # p /\ pc[q] = pc'[q] /\ buf'[q] = buf[q]
    BY <1>0, <1>2, <1>a, Zenon DEF CInv, Types
  <2>2. buf[q] \in Bufs /\ blockno'[buf[q]] = blockno[buf[q]]
    <3>1. pc[q] # "idle"
      BY ONLY <1>2, <2>1, Zenon
    <3>2. buf[q] \in Bufs
      BY <3>1, UsedBuf, Zenon
    <3>3. blockno \in [Bufs -> Blocks \cup {None}]
      BY ONLY CInv, Zenon DEF CInv, Types
    <3>4. QED
      BY ONLY <1>0, <1>c, <3>2, <3>3, Zenon
  <2>3. platter' = platter /\ data' = data /\ io' = io
    BY ONLY <1>a
  <2>4. data[buf[q]] = platter[blockno[buf[q]]]
    BY ONLY DataInv, <1>2, <2>1, <2>3, Zenon DEF DataInv
  <2>5. QED
    BY ONLY <2>1, <2>2, <2>3, <2>4, Zenon
<1>3. QED
  BY <1>1, <1>2, Zenon DEF DataInv

\* A new block in the log, or a change that bwrite must follow: only the
\* caller's own buffer changes.
LEMMA DataFill ==
  ASSUME CInv, DataInv, NEW p \in Procs, LogWrite(p) \/ Modify(p)
  PROVE  DataInv'
<1> USE BcacheAssumption
<1> DEFINE b == buf[p]
<1>0. /\ pc[p] = "own" /\ UNCHANGED <<platter, io, blockno, valid, buf>>
      /\ \/ pinned' = pinned \cup {blockno[b]} /\ pc' = pc
         \/ pinned' = pinned /\ pc' = [pc EXCEPT ![p] = "dirty"]
  BY Zenon DEF LogWrite, Modify, Fill, Block, cacheVars
<1>1. b \in Bufs /\ holder[b] = p /\ buf[p] = b
  <2>1. pc[p] # "idle"
    BY ONLY <1>0, Zenon
  <2>2. b \in Bufs /\ ProcOK(p)
    BY <2>1, UsedBuf, Zenon
  <2>3. QED
    BY ONLY <1>0, <2>2, Zenon DEF ProcOK, Using
<1>2. \A c \in Bufs : c # b => data'[c] = data[c]
  BY <1>1, Zenon DEF LogWrite, Modify, Fill, CInv, Types
<1> HIDE DEF b
<1>3. ASSUME NEW c \in Bufs, valid'[c], blockno'[c] \notin pinned',
             \A q \in Procs : buf'[q] = c => pc'[q] \notin {"dirty", "write"}
      PROVE  data'[c] = platter'[blockno'[c]]
  <2>1. c # b
    BY <1>0, <1>1, <1>3 DEF CInv, Types
  <2>2. blockno[c] \notin pinned /\ \A q \in Procs : buf[q] = c => pc[q] \notin {"dirty", "write"}
    BY <1>0, <1>1, <1>3, <2>1, ZenonT(60) DEF CInv, Types
  <2>3. QED
    BY Zenon, <1>0, <1>2, <1>3, <2>1, <2>2 DEF DataInv
<1>4. ASSUME NEW q \in Procs, pc'[q] \in {"read", "write"}, io'[q].done
      PROVE  data'[buf'[q]] = platter'[blockno'[buf'[q]]]
  <2>1. q # p /\ pc[q] = pc'[q]
    BY <1>0, <1>4, Zenon DEF CInv, Types
  <2>2. buf[q] \in Bufs /\ buf[q] # b
    <3>1. pc[q] # "idle" /\ pc[q] \in Using
      BY ONLY <1>4, <2>1, Zenon DEF Using
    <3>2. buf[q] \in Bufs /\ ProcOK(q)
      BY <3>1, UsedBuf, Zenon
    <3>3. holder[buf[q]] = q
      BY ONLY <3>1, <3>2, Zenon DEF ProcOK
    <3>4. QED
      BY ONLY <1>1, <2>1, <3>2, <3>3, Zenon
  <2>3. platter' = platter /\ io' = io /\ blockno' = blockno /\ buf' = buf
    BY ONLY <1>0
  <2>4. data[buf[q]] = platter[blockno[buf[q]]]
    BY ONLY DataInv, <1>4, <2>1, <2>3, Zenon DEF DataInv
  <2>5. QED
    BY ONLY <1>2, <2>2, <2>3, <2>4, Zenon
<1>5. QED
  BY Zenon, <1>3, <1>4 DEF DataInv

\* The transfer has made buffer and block equal.
LEMMA DataDone ==
  ASSUME CInv, DataInv, NEW p \in Procs, ReadDone(p) \/ WriteDone(p)
  PROVE  DataInv'
<1> USE BcacheAssumption
<1> DEFINE b == buf[p]
           k == blockno[buf[p]]
<1>0. /\ pc[p] \in {"read", "write"} /\ io[p].done /\ pc' = [pc EXCEPT ![p] = "own"] /\ io' = [io EXCEPT ![p] = None]
      /\ UNCHANGED <<platter, data, blockno, buf>>
      /\ \/ pinned' = pinned \ {k} /\ valid' = valid
         \/ pinned' = pinned /\ valid' = [valid EXCEPT ![b] = TRUE]
  BY Zenon DEF ReadDone, WriteDone, Return, Block
<1>1. b \in Bufs /\ holder[b] = p /\ buf[p] = b /\ blockno[b] = k /\ k \in Blocks
  BY <1>0, Zenon DEF CInv, Types, ProcInv, ProcOK, Using
<1>2. data[b] = platter[k]
  BY <1>0, Zenon DEF DataInv
<1> HIDE DEF b, k
<1>3. ASSUME NEW c \in Bufs, valid'[c], blockno'[c] \notin pinned',
             \A q \in Procs : buf'[q] = c => pc'[q] \notin {"dirty", "write"}
      PROVE  data'[c] = platter'[blockno'[c]]
  <2>1. CASE c = b
    BY Zenon, <1>0, <1>1, <1>2, <2>1
  <2>2. CASE c # b
    <3>1. valid[c] /\ blockno[c] # None
      BY <1>0, <1>1, <1>3, <2>2 DEF CInv, Types, BufInv
    <3>2. blockno[c] # k
      BY <1>1, <2>2, <3>1, Zenon DEF CInv, BufInv
    <3>3. blockno[c] \notin pinned
      BY <1>0, <1>3, <3>2
    <3>4. \A q \in Procs : buf[q] = c => pc[q] \notin {"dirty", "write"}
      BY ONLY <1>0, <1>1, <1>3, <2>2 DEF CInv, Types
    <3>5. QED
      BY <1>0, <3>1, <3>3, <3>4, Zenon DEF DataInv
  <2>3. QED
    BY <2>1, <2>2
<1>4. ASSUME NEW q \in Procs, pc'[q] \in {"read", "write"}, io'[q].done
      PROVE  data'[buf'[q]] = platter'[blockno'[buf'[q]]]
  <2>1. q # p /\ pc[q] = pc'[q] /\ io'[q] = io[q]
    BY <1>0, <1>4, Zenon DEF CInv, Types
  <2>2. QED
    BY <1>0, <1>4, <2>1, Zenon DEF DataInv
<1>5. QED
  BY <1>3, <1>4, Zenon DEF DataInv
\* The disk's step makes buffer and block equal, and touches no others.
LEMMA DataDisk ==
  ASSUME CInv, DataInv, NEW p \in Procs, DiskTransfer(p)
  PROVE  DataInv'
<1> USE BcacheAssumption
<1> DEFINE b == buf[p]
           k == blockno[buf[p]]
<1>0. UNCHANGED <<blockno, pinned, buf, pc, holder, valid>>
  BY Zenon DEF DiskTransfer, cacheVars
<1>1. /\ b \in Bufs /\ holder[b] = p /\ buf[p] = b /\ blockno[b] = k /\ k \in Blocks /\ pc[p] \in {"read", "write"}
      /\ io[p].b = b /\ io[p].k = k /\ (io[p].w <=> pc[p] = "write") /\ (pc[p] = "read" => ~valid[b])
  BY DEF CInv, Types, ProcInv, ProcOK, Using, DiskTransfer, Transfer
<1>2. \A q \in Procs \ {p} : io'[q] = io[q]
  BY Transferred, Zenon DEF CInv, DiskTransfer
<1>3. \/ pc[p] = "write" /\ platter' = [platter EXCEPT ![k] = data[b]] /\ data' = data
      \/ pc[p] = "read" /\ data' = [data EXCEPT ![b] = platter[k]] /\ platter' = platter
  BY <1>1 DEF DiskTransfer, Transfer
<1>4. data \in [Bufs -> Vals] /\ platter \in [Blocks -> Vals]
  BY Zenon DEF CInv, Types
<1> HIDE DEF b, k
<1>5. /\ data'[b] = platter'[k]
      /\ \A c \in Bufs : c # b /\ blockno[c] # k => data'[c] = data[c] /\ (blockno[c] \in Blocks => platter'[blockno[c]] = platter[blockno[c]])
  BY ONLY <1>1, <1>3, <1>4
<1>6. \A c \in Bufs : c # b => blockno[c] # k
  BY <1>1 DEF CInv, BufInv
<1>7. ASSUME NEW c \in Bufs, valid'[c], blockno'[c] \notin pinned',
             \A q \in Procs : buf'[q] = c => pc'[q] \notin {"dirty", "write"}
      PROVE  data'[c] = platter'[blockno'[c]]
  <2>1. CASE c = b
    BY Zenon, <1>0, <1>1, <1>5, <2>1
  <2>2. CASE c # b
    <3>1. blockno[c] \in Blocks
      BY <1>0, <1>7, Zenon DEF CInv, BufInv, Types
    <3>2. data[c] = platter[blockno[c]]
      BY <1>0, <1>7, Zenon DEF DataInv
    <3>3. QED
      BY Zenon, <1>0, <1>5, <1>6, <2>2, <3>1, <3>2
  <2>3. QED
    BY Zenon, <2>1, <2>2
<1>8. ASSUME NEW q \in Procs, pc'[q] \in {"read", "write"}, io'[q].done
      PROVE  data'[buf'[q]] = platter'[blockno'[buf'[q]]]
  <2>1. CASE q = p
    BY Zenon, <1>0, <1>1, <1>5, <2>1
  <2>2. CASE q # p
    <3>1. buf[q] \in Bufs /\ holder[buf[q]] = q /\ blockno[buf[q]] \in Blocks
      BY <1>0, <1>8, Zenon DEF CInv, Types, ProcInv, ProcOK, Using
    <3>2. data[buf[q]] = platter[blockno[buf[q]]]
      BY <1>0, <1>2, <1>8, <2>2, Zenon DEF DataInv
    <3>3. buf[q] # b
      BY Zenon, <1>1, <2>2, <3>1
    <3>4. QED
      BY Zenon, <1>0, <1>5, <1>6, <3>1, <3>2, <3>3
  <2>3. QED
    BY Zenon, <2>1, <2>2
<1>9. QED
  BY <1>7, <1>8, Zenon DEF DataInv

LEMMA NextData == CInv /\ DataInv /\ [Next]_vars => DataInv'
<1> SUFFICES ASSUME CInv, DataInv, [Next]_vars PROVE DataInv'
  OBVIOUS
<1> USE BcacheAssumption
<1>1. CASE UNCHANGED vars
  BY <1>1, Zenon DEF DataInv, vars, deviceVars, cacheVars
<1>2. ASSUME NEW p \in Procs, NEW k \in Blocks, BgetHit(p, k) PROVE DataInv'
  <2>1. /\ UNCHANGED <<platter, data, io, blockno, valid, pinned>> /\ pc[p] = "idle"
        /\ pc' = [pc EXCEPT ![p] = "lock"] /\ \E b \in Bufs : buf' = [buf EXCEPT ![p] = b]
    BY <1>2, Zenon DEF BgetHit, deviceVars, Cached
  <2>2. \A q \in Procs \ {p} : pc'[q] = pc[q] /\ buf'[q] = buf[q]
    BY <2>1, Zenon DEF CInv, Types
  <2>3. pc'[p] = "lock"
    BY <2>1, Zenon DEF CInv, Types
  <2>4. QED
    BY Zenon, <2>1, <2>2, <2>3, DataFrame
<1>3. ASSUME NEW p \in Procs, Sleep(p) \/ Kkill(p) \/ Brelse(p) PROVE DataInv'
  <2>1. /\ UNCHANGED <<platter, data, io, blockno, valid, pinned, buf>> /\ pc[p] \in {"lock", "asleep", "own"}
        /\ \A q \in Procs : \/ pc'[q] = pc[q]
                            \/ pc[q] \in {"lock", "asleep", "own"} /\ pc'[q] \in {"lock", "asleep", "put"}
    BY <1>3, Zenon DEF Sleep, Kkill, Brelse, Woken, deviceVars, cacheVars, CInv, Types
  <2>2. QED
    BY Zenon, <2>1, DataFrame
<1>4. ASSUME NEW p \in Procs, BrelsePut(p) PROVE DataInv'
  <2>1. /\ UNCHANGED <<platter, data, io, blockno, valid, pinned>> /\ pc[p] = "put"
        /\ pc' = [pc EXCEPT ![p] = "idle"] /\ buf' = [buf EXCEPT ![p] = None]
    BY <1>4 DEF BrelsePut, deviceVars
  <2>2. pc'[p] = "idle" /\ \A q \in Procs \ {p} : pc'[q] = pc[q] /\ buf'[q] = buf[q]
    BY <2>1, Zenon DEF CInv, Types
  <2>3. QED
    BY Zenon, <2>1, <2>2, DataFrame
<1>5. ASSUME NEW p \in Procs, Acquire(p) \/ Bwrite(p) PROVE DataInv'
  <2>1. /\ UNCHANGED <<platter, data, blockno, valid, pinned, buf>>
        /\ \A q \in Procs \ {p} : pc'[q] = pc[q]
        /\ \/ pc[p] = "lock" /\ pc'[p] = "own" /\ io' = io
           \/ pc[p] = "lock" /\ pc'[p] = "read" /\ Submit(p, buf[p], blockno[buf[p]], FALSE)
           \/ pc[p] \in {"own", "dirty"} /\ pc'[p] = "write" /\ Submit(p, buf[p], blockno[buf[p]], TRUE)
    <3>1. pc \in [Procs -> Labels]
      BY ONLY CInv, Zenon DEF CInv, Types
    <3>2. CASE Acquire(p)
      <4>1. /\ UNCHANGED <<platter, data, blockno, valid, pinned, buf>> /\ pc[p] = "lock"
            /\ \/ pc' = [pc EXCEPT ![p] = "own"] /\ io' = io
               \/ /\ pc' = [pc EXCEPT ![p] = "read"]
                  /\ Submit(p, buf[p], blockno[buf[p]], FALSE)
        BY ONLY <3>2 DEF Acquire, Submit, deviceVars
      <4>2. QED
        BY ONLY <3>1, <4>1, p \in Procs, Zenon
    <3>3. CASE Bwrite(p)
      <4>1. /\ UNCHANGED <<platter, data, blockno, valid, pinned, buf>> /\ pc[p] \in {"own", "dirty"}
            /\ pc' = [pc EXCEPT ![p] = "write"] /\ Submit(p, buf[p], blockno[buf[p]], TRUE)
        BY ONLY <3>3 DEF Bwrite, Submit, Block, cacheVars
      <4>2. QED
        BY ONLY <3>1, <4>1, p \in Procs, Zenon
    <3>4. QED
      BY ONLY <1>5, <3>2, <3>3, Zenon
  <2>2. buf[p] \in Bufs /\ blockno[buf[p]] \in Blocks
    BY <2>1, Zenon DEF CInv, Types, ProcInv, ProcOK
  <2>3. (\A q \in Procs \ {p} : io'[q] = io[q]) /\ (pc'[p] = "own" \/ ~io'[p].done)
    BY <2>1, <2>2, Submitted, Zenon DEF CInv
  <2>4. QED
    BY <2>1, <2>3, DataFrame, ZenonT(60)
<1>6. QED
  BY <1>1, <1>2, <1>3, <1>4, <1>5, DataBgetMiss, DataFill, DataDone, DataDisk, Zenon DEF Next

\* What the refinement mapping maps to.
Mapped ==
  /\ Content = [k \in Blocks |-> Content[k]] /\ Owner = [k \in Blocks |-> Owner[k]]
  /\ \A b \in Bufs : valid[b] => blockno[b] \in Blocks /\ Content[blockno[b]] = data[b]
  /\ \A k \in Blocks : (\A b \in Bufs : blockno[b] = k => ~valid[b]) => Content[k] = platter[k]
  /\ \A p \in Procs : Holding(p) => Block(p) \in Blocks /\ Owner[Block(p)] = p
  /\ \A k \in Blocks : (\A p \in Procs : Holding(p) => Block(p) # k) => Owner[k] = None

\* A process that holds a block uses a buffer.
LEMMA HoldingBuf ==
  ASSUME CInv, NEW q \in Procs, Holding(q)
  PROVE  buf[q] \in Bufs /\ pc[q] # "idle"
<1>1. pc[q] # "idle"
  BY ONLY Holding(q), Zenon DEF Holding
<1>2. ProcOK(q) /\ buf[q] \in Bufs \cup {None}
  BY Zenon DEF CInv, ProcInv, Types
<1>3. QED
  BY ONLY <1>1, <1>2, Zenon DEF ProcOK

LEMMA MappedAlways == CInv => Mapped
<1> SUFFICES ASSUME CInv PROVE Mapped
  OBVIOUS
<1> USE BcacheAssumption
<1>1. Content = [k \in Blocks |-> Content[k]] /\ Owner = [k \in Blocks |-> Owner[k]]
  BY Zenon DEF Content, Owner
<1>2. ASSUME NEW b \in Bufs, valid[b] PROVE blockno[b] \in Blocks /\ Content[blockno[b]] = data[b]
  <2>1. blockno[b] \in Blocks
    BY <1>2, Zenon DEF CInv, Types, BufInv
  <2>2. \A c \in Bufs : blockno[c] = blockno[b] => c = b
    BY <2>1, Zenon DEF CInv, BufInv
  <2>3. (CHOOSE c \in Bufs : blockno[c] = blockno[b] /\ valid[c]) = b
    BY Zenon, <1>2, <2>2
  <2>4. QED
    BY <1>2, <2>1, <2>3, Zenon DEF Content
<1>3. ASSUME NEW k \in Blocks, \A b \in Bufs : blockno[b] = k => ~valid[b] PROVE Content[k] = platter[k]
  BY <1>3, Zenon DEF Content
<1>4. ASSUME NEW p \in Procs, Holding(p) PROVE Block(p) \in Blocks /\ Owner[Block(p)] = p
  <2>1. \A q \in Procs : Holding(q) => buf[q] \in Bufs /\ blockno[buf[q]] \in Blocks /\ holder[buf[q]] = q
    <3> SUFFICES ASSUME NEW q \in Procs, Holding(q)
                 PROVE  buf[q] \in Bufs /\ blockno[buf[q]] \in Blocks /\ holder[buf[q]] = q
      OBVIOUS
    <3>1. buf[q] \in Bufs
      BY HoldingBuf, Zenon
    <3>2. ProcOK(q)
      BY ONLY CInv, q \in Procs, Zenon DEF CInv, ProcInv
    <3>3. buf[q] # None
      BY <3>1, BcacheAssumption, Zenon
    <3>4. QED
      BY ONLY <3>1, <3>2, <3>3, Holding(q), Zenon DEF ProcOK, Holding, Using
  <2>2. \A q \in Procs : Holding(q) /\ Block(q) = Block(p) => q = p
    BY <1>4, <2>1 DEF CInv, BufInv, Block
  <2>3. (CHOOSE q \in Procs : Holding(q) /\ Block(q) = Block(p)) = p
    BY <1>4, <2>2
  <2>4. QED
    BY <1>4, <2>1, <2>3, Zenon DEF Owner, Block
<1>5. ASSUME NEW k \in Blocks, \A p \in Procs : Holding(p) => Block(p) # k PROVE Owner[k] = None
  BY <1>5 DEF Owner
<1>6. QED
  BY <1>1, <1>2, <1>3, <1>4, <1>5, Zenon DEF Mapped

LEMMA InitStore == Init => Store!StoreInit
<1> SUFFICES ASSUME Init PROVE Store!StoreInit
  OBVIOUS
<1>1. \A b \in Bufs : ~valid[b]
  BY DEF Init
<1>2. \A p \in Procs : ~Holding(p)
  BY Zenon DEF Init, Holding
<1>3. Content = [k \in Blocks |-> platter[k]]
  BY <1>1 DEF Content
<1>4. Owner = [k \in Blocks |-> None]
  BY <1>2 DEF Owner
<1>5. platter \in [Blocks -> Vals]
  BY DEF Init, DeviceInit
<1>6. QED
  BY <1>3, <1>4, <1>5 DEF Store!StoreInit

\* The locks that the store shows stay, and all buffers keep what they had.
LEMMA OwnerFrame ==
  ASSUME Mapped, Mapped', \A q \in Procs : Holding(q)' <=> Holding(q),
         \A q \in Procs : Holding(q) => Block(q)' = Block(q)
  PROVE  Owner' = Owner
<1>1. ASSUME NEW k \in Blocks PROVE Owner'[k] = Owner[k]
  <2>1. CASE \E q \in Procs : Holding(q) /\ Block(q) = k
    <3>1. PICK q \in Procs : Holding(q) /\ Block(q) = k
      BY <2>1
    <3>2. Owner[k] = q
      BY <3>1, Zenon DEF Mapped
    <3>3. Holding(q)' /\ Block(q)' = k
      BY <3>1
    <3>4. Owner'[k] = q
      BY <3>3, Zenon DEF Mapped
    <3>5. QED
      BY Zenon, <3>2, <3>4
  <2>2. CASE \A q \in Procs : Holding(q) => Block(q) # k
    BY <2>2 DEF Mapped
  <2>3. QED
    BY Zenon, <2>1, <2>2
<1>2. QED
  BY <1>1, Zenon DEF Mapped

LEMMA ContentFrame ==
  ASSUME Mapped, Mapped', UNCHANGED <<platter, data, blockno, valid>>
  PROVE  Content' = Content
BY Zenon DEF Content
\* A process comes to hold the lock of its block.
LEMMA LockStep ==
  ASSUME CInv, Mapped, CInv', Mapped', NEW p \in Procs, ~Holding(p), Holding(p)',
         blockno' = blockno, buf' = buf, holder'[buf[p]] = p, holder[buf[p]] \in {None, p},
         \A q \in Procs \ {p} : Holding(q)' <=> Holding(q), Content' = Content
  PROVE  Store!StoreNext
<1> USE BcacheAssumption
<1> DEFINE k == Block(p)
<1>0. \A q \in Procs : Block(q)' = Block(q)
  BY Zenon DEF Block
<1>1. k \in Blocks /\ Owner'[k] = p
  BY <1>0 DEF Mapped
<1>2. ASSUME NEW q \in Procs, Holding(q) PROVE Block(q) # k
  <2>1. q # p /\ buf[q] \in Bufs
    BY <1>2, HoldingBuf, Zenon
  <2>2. holder[buf[q]] = q
    BY ONLY CInv, <1>2, Zenon DEF CInv, ProcInv, ProcOK, Using, Holding
  <2>3. Block(q) \in Blocks
    BY ONLY Mapped, <1>2, Zenon DEF Mapped
  <2>4. buf[p] \in Bufs
    <3>1. pc'[p] # "idle"
      BY ONLY Holding(p)', Zenon DEF Holding
    <3>2. ProcOK(p)' /\ buf'[p] \in Bufs \cup {None}
      BY ONLY CInv', p \in Procs, Zenon DEF CInv, ProcInv, Types
    <3>3. QED
      BY ONLY <3>1, <3>2, buf' = buf, Zenon DEF ProcOK
  <2>5. buf[q] # buf[p]
    BY <2>1, <2>2, BcacheAssumption, Zenon
  <2>6. None \notin Blocks
    BY BcacheAssumption, Zenon
  <2>7. \A b, c \in Bufs : blockno[b] = blockno[c] /\ blockno[b] # None => b = c
    BY ONLY CInv, Zenon DEF CInv, BufInv
  <2>8. QED
    BY ONLY <2>1, <2>3, <2>4, <2>5, <2>6, <2>7, Zenon DEF Block
<1>3. Owner[k] = None
  BY <1>1, <1>2, Zenon DEF Mapped
<1>4. ASSUME NEW j \in Blocks, j # k PROVE Owner'[j] = Owner[j]
  <2>1. CASE \E q \in Procs : Holding(q) /\ Block(q) = j
    <3>1. PICK q \in Procs : Holding(q) /\ Block(q) = j
      BY <2>1
    <3>2. Holding(q)' /\ Block(q)' = j
      BY Zenon, <3>1, <1>0
    <3>3. Owner[j] = q
      BY <3>1, Zenon DEF Mapped
    <3>4. Owner'[j] = q
      BY <3>2, Zenon DEF Mapped
    <3>5. QED
      BY <3>3, <3>4
  <2>2. CASE \A q \in Procs : Holding(q) => Block(q) # j
    <3>1. \A q \in Procs : Holding(q)' => Block(q)' # j
      BY Zenon, <2>2, <1>0, <1>4
    <3>2. QED
      BY <2>2, <3>1, Zenon DEF Mapped
  <2>3. QED
    BY Zenon, <2>1, <2>2
<1> HIDE DEF k
<1>5. Owner' = [Owner EXCEPT ![k] = p]
  BY <1>1, <1>4 DEF Mapped
<1>6. Store!Lock(p, k)
  BY <1>3, <1>5, Zenon DEF Store!Lock
<1>7. QED
  BY <1>1, <1>6, Zenon DEF Store!StoreNext

\* brelse gives it up.
LEMMA UnlockStep ==
  ASSUME CInv, Mapped, Mapped', NEW p \in Procs, Brelse(p)
  PROVE  Store!StoreNext
<1> USE BcacheAssumption
<1> DEFINE k == Block(p)
<1>0. /\ UNCHANGED <<platter, data, blockno, valid, buf>> /\ pc[p] = "own" /\ pc'[p] = "put"
      /\ \A q \in Procs \ {p} : pc'[q] = pc[q] \/ (pc[q] = "asleep" /\ pc'[q] = "lock")
  BY Zenon DEF Brelse, Woken, deviceVars, CInv, Types
<1>1. Content' = Content
  BY Zenon, <1>0, ContentFrame
<1>2. /\ Holding(p) /\ ~Holding(p)' /\ \A q \in Procs \ {p} : Holding(q)' <=> Holding(q)
      /\ \A q \in Procs : Block(q)' = Block(q)
  BY <1>0, Zenon DEF Holding, Block
<1>3. k \in Blocks /\ Owner[k] = p
  BY <1>2, Zenon DEF Mapped
<1>4. ASSUME NEW q \in Procs, Holding(q)' PROVE Block(q)' # k
  <2>1. q # p /\ Holding(q) /\ Block(q)' = Block(q)
    BY Zenon, <1>2, <1>4
  <2>2. Owner[Block(q)] = q
    BY <2>1, Zenon DEF Mapped
  <2>3. QED
    BY Zenon, <1>3, <2>1, <2>2
<1>5. Owner'[k] = None
  BY <1>3, <1>4, Zenon DEF Mapped
<1>6. ASSUME NEW j \in Blocks, j # k PROVE Owner'[j] = Owner[j]
  <2>1. CASE \E q \in Procs : Holding(q) /\ Block(q) = j
    <3>1. PICK q \in Procs : Holding(q) /\ Block(q) = j
      BY Zenon, <2>1
    <3>2. Holding(q)' /\ Block(q)' = j
      BY Zenon, <3>1, <1>2, <1>6
    <3>3. Owner[j] = q
      BY <3>1, Zenon DEF Mapped
    <3>4. Owner'[j] = q
      BY <3>2, Zenon DEF Mapped
    <3>5. QED
      BY Zenon, <3>3, <3>4
  <2>2. CASE \A q \in Procs : Holding(q) => Block(q) # j
    <3>1. \A q \in Procs : Holding(q)' => Block(q)' # j
      BY Zenon, <2>2, <1>2
    <3>2. QED
      BY <2>2, <3>1, Zenon DEF Mapped
  <2>3. QED
    BY Zenon, <2>1, <2>2
<1> HIDE DEF k
<1>7. Owner' = [Owner EXCEPT ![k] = None]
  BY <1>3, <1>5, <1>6 DEF Mapped
<1>8. Store!Unlock(p, k)
  BY <1>1, <1>3, <1>7, Zenon DEF Store!Unlock
<1>9. QED
  BY <1>3, <1>8, Zenon DEF Store!StoreNext

\* The data of the caller's block change.
LEMMA ChangeStep ==
  ASSUME CInv, Mapped, Mapped', NEW p \in Procs, LogWrite(p) \/ Modify(p)
  PROVE  Store!StoreNext
<1> USE BcacheAssumption
<1> DEFINE b == buf[p]
           k == Block(p)
<1>0. /\ pc[p] = "own" /\ UNCHANGED <<platter, blockno, valid, buf>>
      /\ pc'[p] \in {"own", "dirty"} /\ \A q \in Procs \ {p} : pc'[q] = pc[q]
  BY Zenon DEF LogWrite, Modify, Fill, cacheVars, CInv, Types
<1>1. PICK v \in Vals : data' = [data EXCEPT ![b] = v]
  BY Zenon DEF LogWrite, Modify, Fill
<1>2. /\ Holding(p) /\ \A q \in Procs : Holding(q)' <=> Holding(q)
      /\ \A q \in Procs : Block(q)' = Block(q)
  BY <1>0, Zenon DEF Holding, Block
<1>3. k \in Blocks /\ Owner[k] = p /\ b \in Bufs /\ blockno[b] = k /\ valid[b]
  <2>1. pc[p] # "idle"
    BY ONLY <1>0, Zenon
  <2>2. b \in Bufs /\ ProcOK(p)
    BY <2>1, UsedBuf, Zenon
  <2>3. k \in Blocks /\ Owner[k] = p
    BY ONLY Mapped, <1>2, p \in Procs, Zenon DEF Mapped
  <2>4. valid[b]
    BY ONLY <1>0, <2>2, Zenon DEF ProcOK
  <2>5. QED
    BY ONLY <2>2, <2>3, <2>4, Zenon DEF Block
<1>4. Owner' = Owner
  BY Zenon, <1>2, OwnerFrame
<1>5. data \in [Bufs -> Vals]
  BY Zenon DEF CInv, Types
<1> HIDE DEF b, k
<1>6. Content'[k] = v
  BY <1>0, <1>1, <1>3, <1>5 DEF Mapped
<1>7. ASSUME NEW j \in Blocks, j # k PROVE Content'[j] = Content[j]
  <2>1. CASE \E c \in Bufs : blockno[c] = j /\ valid[c]
    <3>1. PICK c \in Bufs : blockno[c] = j /\ valid[c]
      BY Zenon, <2>1
    <3>2. c # b
      BY Zenon, <1>3, <1>7, <3>1
    <3>3. data'[c] = data[c] /\ blockno'[c] = j /\ valid'[c]
      BY Zenon, <1>0, <1>1, <1>5, <3>1, <3>2
    <3>4. Content[j] = data[c]
      BY <3>1, Zenon DEF Mapped
    <3>5. Content'[j] = data'[c]
      BY <3>3, Zenon DEF Mapped
    <3>6. QED
      BY Zenon, <3>3, <3>4, <3>5
  <2>2. CASE \A c \in Bufs : blockno[c] = j => ~valid[c]
    BY <1>0, <2>2 DEF Mapped
  <2>3. QED
    BY Zenon, <2>1, <2>2
<1>8. Content' = [Content EXCEPT ![k] = v]
  BY <1>3, <1>6, <1>7 DEF Mapped
<1>9. Store!Change(p, k, v)
  BY <1>3, <1>4, <1>8, Zenon DEF Store!Change
<1>10. QED
  BY <1>1, <1>3, <1>9, Zenon DEF Store!StoreNext
\* The lock holders stay, and the contents move between a buffer and the disk.
LEMMA MissStep ==
  ASSUME CInv, DataInv, Mapped, CInv', Mapped', NEW p \in Procs, NEW k \in Blocks, BgetMiss(p, k)
  PROVE  Content' = Content /\ Owner' = Owner
<1> USE BcacheAssumption
<1>0. PICK b \in Bufs : /\ refcnt[b] = 0
                        /\ blockno' = [blockno EXCEPT ![b] = k] /\ valid' = [valid EXCEPT ![b] = FALSE]
                        /\ buf' = [buf EXCEPT ![p] = b]
  <2>1. PICK n \in 1..Len(lru) :
          /\ refcnt[lru[n]] = 0
          /\ blockno' = [blockno EXCEPT ![lru[n]] = k] /\ valid' = [valid EXCEPT ![lru[n]] = FALSE]
          /\ buf' = [buf EXCEPT ![p] = lru[n]]
    BY Zenon DEF BgetMiss, Recycled
  <2>2. lru[n] \in Bufs
    BY <2>1, Zenon DEF CInv, ListInv
  <2>3. QED
    BY <2>1, <2>2, Zenon
<1>a. /\ pc' = [pc EXCEPT ![p] = "lock"] /\ pc[p] = "idle" /\ UNCHANGED <<platter, data, io, pinned>>
      /\ \A c \in Bufs : blockno[c] # k
  BY ZenonT(60) DEF BgetMiss, deviceVars, Cached
<1>b. pc'[p] = "lock" /\ \A q \in Procs \ {p} : pc'[q] = pc[q] /\ buf'[q] = buf[q]
  <2>1. pc \in [Procs -> Labels] /\ buf \in [Procs -> Bufs \cup {None}]
    BY ONLY CInv, Zenon DEF CInv, Types
  <2>2. QED
    BY ONLY <1>0, <1>a, <2>1, p \in Procs, Zenon
<1>c. blockno[b] \notin pinned /\ \A q \in Procs : buf[q] # b
  BY Zenon, <1>0, Unused
<1>d. \A c \in Bufs : c # b => blockno'[c] = blockno[c] /\ valid'[c] = valid[c]
  BY <1>0, Zenon DEF CInv, Types
<1>e. blockno'[b] = k /\ ~valid'[b]
  BY Zenon, <1>0 DEF CInv, Types
<1>1. Owner' = Owner
  <2>1. \A q \in Procs : Holding(q)' <=> Holding(q)
    BY <1>a, <1>b, Zenon DEF Holding
  <2>2. ASSUME NEW q \in Procs, Holding(q) PROVE Block(q)' = Block(q)
    <3>1. q # p /\ buf[q] \in Bufs
      BY Zenon, <1>a, <2>2, HoldingBuf
    <3>2. QED
      BY <1>b, <1>c, <1>d, <3>1, Zenon DEF Block
  <2>3. QED
    BY Zenon, <2>1, <2>2, OwnerFrame
<1>2. ASSUME NEW j \in Blocks PROVE Content'[j] = Content[j]
  <2>1. CASE \E c \in Bufs : blockno[c] = j /\ valid[c] /\ c # b
    <3>1. PICK c \in Bufs : blockno[c] = j /\ valid[c] /\ c # b
      BY Zenon, <2>1
    <3>2. Content[j] = data[c]
      BY <3>1, Zenon DEF Mapped
    <3>3. blockno'[c] = j /\ valid'[c] /\ data'[c] = data[c]
      BY Zenon, <1>a, <1>d, <3>1
    <3>4. Content'[j] = data'[c]
      BY <3>1, <3>3 DEF Mapped
    <3>5. QED
      BY Zenon, <3>2, <3>3, <3>4
  <2>2. CASE \A c \in Bufs \ {b} : blockno[c] = j => ~valid[c]
    <3>1. \A c \in Bufs : blockno'[c] = j => ~valid'[c]
      BY Zenon, <1>d, <1>e, <2>2
    <3>2. Content'[j] = platter[j]
      BY <1>a, <3>1, Zenon DEF Mapped
    <3>3. CASE blockno[b] = j /\ valid[b]
      <4>1. data[b] = platter[j]
        BY <1>c, <3>3, Zenon DEF DataInv
      <4>2. Content[j] = data[b]
        BY <3>3, Zenon DEF Mapped
      <4>3. QED
        BY Zenon, <3>2, <4>1, <4>2
    <3>4. CASE ~(blockno[b] = j /\ valid[b])
      <4>1. \A c \in Bufs : blockno[c] = j => ~valid[c]
        BY Zenon, <2>2, <3>4
      <4>2. Content[j] = platter[j]
        BY <4>1, Zenon DEF Mapped
      <4>3. QED
        BY Zenon, <3>2, <4>2
    <3>5. QED
      BY Zenon, <3>3, <3>4
  <2>3. QED
    BY Zenon, <2>1, <2>2
<1>3. Content' = Content
  BY <1>2 DEF Mapped
<1>4. QED
  BY Zenon, <1>1, <1>3

\* A transfer changes an invalid buffer, or the disk under a valid one.
LEMMA TransferStep ==
  ASSUME CInv, Mapped, Mapped', NEW p \in Procs, DiskTransfer(p)
  PROVE  Content' = Content /\ Owner' = Owner
<1> USE BcacheAssumption
<1> DEFINE b == buf[p]
           k == blockno[buf[p]]
<1>0. UNCHANGED <<blockno, pinned, buf, pc, holder, valid>>
  BY Zenon DEF DiskTransfer, cacheVars
<1>1. /\ b \in Bufs /\ blockno[b] = k /\ k \in Blocks
      /\ io[p].b = b /\ io[p].k = k /\ (io[p].w => valid[b]) /\ (~io[p].w => ~valid[b])
  BY Zenon DEF CInv, Types, ProcInv, ProcOK, DiskTransfer, Transfer
<1>2. \/ valid[b] /\ platter' = [platter EXCEPT ![k] = data[b]] /\ data' = data
      \/ ~valid[b] /\ data' = [data EXCEPT ![b] = platter[k]] /\ platter' = platter
  BY <1>1, Zenon DEF DiskTransfer, Transfer
<1>3. data \in [Bufs -> Vals] /\ platter \in [Blocks -> Vals]
  BY Zenon DEF CInv, Types
<1>4. Owner' = Owner
  BY <1>0, OwnerFrame, Zenon DEF Holding, Block
<1> HIDE DEF b, k
<1>5. \A c \in Bufs : valid[c] => data'[c] = data[c]
  BY Zenon, <1>1, <1>2, <1>3
<1>6. \A j \in Blocks : (\A c \in Bufs : blockno[c] = j => ~valid[c]) => platter'[j] = platter[j]
  BY Zenon, <1>1, <1>2, <1>3
<1>7. ASSUME NEW j \in Blocks PROVE Content'[j] = Content[j]
  <2>1. CASE \E c \in Bufs : blockno[c] = j /\ valid[c]
    <3>1. PICK c \in Bufs : blockno[c] = j /\ valid[c]
      BY Zenon, <2>1
    <3>2. Content[j] = data[c]
      BY <3>1, Zenon DEF Mapped
    <3>3. Content'[j] = data'[c]
      BY <1>0, <3>1, Zenon DEF Mapped
    <3>4. QED
      BY Zenon, <1>5, <3>1, <3>2, <3>3
  <2>2. CASE \A c \in Bufs : blockno[c] = j => ~valid[c]
    <3>1. Content[j] = platter[j]
      BY <2>2, Zenon DEF Mapped
    <3>2. Content'[j] = platter'[j]
      BY <1>0, <2>2, Zenon DEF Mapped
    <3>3. QED
      BY Zenon, <1>6, <2>2, <3>1, <3>2
  <2>3. QED
    BY Zenon, <2>1, <2>2
<1>8. Content' = Content
  BY <1>7 DEF Mapped
<1>9. QED
  BY Zenon, <1>4, <1>8
\* bread returns: the buffer that becomes valid has what the disk has.
LEMMA ReadStep ==
  ASSUME CInv, DataInv, Mapped, CInv', Mapped', NEW p \in Procs, ReadDone(p)
  PROVE  Store!StoreNext
<1> USE BcacheAssumption
<1> DEFINE b == buf[p]
<1>0. /\ UNCHANGED <<platter, data, blockno, holder, buf>> /\ pc[p] = "read" /\ io[p].done
      /\ pc' = [pc EXCEPT ![p] = "own"] /\ valid' = [valid EXCEPT ![b] = TRUE]
  BY Zenon DEF ReadDone, Return
<1>a. pc \in [Procs -> Labels] /\ valid \in [Bufs -> BOOLEAN] /\ p \in Procs
  BY ONLY CInv, p \in Procs, Zenon DEF CInv, Types
<1>1. b \in Bufs /\ holder[b] = p /\ ~valid[b] /\ blockno[b] \in Blocks
  BY Zenon, <1>0 DEF CInv, Types, ProcInv, ProcOK, Using
<1>2. data[b] = platter[blockno[b]]
  BY Zenon, <1>0 DEF DataInv
<1>3. ~Holding(p) /\ Holding(p)' /\ \A q \in Procs \ {p} : Holding(q)' <=> Holding(q)
  <2>1. pc'[p] = "own" /\ \A q \in Procs \ {p} : pc'[q] = pc[q]
    BY ONLY <1>0, <1>a, Zenon
  <2>2. QED
    BY <1>0, <2>1, Zenon DEF Holding
<1>4. holder'[buf[p]] = p /\ holder[buf[p]] = p
  BY Zenon, <1>0, <1>1
<1> HIDE DEF b
<1>5. valid'[b] /\ \A c \in Bufs : c # b => valid'[c] = valid[c]
  BY ONLY <1>0, <1>1, <1>a, Zenon
<1>6. ASSUME NEW j \in Blocks PROVE Content'[j] = Content[j]
  <2>1. CASE j = blockno[b]
    <3>1. Content'[j] = data[b]
      BY <1>0, <1>1, <1>5, <2>1, Zenon DEF Mapped
    <3>2. \A c \in Bufs : blockno[c] = j => ~valid[c]
      BY Zenon, <1>1, <2>1 DEF CInv, BufInv
    <3>3. Content[j] = platter[j]
      BY <3>2, Zenon DEF Mapped
    <3>4. QED
      BY Zenon, <1>2, <2>1, <3>1, <3>3
  <2>2. CASE j # blockno[b] /\ \E c \in Bufs : blockno[c] = j /\ valid[c]
    <3>1. PICK c \in Bufs : blockno[c] = j /\ valid[c]
      BY Zenon, <2>2
    <3>2. Content[j] = data[c]
      BY <3>1, Zenon DEF Mapped
    <3>3. valid'[c] /\ blockno'[c] = j
      BY Zenon, <1>0, <1>5, <3>1, <2>2
    <3>4. Content'[j] = data[c]
      BY <1>0, <3>3, Zenon DEF Mapped
    <3>5. QED
      BY Zenon, <3>2, <3>4
  <2>3. CASE j # blockno[b] /\ \A c \in Bufs : blockno[c] = j => ~valid[c]
    <3>1. \A c \in Bufs : blockno'[c] = j => ~valid'[c]
      BY Zenon, <1>0, <1>5, <2>3
    <3>2. Content'[j] = platter[j]
      BY <1>0, <3>1, Zenon DEF Mapped
    <3>3. Content[j] = platter[j]
      BY <2>3, Zenon DEF Mapped
    <3>4. QED
      BY Zenon, <3>2, <3>3
  <2>4. QED
    BY Zenon, <2>1, <2>2, <2>3
<1>7. Content' = Content
  BY <1>6 DEF Mapped
<1>8. QED
  BY Zenon, <1>0, <1>3, <1>4, <1>7, LockStep

\* acquiresleep on a valid buffer.
LEMMA AcquireOwn ==
  ASSUME CInv, Mapped, CInv', Mapped', NEW p \in Procs, Acquire(p)
  PROVE  Store!StoreNext \/ (Content' = Content /\ Owner' = Owner)
<1> USE BcacheAssumption
<1>0. /\ UNCHANGED <<platter, data, blockno, valid, buf>> /\ pc[p] = "lock" /\ holder[buf[p]] = None
      /\ pc' = [pc EXCEPT ![p] = "own"] \/ pc' = [pc EXCEPT ![p] = "read"]
      /\ holder' = [holder EXCEPT ![buf[p]] = p]
  BY ZenonT(60) DEF Acquire, Submit, deviceVars
<1>1. buf[p] \in Bufs
  <2>1. pc[p] # "idle"
    BY ONLY <1>0, Zenon
  <2>2. QED
    BY <2>1, UsedBuf, Zenon
<1>2. holder'[buf[p]] = p
  BY Zenon, <1>0, <1>1 DEF CInv, Types
<1>3. Content' = Content
  BY Zenon, <1>0, ContentFrame
<1>4. pc'[p] \in {"own", "read"} /\ \A q \in Procs \ {p} : pc'[q] = pc[q]
  <2>1. pc \in [Procs -> Labels]
    BY Zenon DEF CInv, Types
  <2>2. QED
    BY Zenon, <1>0, <2>1
<1>5. ~Holding(p) /\ \A q \in Procs \ {p} : Holding(q)' <=> Holding(q)
  BY <1>0, <1>4, Zenon DEF Holding
<1>6. CASE pc'[p] = "own"
  <2>1. Holding(p)'
    BY <1>6, Zenon DEF Holding
  <2>2. QED
    BY Zenon, <1>0, <1>2, <1>3, <1>5, <2>1, LockStep
<1>7. CASE pc'[p] = "read"
  <2>1. ~Holding(p)'
    BY <1>7, Zenon DEF Holding
  <2>2. \A q \in Procs : Block(q)' = Block(q)
    BY <1>0, Zenon DEF Block
  <2>3. QED
    BY Zenon, <1>3, <1>5, <2>1, <2>2, OwnerFrame
<1>8. QED
  BY Zenon, <1>4, <1>6, <1>7

\* The other steps move no lock that the store shows and leave the data alone.
LEMMA QuietStep ==
  ASSUME CInv, Mapped, Mapped', NEW p \in Procs,
         Sleep(p) \/ Kkill(p) \/ Bwrite(p) \/ WriteDone(p) \/ BrelsePut(p) \/ \E k \in Blocks : BgetHit(p, k)
  PROVE  Content' = Content /\ Owner' = Owner
<1> USE BcacheAssumption
<1>1. UNCHANGED <<platter, data, blockno, valid>>
  BY Zenon DEF Sleep, Kkill, Bwrite, WriteDone, BrelsePut, BgetHit, Submit, Return, deviceVars, cacheVars
<1>2. Content' = Content
  BY Zenon, <1>1, ContentFrame
<1>3. \/ /\ pc[p] \in {"idle", "lock", "asleep", "put"} /\ \E l \in {"idle", "lock", "asleep"} : pc' = [pc EXCEPT ![p] = l]
         /\ buf' = buf \/ \E b \in Bufs \cup {None} : buf' = [buf EXCEPT ![p] = b]
      \/ /\ pc[p] \in {"own", "dirty", "write"} /\ \E l \in {"own", "write"} : pc' = [pc EXCEPT ![p] = l]
         /\ buf' = buf
  BY Zenon DEF Sleep, Kkill, Bwrite, WriteDone, BrelsePut, BgetHit, cacheVars, Cached
<1>4. pc \in [Procs -> Labels] /\ buf \in [Procs -> Bufs \cup {None}]
  BY Zenon DEF CInv, Types
<1>5. \A q \in Procs : Holding(q)' <=> Holding(q)
  BY <1>3, <1>4, Zenon DEF Holding
<1>6. \A q \in Procs : Holding(q) => Block(q)' = Block(q)
  BY <1>1, <1>3, <1>4, Zenon DEF Holding, Block
<1>7. QED
  BY Zenon, <1>2, <1>5, <1>6, OwnerFrame

LEMMA NextStore == CInv /\ DataInv /\ Mapped /\ CInv' /\ Mapped' /\ [Next]_vars => [Store!StoreNext]_(Store!storeVars)
<1> SUFFICES ASSUME CInv, DataInv, Mapped, CInv', Mapped', [Next]_vars
             PROVE  Store!StoreNext \/ (Content' = Content /\ Owner' = Owner)
  BY DEF Store!storeVars
<1>1. CASE UNCHANGED vars
  BY <1>1, Zenon DEF vars, deviceVars, cacheVars, Content, Owner, Holding, Block
<1>2. CASE Next
  BY <1>2, LockStep, UnlockStep, ChangeStep, MissStep, TransferStep, ReadStep, AcquireOwn, QuietStep, Zenon DEF Next
<1>3. QED
  BY <1>1, <1>2

\* The cache is one contents and one lock per block: an eviction loses no change,
\* bread() returns the last one, and only the holder of the lock makes any
\* (kernel/bio.c).
THEOREM BlockStoreImplemented == Spec => ImplementsBlockStore
<1>1. CInv /\ DataInv /\ Mapped /\ CInv' /\ Mapped' /\ [Next]_vars => [Store!StoreNext]_(Store!storeVars)
  BY NextStore
<1>2. Spec => []CInv
  BY CInvAlways
<1>3. Spec => []DataInv
  BY <1>2, InitData, NextData, PTL DEF Spec
<1>4. []CInv => []Mapped
  BY MappedAlways, PTL
<1>5. QED
  BY <1>1, <1>2, <1>3, <1>4, InitStore, PTL DEF Spec, ImplementsBlockStore, Store!StoreSpec
=============================================================================
