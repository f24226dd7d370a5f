------------------------------- MODULE Virtio -------------------------------
(***************************************************************************)
(* The virtio disk driver (kernel/virtio_disk.c): descriptors, the rings    *)
(* shared with the device, requests that sleep, and the interrupt.          *)
(*                                                                         *)
(* Every step of a process is what virtio_disk_rw does between two sleeps, *)
(* under vdisk_lock; the interrupt holds that lock over several steps, in  *)
(* between which the device goes on.  A ring entry is emptied when it is   *)
(* read, so that a second look at it would show.                           *)
(***************************************************************************)
EXTENDS Integers, FiniteSets

CONSTANTS
  Procs, Blocks, Vals, None,
  NUM,       \* descriptors, and entries of each ring
  IDX_MOD    \* range of the ring indices, 2^16 in the code

Descs == 0..NUM - 1
Bufs  == Procs   \* the buffer that a process has locked for its request

ASSUME VirtioAssumption ==
  NUM \in Nat \ {0, 1, 2} /\ IDX_MOD \in Nat \ {0} /\ IDX_MOD % NUM = 0

VARIABLES
  platter, data,
  free,      \* disk.free, as the set of free descriptors
  desc,      \* disk.desc: the buffer that a descriptor points to, and its successor
  op,        \* disk.ops: block and direction
  info,      \* disk.info[i].b
  status,    \* disk.info[i].status
  avail, availIdx, used, usedIdx,   \* the rings and the indices in shared memory
  used_idx,  \* disk.used_idx: completions that the driver has seen
  busy,      \* b->disk
  line,      \* the device's interrupt line
  intr,      \* the interrupt holds vdisk_lock
  seen, inflight,   \* the device: requests that it has seen, and not finished
  pc, req    \* the processes, and the arguments of their calls

shared  == <<desc, op, status, avail, availIdx, used, usedIdx>>
device  == <<line, seen, inflight>>
driver  == <<free, info, used_idx, busy, intr>>
vars    == <<platter, data, shared, device, driver, pc, req>>

Init ==
  /\ platter \in [Blocks -> Vals] /\ data \in [Bufs -> Vals]
  /\ free = Descs
  /\ desc = [i \in Descs |-> [buf |-> None, next |-> None]]
  /\ op = [i \in Descs |-> None] /\ info = [i \in Descs |-> None]
  /\ status = [i \in Descs |-> 0]
  /\ avail = [i \in Descs |-> None] /\ used = [i \in Descs |-> None]
  /\ availIdx = 0 /\ usedIdx = 0 /\ used_idx = 0
  /\ busy = [b \in Bufs |-> FALSE]
  /\ line = FALSE /\ intr = FALSE /\ seen = 0 /\ inflight = {}
  /\ pc = [p \in Procs |-> "idle"] /\ req = [p \in Procs |-> None]

\* The successor of a ring index.
Succ(i) == (i + 1) % IDX_MOD

\* Mutant: wakeup is forgotten.
WokenNot(f, s, t) == f
\* wakeup: the sleepers of state s go on at state t.
Woken(f, s, t) == [p \in Procs |-> IF f[p] = s THEN t ELSE f[p]]

Smallest(S) == CHOOSE i \in S : \A j \in S : i <= j

-----------------------------------------------------------------------------
(* virtio_disk_rw                                                          *)

\* The caller has locked b, and fills it before a write.
Call(p) ==
  /\ pc[p] = "idle"
  /\ \E k \in Blocks, w \in BOOLEAN, v \in Vals :
       /\ req' = [req EXCEPT ![p] = [b |-> p, k |-> k, w |-> w, head |-> None]]
       /\ data' = [data EXCEPT ![p] = v]
       /\ w \/ v = data[p]
  /\ pc' = [pc EXCEPT ![p] = "alloc"]
  /\ UNCHANGED <<platter, shared, device, driver>>

\* alloc3_desc finds fewer than three descriptors: it gives back the ones it
\* took, and free_desc wakes the others that wait for descriptors.
AllocFails(p) ==
  /\ pc[p] = "alloc" /\ ~intr /\ Cardinality(free) < 3
  /\ pc' = [(IF free = {} THEN pc ELSE Woken(pc, "asleep free", "alloc")) EXCEPT ![p] = "asleep free"]
  /\ UNCHANGED <<platter, data, shared, device, driver, req>>

\* Three descriptors, the request, an entry of the avail ring; then sleep on b.
Queue(p) ==
  LET r  == req[p]
      i0 == Smallest(free)
      i1 == Smallest(free \ {i0})
      i2 == Smallest(free \ {i0, i1})
  IN
  /\ pc[p] = "alloc" /\ ~intr /\ Cardinality(free) >= 3
  /\ free' = free \ {i0, i1, i2}
  /\ op' = [op EXCEPT ![i0] = [k |-> r.k, w |-> r.w]]
  /\ desc' = [desc EXCEPT ![i0] = [buf |-> None, next |-> i1],
                          ![i1] = [buf |-> r.b, next |-> i2],
                          ![i2] = [buf |-> None, next |-> None]]
  /\ status' = [status EXCEPT ![i0] = 255]
  /\ busy' = [busy EXCEPT ![r.b] = TRUE]
  /\ info' = [info EXCEPT ![i0] = r.b]
  /\ avail' = [avail EXCEPT ![availIdx % NUM] = i0]
  /\ availIdx' = Succ(availIdx)
  /\ req' = [req EXCEPT ![p].head = i0]
  /\ pc' = [pc EXCEPT ![p] = "asleep buf"]
  /\ UNCHANGED <<platter, data, used, usedIdx, device, used_idx, intr>>

\* The descriptors of the chain that starts at i, as free_chain follows it.
Chain(i) ==
  LET j == desc[i].next IN
  {i} \cup (IF j = None THEN {} ELSE {j} \cup (IF desc[j].next = None THEN {} ELSE {desc[j].next}))

\* Mutant: only the first descriptor is freed.
FreedHead(p) == {req[p].head}
Freed(p) == Chain(req[p].head)

\* Mutant: the wait for b->disk is an if, not a while.
DiskDoneAnyway(p) == TRUE
DiskDone(p) == ~busy[req[p].b]

\* Woken, and b->disk is 0: free the chain, which wakes those that wait for
\* descriptors, and return.
Finish(p) ==
  LET c == Freed(p) IN
  /\ pc[p] = "awake" /\ ~intr /\ DiskDone(p)
  /\ info' = [info EXCEPT ![req[p].head] = None]
  /\ free' = free \cup c
  /\ desc' = [i \in Descs |-> IF i \in c THEN [buf |-> None, next |-> None] ELSE desc[i]]
  /\ pc' = [Woken(pc, "asleep free", "alloc") EXCEPT ![p] = "idle"]
  /\ req' = [req EXCEPT ![p] = None]
  /\ UNCHANGED <<platter, data, op, status, avail, availIdx, used, usedIdx, device, used_idx, busy, intr>>

\* A sleeper that kkill has woken goes through its loop again.
Resleep(p) ==
  /\ pc[p] = "awake" /\ ~intr /\ busy[req[p].b]
  /\ pc' = [pc EXCEPT ![p] = "asleep buf"]
  /\ UNCHANGED <<platter, data, shared, device, driver, req>>

\* kkill makes a sleeping process runnable.
Kkill(p) ==
  /\ pc[p] \in {"asleep buf", "asleep free"}
  /\ pc' = [pc EXCEPT ![p] = IF @ = "asleep buf" THEN "awake" ELSE "alloc"]
  /\ UNCHANGED <<platter, data, shared, device, driver, req>>

-----------------------------------------------------------------------------
(* virtio_disk_intr                                                        *)

IntrEnter ==
  /\ line /\ ~intr
  /\ intr' = TRUE /\ line' = FALSE
  /\ UNCHANGED <<platter, data, shared, seen, inflight, free, info, used_idx, busy, pc, req>>

UsedNext == Succ(used_idx)

\* One turn of the loop: b->disk = 0 and wakeup(b).
IntrUsed ==
  LET id == used[used_idx % NUM]
      b  == info[id]
  IN
  /\ intr /\ used_idx # usedIdx
  /\ busy' = [busy EXCEPT ![b] = FALSE]
  /\ pc' = [p \in Procs |-> IF pc[p] = "asleep buf" /\ req[p].b = b THEN "awake" ELSE pc[p]]
  /\ used' = [used EXCEPT ![used_idx % NUM] = None]
  /\ used_idx' = UsedNext
  /\ UNCHANGED <<platter, data, desc, op, status, avail, availIdx, usedIdx, device, free, info, intr, req>>

AllSeen == used_idx = usedIdx

IntrExit ==
  /\ intr /\ AllSeen
  /\ intr' = FALSE
  /\ UNCHANGED <<platter, data, shared, device, free, info, used_idx, busy, pc, req>>

-----------------------------------------------------------------------------
(* The device: takes requests in order and finishes them in any order.     *)

DeviceTakes ==
  /\ seen # availIdx
  /\ inflight' = inflight \cup {avail[seen % NUM]}
  /\ avail' = [avail EXCEPT ![seen % NUM] = None]
  /\ seen' = Succ(seen)
  /\ UNCHANGED <<platter, data, desc, op, status, availIdx, used, usedIdx, line, driver, pc, req>>

DeviceFinishes(i) ==
  LET b == desc[desc[i].next].buf
      k == op[i].k
  IN
  /\ i \in inflight
  /\ IF op[i].w
     THEN platter' = [platter EXCEPT ![k] = data[b]] /\ UNCHANGED data
     ELSE data' = [data EXCEPT ![b] = platter[k]] /\ UNCHANGED platter
  /\ status' = [status EXCEPT ![i] = 0]
  /\ used' = [used EXCEPT ![usedIdx % NUM] = i]
  /\ usedIdx' = Succ(usedIdx)
  /\ inflight' = inflight \ {i}
  /\ line' = TRUE
  /\ UNCHANGED <<desc, op, avail, availIdx, seen, driver, pc, req>>

-----------------------------------------------------------------------------
Rw(p)  == AllocFails(p) \/ Queue(p) \/ Finish(p) \/ Resleep(p)
Intr   == IntrEnter \/ IntrUsed \/ IntrExit
Device == DeviceTakes \/ \E i \in Descs : DeviceFinishes(i)

Next == Intr \/ Device \/ \E p \in Procs : Call(p) \/ Rw(p) \/ Kkill(p)

Spec == Init /\ [][Next]_vars

-----------------------------------------------------------------------------
(* Properties                                                              *)

Request == [b : Bufs, k : Blocks, w : BOOLEAN, head : Descs \cup {None}]

TypeOK ==
  /\ platter \in [Blocks -> Vals] /\ data \in [Bufs -> Vals]
  /\ free \subseteq Descs /\ inflight \subseteq Descs
  /\ info \in [Descs -> Bufs \cup {None}] /\ status \in [Descs -> {0, 255}]
  /\ {availIdx, usedIdx, used_idx, seen} \subseteq 0..IDX_MOD - 1
  /\ busy \in [Bufs -> BOOLEAN] /\ line \in BOOLEAN /\ intr \in BOOLEAN
  /\ pc \in [Procs -> {"idle", "alloc", "asleep free", "asleep buf", "awake"}]
  /\ \A p \in Procs : req[p] = None \/ req[p] \in Request

\* The processes whose request is queued.
Queued == {p \in Procs : req[p] # None /\ req[p].head # None}

\* No descriptor is lost and none is used twice: a chain has three, chains are
\* disjoint, and what is in no chain is free.
DescsAccounted ==
  /\ \A p \in Queued : Cardinality(Chain(req[p].head)) = 3
  /\ \A p, q \in Queued : p # q => Chain(req[p].head) \cap Chain(req[q].head) = {}
  /\ free = Descs \ UNION {Chain(req[p].head) : p \in Queued}

\* Entries between two indices of a ring, which may have wrapped.
Entries(ring, from, to) == {ring[(from + n) % NUM] : n \in 0..((to - from) % IDX_MOD) - 1}

\* Every completion that the driver has not seen is of a request that was done
\* and whose process still waits: neither panic of virtio_disk_intr nor a wakeup
\* of the wrong buffer.
CompletionsMatch ==
  \A i \in Entries(used, used_idx, usedIdx) :
    /\ i # None /\ status[i] = 0
    /\ \E p \in Queued : req[p].head = i /\ req[p].b = info[i] /\ busy[info[i]]

\* The driver's account of the queue is the device's: whatever order requests
\* complete in, descriptors and completions belong to the calls that wait for them.
QueueConsistent == TypeOK /\ DescsAccounted /\ CompletionsMatch

\* A sleeper has something to wait for: no wakeup came before the sleep.
NoStrandedSleeper ==
  \A p \in Procs :
    /\ pc[p] = "asleep buf" => busy[req[p].b]
    /\ pc[p] = "asleep free" => Cardinality(free) < 3

\* A completion that is not yet seen has an interrupt coming or being served.
InterruptComing == used_idx # usedIdx => line \/ intr

\* Nobody sleeps in virtio_disk_rw without something under way that will wake it.
WakeupComing == NoStrandedSleeper /\ InterruptComing

\* The driver and the device copy each block once, before the call returns.
Disk == INSTANCE BlockDevice WITH
          io <- [p \in Procs |->
                   IF p \in Queued
                   THEN [b |-> req[p].b, k |-> req[p].k, w |-> req[p].w, done |-> status[req[p].head] = 0]
                   ELSE None]
ImplementsBlockDevice == Disk!DeviceSpec
=============================================================================
