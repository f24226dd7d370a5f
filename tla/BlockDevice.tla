---------------------------- MODULE BlockDevice -----------------------------
(***************************************************************************)
(* What the disk driver promises to the buffer cache: a process hands over *)
(* a buffer that it has locked, one block is copied in one step, and only  *)
(* then does the call return.                                              *)
(***************************************************************************)
CONSTANTS Procs, Bufs, Blocks, Vals, None

VARIABLES
  platter,   \* contents of the blocks on disk
  data,      \* b->data
  io         \* the request of each process, None outside virtio_disk_rw

deviceVars == <<platter, data, io>>

\* b is not in the hands of the device.
Owned(b) == \A p \in Procs : io[p] # None => io[p].b # b

DeviceInit ==
  /\ platter \in [Blocks -> Vals] /\ data \in [Bufs -> Vals]
  /\ io = [p \in Procs |-> None]

\* The process that has locked b changes its data.
Fill(b, v) ==
  /\ Owned(b)
  /\ data' = [data EXCEPT ![b] = v]
  /\ UNCHANGED <<platter, io>>

\* virtio_disk_rw(b, w) for block k.
Submit(p, b, k, w) ==
  /\ io[p] = None /\ Owned(b)
  /\ io' = [io EXCEPT ![p] = [b |-> b, k |-> k, w |-> w, done |-> FALSE]]
  /\ UNCHANGED <<platter, data>>

Transfer(p) ==
  /\ io[p] # None /\ ~io[p].done
  /\ io' = [io EXCEPT ![p].done = TRUE]
  /\ IF io[p].w
     THEN platter' = [platter EXCEPT ![io[p].k] = data[io[p].b]] /\ UNCHANGED data
     ELSE data' = [data EXCEPT ![io[p].b] = platter[io[p].k]] /\ UNCHANGED platter

Return(p) ==
  /\ io[p] # None /\ io[p].done
  /\ io' = [io EXCEPT ![p] = None]
  /\ UNCHANGED <<platter, data>>

DeviceNext ==
  \/ \E b \in Bufs, v \in Vals : Fill(b, v)
  \/ \E p \in Procs : Transfer(p) \/ Return(p)
  \/ \E p \in Procs, b \in Bufs, k \in Blocks, w \in BOOLEAN : Submit(p, b, k, w)

DeviceSpec == DeviceInit /\ [][DeviceNext]_deviceVars
=============================================================================
