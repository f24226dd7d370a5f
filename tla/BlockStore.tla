----------------------------- MODULE BlockStore -----------------------------
(***************************************************************************)
(* What the buffer cache promises to the file system: every block has one  *)
(* contents and one lock, and only the holder of the lock sees or changes  *)
(* the contents.                                                           *)
(***************************************************************************)
CONSTANTS Procs, Blocks, Vals, None

VARIABLES content, owner

storeVars == <<content, owner>>

StoreInit == content \in [Blocks -> Vals] /\ owner = [k \in Blocks |-> None]

Lock(p, k) ==
  /\ owner[k] = None
  /\ owner' = [owner EXCEPT ![k] = p]
  /\ UNCHANGED content

Change(p, k, v) ==
  /\ owner[k] = p
  /\ content' = [content EXCEPT ![k] = v]
  /\ UNCHANGED owner

Unlock(p, k) ==
  /\ owner[k] = p
  /\ owner' = [owner EXCEPT ![k] = None]
  /\ UNCHANGED content

StoreNext == \E p \in Procs, k \in Blocks :
               Lock(p, k) \/ Unlock(p, k) \/ \E v \in Vals : Change(p, k, v)

StoreSpec == StoreInit /\ [][StoreNext]_storeVars
=============================================================================
