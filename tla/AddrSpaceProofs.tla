-------------------------- MODULE AddrSpaceProofs ---------------------------
(***************************************************************************)
(* Proofs about AddrSpace, for any number of processes, frames, pages and  *)
(* table slots.  For programs that do anything at all: the types, that no  *)
(* frame is shared, lost or freed twice, and that the file's reference     *)
(* count is exact.  For programs that neither shrink their memory nor call *)
(* exec: that mappings do not overlap.                                     *)
(***************************************************************************)
EXTENDS AddrSpace, FiniteSetTheorems, TLAPS

\* Quotient and remainder, with a name for the multiple of k.
LEMMA Division ==
  ASSUME NEW x \in Nat, NEW k \in Nat \ {0}
  PROVE  \E q, m \in Nat, r \in 0..k - 1 :
           q = x \div k /\ r = x % k /\ m = k * q /\ x = m + r
<1> DEFINE q == x \div k
           m == k * q
           r == x % k
<1>1. q \in Nat /\ r \in 0..k - 1
  BY SMT
<1>2. r = x - m
  BY SMT
<1>3. m \in Nat
  BY <1>1, SMT
<1> HIDE DEF r
<1>4. x = m + r
  <2> HIDE DEF m
  <2> QED
    BY <1>1, <1>2, <1>3
<1> QED
  BY <1>1, <1>3, <1>4 DEF r

LEMMA Monotone ==
  ASSUME NEW a \in Int, NEW b \in Int, NEW k \in Nat, a <= b
  PROVE  k * a <= k * b
<1>1. b - a \in Nat /\ k * (b - a) \in Nat
  BY SMT
<1>2. k * b = k * a + k * (b - a)
  BY SMT
<1> QED
  BY <1>1, <1>2, SMT

\* A smaller quotient is smaller by a whole multiple.
LEMMA NextMultiple ==
  ASSUME NEW a \in Nat, NEW b \in Nat, NEW k \in Nat, a < b
  PROVE  k * a + k <= k * b
<1>1. k * (a + 1) <= k * b
  BY Monotone
<1>2. k * (a + 1) = k * a + k
  BY SMT
<1> QED
  BY <1>1, <1>2

\* Pages are ordered as the addresses in them.
LEMMA PageOrder ==
  ASSUME NEW x \in Nat, NEW y \in Nat, x <= y
  PROVE  Page(x) \in Nat /\ Page(y) \in Nat /\ Page(x) <= Page(y)
<1>1. PICK a \in Nat, m \in Nat, r \in 0..PGSIZE - 1 : a = x \div PGSIZE /\ m = PGSIZE * a /\ x = m + r
  BY Division, AddrSpaceAssumption
<1>2. PICK b \in Nat, n \in Nat, s \in 0..PGSIZE - 1 : b = y \div PGSIZE /\ n = PGSIZE * b /\ y = n + s
  BY Division, AddrSpaceAssumption
<1>3. ASSUME b < a PROVE FALSE
  <2>1. n + PGSIZE <= m
    BY Zenon, <1>1, <1>2, <1>3, NextMultiple, AddrSpaceAssumption
  <2>2. x = m + r /\ y = n + s
    BY <1>1, <1>2
  <2> QED
    BY <2>1, <2>2, AddrSpaceAssumption
<1>4. a <= b
  BY <1>3
<1>5. Page(x) = a /\ Page(y) = b
  BY <1>1, <1>2, Zenon DEF Page
<1> QED
  BY <1>4, <1>5

\* The trapframe and the end of the address space are page boundaries.
LEMMA Boundaries ==
  /\ TRAPFRAME \div PGSIZE \in Nat /\ TRAPFRAME = PGSIZE * (TRAPFRAME \div PGSIZE)
  /\ TRAPFRAME + PGSIZE <= ADDRS
<1>1. PICK t \in Nat, m \in Nat, r \in 0..PGSIZE - 1 :
        t = TRAPFRAME \div PGSIZE /\ r = TRAPFRAME % PGSIZE /\ m = PGSIZE * t /\ TRAPFRAME = m + r
  BY Division, AddrSpaceAssumption
<1>2. PICK a \in Nat, n \in Nat, s \in 0..PGSIZE - 1 :
        a = ADDRS \div PGSIZE /\ s = ADDRS % PGSIZE /\ n = PGSIZE * a /\ ADDRS = n + s
  BY Division, AddrSpaceAssumption
<1>3. r = 0 /\ s = 0
  BY Zenon, <1>1, <1>2, AddrSpaceAssumption
<1>4. TRAPFRAME = m /\ ADDRS = n
  BY ONLY <1>1, <1>2, <1>3
<1>5. t < a
  <2> SUFFICES ASSUME a <= t PROVE FALSE
    OBVIOUS
  <2>1. n <= m
    BY <1>1, <1>2, Monotone, AddrSpaceAssumption
  <2> QED
    BY <2>1, <1>4, AddrSpaceAssumption
<1>6. m + PGSIZE <= n
  BY Zenon, <1>5, <1>1, <1>2, NextMultiple, AddrSpaceAssumption
<1> QED
  BY Zenon, <1>1, <1>4, <1>6

\* An address below the trapframe lies in a page below it.
LEMMA PageBelow ==
  ASSUME NEW x \in 0..TRAPFRAME - 1
  PROVE  Page(x) \in Pages
<1>1. PICK q \in Nat, m \in Nat, r \in 0..PGSIZE - 1 : q = x \div PGSIZE /\ m = PGSIZE * q /\ x = m + r
  BY Division, AddrSpaceAssumption
<1>2. PICK t \in Nat : t = TRAPFRAME \div PGSIZE /\ TRAPFRAME = PGSIZE * t
  BY Boundaries
<1>3. ASSUME t <= q PROVE FALSE
  <2>1. TRAPFRAME <= m
    BY <1>1, <1>2, <1>3, Monotone, AddrSpaceAssumption
  <2>2. x = m + r
    BY <1>1
  <2> QED
    BY <2>1, <2>2, AddrSpaceAssumption
<1>4. q \in 0..t - 1
  BY <1>3
<1> QED
  BY <1>1, <1>2, <1>4 DEF Page, Pages

\* Rounding down moves an address down.
LEMMA RoundDown ==
  ASSUME NEW x \in Nat
  PROVE  PGROUNDDOWN(x) \in Nat /\ PGROUNDDOWN(x) <= x
<1>1. PICK q \in Nat, m \in Nat, r \in 0..PGSIZE - 1 : q = x \div PGSIZE /\ m = PGSIZE * q /\ x = m + r
  BY Division, AddrSpaceAssumption
<1>2. PGROUNDDOWN(x) = m
  BY <1>1, AddrSpaceAssumption, SMT DEF PGROUNDDOWN, Page
<1>3. x = m + r
  BY <1>1
<1> QED
  BY <1>2, <1>3, AddrSpaceAssumption

\* Rounding up wraps at ADDRS, and stays at or below the trapframe.
LEMMA RoundUp ==
  ASSUME NEW x \in Nat
  PROVE  /\ PGROUNDUP(x) \in 0..ADDRS - 1
         /\ x <= TRAPFRAME => PGROUNDUP(x) <= TRAPFRAME
<1> DEFINE z == x + PGSIZE - 1
<1>0. z \in Nat
  BY AddrSpaceAssumption
<1>1. PICK d \in Nat, n \in Nat, y \in 0..ADDRS - 1 : y = z % ADDRS /\ z = n + y
  BY <1>0, Division, AddrSpaceAssumption
<1>2. PGROUNDUP(x) = PGROUNDDOWN(y)
  BY <1>1 DEF PGROUNDUP
<1>3. PGROUNDUP(x) \in Nat /\ PGROUNDUP(x) <= y
  BY <1>2, RoundDown
<1>4. ASSUME x <= TRAPFRAME PROVE PGROUNDUP(x) <= TRAPFRAME
  <2>1. PICK q \in Nat, m \in Nat, r \in 0..PGSIZE - 1 : q = y \div PGSIZE /\ m = PGSIZE * q /\ y = m + r
    BY Division, AddrSpaceAssumption
  <2>2. PICK t \in Nat : TRAPFRAME = PGSIZE * t
    BY Boundaries
  <2>3. PGROUNDUP(x) = m
    BY <1>2, <2>1, AddrSpaceAssumption, SMT DEF PGROUNDDOWN, Page
  <2>4. ASSUME t < q PROVE FALSE
    <3>1. TRAPFRAME + PGSIZE <= m
      BY <2>1, <2>2, <2>4, NextMultiple, AddrSpaceAssumption
    <3>2. y = m + r /\ x + PGSIZE - 1 = n + y
      BY Zenon, <1>1, <2>1
    <3> QED
      BY <3>1, <3>2, <1>4, AddrSpaceAssumption
  <2>5. m <= TRAPFRAME
    BY <2>1, <2>2, <2>4, Monotone, AddrSpaceAssumption
  <2> QED
    BY <2>3, <2>5
<1> QED
  BY <1>3, <1>4, AddrSpaceAssumption
-----------------------------------------------------------------------------
(* Types                                                                   *)

ProcTypes ==
  /\ st \in [Procs -> {"unused", "run", "zombie"}] /\ sz \in [Procs -> 0..TRAPFRAME]
  /\ fd \in [Procs -> BOOLEAN] /\ ref \in Int /\ writable \in BOOLEAN
  /\ panicked \in {"", "remap", "leaf"}

PageTypes ==
  /\ pte \in [Procs -> [Pages -> Frames \cup {NONE}]]
  /\ perm \in [Procs -> [Pages -> SUBSET {"R", "W", "X", "U"}]]
  /\ mem \in [Frames -> Contents]
  /\ free \subseteq Frames
  /\ \A p \in Procs, g \in Pages : pte[p][g] = NONE => perm[p][g] = {}

RegionTypes ==
  /\ vmas \in [Procs -> [Slots -> Vma \cup {NONE}]]
  /\ \A p \in Procs, i \in Slots :
       vmas[p][i] # NONE => Add(vmas[p][i].addr, vmas[p][i].length) <= TRAPFRAME
  /\ vregs \in [Procs -> [1..NVREG -> Vreg \cup {NONE}]]

FileTypes == file \in [0..FILEMAX - 1 -> Contents] /\ fsize \in Nat

\* A fault is at a page that a user page table has.
CallTypes ==
  /\ call \in [Procs -> Call \cup {NONE}]
  /\ \A p \in Procs : call[p] # NONE /\ call[p].op = "lazy" => Page(call[p].va) \in Pages /\ call[p].slot = 0

TypeInv == ProcTypes /\ PageTypes /\ RegionTypes /\ FileTypes /\ CallTypes

LEMMA TypeParts == TypeInv => TypeOK
BY Zenon DEF TypeInv, TypeOK, ProcTypes, PageTypes, RegionTypes, FileTypes, CallTypes

LEMMA LoadedContents == Loaded \subseteq Contents /\ Vals \subseteq Contents
BY DEF Contents

LEMMA NoneIsNothing == NONE \notin Frames /\ NONE \notin Vma /\ NONE \notin Vreg /\ NONE \notin Call
BY AddrSpaceAssumption

LEMMA MapTypes ==
  ASSUME PageTypes, NEW p \in Procs, NEW g \in Pages, NEW f \in free, NEW c \in Contents,
         NEW r \in SUBSET {"R", "W", "X", "U"}, Map(p, g, f, c, r)
  PROVE  PageTypes'
<1>1. CASE pte[p][g] # NONE
  BY <1>1 DEF Map, PageTypes, mapping
<1>2. CASE pte[p][g] = NONE
  <2>1. /\ pte' = [pte EXCEPT ![p][g] = f] /\ perm' = [perm EXCEPT ![p][g] = r]
        /\ mem' = [mem EXCEPT ![f] = c] /\ free' = free \ {f} /\ f \in Frames /\ f # NONE
    BY <1>2, NoneIsNothing DEF Map, PageTypes
  <2>2. /\ pte' \in [Procs -> [Pages -> Frames \cup {NONE}]]
        /\ perm' \in [Procs -> [Pages -> SUBSET {"R", "W", "X", "U"}]]
        /\ mem' \in [Frames -> Contents] /\ free' \subseteq Frames
    BY <2>1 DEF PageTypes
  <2>3. ASSUME NEW q \in Procs, NEW h \in Pages, pte'[q][h] = NONE PROVE perm'[q][h] = {}
    <3>1. ~(q = p /\ h = g)
      BY <2>1, <2>3 DEF PageTypes
    <3>2. pte'[q][h] = pte[q][h] /\ perm'[q][h] = perm[q][h]
      BY <2>1, <3>1 DEF PageTypes
    <3> QED
      BY Zenon, <3>2, <2>3 DEF PageTypes
  <2> QED
    BY <2>2, <2>3 DEF PageTypes
<1> QED
  BY <1>1, <1>2

LEMMA UnmapTypes ==
  ASSUME PageTypes, NEW p \in Procs, NEW S \in SUBSET Pages, Unmap(p, S)
  PROVE  PageTypes'
<1>1. FramesOf(p, S) \subseteq Frames
  BY DEF FramesOf, PageTypes
<1>2. /\ pte' \in [Procs -> [Pages -> Frames \cup {NONE}]]
      /\ perm' \in [Procs -> [Pages -> SUBSET {"R", "W", "X", "U"}]]
  BY DEF Unmap, PageTypes
<1>3. mem' \in [Frames -> Contents] /\ free' \subseteq Frames
  BY <1>1, LoadedContents DEF Unmap, PageTypes, kfree, Loaded
<1>4. ASSUME NEW q \in Procs, NEW h \in Pages, pte'[q][h] = NONE PROVE perm'[q][h] = {}
  BY <1>4 DEF Unmap, PageTypes
<1> QED
  BY <1>2, <1>3, <1>4 DEF PageTypes

\* A sum of addresses is an address.
LEMMA AddIsAddress ==
  ASSUME NEW a \in Nat, NEW b \in Nat
  PROVE  Add(a, b) \in Nat
BY Division, AddrSpaceAssumption, a + b \in Nat DEF Add

\* What readi returns for a page at or after the start of a mapping.
LEMMA FilePageType ==
  ASSUME FileTypes, NEW k \in Nat
  PROVE  FilePage(k) \in Contents
BY LoadedContents, AddrSpaceAssumption DEF FilePage, FileTypes, Loaded

LEMMA WriteTypes ==
  ASSUME FileTypes, NEW k \in Int, NEW c \in Contents, writei(k, c)
  PROVE  FileTypes'
<1>1. CASE k * PGSIZE > fsize \/ k >= FILEMAX
  BY <1>1 DEF writei, FileTypes
<1>2. CASE ~(k * PGSIZE > fsize \/ k >= FILEMAX)
  <2>1. file' = [file EXCEPT ![k] = c]
    BY <1>2 DEF writei
  <2>2. (k + 1) * PGSIZE \in Int
    BY AddrSpaceAssumption
  <2>3. fsize' \in Nat
    <3> DEFINE e == (k + 1) * PGSIZE
    <3>1. fsize' = IF e > fsize THEN e ELSE fsize
      BY <1>2 DEF writei
    <3> HIDE DEF e
    <3> QED
      BY <3>1, <2>2 DEF FileTypes, e
  <2> QED
    BY Zenon, <2>1, <2>3 DEF FileTypes
<1> QED
  BY <1>1, <1>2
USE DEF Ready, Up, mapping

\* What a process may be in the middle of.
LEMMA CallValues ==
  /\ Exiting \in Call
  /\ \A va \in 0..TRAPFRAME - 1 : [op |-> "lazy", slot |-> 0, va |-> va, end |-> va] \in Call
BY AddrSpaceAssumption DEF Exiting, Call

LEMMA InitTypes == Init => TypeInv
<1> SUFFICES ASSUME Init PROVE TypeInv
  OBVIOUS
<1>1. PICK p \in Procs, m \in [0..IMAGE - 1 -> Frames] :
       /\ st = [q \in Procs |-> IF q = p THEN "run" ELSE "unused"]
       /\ sz = [q \in Procs |-> IF q = p THEN IMAGE * PGSIZE ELSE 0]
       /\ pte = [q \in Procs |-> [g \in Pages |-> IF q = p /\ g < IMAGE THEN m[g] ELSE NONE]]
       /\ perm = [q \in Procs |-> [g \in Pages |-> IF q = p /\ g < IMAGE THEN {"R", "W", "U"} ELSE {}]]
       /\ mem = [f \in Frames |-> IF \E g \in 0..IMAGE - 1 : m[g] = f THEN "img" ELSE "junk"]
       /\ free = Frames \ {m[g] : g \in 0..IMAGE - 1}
       /\ fd = [q \in Procs |-> q = p] /\ ref = 1
  BY Zenon DEF Init
<1>2. ProcTypes
  <2>1. IMAGE * PGSIZE \in 0..TRAPFRAME /\ 0 \in 0..TRAPFRAME
    BY AddrSpaceAssumption
  <2>2. st \in [Procs -> {"unused", "run", "zombie"}] /\ sz \in [Procs -> 0..TRAPFRAME] /\ ref \in Int
    BY <1>1, <2>1
  <2>3. fd \in [Procs -> BOOLEAN]
    BY <1>1, Zenon
  <2>4. writable \in BOOLEAN /\ panicked = ""
    BY Zenon, AddrSpaceAssumption DEF Init
  <2> QED
    BY Zenon, <2>2, <2>3, <2>4 DEF ProcTypes
<1>3. PageTypes
  <2>1. \A g \in Pages : g < IMAGE => g \in 0..IMAGE - 1
    BY Boundaries, AddrSpaceAssumption DEF Pages
  <2>2. pte \in [Procs -> [Pages -> Frames \cup {NONE}]]
    BY <1>1, <2>1
  <2>3. perm \in [Procs -> [Pages -> SUBSET {"R", "W", "X", "U"}]]
    BY <1>1
  <2>4. mem \in [Frames -> Contents] /\ free \subseteq Frames
    BY <1>1, LoadedContents DEF Loaded
  <2>5. ASSUME NEW q \in Procs, NEW g \in Pages, pte[q][g] = NONE PROVE perm[q][g] = {}
    BY <1>1, <2>1, <2>5, NoneIsNothing
  <2> QED
    BY <2>2, <2>3, <2>4, <2>5 DEF PageTypes
<1>4. RegionTypes
  BY Zenon DEF Init, RegionTypes
<1>5. FileTypes
  <2>1. \A k \in DOMAIN FileInit : FileInit[k] \in Contents
    BY DEF Contents
  <2>2. "zero" \in Contents
    BY LoadedContents DEF Loaded
  <2>3. file = [k \in 0..FILEMAX - 1 |-> IF k \in DOMAIN FileInit THEN FileInit[k] ELSE "zero"] /\ fsize = FileSize
    BY Zenon DEF Init
  <2> QED
    BY <2>1, <2>2, <2>3, AddrSpaceAssumption DEF FileTypes
<1>6. CallTypes
  BY Zenon DEF Init, CallTypes
<1> QED
  BY <1>2, <1>3, <1>4, <1>5, <1>6 DEF TypeInv
\* A page below an address is a page; so are the pages of a process.
LEMMA PageSets ==
  /\ \A n : Below(n) \subseteq Pages
  /\ \A p : Mapped(p) \subseteq Pages
BY DEF Below, Mapped

LEMMA GrowTypes ==
  ASSUME TypeInv, NEW p \in Procs, NEW n \in Int, n > 0, GrowEager(p, n)
  PROVE  PageTypes' /\ sz' \in [Procs -> 0..TRAPFRAME] /\ panicked' \in {"", "remap", "leaf"}
<1> DEFINE new == Below(sz[p] + n) \ Below(sz[p])
<1>0. sz[p] \in 0..TRAPFRAME /\ sz[p] + n <= TRAPFRAME
  BY Zenon DEF GrowEager, TypeInv, ProcTypes
<1>1. CASE new \cap Mapped(p) # {}
  BY Zenon, <1>1 DEF GrowEager, TypeInv, ProcTypes, PageTypes
<1>2. CASE new \cap Mapped(p) = {}
  <2>1. PICK m \in Allocations(new) :
          /\ pte' = [pte EXCEPT ![p] = [g \in Pages |-> IF g \in new THEN m[g] ELSE pte[p][g]]]
          /\ mem' = [f \in Frames |-> IF \E g \in new : m[g] = f THEN "zero" ELSE mem[f]]
          /\ free' = free \ {m[g] : g \in new}
    BY Zenon, <1>2 DEF GrowEager
  <2>2. /\ perm' = [perm EXCEPT ![p] = [g \in Pages |-> IF g \in new THEN {"R", "W", "U"} ELSE perm[p][g]]]
        /\ sz' = [sz EXCEPT ![p] = sz[p] + n] /\ panicked' = panicked
    BY <1>2, Zenon DEF GrowEager
  <2>3. new \subseteq Pages /\ \A g \in new : m[g] \in Frames /\ m[g] # NONE
    BY <2>1, PageSets, NoneIsNothing, Zenon DEF Allocations, TypeInv, PageTypes
  <2> HIDE DEF new
  <2>4. /\ pte' \in [Procs -> [Pages -> Frames \cup {NONE}]]
        /\ perm' \in [Procs -> [Pages -> SUBSET {"R", "W", "X", "U"}]]
    BY <2>1, <2>2, <2>3 DEF TypeInv, PageTypes
  <2>5. mem' \in [Frames -> Contents] /\ free' \subseteq Frames
    BY <2>1, LoadedContents, Zenon DEF TypeInv, PageTypes, Loaded
  <2>6. ASSUME NEW q \in Procs, NEW h \in Pages, pte'[q][h] = NONE PROVE perm'[q][h] = {}
    BY <2>1, <2>2, <2>3, <2>6, Zenon DEF TypeInv, PageTypes
  <2>7. PageTypes'
    BY <2>4, <2>5, <2>6 DEF PageTypes
  <2>8. sz[p] + n \in 0..TRAPFRAME /\ sz \in [Procs -> 0..TRAPFRAME] /\ panicked \in {"", "remap", "leaf"}
    <3>1. sz[p] + n \in 0..TRAPFRAME
      BY <1>0, AddrSpaceAssumption
    <3> QED
      BY Zenon, <3>1 DEF TypeInv, ProcTypes
  <2> QED
    BY Zenon, <2>7, <2>2, <2>8
<1> QED
  BY Zenon, <1>1, <1>2

LEMMA SbrkTypes ==
  ASSUME TypeInv, NEW p \in Procs, sys_sbrk(p)
  PROVE  TypeInv'
<1>1. UNCHANGED <<st, vmas, vregs, fd, ref, writable, file, fsize, call>>
  BY Zenon DEF sys_sbrk
<1>2. RegionTypes' /\ FileTypes' /\ CallTypes'
  BY <1>1, Zenon DEF TypeInv, RegionTypes, FileTypes, CallTypes
<1>3. PageTypes' /\ sz' \in [Procs -> 0..TRAPFRAME] /\ panicked' \in {"", "remap", "leaf"}
  <2>0. sz[p] \in 0..TRAPFRAME
    BY Zenon DEF TypeInv, ProcTypes
  <2>1. PICK n \in Deltas : \/ n > 0 /\ (GrowEager(p, n) \/ GrowLazy(p, n))
                            \/ n < 0 /\ Shrink(p, n)
    BY Zenon DEF sys_sbrk
  <2>2. n \in Int
    BY AddrSpaceAssumption
  <2>3. CASE n > 0 /\ GrowEager(p, n)
    BY Zenon, <2>2, <2>3, GrowTypes
  <2>4. CASE n > 0 /\ GrowLazy(p, n)
    <3>1. Add(sz[p], n) \in 0..TRAPFRAME
      <4>1. n \in Nat /\ sz[p] \in Nat
        BY <2>0, <2>2, <2>4
      <4>2. Add(sz[p], n) \in Nat /\ Add(sz[p], n) <= TRAPFRAME
        BY Zenon, <4>1, <2>4, AddIsAddress DEF GrowLazy
      <4> QED
        BY <4>2, AddrSpaceAssumption
    <3> QED
      BY Zenon, <3>1, <2>4 DEF GrowLazy, TypeInv, ProcTypes, PageTypes
  <2>5. CASE n < 0 /\ Shrink(p, n)
    <3>1. (sz[p] + n) % ADDRS \in Nat
      BY ONLY <2>0, <2>2, AddrSpaceAssumption
    <3>2. PageTypes'
      BY <2>5, UnmapTypes, PageSets, Zenon DEF Shrink, TypeInv
    <3> DEFINE new == (sz[p] + n) % ADDRS
    <3>3. new < sz[p] /\ sz' = [sz EXCEPT ![p] = new] /\ panicked' = panicked
      BY <2>5, Zenon DEF Shrink
    <3> HIDE DEF new
    <3>4. new \in 0..TRAPFRAME
      BY ONLY <3>1, <3>3, <2>0, AddrSpaceAssumption DEF new
    <3> QED
      BY Zenon, <3>2, <3>3, <3>4 DEF TypeInv, ProcTypes
  <2> QED
    BY Zenon, <2>1, <2>3, <2>4, <2>5
<1> QED
  BY Zenon, <1>1, <1>2, <1>3 DEF TypeInv, ProcTypes

LEMMA MapzeroTypes ==
  ASSUME TypeInv, NEW p \in Procs, sys_mapzero(p)
  PROVE  TypeInv'
<1>1. UNCHANGED <<st, mapping, vmas, fd, ref, writable, file, fsize, call, panicked>>
  BY Zenon DEF sys_mapzero
<1>2. PageTypes' /\ FileTypes' /\ CallTypes'
  BY <1>1, Zenon DEF TypeInv, PageTypes, FileTypes, CallTypes
<1>3. PICK n \in Lengths \ {0}, i \in 1..NVREG :
        /\ Add(sz[p], PGROUNDUP(n)) <= TRAPFRAME
        /\ vregs' = [vregs EXCEPT ![p][i] = [start |-> sz[p], size |-> PGROUNDUP(n)]]
        /\ sz' = [sz EXCEPT ![p] = Add(sz[p], PGROUNDUP(n))]
  BY Zenon DEF sys_mapzero
<1>4. n \in Nat /\ PGROUNDUP(n) \in 0..ADDRS - 1 /\ sz[p] \in 0..TRAPFRAME
  <2>1. n \in Nat
    BY AddrSpaceAssumption
  <2> QED
    BY Zenon, <2>1, RoundUp DEF TypeInv, ProcTypes
<1>5. Add(sz[p], PGROUNDUP(n)) \in 0..TRAPFRAME
  BY ONLY <1>3, <1>4, AddIsAddress
<1>6. [start |-> sz[p], size |-> PGROUNDUP(n)] \in Vreg
  BY <1>4, Zenon DEF Vreg
<1>7. RegionTypes'
  BY <1>1, <1>3, <1>6, Zenon DEF TypeInv, RegionTypes
<1>8. ProcTypes'
  <2>1. sz' \in [Procs -> 0..TRAPFRAME]
    BY Zenon, <1>3, <1>5 DEF TypeInv, ProcTypes
  <2> QED
    BY Zenon, <1>1, <2>1 DEF TypeInv, ProcTypes
<1> QED
  BY <1>2, <1>7, <1>8 DEF TypeInv

LEMMA MmapTypes ==
  ASSUME TypeInv, NEW p \in Procs, sys_mmap(p)
  PROVE  /\ TypeInv'
         /\ \E i \in Slots, v \in Vma : vmas[p][i] = NONE /\ vmas' = [vmas EXCEPT ![p][i] = v]
<1>1. UNCHANGED <<st, mapping, vregs, fd, writable, file, fsize, call, panicked>> /\ ref' = ref + 1
  BY Zenon DEF sys_mmap
<1>2. PageTypes' /\ FileTypes' /\ CallTypes'
  BY <1>1, Zenon DEF TypeInv, PageTypes, FileTypes, CallTypes
<1>3. PICK n \in Lengths \ {0}, prot \in Prots, shared \in BOOLEAN, k \in Offsets, i \in Slots :
        /\ "W" \in prot /\ shared => writable
        /\ vmas[p][i] = NONE /\ \A j \in 1..i - 1 : vmas[p][j] # NONE
        /\ MmapTop(p, n) <= TRAPFRAME
        /\ sz' = [sz EXCEPT ![p] = MmapTop(p, n)]
        /\ vmas' = [vmas EXCEPT ![p][i] = [addr |-> PGROUNDUP(sz[p]), length |-> PGROUNDUP(n), prot |-> prot,
                                           shared |-> shared, off |-> k]]
  BY Zenon DEF sys_mmap
<1> DEFINE v == [addr |-> PGROUNDUP(sz[p]), length |-> PGROUNDUP(n), prot |-> prot, shared |-> shared, off |-> k]
<1>4. /\ n \in Nat /\ PGROUNDUP(n) \in 0..ADDRS - 1 /\ sz[p] \in 0..TRAPFRAME
      /\ PGROUNDUP(sz[p]) \in 0..TRAPFRAME
  <2>0. sz[p] \in 0..TRAPFRAME
    BY Zenon DEF TypeInv, ProcTypes
  <2>1. n \in Nat /\ sz[p] \in 0..TRAPFRAME /\ sz[p] \in Nat
    BY <2>0, AddrSpaceAssumption
  <2>2. PGROUNDUP(n) \in 0..ADDRS - 1 /\ PGROUNDUP(sz[p]) \in 0..ADDRS - 1 /\ PGROUNDUP(sz[p]) <= TRAPFRAME
    BY <2>1, RoundUp
  <2> QED
    BY ONLY <2>1, <2>2, AddrSpaceAssumption
<1>5. MmapTop(p, n) \in 0..TRAPFRAME
  BY ONLY <1>3, <1>4, AddIsAddress DEF MmapTop
<1>6. v \in Vma /\ Add(v.addr, v.length) <= TRAPFRAME
  BY ONLY <1>4, <1>5 DEF Vma, MmapTop
<1>7. RegionTypes'
  <2> HIDE DEF v
  <2>1. vmas' = [vmas EXCEPT ![p][i] = v] /\ vregs' = vregs
    BY <1>1, <1>3, Zenon DEF v
  <2>2. vmas' \in [Procs -> [Slots -> Vma \cup {NONE}]]
    BY <2>1, <1>6, Zenon DEF TypeInv, RegionTypes
  <2>3. ASSUME NEW q \in Procs, NEW j \in Slots, vmas'[q][j] # NONE
        PROVE  Add(vmas'[q][j].addr, vmas'[q][j].length) <= TRAPFRAME
    <3>1. CASE q = p /\ j = i
      BY <2>1, <1>6, <3>1, Zenon DEF TypeInv, RegionTypes
    <3>2. CASE ~(q = p /\ j = i)
      <4>1. vmas'[q][j] = vmas[q][j]
        BY <2>1, <3>2 DEF TypeInv, RegionTypes
      <4> QED
        BY <4>1, <2>3, Zenon DEF TypeInv, RegionTypes
    <3> QED
      BY Zenon, <3>1, <3>2
  <2> QED
    BY <2>1, <2>2, <2>3, Zenon DEF TypeInv, RegionTypes, Add
<1>8. ProcTypes'
  <2>1. sz' \in [Procs -> 0..TRAPFRAME]
    BY Zenon, <1>3, <1>5 DEF TypeInv, ProcTypes
  <2>2. ref' \in Int
    <3>1. ref \in Int /\ ref' = ref + 1
      BY Zenon, <1>1 DEF TypeInv, ProcTypes
    <3> QED
      BY <3>1
  <2> QED
    BY Zenon, <1>1, <2>1, <2>2 DEF TypeInv, ProcTypes
<1>9. \E j \in Slots, w \in Vma : vmas[p][j] = NONE /\ vmas' = [vmas EXCEPT ![p][j] = w]
  <2> HIDE DEF v
  <2> QED
    BY Zenon, <1>3, <1>6 DEF v
<1> QED
  BY Zenon, <1>9, <1>2, <1>7, <1>8 DEF TypeInv

\* What a process owns: while it is inside munmap or exit its slot in use; when
\* it has exited no file reference, and when it is reaped no page either.
OwnInv ==
  \A p \in Procs :
    /\ call[p] # NONE => st[p] = "run"
    /\ call[p] # NONE /\ call[p].slot # 0 => vmas[p][call[p].slot] # NONE
    /\ st[p] # "run" => ~fd[p] /\ \A i \in Slots : vmas[p][i] = NONE
    /\ st[p] = "unused" => \A g \in Pages : pte[p][g] = NONE

LEMMA VmaFields ==
  ASSUME NEW v \in Vma
  PROVE  v.addr \in Nat /\ v.off \in Nat /\ v.length \in Nat /\ v.prot \in SUBSET {"R", "W", "X"}
<1>1. v.addr \in 0..TRAPFRAME /\ v.off \in Offsets /\ v.length \in 0..ADDRS - 1 /\ v.prot \in Prots
  BY DEF Vma
<1>2. v.addr \in Nat /\ v.length \in Nat
  BY <1>1
<1>3. Offsets \subseteq Nat /\ Prots \subseteq SUBSET {"R", "W", "X"}
  BY AddrSpaceAssumption
<1> QED
  BY Zenon, <1>1, <1>2, <1>3

LEMMA MapPanics ==
  ASSUME NEW p, NEW g, NEW f, NEW c, NEW r, Map(p, g, f, c, r)
  PROVE  panicked' = "remap" \/ panicked' = panicked
BY DEF Map

LEMMA SetCall ==
  ASSUME TypeInv, NEW p \in Procs, NEW c \in Call \cup {NONE},
         c # NONE /\ c.op = "lazy" => Page(c.va) \in Pages /\ c.slot = 0,
         call' = [call EXCEPT ![p] = c]
  PROVE  CallTypes'
<1>1. call' \in [Procs -> Call \cup {NONE}]
  BY DEF TypeInv, CallTypes
<1>2. ASSUME NEW q \in Procs, call'[q] # NONE, call'[q].op = "lazy"
      PROVE  Page(call'[q].va) \in Pages /\ call'[q].slot = 0
  <2>1. CASE q = p
    BY <1>2, <2>1, Zenon DEF TypeInv, CallTypes
  <2>2. CASE q # p
    <3>1. call'[q] = call[q]
      BY <2>2, Zenon DEF TypeInv, CallTypes
    <3> QED
      BY <3>1, <1>2, Zenon DEF TypeInv, CallTypes
  <2> QED
    BY <2>1, <2>2
<1> QED
  BY <1>1, <1>2 DEF CallTypes, Page

LEMMA SetExiting ==
  ASSUME TypeInv, NEW p \in Procs, call' = [call EXCEPT ![p] = Exiting]
  PROVE  CallTypes'
<1>1. Exiting \in Call /\ Exiting.op # "lazy"
  BY CallValues, Zenon DEF Exiting
<1> QED
  BY Zenon, <1>1, SetCall

LEMMA MunmapTypes ==
  ASSUME TypeInv, NEW p \in Procs, sys_munmap(p)
  PROVE  TypeInv'
<1>1. UNCHANGED <<st, sz, mapping, vmas, vregs, fd, ref, writable, file, fsize, panicked>>
  BY Zenon DEF sys_munmap
<1>2. ProcTypes' /\ PageTypes' /\ RegionTypes' /\ FileTypes'
  BY Zenon, <1>1 DEF TypeInv, ProcTypes, PageTypes, RegionTypes, FileTypes
<1>3. PICK addr \in 0..TRAPFRAME - 1, n \in Lengths :
        \E i \in VmaOf(p, addr) :
          /\ addr + n <= TRAPFRAME
          /\ call' = [call EXCEPT ![p] = [op |-> "munmap", slot |-> i,
                                          va |-> PGROUNDDOWN(addr), end |-> PGROUNDUP(addr + n)]]
  BY Zenon DEF sys_munmap
<1>4. PICK i \in VmaOf(p, addr) :
        /\ addr + n <= TRAPFRAME
        /\ call' = [call EXCEPT ![p] = [op |-> "munmap", slot |-> i,
                                        va |-> PGROUNDDOWN(addr), end |-> PGROUNDUP(addr + n)]]
  BY Zenon, <1>3
<1>41. i \in 0..MAXVMA
  BY ONLY AddrSpaceAssumption DEF VmaOf, VmaSlots, Slots
<1>5. PGROUNDDOWN(addr) \in Nat /\ PGROUNDUP(addr + n) \in 0..TRAPFRAME
  <2>1. addr \in Nat /\ n \in Nat /\ addr + n \in Nat
    BY ONLY AddrSpaceAssumption
  <2>2. PGROUNDUP(addr + n) \in 0..ADDRS - 1 /\ PGROUNDUP(addr + n) <= TRAPFRAME
    BY Zenon, <2>1, <1>4, RoundUp
  <2> QED
    BY ONLY <2>1, <2>2, RoundDown, AddrSpaceAssumption
<1> DEFINE c == [op |-> "munmap", slot |-> i, va |-> PGROUNDDOWN(addr), end |-> PGROUNDUP(addr + n)]
<1>6. c \in Call /\ c.op # "lazy"
  BY <1>41, <1>5, Zenon DEF Call
<1>7. CallTypes'
  <2>1. call' = [call EXCEPT ![p] = c]
    BY Zenon, <1>4
  <2> HIDE DEF c
  <2> QED
    BY Zenon, <1>6, <2>1, SetCall
<1> QED
  BY <1>2, <1>7 DEF TypeInv

LEMMA ReleasePageTypes ==
  ASSUME TypeInv, OwnInv, NEW p \in Procs, ReleasePage(p)
  PROVE  TypeInv'
<1> DEFINE v == vmas[p][call[p].slot]
           g == Page(call[p].va)
<1>1. UNCHANGED <<st, sz, vmas, vregs, fd, ref, writable, panicked>>
  BY Zenon DEF ReleasePage
<1>2. ProcTypes' /\ RegionTypes'
  BY Zenon, <1>1 DEF TypeInv, ProcTypes, RegionTypes
<1>3. /\ call[p] \in Call /\ call[p] # NONE /\ call[p].slot # 0 /\ call[p].va < call[p].end
      /\ call' = [call EXCEPT ![p].va = call[p].va + PGSIZE]
  BY Zenon DEF ReleasePage, TypeInv, CallTypes
<1>4. call[p].va \in Nat /\ call[p].end \in 0..TRAPFRAME /\ call[p].op # "lazy" /\ call[p].slot \in 0..MAXVMA
  BY <1>3 DEF Call, TypeInv, CallTypes
<1>5. g \in Pages
  <2>1. call[p].va \in 0..TRAPFRAME - 1
    BY ONLY <1>3, <1>4, AddrSpaceAssumption
  <2> QED
    BY Zenon, <2>1, PageBelow
<1>6. CallTypes'
  <2> DEFINE c == [call[p] EXCEPT !.va = call[p].va + PGSIZE]
  <2>1. c \in Call /\ c.op # "lazy"
    BY <1>3, <1>4, AddrSpaceAssumption DEF Call
  <2>2. call' = [call EXCEPT ![p] = c]
    BY <1>3 DEF TypeInv, CallTypes
  <2> HIDE DEF c
  <2> QED
    BY Zenon, <2>1, <2>2, SetCall
<1>7. PageTypes' /\ FileTypes'
  <2>1. CASE pte[p][g] = NONE
    BY Zenon, <2>1 DEF ReleasePage, TypeInv, PageTypes, FileTypes
  <2>2. CASE pte[p][g] # NONE
    <3>1. Unmap(p, {g}) /\ (writei(FileIndex(v, g), mem[pte[p][g]]) \/ UNCHANGED <<file, fsize>>)
      BY Zenon, <2>2 DEF ReleasePage
    <3>2. PageTypes'
      BY Zenon, <3>1, <1>5, UnmapTypes DEF TypeInv
    <3>3. CASE UNCHANGED <<file, fsize>>
      BY <3>2, <3>3 DEF TypeInv, FileTypes
    <3>4. CASE writei(FileIndex(v, g), mem[pte[p][g]])
      <4>1. mem[pte[p][g]] \in Contents
        BY <2>2, <1>5 DEF TypeInv, PageTypes
      <4>2. FileIndex(v, g) \in Int
        <5>1. v \in Vma
          <6>1. call[p].slot \in Slots
            BY <1>3, <1>4, AddrSpaceAssumption DEF Slots
          <6> QED
            BY <1>3, <6>1 DEF OwnInv, TypeInv, RegionTypes
        <5>2. v.addr \in Nat /\ v.off \in Nat
          BY Zenon, <5>1, VmaFields
        <5>3. Page(v.addr) \in Int /\ g \in Int
          BY ONLY <5>2, <1>5, PageOrder DEF Pages
        <5> HIDE DEF v, g
        <5> QED
          BY <5>2, <5>3 DEF FileIndex
      <4> QED
        BY Zenon, <4>1, <4>2, <3>2, <3>4, WriteTypes DEF TypeInv
    <3> QED
      BY Zenon, <3>1, <3>3, <3>4
  <2> QED
    BY Zenon, <2>1, <2>2
<1> QED
  BY <1>2, <1>6, <1>7 DEF TypeInv

LEMMA ReleaseVmaTypes ==
  ASSUME TypeInv, NEW p \in Procs, ReleaseVma(p)
  PROVE  TypeInv'
<1>1. UNCHANGED <<st, sz, mapping, vregs, fd, writable, file, fsize, panicked>>
  BY Zenon DEF ReleaseVma
<1>2. PageTypes' /\ FileTypes'
  BY <1>1, Zenon DEF TypeInv, PageTypes, FileTypes
<1>3. ProcTypes'
  <2>1. ref \in Int /\ ref' = ref - 1
    BY Zenon DEF ReleaseVma, TypeInv, ProcTypes
  <2>2. ref' \in Int
    BY <2>1
  <2> QED
    BY Zenon, <1>1, <2>2 DEF TypeInv, ProcTypes
<1>4. RegionTypes'
  <2>1. vmas' = [vmas EXCEPT ![p][call[p].slot] = NONE] /\ vregs' = vregs
    BY Zenon DEF ReleaseVma
  <2>2. vmas' \in [Procs -> [Slots -> Vma \cup {NONE}]]
    BY Zenon, <2>1 DEF TypeInv, RegionTypes
  <2>3. ASSUME NEW q \in Procs, NEW j \in Slots, vmas'[q][j] # NONE
        PROVE  Add(vmas'[q][j].addr, vmas'[q][j].length) <= TRAPFRAME
    <3>1. vmas'[q][j] = vmas[q][j]
      BY <2>1, <2>3, Zenon DEF TypeInv, RegionTypes
    <3> QED
      BY <3>1, <2>3, Zenon DEF TypeInv, RegionTypes
  <2> QED
    BY Zenon, <2>1, <2>2, <2>3 DEF TypeInv, RegionTypes, Add
<1>5. CallTypes'
  <2>1. \/ call' = [call EXCEPT ![p] = NONE]
        \/ call' = [call EXCEPT ![p] = Exiting]
    BY Zenon DEF ReleaseVma
  <2> QED
    BY <2>1, SetCall, SetExiting
<1> QED
  BY <1>2, <1>3, <1>4, <1>5 DEF TypeInv

LEMMA StoreTypes ==
  ASSUME TypeInv, NEW p \in Procs, NEW g \in Pages, NEW c \in Vals,
         mem' = [mem EXCEPT ![pte[p][g]] = c], UNCHANGED <<pte, perm, free>>
  PROVE  PageTypes'
<1>1. c \in Contents
  BY LoadedContents
<1> QED
  BY Zenon, <1>1 DEF TypeInv, PageTypes

LEMMA FaultTypes ==
  ASSUME TypeInv, NEW p \in Procs, Fault(p)
  PROVE  TypeInv'
<1>1. UNCHANGED <<st, sz, vmas, vregs, fd, ref, writable, file, fsize>>
  BY Zenon DEF Fault, mmap_fault
<1>2. RegionTypes' /\ FileTypes'
  BY <1>1, Zenon DEF TypeInv, RegionTypes, FileTypes
<1>3. PICK va \in 0..TRAPFRAME - 1 :
        \/ /\ \E f \in free : Map(p, Page(va), f, "A", {"R", "W", "U"})
           /\ UNCHANGED call
        \/ /\ call' = [call EXCEPT ![p] = Exiting]
           /\ UNCHANGED <<mapping, panicked>>
        \/ /\ \E f \in free, i \in VmaOf(p, va) :
                Map(p, Page(va), f, FilePage(FileIndex(vmas[p][i], Page(va))), {"U"} \cup vmas[p][i].prot)
           /\ UNCHANGED call
        \/ /\ call' = [call EXCEPT ![p] = [op |-> "lazy", slot |-> 0, va |-> va, end |-> va]]
           /\ UNCHANGED <<mapping, panicked>>
  BY Zenon DEF Fault, mmap_fault
<1>4. Page(va) \in Pages
  BY PageBelow
<1>5. PageTypes' /\ CallTypes' /\ panicked' \in {"", "remap", "leaf"}
  <2>1. CASE (\E f \in free : Map(p, Page(va), f, "A", {"R", "W", "U"})) /\ UNCHANGED call
    <3>1. "A" \in Contents
      BY LoadedContents DEF Loaded
    <3> QED
      BY Zenon, <2>1, <3>1, <1>4, MapTypes, MapPanics DEF TypeInv, CallTypes, ProcTypes
  <2>2. CASE call' = [call EXCEPT ![p] = Exiting] /\ UNCHANGED <<mapping, panicked>>
    BY Zenon, <2>2, SetExiting DEF TypeInv, PageTypes, ProcTypes
  <2>3. CASE /\ \E f \in free, i \in VmaOf(p, va) :
                  Map(p, Page(va), f, FilePage(FileIndex(vmas[p][i], Page(va))), {"U"} \cup vmas[p][i].prot)
             /\ UNCHANGED call
    <3>1. PICK f \in free, i \in VmaOf(p, va) :
            Map(p, Page(va), f, FilePage(FileIndex(vmas[p][i], Page(va))), {"U"} \cup vmas[p][i].prot)
      BY Zenon, <2>3
    <3> DEFINE v == vmas[p][i]
    <3>2. v \in Vma /\ va >= v.addr
      BY DEF VmaOf, VmaSlots, Covers, TypeInv, RegionTypes
    <3>3. v.addr \in Nat /\ v.off \in Nat /\ v.prot \in SUBSET {"R", "W", "X"}
      BY Zenon, <3>2, VmaFields
    <3>4. FileIndex(v, Page(va)) \in Nat
      <4>1. Page(v.addr) \in Nat /\ Page(va) \in Nat /\ Page(v.addr) <= Page(va)
        BY ONLY <3>2, <3>3, PageOrder, va \in Nat
      <4> HIDE DEF v
      <4> QED
        BY ONLY <4>1, <3>3 DEF FileIndex
    <3>5. FilePage(FileIndex(v, Page(va))) \in Contents
      BY <3>4, FilePageType DEF TypeInv
    <3>6. {"U"} \cup v.prot \in SUBSET {"R", "W", "X", "U"}
      BY Zenon, <3>3
    <3>7. Map(p, Page(va), f, FilePage(FileIndex(v, Page(va))), {"U"} \cup v.prot)
      BY Zenon, <3>1
    <3> HIDE DEF v
    <3> QED
      BY Zenon, <3>5, <3>6, <3>7, <2>3, <1>4, MapTypes, MapPanics DEF TypeInv, CallTypes, ProcTypes
  <2>4. CASE /\ call' = [call EXCEPT ![p] = [op |-> "lazy", slot |-> 0, va |-> va, end |-> va]]
             /\ UNCHANGED <<mapping, panicked>>
    <3>1. [op |-> "lazy", slot |-> 0, va |-> va, end |-> va] \in Call
      BY Zenon, CallValues
    <3>2. CallTypes'
      BY Zenon, <2>4, <3>1, <1>4, SetCall
    <3> QED
      BY Zenon, <2>4, <3>2 DEF TypeInv, PageTypes, ProcTypes
  <2> QED
    BY Zenon, <1>3, <2>1, <2>2, <2>3, <2>4
<1>6. ProcTypes'
  BY Zenon, <1>1, <1>5 DEF TypeInv, ProcTypes
<1> QED
  BY Zenon, <1>2, <1>5, <1>6 DEF TypeInv

LEMMA LazyFaultTypes ==
  ASSUME TypeInv, NEW p \in Procs, LazyFault(p)
  PROVE  TypeInv'
<1> DEFINE g == Page(call[p].va)
<1>1. UNCHANGED <<st, sz, vmas, vregs, fd, ref, writable, file, fsize>>
  BY Zenon DEF LazyFault, vmfault
<1>2. RegionTypes' /\ FileTypes'
  BY <1>1 DEF TypeInv, RegionTypes, FileTypes
<1>3. g \in Pages
  BY Zenon DEF LazyFault, vmfault, TypeInv, CallTypes
<1>4. \/ /\ \E f \in free : Map(p, g, f, "zero", {"R", "W", "U"})
         /\ call' = [call EXCEPT ![p] = NONE]
      \/ /\ Unmap(p, {g})
         /\ call' = [call EXCEPT ![p] = Exiting]
         /\ UNCHANGED panicked
  BY Zenon DEF LazyFault, vmfault
<1>5. "zero" \in Contents
  BY LoadedContents DEF Loaded
<1> HIDE DEF g
<1>6. PageTypes' /\ panicked' \in {"", "remap", "leaf"}
  BY Zenon, <1>3, <1>4, <1>5, MapTypes, MapPanics, UnmapTypes DEF TypeInv, ProcTypes
<1>7. CallTypes'
  BY Zenon, <1>4, SetCall, SetExiting
<1>8. ProcTypes'
  BY Zenon, <1>1, <1>6 DEF TypeInv, ProcTypes
<1> QED
  BY Zenon, <1>2, <1>6, <1>7, <1>8 DEF TypeInv

LEMMA StoreStep ==
  ASSUME TypeInv, NEW p \in Procs, Store(p)
  PROVE  TypeInv'
<1>1. UNCHANGED <<st, sz, pte, perm, free, vmas, vregs, fd, ref, writable, file, fsize, call, panicked>>
  BY Zenon DEF Store
<1>2. ProcTypes' /\ RegionTypes' /\ FileTypes' /\ CallTypes'
  BY Zenon, <1>1 DEF TypeInv, ProcTypes, RegionTypes, FileTypes, CallTypes
<1>3. PageTypes'
  BY Zenon, <1>1, StoreTypes DEF Store
<1> QED
  BY <1>2, <1>3, Zenon DEF TypeInv

\* map_ro and the two halves of copyin and copyout: at most one page is mapped.
LEMMA MapStep ==
  ASSUME TypeInv, NEW p \in Procs, NEW g \in Pages, NEW f \in free, NEW c \in Contents,
         NEW r \in SUBSET {"R", "W", "X", "U"}, Map(p, g, f, c, r),
         UNCHANGED <<st, sz, vmas, vregs, fd, ref, writable, file, fsize, call>>
  PROVE  TypeInv'
<1>1. RegionTypes' /\ FileTypes' /\ CallTypes'
  BY Zenon DEF TypeInv, RegionTypes, FileTypes, CallTypes
<1>2. PageTypes'
  BY MapTypes, Zenon DEF TypeInv
<1>3. ProcTypes'
  BY Zenon, MapPanics DEF TypeInv, ProcTypes
<1> QED
  BY <1>1, <1>2, <1>3, Zenon DEF TypeInv

LEMMA CopyTypes ==
  ASSUME TypeInv, NEW p \in Procs, sys_map_ro(p) \/ copyin(p) \/ copyout(p)
  PROVE  TypeInv'
<1>1. CASE sys_map_ro(p)
  <2>1. "ro" \in Contents
    BY LoadedContents DEF Loaded
  <2> QED
    BY Zenon, <1>1, <2>1, MapStep DEF sys_map_ro
<1>2. CASE copyin(p)
  <2>1. "zero" \in Contents
    BY LoadedContents DEF Loaded
  <2> QED
    BY Zenon, <1>2, <2>1, MapStep, PageSets DEF copyin
<1>3. CASE copyout(p)
  <2>1. UNCHANGED <<st, sz, vmas, vregs, fd, ref, writable, file, fsize, call>>
    BY Zenon, <1>3 DEF copyout
  <2>2. PICK g \in Pages, c \in Vals :
          \/ /\ mem' = [mem EXCEPT ![pte[p][g]] = c]
             /\ UNCHANGED <<pte, perm, free, panicked>>
          \/ \E f \in free : Map(p, g, f, c, {"R", "W", "U"})
    BY Zenon, <1>3 DEF copyout
  <2>3. CASE mem' = [mem EXCEPT ![pte[p][g]] = c] /\ UNCHANGED <<pte, perm, free, panicked>>
    <3>1. PageTypes'
      BY Zenon, <2>3, StoreTypes
    <3> QED
      BY Zenon, <2>1, <2>3, <3>1 DEF TypeInv, ProcTypes, RegionTypes, FileTypes, CallTypes
  <2>4. CASE \E f \in free : Map(p, g, f, c, {"R", "W", "U"})
    BY Zenon, <2>1, <2>4, MapStep, LoadedContents
  <2> QED
    BY Zenon, <2>2, <2>3, <2>4
<1> QED
  BY Zenon, <1>1, <1>2, <1>3

LEMMA ForkPages ==
  ASSUME TypeInv, NEW p \in Procs, NEW c \in Procs, NEW S \in SUBSET Mapped(p), NEW m \in Allocations(S),
         pte' = [pte EXCEPT ![c] = [g \in Pages |-> IF g \in S THEN m[g] ELSE NONE]],
         mem' = [f \in Frames |-> IF \E g \in S : m[g] = f
                                  THEN mem[pte[p][CHOOSE g \in S : m[g] = f]] ELSE mem[f]],
         free' = free \ {m[g] : g \in S},
         perm' = [perm EXCEPT ![c] = [g \in Pages |-> IF g \in S THEN perm[p][g] ELSE {}]]
  PROVE  PageTypes'
<1>1. S \subseteq Pages /\ \A g \in S : m[g] \in Frames /\ m[g] # NONE
  BY NoneIsNothing, Zenon DEF Mapped, Allocations, TypeInv, PageTypes
<1>2. /\ pte' \in [Procs -> [Pages -> Frames \cup {NONE}]]
      /\ perm' \in [Procs -> [Pages -> SUBSET {"R", "W", "X", "U"}]]
  BY <1>1 DEF TypeInv, PageTypes
<1>3. free' \subseteq Frames
  BY Zenon DEF TypeInv, PageTypes
<1>4. mem' \in [Frames -> Contents]
  <2>1. ASSUME NEW f \in Frames, \E g \in S : m[g] = f
        PROVE  mem[pte[p][CHOOSE g \in S : m[g] = f]] \in Contents
    <3> DEFINE h == CHOOSE g \in S : m[g] = f
    <3>1. h \in S
      BY Zenon, <2>1
    <3> HIDE DEF h
    <3>2. pte[p][h] \in Frames
      BY <3>1, <1>1 DEF Mapped, TypeInv, PageTypes
    <3>3. mem[pte[p][h]] \in Contents
      BY Zenon, <3>2 DEF TypeInv, PageTypes
    <3> QED
      BY <3>3, Zenon DEF h
  <2> QED
    BY <2>1, Zenon DEF TypeInv, PageTypes
<1>5. ASSUME NEW q \in Procs, NEW h \in Pages, pte'[q][h] = NONE PROVE perm'[q][h] = {}
  BY <1>1, <1>5, Zenon DEF TypeInv, PageTypes
<1> QED
  BY Zenon, <1>2, <1>3, <1>4, <1>5 DEF PageTypes

LEMMA ForkRefsCount ==
  ASSUME NEW p \in Procs
  PROVE  ForkRefs(p) \in Nat
<1>1. IsFiniteSet(Slots)
  BY ONLY FS_Interval, AddrSpaceAssumption DEF Slots
<1>2. Cardinality({i \in Slots : vmas[p][i] # NONE}) \in Nat
  BY Zenon, <1>1, FS_Subset, FS_CardinalityType
<1> QED
  BY ONLY <1>2 DEF ForkRefs

LEMMA ForkTypes ==
  ASSUME TypeInv, NEW p \in Procs, kfork(p)
  PROVE  TypeInv'
<1> DEFINE S == Below(sz[p]) \cap Mapped(p)
<1>1. PICK c \in Procs :
       /\ \E m \in Allocations(S) :
            /\ pte' = [pte EXCEPT ![c] = [g \in Pages |-> IF g \in S THEN m[g] ELSE NONE]]
            /\ mem' = [f \in Frames |-> IF \E g \in S : m[g] = f
                                        THEN mem[pte[p][CHOOSE g \in S : m[g] = f]] ELSE mem[f]]
            /\ free' = free \ {m[g] : g \in S}
       /\ perm' = [perm EXCEPT ![c] = [g \in Pages |-> IF g \in S THEN perm[p][g] ELSE {}]]
       /\ st' = [st EXCEPT ![c] = "run"]
       /\ sz' = [sz EXCEPT ![c] = sz[p]]
       /\ vregs' = [vregs EXCEPT ![c] = vregs[p]]
       /\ vmas' = [vmas EXCEPT ![c] = vmas[p]]
       /\ fd' = [fd EXCEPT ![c] = fd[p]]
  BY Zenon DEF kfork, uvmcopy
<1>2. ref' = ref + ForkRefs(p) /\ UNCHANGED <<writable, file, fsize, call, panicked>>
  BY Zenon DEF kfork, uvmcopy
<1>3. PageTypes'
  <2>1. S \subseteq Mapped(p)
    OBVIOUS
  <2> HIDE DEF S
  <2> QED
    BY ZenonT(60), <1>1, <2>1, ForkPages
<1> HIDE DEF S
<1>4. ProcTypes'
  <2>1. ref' \in Int
    <3>1. ref \in Int
      BY Zenon DEF TypeInv, ProcTypes
    <3> QED
      BY <1>2, <3>1, ForkRefsCount
  <2>2. st' \in [Procs -> {"unused", "run", "zombie"}] /\ sz' \in [Procs -> 0..TRAPFRAME]
    BY Zenon, <1>1 DEF TypeInv, ProcTypes
  <2>3. fd' \in [Procs -> BOOLEAN]
    BY <1>1, Zenon DEF TypeInv, ProcTypes
  <2> QED
    BY Zenon, <2>1, <2>2, <2>3, <1>2 DEF TypeInv, ProcTypes
<1>5. RegionTypes'
  BY <1>1, Zenon DEF TypeInv, RegionTypes, Add
<1>6. FileTypes' /\ CallTypes'
  BY <1>2, Zenon DEF TypeInv, FileTypes, CallTypes
<1> QED
  BY <1>3, <1>4, <1>5, <1>6, Zenon DEF TypeInv

LEMMA ExecTypes ==
  ASSUME TypeInv, NEW p \in Procs, kexec(p)
  PROVE  TypeInv'
<1> DEFINE new == Below(IMAGE * PGSIZE)
           old == FramesOf(p, Pages)
<1>1. UNCHANGED <<st, vmas, vregs, fd, ref, writable, file, fsize, call>>
  BY Zenon DEF kexec, NoLeaf
<1>2. RegionTypes' /\ FileTypes' /\ CallTypes'
  BY <1>1 DEF TypeInv, RegionTypes, FileTypes, CallTypes
<1>3. CASE panicked' = "leaf" /\ UNCHANGED <<mapping, sz>>
  <2>1. PageTypes' /\ ProcTypes'
    BY Zenon, <1>1, <1>3 DEF TypeInv, PageTypes, ProcTypes
  <2> QED
    BY <1>2, <2>1 DEF TypeInv
<1>4. CASE ~(panicked' = "leaf" /\ UNCHANGED <<mapping, sz>>)
  <2>1. PICK m \in Allocations(new) :
               /\ pte' = [pte EXCEPT ![p] = [g \in Pages |-> IF g \in new THEN m[g] ELSE NONE]]
               /\ mem' = [f \in Frames |-> IF \E g \in new : m[g] = f THEN "img" ELSE kfree(old)[f]]
               /\ free' = (free \ {m[g] : g \in new}) \cup old
    BY Zenon, <1>4 DEF kexec, NoLeaf
  <2>2. /\ perm' = [perm EXCEPT ![p] = [g \in Pages |-> IF g \in new THEN {"R", "W", "U"} ELSE {}]]
        /\ sz' = [sz EXCEPT ![p] = IMAGE * PGSIZE] /\ panicked' = panicked
    BY Zenon, <1>4 DEF kexec, NoLeaf
  <2>3. new \subseteq Pages /\ (\A g \in new : m[g] \in Frames /\ m[g] # NONE) /\ old \subseteq Frames
    BY PageSets, NoneIsNothing DEF Allocations, TypeInv, PageTypes, FramesOf
  <2>4. IMAGE * PGSIZE \in 0..TRAPFRAME
    BY ONLY AddrSpaceAssumption
  <2> HIDE DEF new, old
  <2>5. /\ pte' \in [Procs -> [Pages -> Frames \cup {NONE}]]
        /\ perm' \in [Procs -> [Pages -> SUBSET {"R", "W", "X", "U"}]]
    BY <2>1, <2>2, <2>3, Zenon DEF TypeInv, PageTypes
  <2>6. mem' \in [Frames -> Contents] /\ free' \subseteq Frames
    BY <2>1, <2>3, LoadedContents, Zenon DEF TypeInv, PageTypes, Loaded, kfree
  <2>7. ASSUME NEW q \in Procs, NEW h \in Pages, pte'[q][h] = NONE PROVE perm'[q][h] = {}
    BY Zenon, <2>1, <2>2, <2>3, <2>7 DEF TypeInv, PageTypes
  <2>8. PageTypes'
    BY <2>5, <2>6, <2>7, Zenon DEF PageTypes
  <2>9. ProcTypes'
    BY Zenon, <1>1, <2>2, <2>4 DEF TypeInv, ProcTypes
  <2> QED
    BY <1>2, <2>8, <2>9, Zenon DEF TypeInv
<1> QED
  BY <1>3, <1>4

LEMMA CloseTypes ==
  ASSUME TypeInv, NEW p \in Procs, sys_close(p)
  PROVE  TypeInv'
<1>1. UNCHANGED <<st, sz, mapping, vmas, vregs, writable, file, fsize, call, panicked>>
  BY Zenon DEF sys_close
<1>2. PageTypes' /\ RegionTypes' /\ FileTypes' /\ CallTypes'
  BY <1>1, Zenon DEF TypeInv, PageTypes, RegionTypes, FileTypes, CallTypes
<1>3. fd' \in [Procs -> BOOLEAN]
  BY Zenon DEF sys_close, TypeInv, ProcTypes
<1>4. ref' \in Int
  <2>1. ref \in Int /\ ref' = ref - 1
    BY Zenon DEF sys_close, TypeInv, ProcTypes
  <2> QED
    BY <2>1
<1>5. ProcTypes'
  BY Zenon, <1>1, <1>3, <1>4 DEF TypeInv, ProcTypes
<1> QED
  BY <1>2, <1>5, Zenon DEF TypeInv

LEMMA ExitTypes ==
  ASSUME TypeInv, NEW p \in Procs, sys_exit(p) \/ ExitVma(p)
  PROVE  TypeInv'
<1>1. UNCHANGED <<st, sz, mapping, vmas, vregs, fd, ref, writable, file, fsize, panicked>>
  BY Zenon DEF sys_exit, ExitVma
<1>2. ProcTypes' /\ PageTypes' /\ RegionTypes' /\ FileTypes'
  BY Zenon, <1>1 DEF TypeInv, ProcTypes, PageTypes, RegionTypes, FileTypes
<1>3. CallTypes'
  <2>1. CASE sys_exit(p)
    BY Zenon, <2>1, SetExiting DEF sys_exit
  <2>2. CASE ExitVma(p)
    <3>1. PICK i \in Slots :
            /\ vmas[p][i] # NONE
            /\ call' = [call EXCEPT ![p] = [op |-> "exit", slot |-> i, va |-> vmas[p][i].addr,
                                            end |-> Add(vmas[p][i].addr, vmas[p][i].length)]]
      BY Zenon, <2>2 DEF ExitVma
    <3> DEFINE v == vmas[p][i]
               c == [op |-> "exit", slot |-> i, va |-> v.addr, end |-> Add(v.addr, v.length)]
    <3>2. v \in Vma /\ Add(v.addr, v.length) <= TRAPFRAME
      BY <3>1 DEF TypeInv, RegionTypes
    <3>3. v.addr \in Nat /\ v.length \in Nat
      BY Zenon, <3>2, VmaFields
    <3>4. Add(v.addr, v.length) \in Nat
      BY Zenon, <3>3, AddIsAddress
    <3>5. i \in 0..MAXVMA /\ Add(v.addr, v.length) \in 0..TRAPFRAME
      <4>1. i \in 0..MAXVMA
        BY ONLY AddrSpaceAssumption DEF Slots
      <4> HIDE DEF v
      <4> QED
        BY ONLY <3>2, <3>4, <4>1, AddrSpaceAssumption
    <3>6. call' = [call EXCEPT ![p] = c]
      BY Zenon, <3>1
    <3>7. c \in Call /\ c.op # "lazy"
      BY Zenon, <3>3, <3>5 DEF Call
    <3> HIDE DEF c, v
    <3> QED
      BY Zenon, <3>6, <3>7, SetCall
  <2> QED
    BY Zenon, <2>1, <2>2
<1> QED
  BY <1>2, <1>3, Zenon DEF TypeInv

LEMMA ExitDoneTypes ==
  ASSUME TypeInv, NEW p \in Procs, ExitDone(p)
  PROVE  TypeInv'
<1>1. UNCHANGED <<sz, mapping, vmas, vregs, writable, file, fsize, panicked>>
  BY Zenon DEF ExitDone
<1>2. PageTypes' /\ RegionTypes' /\ FileTypes'
  BY <1>1, Zenon DEF TypeInv, PageTypes, RegionTypes, FileTypes
<1>3. CallTypes'
  BY Zenon, SetCall DEF ExitDone
<1>4. fd' \in [Procs -> BOOLEAN]
  BY Zenon DEF ExitDone, TypeInv, ProcTypes
<1>5. st' \in [Procs -> {"unused", "run", "zombie"}]
  BY Zenon DEF ExitDone, TypeInv, ProcTypes
<1>6. ref' \in Int
  <2>1. ref \in Int /\ (ref' = ref - 1 \/ ref' = ref)
    BY Zenon DEF ExitDone, TypeInv, ProcTypes
  <2> QED
    BY <2>1
<1>7. ProcTypes'
  BY Zenon, <1>1, <1>4, <1>5, <1>6 DEF TypeInv, ProcTypes
<1> QED
  BY <1>2, <1>3, <1>7, Zenon DEF TypeInv

LEMMA FreeprocTypes ==
  ASSUME TypeInv, NEW p \in Procs, freeproc(p)
  PROVE  TypeInv'
<1>1. UNCHANGED <<vmas, fd, ref, writable, file, fsize, call>>
  BY Zenon DEF freeproc, NoLeaf
<1>2. FileTypes' /\ CallTypes'
  BY <1>1, Zenon DEF TypeInv, FileTypes, CallTypes
<1>3. CASE panicked' = "leaf" /\ UNCHANGED <<mapping, sz, st, vregs>>
  BY Zenon, <1>1, <1>2, <1>3 DEF TypeInv, ProcTypes, PageTypes, RegionTypes
<1>4. CASE ~(panicked' = "leaf" /\ UNCHANGED <<mapping, sz, st, vregs>>)
  <2>1. /\ Unmap(p, Pages)
        /\ sz' = [sz EXCEPT ![p] = 0]
        /\ st' = [st EXCEPT ![p] = "unused"]
        /\ vregs' = [vregs EXCEPT ![p] = [i \in 1..NVREG |-> NONE]]
        /\ UNCHANGED panicked
    BY Zenon, <1>4 DEF freeproc, NoLeaf
  <2>2. PageTypes'
    BY <2>1, UnmapTypes, Zenon DEF TypeInv
  <2>3. RegionTypes'
    BY <1>1, <2>1, Zenon DEF TypeInv, RegionTypes
  <2>4. 0 \in 0..TRAPFRAME
    BY ONLY AddrSpaceAssumption
  <2>5. ProcTypes'
    BY Zenon, <1>1, <2>1, <2>4 DEF TypeInv, ProcTypes
  <2> QED
    BY <1>2, <2>2, <2>3, <2>5 DEF TypeInv
<1> QED
  BY Zenon, <1>3, <1>4
-----------------------------------------------------------------------------
(* What processes own                                                      *)

\* A step of a running process p that leaves it running concerns p alone.
LEMMA OwnStep ==
  ASSUME OwnInv, NEW p \in Procs, st'[p] = "run",
         call'[p] # NONE /\ call'[p].slot # 0 => vmas'[p][call'[p].slot] # NONE,
         \A q \in Procs \ {p} : st'[q] = st[q] /\ call'[q] = call[q] /\ vmas'[q] = vmas[q]
                                /\ (fd'[q] => fd[q]) /\ pte'[q] = pte[q]
  PROVE  OwnInv'
<1> SUFFICES ASSUME NEW q \in Procs
             PROVE  /\ call'[q] # NONE => st'[q] = "run"
                    /\ call'[q] # NONE /\ call'[q].slot # 0 => vmas'[q][call'[q].slot] # NONE
                    /\ st'[q] # "run" => ~fd'[q] /\ \A i \in Slots : vmas'[q][i] = NONE
                    /\ st'[q] = "unused" => \A g \in Pages : pte'[q][g] = NONE
  BY Zenon DEF OwnInv
<1>1. CASE q = p
  BY Zenon, <1>1
<1>2. CASE q # p
  BY <1>2 DEF OwnInv
<1> QED
  BY Zenon, <1>1, <1>2

LEMMA MapOthers ==
  ASSUME TypeInv, NEW p \in Procs, NEW g, NEW f, NEW c, NEW r, Map(p, g, f, c, r)
  PROVE  \A q \in Procs \ {p} : pte'[q] = pte[q]
BY Zenon DEF Map, TypeInv, PageTypes

LEMMA UnmapOthers ==
  ASSUME TypeInv, NEW p \in Procs, NEW S, Unmap(p, S)
  PROVE  \A q \in Procs \ {p} : pte'[q] = pte[q]
BY Zenon DEF Unmap, TypeInv, PageTypes

LEMMA SbrkOthers ==
  ASSUME TypeInv, NEW p \in Procs, sys_sbrk(p)
  PROVE  \A q \in Procs \ {p} : pte'[q] = pte[q]
<1>1. PICK n \in Deltas : GrowEager(p, n) \/ GrowLazy(p, n) \/ Shrink(p, n)
  BY Zenon DEF sys_sbrk
<1>2. CASE GrowEager(p, n)
  BY Zenon, <1>2 DEF GrowEager, TypeInv, PageTypes
<1>3. CASE GrowLazy(p, n)
  BY <1>3, Zenon DEF GrowLazy
<1>4. CASE Shrink(p, n)
  BY Zenon, <1>4, UnmapOthers DEF Shrink
<1> QED
  BY Zenon, <1>1, <1>2, <1>3, <1>4

\* Steps in which p is between system calls before and after.
LEMMA OwnCalls ==
  ASSUME TypeInv, OwnInv, NEW p \in Procs,
         sys_sbrk(p) \/ sys_mapzero(p) \/ sys_map_ro(p) \/ sys_mmap(p) \/ Store(p) \/ copyin(p) \/ copyout(p)
           \/ kexec(p) \/ sys_close(p)
  PROVE  OwnInv'
<1>1. st[p] = "run" /\ call[p] = NONE /\ UNCHANGED <<st, call>>
  BY Zenon DEF sys_sbrk, sys_mapzero, sys_map_ro, sys_mmap, Store, copyin, copyout, kexec, NoLeaf, sys_close
<1>2. \A q \in Procs \ {p} : vmas'[q] = vmas[q]
  <2>1. CASE sys_mmap(p)
    BY Zenon, <2>1 DEF sys_mmap, TypeInv, RegionTypes
  <2>2. CASE ~sys_mmap(p)
    BY Zenon, <2>2 DEF sys_sbrk, sys_mapzero, sys_map_ro, Store, copyin, copyout, kexec, NoLeaf, sys_close
  <2> QED
    BY Zenon, <2>1, <2>2
<1>3. \A q \in Procs \ {p} : fd'[q] => fd[q]
  <2>1. CASE sys_close(p)
    BY <2>1, Zenon DEF sys_close, TypeInv, ProcTypes
  <2>2. CASE ~sys_close(p)
    <3>1. fd' = fd
      BY Zenon, <2>2 DEF sys_sbrk, sys_mapzero, sys_map_ro, sys_mmap, Store, copyin, copyout, kexec, NoLeaf
    <3> QED
      BY <3>1, Zenon
  <2> QED
    BY Zenon, <2>1, <2>2
<1>4. \A q \in Procs \ {p} : pte'[q] = pte[q]
  <2>1. CASE sys_sbrk(p)
    BY Zenon, <2>1, SbrkOthers
  <2>2. CASE sys_mapzero(p) \/ sys_mmap(p) \/ Store(p) \/ sys_close(p)
    BY Zenon, <2>2 DEF sys_mapzero, sys_mmap, Store, sys_close
  <2>3. CASE sys_map_ro(p)
    BY Zenon, <2>3, MapOthers DEF sys_map_ro
  <2>4. CASE copyin(p)
    BY Zenon, <2>4, MapOthers DEF copyin
  <2>5. CASE copyout(p)
    BY Zenon, <2>5, MapOthers DEF copyout
  <2>6. CASE kexec(p)
    BY Zenon, <2>6 DEF kexec, NoLeaf, TypeInv, PageTypes
  <2> QED
    BY Zenon, <2>1, <2>2, <2>3, <2>4, <2>5, <2>6
<1> QED
  BY Zenon, <1>1, <1>2, <1>3, <1>4, OwnStep

LEMMA CallOthers ==
  ASSUME TypeInv, NEW p \in Procs, NEW c, call' = [call EXCEPT ![p] = c]
  PROVE  call'[p] = c /\ \A q \in Procs \ {p} : call'[q] = call[q]
BY Zenon DEF TypeInv, CallTypes

\* The steps of munmap, of exit and of a fault.
LEMMA OwnReleases ==
  ASSUME TypeInv, OwnInv, NEW p \in Procs,
         sys_munmap(p) \/ ReleasePage(p) \/ ReleaseVma(p) \/ Fault(p) \/ LazyFault(p) \/ sys_exit(p) \/ ExitVma(p)
  PROVE  OwnInv'
<1>1. UNCHANGED <<st, fd>>
  BY Zenon DEF sys_munmap, ReleasePage, ReleaseVma, Fault, mmap_fault, LazyFault, vmfault, sys_exit, ExitVma
<1>2. st[p] = "run"
  <2>1. call[p] # NONE => st[p] = "run"
    BY Zenon DEF OwnInv
  <2>2. Exiting # NONE
    BY Zenon, CallValues, NoneIsNothing
  <2> QED
    BY Zenon, <2>1, <2>2 DEF sys_munmap, ReleasePage, ReleaseVma, Fault, mmap_fault, LazyFault, vmfault, sys_exit, ExitVma
<1>3. \A q \in Procs \ {p} : vmas'[q] = vmas[q]
  <2>1. CASE ReleaseVma(p)
    BY Zenon, <2>1 DEF ReleaseVma, TypeInv, RegionTypes
  <2>2. CASE ~ReleaseVma(p)
    BY Zenon, <2>2 DEF sys_munmap, ReleasePage, Fault, mmap_fault, LazyFault, vmfault, sys_exit, ExitVma
  <2> QED
    BY Zenon, <2>1, <2>2
<1>4. \A q \in Procs \ {p} : pte'[q] = pte[q]
  <2>1. CASE sys_munmap(p) \/ ReleaseVma(p) \/ sys_exit(p) \/ ExitVma(p)
    BY Zenon, <2>1 DEF sys_munmap, ReleaseVma, sys_exit, ExitVma
  <2>2. CASE ReleasePage(p)
    <3>1. UNCHANGED mapping \/ Unmap(p, {Page(call[p].va)})
      BY Zenon, <2>2 DEF ReleasePage
    <3> QED
      BY Zenon, <3>1, UnmapOthers
  <2>3. CASE Fault(p)
    BY Zenon, <2>3, MapOthers DEF Fault, mmap_fault
  <2>4. CASE LazyFault(p)
    BY Zenon, <2>4, MapOthers, UnmapOthers DEF LazyFault, vmfault
  <2> QED
    BY Zenon, <2>1, <2>2, <2>3, <2>4
<1>5. /\ call'[p] # NONE /\ call'[p].slot # 0 => vmas'[p][call'[p].slot] # NONE
      /\ \A q \in Procs \ {p} : call'[q] = call[q]
  <2>0. Exiting.slot = 0
    BY Zenon DEF Exiting
  <2>1. CASE sys_munmap(p)
    <3>1. PICK va, e, i : /\ call' = [call EXCEPT ![p] = [op |-> "munmap", slot |-> i, va |-> va, end |-> e]]
                          /\ vmas[p][i] # NONE
      <4>1. PICK addr, n : \E i \in VmaOf(p, addr) :
              call' = [call EXCEPT ![p] = [op |-> "munmap", slot |-> i, va |-> PGROUNDDOWN(addr),
                                           end |-> PGROUNDUP(addr + n)]]
        BY Zenon, <2>1 DEF sys_munmap
      <4>2. \A i \in VmaOf(p, addr) : vmas[p][i] # NONE
        BY Zenon DEF VmaOf, VmaSlots, Covers
      <4> QED
        BY Zenon, <4>1, <4>2
    <3>2. vmas' = vmas
      BY Zenon, <2>1 DEF sys_munmap
    <3> DEFINE c == [op |-> "munmap", slot |-> i, va |-> va, end |-> e]
    <3>3. c.slot = i
      BY Zenon
    <3>4. call' = [call EXCEPT ![p] = c]
      BY Zenon, <3>1
    <3> HIDE DEF c
    <3>5. call'[p] = c /\ \A q \in Procs \ {p} : call'[q] = call[q]
      BY Zenon, <3>4, CallOthers
    <3> QED
      BY Zenon, <3>1, <3>2, <3>3, <3>5
  <2>2. CASE ReleasePage(p)
    <3>1. /\ call' = [call EXCEPT ![p].va = call[p].va + PGSIZE] /\ vmas' = vmas
          /\ call[p] # NONE /\ call[p].slot # 0
      BY Zenon, <2>2 DEF ReleasePage
    <3>2. call[p] \in Call
      BY <3>1 DEF TypeInv, CallTypes
    <3>3. call'[p].slot = call[p].slot /\ \A q \in Procs \ {p} : call'[q] = call[q]
      BY <3>1, <3>2 DEF TypeInv, CallTypes, Call
    <3> QED
      BY <3>1, <3>3, Zenon DEF OwnInv
  <2>3. CASE ReleaseVma(p)
    <3>1. call' = [call EXCEPT ![p] = NONE] \/ call' = [call EXCEPT ![p] = Exiting]
      BY Zenon, <2>3 DEF ReleaseVma
    <3> QED
      BY Zenon, <3>1, <2>0, CallOthers
  <2>4. CASE Fault(p)
    <3>1. \/ UNCHANGED call /\ call[p] = NONE
          \/ call' = [call EXCEPT ![p] = Exiting]
          \/ \E va : call' = [call EXCEPT ![p] = [op |-> "lazy", slot |-> 0, va |-> va, end |-> va]]
      BY Zenon, <2>4 DEF Fault, mmap_fault
    <3>2. CASE UNCHANGED call /\ call[p] = NONE
      BY Zenon, <3>2, <2>0
    <3>3. CASE call' = [call EXCEPT ![p] = Exiting]
      BY Zenon, <3>3, <2>0, CallOthers
    <3>4. ASSUME NEW va, call' = [call EXCEPT ![p] = [op |-> "lazy", slot |-> 0, va |-> va, end |-> va]]
          PROVE  call'[p].slot = 0 /\ \A q \in Procs \ {p} : call'[q] = call[q]
      <4> DEFINE c == [op |-> "lazy", slot |-> 0, va |-> va, end |-> va]
      <4>1. c.slot = 0
        BY Zenon
      <4> HIDE DEF c
      <4>2. call' = [call EXCEPT ![p] = c]
        BY Zenon, <3>4 DEF c
      <4>3. call'[p] = c /\ \A q \in Procs \ {p} : call'[q] = call[q]
        BY Zenon, <4>2, CallOthers
      <4> QED
        BY Zenon, <4>1, <4>3
    <3> QED
      BY Zenon, <3>1, <3>2, <3>3, <3>4
  <2>5. CASE LazyFault(p)
    <3>1. call' = [call EXCEPT ![p] = NONE] \/ call' = [call EXCEPT ![p] = Exiting]
      BY Zenon, <2>5 DEF LazyFault, vmfault
    <3> QED
      BY Zenon, <3>1, <2>0, CallOthers
  <2>6. CASE sys_exit(p)
    BY Zenon, <2>6, <2>0, CallOthers DEF sys_exit
  <2>7. CASE ExitVma(p)
    <3>1. PICK va, e, i : /\ call' = [call EXCEPT ![p] = [op |-> "exit", slot |-> i, va |-> va, end |-> e]]
                          /\ vmas[p][i] # NONE
      BY Zenon, <2>7 DEF ExitVma
    <3>2. vmas' = vmas
      BY Zenon, <2>7 DEF ExitVma
    <3> DEFINE c == [op |-> "exit", slot |-> i, va |-> va, end |-> e]
    <3>3. c.slot = i
      BY Zenon
    <3>4. call' = [call EXCEPT ![p] = c]
      BY Zenon, <3>1
    <3> HIDE DEF c
    <3>5. call'[p] = c /\ \A q \in Procs \ {p} : call'[q] = call[q]
      BY Zenon, <3>4, CallOthers
    <3> QED
      BY Zenon, <3>1, <3>2, <3>3, <3>5
  <2> QED
    BY Zenon, <2>1, <2>2, <2>3, <2>4, <2>5, <2>6, <2>7
<1>6. \A q \in Procs \ {p} : fd'[q] => fd[q]
  BY <1>1, Zenon
<1> QED
  BY Zenon, <1>1, <1>2, <1>3, <1>4, <1>5, <1>6, OwnStep

\* fork, the end of exit, and wait.
LEMMA OwnLife ==
  ASSUME TypeInv, OwnInv, NEW p \in Procs, kfork(p) \/ ExitDone(p) \/ freeproc(p)
  PROVE  OwnInv'
<1>1. CASE kfork(p)
  <2>1. PICK c \in Procs :
          /\ st[c] = "unused"
          /\ \E s : pte' = [pte EXCEPT ![c] = s]
          /\ st' = [st EXCEPT ![c] = "run"]
          /\ vmas' = [vmas EXCEPT ![c] = vmas[p]]
          /\ fd' = [fd EXCEPT ![c] = fd[p]]
    BY Zenon, <1>1 DEF kfork, uvmcopy
  <2>2. call' = call /\ call[c] = NONE
    BY Zenon, <1>1, <2>1 DEF kfork, uvmcopy, OwnInv
  <2>3. \A q \in Procs \ {c} : st'[q] = st[q] /\ call'[q] = call[q] /\ vmas'[q] = vmas[q] /\ pte'[q] = pte[q]
    BY Zenon, <2>1, <2>2 DEF TypeInv, ProcTypes, PageTypes, RegionTypes
  <2>4. \A q \in Procs \ {c} : fd'[q] => fd[q]
    BY <2>1, Zenon DEF TypeInv, ProcTypes
  <2>5. st'[c] = "run" /\ call'[c] = NONE
    BY Zenon, <2>1, <2>2 DEF TypeInv, ProcTypes
  <2> QED
    BY <2>3, <2>4, <2>5, OwnStep
<1>2. CASE ExitDone(p)
  <2>1. /\ \A i \in Slots : vmas[p][i] = NONE
        /\ st' = [st EXCEPT ![p] = "zombie"] /\ fd' = [fd EXCEPT ![p] = FALSE]
        /\ call' = [call EXCEPT ![p] = NONE] /\ vmas' = vmas /\ pte' = pte
    BY Zenon, <1>2 DEF ExitDone
  <2>2. st'[p] = "zombie" /\ call'[p] = NONE /\ \A q \in Procs \ {p} : st'[q] = st[q] /\ call'[q] = call[q]
    BY Zenon, <2>1 DEF TypeInv, ProcTypes, CallTypes
  <2>3. ~fd'[p] /\ \A q \in Procs \ {p} : fd'[q] => fd[q]
    BY <2>1, Zenon DEF TypeInv, ProcTypes
  <2>4. ASSUME NEW q \in Procs
        PROVE  /\ call'[q] # NONE => st'[q] = "run"
               /\ call'[q] # NONE /\ call'[q].slot # 0 => vmas'[q][call'[q].slot] # NONE
               /\ st'[q] # "run" => ~fd'[q] /\ \A i \in Slots : vmas'[q][i] = NONE
               /\ st'[q] = "unused" => \A g \in Pages : pte'[q][g] = NONE
    <3>1. CASE q = p
      <4>1. st'[q] # "unused" /\ call'[q] = NONE /\ ~fd'[q] /\ \A i \in Slots : vmas'[q][i] = NONE
        BY ONLY Zenon, <2>1, <2>2, <2>3, <3>1
      <4> QED
        BY <4>1, Zenon
    <3>2. CASE q # p
      <4>1. st'[q] = st[q] /\ call'[q] = call[q] /\ (fd'[q] => fd[q])
        BY <2>2, <2>3, <3>2, Zenon
      <4> QED
        BY <2>1, <4>1, Zenon DEF OwnInv
    <3> QED
      BY <3>1, <3>2, Zenon
  <2> QED
    BY <2>4, Zenon DEF OwnInv
<1>3. CASE freeproc(p)
  <2>1. /\ st[p] = "zombie" /\ fd' = fd /\ call' = call /\ vmas' = vmas
        /\ \/ UNCHANGED <<mapping, st>>
           \/ Unmap(p, Pages) /\ st' = [st EXCEPT ![p] = "unused"]
    BY Zenon, <1>3 DEF freeproc, NoLeaf
  <2>2. CASE UNCHANGED <<mapping, st>>
    BY Zenon, <2>1, <2>2 DEF OwnInv
  <2>3. CASE Unmap(p, Pages) /\ st' = [st EXCEPT ![p] = "unused"]
    <3>1. st'[p] = "unused" /\ \A q \in Procs \ {p} : st'[q] = st[q] /\ pte'[q] = pte[q]
      BY Zenon, <2>3, UnmapOthers DEF TypeInv, ProcTypes
    <3>2. \A g \in Pages : pte'[p][g] = NONE
      BY <2>3, Zenon DEF Unmap, TypeInv, PageTypes
    <3>3. call[p] = NONE /\ ~fd[p] /\ \A i \in Slots : vmas[p][i] = NONE
      <4>1. st[p] # "run"
        BY Zenon, <2>1
      <4> QED
        BY <4>1, Zenon DEF OwnInv
    <3>4. ASSUME NEW q \in Procs
          PROVE  /\ call'[q] # NONE => st'[q] = "run"
                 /\ call'[q] # NONE /\ call'[q].slot # 0 => vmas'[q][call'[q].slot] # NONE
                 /\ st'[q] # "run" => ~fd'[q] /\ \A i \in Slots : vmas'[q][i] = NONE
                 /\ st'[q] = "unused" => \A g \in Pages : pte'[q][g] = NONE
      <4>1. CASE q = p
        BY <2>1, <3>2, <3>3, <4>1, Zenon
      <4>2. CASE q # p
        <5>1. st'[q] = st[q] /\ pte'[q] = pte[q]
          BY <3>1, <4>2, Zenon
        <5> QED
          BY <2>1, <5>1, Zenon DEF OwnInv
      <4> QED
        BY <4>1, <4>2, Zenon
    <3> QED
      BY <3>4, Zenon DEF OwnInv
  <2> QED
    BY Zenon, <2>1, <2>2, <2>3
<1> QED
  BY Zenon, <1>1, <1>2, <1>3

LEMMA InitOwn == Init => OwnInv
<1> SUFFICES ASSUME Init PROVE OwnInv
  OBVIOUS
<1>1. PICK p \in Procs, m \in [0..IMAGE - 1 -> Frames] :
       /\ st = [q \in Procs |-> IF q = p THEN "run" ELSE "unused"]
       /\ pte = [q \in Procs |-> [g \in Pages |-> IF q = p /\ g < IMAGE THEN m[g] ELSE NONE]]
       /\ fd = [q \in Procs |-> q = p]
  BY Zenon DEF Init
<1>2. vmas = [q \in Procs |-> [i \in Slots |-> NONE]] /\ call = [q \in Procs |-> NONE]
  BY Zenon DEF Init
<1>3. ASSUME NEW q \in Procs, st[q] # "run" PROVE ~fd[q]
  BY <1>1, <1>3, Zenon
<1>4. ASSUME NEW q \in Procs, st[q] = "unused" PROVE \A g \in Pages : pte[q][g] = NONE
  BY Zenon, <1>1, <1>4
<1> QED
  BY <1>2, <1>3, <1>4, Zenon DEF OwnInv

LEMMA StepTypes ==
  ASSUME TypeInv, OwnInv, [Next]_vars
  PROVE  TypeInv' /\ OwnInv'
<1>1. CASE Next
  <2>1. PICK p \in Procs :
          \/ sys_sbrk(p) \/ sys_mapzero(p) \/ sys_map_ro(p) \/ sys_mmap(p) \/ sys_munmap(p)
          \/ ReleasePage(p) \/ ReleaseVma(p)
          \/ Store(p) \/ Fault(p) \/ LazyFault(p) \/ copyin(p) \/ copyout(p)
          \/ kfork(p) \/ kexec(p) \/ sys_close(p) \/ sys_exit(p) \/ ExitVma(p) \/ ExitDone(p) \/ freeproc(p)
    BY <1>1, Zenon DEF Next
  <2>2. TypeInv'
    BY Zenon, <2>1, SbrkTypes, MapzeroTypes, MmapTypes, MunmapTypes, ReleasePageTypes, ReleaseVmaTypes, StoreStep,
       FaultTypes, LazyFaultTypes, CopyTypes, ForkTypes, ExecTypes, CloseTypes, ExitTypes, ExitDoneTypes,
       FreeprocTypes, Zenon
  <2>3. OwnInv'
    BY <2>1, OwnCalls, OwnReleases, OwnLife, Zenon
  <2> QED
    BY <2>2, <2>3
<1>2. CASE UNCHANGED vars
  BY Zenon, <1>2 DEF vars, TypeInv, ProcTypes, PageTypes, RegionTypes, FileTypes, CallTypes, OwnInv, Add, Page
<1> QED
  BY Zenon, <1>1, <1>2

LEMMA Base == Spec => [](TypeInv /\ OwnInv)
<1>1. Init => TypeInv /\ OwnInv
  BY InitTypes, InitOwn
<1>2. TypeInv /\ OwnInv /\ [Next]_vars => (TypeInv /\ OwnInv)'
  BY StepTypes
<1> QED
  BY <1>1, <1>2, PTL DEF Spec

\* Every reachable state has the types of TypeOK, whatever programs do: in
\* particular the loops of munmap and exit stay below the trapframe, and every
\* page without a frame has lost its permissions.
THEOREM TypeCorrect == Spec => []TypeOK
BY Base, TypeParts, PTL
-----------------------------------------------------------------------------
(* Frames                                                                  *)

\* Process c keeps its pages in K, loses the others, and gets pages S anew.
Reallocated(c, S, K, m) ==
  /\ S \subseteq Pages /\ K \subseteq Pages \ S
  /\ \A g \in S : m[g] \in free
  /\ \A g, h \in S : g # h => m[g] # m[h]
  /\ \A q \in Procs \ {c} : pte'[q] = pte[q]
  /\ \A g \in Pages : pte'[c][g] = IF g \in S THEN m[g] ELSE IF g \in K THEN pte[c][g] ELSE NONE
  /\ \A f \in Frames : f \in free' <=> \/ f \in free /\ \A g \in S : m[g] # f
                                       \/ \E g \in Pages \ K : pte[c][g] = f

LEMMA Reallocate ==
  ASSUME TypeInv, FramesConserved, NEW c \in Procs, NEW S, NEW K, NEW m, Reallocated(c, S, K, m)
  PROVE  FramesConserved'
<1> USE DEF Reallocated
<1>0. /\ free \subseteq Frames /\ NONE \notin Frames
      /\ \A q \in Procs, g \in Pages : pte[q][g] \in Frames \cup {NONE}
  BY NoneIsNothing DEF TypeInv, PageTypes
<1>1. \A f \in Frames : f \in free <=> \A p \in Procs, g \in Pages : pte[p][g] # f
  BY Zenon DEF FramesConserved
<1>2. \A p, q \in Procs, g, h \in Pages : pte[p][g] = pte[q][h] /\ pte[p][g] # NONE => p = q /\ g = h
  BY Zenon DEF FramesConserved
\* An entry with a frame is a new one or an old one that was kept.
<1>3. ASSUME NEW p \in Procs, NEW g \in Pages, pte'[p][g] # NONE
      PROVE  \/ p = c /\ g \in S /\ pte'[p][g] = m[g] /\ m[g] \in free
             \/ (p # c \/ g \in K) /\ pte'[p][g] = pte[p][g] /\ pte[p][g] \notin free
  <2>1. pte'[p][g] = pte[p][g] => pte[p][g] \notin free
    BY Zenon, <1>0, <1>1, <1>3
  <2> QED
    BY Zenon, <2>1, <1>3
<1>4. ASSUME NEW p \in Procs, NEW q \in Procs, NEW g \in Pages, NEW h \in Pages,
             pte'[p][g] = pte'[q][h], pte'[p][g] # NONE
      PROVE  p = q /\ g = h
  BY <1>2, <1>3, <1>4
<1>5. ASSUME NEW f \in Frames, f \in free', NEW p \in Procs, NEW g \in Pages, pte'[p][g] = f
      PROVE  FALSE
  <2>1. f # NONE
    BY Zenon, <1>0
  <2>2. CASE p = c /\ g \in S /\ f = m[g] /\ m[g] \in free
    <3>1. \E h \in Pages \ K : pte[c][h] = f
      BY Zenon, <1>5, <2>2
    <3> QED
      BY Zenon, <3>1, <2>2, <1>1
  <2>3. CASE (p # c \/ g \in K) /\ f = pte[p][g] /\ pte[p][g] \notin free
    <3>1. PICK h \in Pages \ K : pte[c][h] = f
      BY Zenon, <1>5, <2>3
    <3> QED
      BY ONLY <3>1, <2>1, <2>3, <1>2
  <2> QED
    BY ONLY <1>3, <1>5, <2>1, <2>2, <2>3
<1>6. ASSUME NEW f \in Frames, \A p \in Procs, g \in Pages : pte'[p][g] # f
      PROVE  f \in free'
  <2>1. CASE f \in free
    BY <2>1, <1>6
  <2>2. CASE f \notin free
    <3>1. PICK p \in Procs, g \in Pages : pte[p][g] = f
      BY ONLY Zenon, <2>2, <1>1
    <3>2. p = c /\ g \notin K
      BY Zenon, <3>1, <1>6
    <3> QED
      BY Zenon, <3>1, <3>2
  <2> QED
    BY Zenon, <2>1, <2>2
<1> QED
  BY ONLY <1>4, <1>5, <1>6 DEF FramesConserved

LEMMA SameFrames ==
  ASSUME FramesConserved, UNCHANGED <<pte, free>>
  PROVE  FramesConserved'
BY DEF FramesConserved

LEMMA MapFrames ==
  ASSUME TypeInv, FramesConserved, NEW p \in Procs, NEW g \in Pages, NEW f \in free, NEW c, NEW r,
         Map(p, g, f, c, r)
  PROVE  FramesConserved'
<1>1. CASE pte[p][g] # NONE
  BY <1>1, SameFrames, Zenon DEF Map
<1>2. CASE pte[p][g] = NONE
  <2> DEFINE S == {g}
             K == Pages \ {g}
             m == [h \in S |-> f]
  <2>1. pte' = [pte EXCEPT ![p][g] = f] /\ free' = free \ {f}
    BY <1>2, Zenon DEF Map
  <2>2. \A q \in Procs \ {p} : pte'[q] = pte[q]
    BY Zenon, MapOthers
  <2>3. \A h \in Pages : pte'[p][h] = IF h \in S THEN m[h] ELSE IF h \in K THEN pte[p][h] ELSE NONE
    BY <2>1 DEF TypeInv, PageTypes
  <2>4. \A e \in Frames : e \in free' <=> \/ e \in free /\ \A h \in S : m[h] # e
                                          \/ \E h \in Pages \ K : pte[p][h] = e
    BY Zenon, <2>1, <1>2, NoneIsNothing
  <2>5. (\A h \in S : m[h] \in free) /\ (\A h, k \in S : h # k => m[h] # m[k])
    BY Zenon
  <2>6. S \in SUBSET Pages /\ K \in SUBSET (Pages \ S)
    BY Zenon
  <2> HIDE DEF S, K, m
  <2>7. Reallocated(p, S, K, m)
    BY Zenon, <2>2, <2>3, <2>4, <2>5, <2>6 DEF Reallocated
  <2> QED
    BY Zenon, <2>7, Reallocate
<1> QED
  BY Zenon, <1>1, <1>2

LEMMA UnmapFrames ==
  ASSUME TypeInv, FramesConserved, NEW p \in Procs, NEW S \in SUBSET Pages, Unmap(p, S)
  PROVE  FramesConserved'
<1> DEFINE K == Pages \ S
           m == [h \in {} |-> NONE]
<1>1. \A q \in Procs \ {p} : pte'[q] = pte[q]
  BY Zenon, UnmapOthers
<1>2. \A h \in Pages : pte'[p][h] = IF h \in {} THEN m[h] ELSE IF h \in K THEN pte[p][h] ELSE NONE
  BY Zenon DEF Unmap, TypeInv, PageTypes
<1>3. \A e \in Frames : e \in free' <=> \/ e \in free /\ \A h \in {} : m[h] # e
                                        \/ \E h \in Pages \ K : pte[p][h] = e
  BY Zenon, NoneIsNothing DEF Unmap, FramesOf
<1>4. {} \in SUBSET Pages /\ K \in SUBSET (Pages \ {})
  BY Zenon
<1>5. (\A h \in {} : m[h] \in free) /\ (\A h, k \in {} : h # k => m[h] # m[k])
  BY Zenon
<1> HIDE DEF K, m
<1>6. Reallocated(p, {}, K, m)
  BY <1>1, <1>2, <1>3, <1>4, <1>5, Zenon DEF Reallocated
<1> QED
  BY Zenon, <1>6, Reallocate

LEMMA GrowFrames ==
  ASSUME TypeInv, FramesConserved, NEW p \in Procs, NEW n, GrowEager(p, n)
  PROVE  FramesConserved'
<1> DEFINE new == Below(sz[p] + n) \ Below(sz[p])
           K   == Pages \ new
<1>1. CASE new \cap Mapped(p) # {}
  BY Zenon, <1>1, SameFrames DEF GrowEager
<1>2. CASE new \cap Mapped(p) = {}
  <2>1. PICK m \in Allocations(new) :
          /\ pte' = [pte EXCEPT ![p] = [g \in Pages |-> IF g \in new THEN m[g] ELSE pte[p][g]]]
          /\ free' = free \ {m[g] : g \in new}
    BY Zenon, <1>2 DEF GrowEager
  <2>2. new \in SUBSET Pages /\ K \in SUBSET (Pages \ new)
    BY Zenon, PageSets
  <2>3. \A g \in new : pte[p][g] = NONE
    BY Zenon, <1>2, <2>2 DEF Mapped
  <2>4. (\A g \in new : m[g] \in free) /\ (\A g, h \in new : g # h => m[g] # m[h])
    BY Zenon DEF Allocations
  <2> HIDE DEF new
  <2>5. \A q \in Procs \ {p} : pte'[q] = pte[q]
    BY Zenon, <2>1 DEF TypeInv, PageTypes
  <2>6. \A g \in Pages : pte'[p][g] = IF g \in new THEN m[g] ELSE IF g \in K THEN pte[p][g] ELSE NONE
    BY Zenon, <2>1 DEF TypeInv, PageTypes
  <2>7. \A f \in Frames : f \in free' <=> \/ f \in free /\ \A g \in new : m[g] # f
                                          \/ \E g \in Pages \ K : pte[p][g] = f
    BY ONLY Zenon, <2>1, <2>2, <2>3, NoneIsNothing
  <2> HIDE DEF K
  <2>8. Reallocated(p, new, K, m)
    BY <2>2, <2>4, <2>5, <2>6, <2>7, Zenon DEF Reallocated
  <2> QED
    BY Zenon, <2>8, Reallocate
<1> QED
  BY Zenon, <1>1, <1>2

LEMMA ForkFrames ==
  ASSUME TypeInv, OwnInv, FramesConserved, NEW p \in Procs, kfork(p)
  PROVE  FramesConserved'
<1> DEFINE S == Below(sz[p]) \cap Mapped(p)
<1>1. PICK c \in Procs :
        /\ st[c] = "unused"
        /\ \E m \in Allocations(S) :
             /\ pte' = [pte EXCEPT ![c] = [g \in Pages |-> IF g \in S THEN m[g] ELSE NONE]]
             /\ free' = free \ {m[g] : g \in S}
  BY ZenonT(60) DEF kfork, uvmcopy
<1>2. PICK m \in Allocations(S) :
        /\ pte' = [pte EXCEPT ![c] = [g \in Pages |-> IF g \in S THEN m[g] ELSE NONE]]
        /\ free' = free \ {m[g] : g \in S}
  BY Zenon, <1>1
<1>3. S \in SUBSET Pages /\ {} \in SUBSET (Pages \ S)
  BY Zenon, PageSets
<1>4. (\A g \in S : m[g] \in free) /\ (\A g, h \in S : g # h => m[g] # m[h])
  BY Zenon DEF Allocations
<1>5. \A g \in Pages : pte[c][g] = NONE
  BY Zenon, <1>1 DEF OwnInv
<1> HIDE DEF S
<1>6. \A q \in Procs \ {c} : pte'[q] = pte[q]
  BY Zenon, <1>2 DEF TypeInv, PageTypes
<1>7. \A g \in Pages : pte'[c][g] = IF g \in S THEN m[g] ELSE IF g \in {} THEN pte[c][g] ELSE NONE
  BY <1>2, Zenon DEF TypeInv, PageTypes
<1>8. \A f \in Frames : f \in free' <=> \/ f \in free /\ \A g \in S : m[g] # f
                                        \/ \E g \in Pages \ {} : pte[c][g] = f
  BY ONLY Zenon, <1>2, <1>5, NoneIsNothing
<1>9. Reallocated(c, S, {}, m)
  BY <1>3, <1>4, <1>6, <1>7, <1>8, Zenon DEF Reallocated
<1> QED
  BY Zenon, <1>9, Reallocate

LEMMA ExecFrames ==
  ASSUME TypeInv, FramesConserved, NEW p \in Procs, kexec(p)
  PROVE  FramesConserved'
<1> DEFINE new == Below(IMAGE * PGSIZE)
           old == FramesOf(p, Pages)
<1>1. CASE UNCHANGED mapping
  BY Zenon, <1>1, SameFrames
<1>2. CASE ~UNCHANGED mapping
  <2>1. PICK m \in Allocations(new) :
          /\ pte' = [pte EXCEPT ![p] = [g \in Pages |-> IF g \in new THEN m[g] ELSE NONE]]
          /\ free' = (free \ {m[g] : g \in new}) \cup old
    BY Zenon, <1>2 DEF kexec, NoLeaf
  <2>2. new \in SUBSET Pages /\ {} \in SUBSET (Pages \ new)
    BY Zenon, PageSets
  <2>3. (\A g \in new : m[g] \in free) /\ (\A g, h \in new : g # h => m[g] # m[h])
    BY Zenon DEF Allocations
  <2> HIDE DEF new
  <2>4. \A q \in Procs \ {p} : pte'[q] = pte[q]
    BY Zenon, <2>1 DEF TypeInv, PageTypes
  <2>5. \A g \in Pages : pte'[p][g] = IF g \in new THEN m[g] ELSE IF g \in {} THEN pte[p][g] ELSE NONE
    BY <2>1, Zenon DEF TypeInv, PageTypes
  <2>6. \A f \in Frames : f \in free' <=> \/ f \in free /\ \A g \in new : m[g] # f
                                          \/ \E g \in Pages \ {} : pte[p][g] = f
    BY <2>1, NoneIsNothing, Zenon DEF FramesOf
  <2>7. Reallocated(p, new, {}, m)
    BY Zenon, <2>2, <2>3, <2>4, <2>5, <2>6 DEF Reallocated
  <2> QED
    BY Zenon, <2>7, Reallocate
<1> QED
  BY Zenon, <1>1, <1>2

LEMMA StepFrames ==
  ASSUME TypeInv, OwnInv, FramesConserved, [Next]_vars
  PROVE  FramesConserved'
<1>1. CASE UNCHANGED <<pte, free>>
  BY Zenon, <1>1, SameFrames
<1>2. CASE ~UNCHANGED <<pte, free>>
  <2>1. PICK p \in Procs :
          \/ sys_sbrk(p) \/ sys_map_ro(p) \/ ReleasePage(p) \/ Fault(p) \/ LazyFault(p) \/ copyin(p)
          \/ copyout(p) \/ kfork(p) \/ kexec(p) \/ freeproc(p)
    BY ZenonT(60), <1>2 DEF Next, vars, sys_mapzero, sys_mmap, sys_munmap, ReleaseVma, Store, sys_close, sys_exit, ExitVma,
                ExitDone
  <2>2. CASE sys_sbrk(p)
    <3>1. PICK n \in Deltas : GrowEager(p, n) \/ GrowLazy(p, n) \/ Shrink(p, n)
      BY Zenon, <2>2 DEF sys_sbrk
    <3>2. CASE GrowEager(p, n)
      BY Zenon, <3>2, GrowFrames
    <3>3. CASE GrowLazy(p, n)
      BY ONLY <3>3, <1>2, Zenon DEF GrowLazy
    <3>4. CASE Shrink(p, n)
      BY <3>4, UnmapFrames, PageSets DEF Shrink
    <3> QED
      BY ONLY <3>1, <3>2, <3>3, <3>4
  <2>3. CASE sys_map_ro(p)
    BY Zenon, <2>3, MapFrames DEF sys_map_ro
  <2>4. CASE ReleasePage(p)
    <3>1. Unmap(p, {Page(call[p].va)}) /\ call[p] # NONE /\ call[p].va < call[p].end
      BY Zenon, <2>4, <1>2 DEF ReleasePage
    <3>2. call[p].va \in Nat /\ call[p].end \in 0..TRAPFRAME
      BY <3>1, Zenon DEF TypeInv, CallTypes, Call
    <3>3. call[p].va \in 0..TRAPFRAME - 1
      BY ONLY <3>1, <3>2, AddrSpaceAssumption
    <3>4. {Page(call[p].va)} \in SUBSET Pages
      BY Zenon, <3>3, PageBelow
    <3> QED
      BY Zenon, <3>1, <3>4, UnmapFrames
  <2>5. CASE Fault(p)
    <3>1. PICK va \in 0..TRAPFRAME - 1, f \in free : \E c, r : Map(p, Page(va), f, c, r)
      BY Zenon, <2>5, <1>2 DEF Fault, mmap_fault
    <3>2. Page(va) \in Pages
      BY Zenon, PageBelow
    <3> QED
      BY Zenon, <3>1, <3>2, MapFrames
  <2>6. CASE LazyFault(p)
    <3>1. Page(call[p].va) \in Pages
      BY Zenon, <2>6 DEF LazyFault, vmfault, TypeInv, CallTypes
    <3>2. (\E f \in free : Map(p, Page(call[p].va), f, "zero", {"R", "W", "U"})) \/ Unmap(p, {Page(call[p].va)})
      BY Zenon, <2>6 DEF LazyFault, vmfault
    <3> QED
      BY Zenon, <3>1, <3>2, MapFrames, UnmapFrames
  <2>7. CASE copyin(p)
    BY Zenon, <2>7, MapFrames, PageSets DEF copyin
  <2>8. CASE copyout(p)
    BY Zenon, <2>8, <1>2, MapFrames DEF copyout
  <2>9. CASE kfork(p)
    BY Zenon, <2>9, ForkFrames
  <2>10. CASE kexec(p)
    BY Zenon, <2>10, ExecFrames
  <2>11. CASE freeproc(p)
    <3>1. Unmap(p, Pages)
      BY Zenon, <2>11, <1>2 DEF freeproc, NoLeaf
    <3> QED
      BY Zenon, <3>1, UnmapFrames
  <2> QED
    BY Zenon, <2>1, <2>2, <2>3, <2>4, <2>5, <2>6, <2>7, <2>8, <2>9, <2>10, <2>11
<1> QED
  BY Zenon, <1>1, <1>2

LEMMA InitFrames == Init => FramesConserved
<1> SUFFICES ASSUME Init PROVE FramesConserved
  OBVIOUS
<1>1. PICK p \in Procs, m \in [0..IMAGE - 1 -> Frames] :
       /\ \A g, h \in 0..IMAGE - 1 : g # h => m[g] # m[h]
       /\ pte = [q \in Procs |-> [g \in Pages |-> IF q = p /\ g < IMAGE THEN m[g] ELSE NONE]]
       /\ free = Frames \ {m[g] : g \in 0..IMAGE - 1}
  BY Zenon DEF Init
<1>2. \A g \in Pages : g < IMAGE <=> g \in 0..IMAGE - 1
  BY ONLY AddrSpaceAssumption, Boundaries DEF Pages
<1>3. ASSUME NEW g \in 0..IMAGE - 1 PROVE g \in Pages
  <2>1. g \in Nat /\ g < IMAGE
    BY ONLY AddrSpaceAssumption
  <2>2. PGSIZE * g + PGSIZE <= PGSIZE * IMAGE
    BY ONLY Zenon, <2>1, NextMultiple, AddrSpaceAssumption
  <2>3. PGSIZE * g \in Nat /\ PGSIZE * IMAGE <= TRAPFRAME
    BY ONLY <2>1, AddrSpaceAssumption
  <2>4. TRAPFRAME \div PGSIZE \in Nat /\ TRAPFRAME = PGSIZE * (TRAPFRAME \div PGSIZE)
    BY Zenon, Boundaries
  <2>5. ASSUME TRAPFRAME \div PGSIZE <= g PROVE FALSE
    <3>1. PGSIZE * (TRAPFRAME \div PGSIZE) <= PGSIZE * g
      BY ONLY <2>1, <2>4, <2>5, Monotone, AddrSpaceAssumption
    <3>2. TRAPFRAME <= PGSIZE * g
      BY ONLY Zenon, <3>1, <2>4
    <3> DEFINE x == PGSIZE * g
               y == PGSIZE * IMAGE
    <3>3. TRAPFRAME <= x /\ x + PGSIZE <= y /\ y <= TRAPFRAME /\ x \in Nat /\ y \in Int
      BY ONLY <3>2, <2>2, <2>3, AddrSpaceAssumption
    <3> HIDE DEF x, y
    <3> QED
      BY ONLY <3>3, AddrSpaceAssumption
  <2> QED
    BY ONLY <2>1, <2>4, <2>5 DEF Pages
<1>4. ASSUME NEW q \in Procs, NEW g \in Pages, pte[q][g] # NONE
      PROVE  q = p /\ g \in 0..IMAGE - 1 /\ pte[q][g] = m[g]
  BY Zenon, <1>1, <1>2, <1>4
<1>5. ASSUME NEW f \in Frames
      PROVE  f \in free <=> \A q \in Procs, g \in Pages : pte[q][g] # f
  <2>1. ASSUME f \in free, NEW q \in Procs, NEW g \in Pages, pte[q][g] = f PROVE FALSE
    BY Zenon, <2>1, <1>1, <1>4, NoneIsNothing
  <2>2. ASSUME f \notin free PROVE \E q \in Procs, g \in Pages : pte[q][g] = f
    <3>1. PICK g \in 0..IMAGE - 1 : m[g] = f
      BY Zenon, <2>2, <1>1
    <3>2. g \in Pages /\ g < IMAGE
      BY Zenon, <1>2, <1>3
    <3>3. pte[p][g] = f
      BY Zenon, <3>1, <3>2, <1>1
    <3> QED
      BY Zenon, <3>2, <3>3
  <2> QED
    BY Zenon, <2>1, <2>2
<1>6. ASSUME NEW q \in Procs, NEW s \in Procs, NEW g \in Pages, NEW h \in Pages,
             pte[q][g] = pte[s][h], pte[q][g] # NONE
      PROVE  q = s /\ g = h
  BY ONLY <1>1, <1>4, <1>6
<1> QED
  BY ONLY <1>5, <1>6 DEF FramesConserved

\* Whatever programs do, and whether or not allocations fail: no frame is ever
\* shared by two pages, lost, or on the free list while it is mapped.
THEOREM NoFrameLostOrShared == Spec => []FramesConserved
<1>1. TypeInv /\ OwnInv /\ FramesConserved /\ [Next]_vars => FramesConserved'
  BY Zenon, StepFrames
<1> QED
  BY <1>1, InitFrames, Base, PTL DEF Spec
-----------------------------------------------------------------------------
(* The file's reference count                                              *)

Openers == {p \in Procs : fd[p]}
Mappings == {h \in Procs \X Slots : vmas[h[1]][h[2]] # NONE}

LEMMA FiniteHolders ==
  /\ IsFiniteSet(Openers) /\ Cardinality(Openers) \in Nat
  /\ IsFiniteSet(Mappings) /\ Cardinality(Mappings) \in Nat
<1>1. IsFiniteSet(Procs) /\ IsFiniteSet(Slots)
  BY ONLY FS_Interval, AddrSpaceAssumption DEF Slots
<1>2. IsFiniteSet(Procs \X Slots)
  BY Zenon, <1>1, FS_Product
<1>3. Openers \subseteq Procs /\ Mappings \subseteq Procs \X Slots
  BY Zenon DEF Openers, Mappings
<1>4. IsFiniteSet(Openers) /\ IsFiniteSet(Mappings)
  BY ONLY Zenon, <1>1, <1>2, <1>3, FS_Subset
<1> QED
  BY Zenon, <1>4, FS_CardinalityType

\* What FileRefs says, in these terms.
LEMMA RefsAre ==
  /\ FileRefs <=> ref = Cardinality(Openers) + Cardinality(Mappings)
  /\ FileRefs' <=> ref' = Cardinality(Openers') + Cardinality(Mappings')
<1>1. FileRefs <=> ref = Cardinality(Openers) + Cardinality(Mappings)
  BY Zenon DEF FileRefs, Openers, Mappings
<1>2. FileRefs' <=> ref' = Cardinality(Openers') + Cardinality(Mappings')
  BY Zenon DEF FileRefs, Openers, Mappings
<1> QED
  BY Zenon, <1>1, <1>2

LEMMA UsedSlots ==
  ASSUME NEW p
  PROVE  /\ IsFiniteSet({i \in Slots : vmas[p][i] # NONE})
         /\ Cardinality({i \in Slots : vmas[p][i] # NONE}) \in Nat
<1>1. IsFiniteSet(Slots)
  BY ONLY FS_Interval, AddrSpaceAssumption DEF Slots
<1> QED
  BY ONLY Zenon, <1>1, FS_Subset, FS_CardinalityType

LEMMA SameOpeners == ASSUME fd' = fd PROVE Openers' = Openers
BY DEF Openers

LEMMA SameMappings == ASSUME vmas' = vmas PROVE Mappings' = Mappings
BY Zenon DEF Mappings

LEMMA OpenerGone ==
  ASSUME TypeInv, NEW p \in Procs, fd[p], fd' = [fd EXCEPT ![p] = FALSE]
  PROVE  Cardinality(Openers') = Cardinality(Openers) - 1
<1>1. \A q \in Procs : fd'[q] <=> fd[q] /\ q # p
  BY Zenon DEF TypeInv, ProcTypes
<1>2. Openers' = Openers \ {p} /\ p \in Openers
  BY <1>1, Zenon DEF Openers
<1> QED
  BY Zenon, <1>2, FiniteHolders, FS_RemoveElement

LEMMA MmapRefs ==
  ASSUME TypeInv, FileRefs, NEW p \in Procs, sys_mmap(p)
  PROVE  FileRefs'
<1>1. PICK i \in Slots, v \in Vma : vmas[p][i] = NONE /\ vmas' = [vmas EXCEPT ![p][i] = v]
  BY Zenon, MmapTypes
<1>2. fd' = fd /\ ref' = ref + 1
  BY Zenon DEF sys_mmap
<1>3. Mappings' = Mappings \cup {<<p, i>>} /\ <<p, i>> \notin Mappings
  BY <1>1, NoneIsNothing DEF Mappings, TypeInv, RegionTypes
<1>4. Cardinality(Mappings') = Cardinality(Mappings) + 1
  BY Zenon, <1>3, FiniteHolders, FS_AddElement
<1> QED
  BY <1>2, <1>4, SameOpeners, RefsAre, FiniteHolders

LEMMA ReleaseRefs ==
  ASSUME TypeInv, OwnInv, FileRefs, NEW p \in Procs, ReleaseVma(p)
  PROVE  FileRefs'
<1> DEFINE i == call[p].slot
<1>1. /\ call[p] # NONE /\ i # 0 /\ vmas' = [vmas EXCEPT ![p][i] = NONE]
      /\ ref' = ref - 1 /\ fd' = fd
  BY Zenon DEF ReleaseVma
<1>2. i \in Slots
  <2>1. i \in 0..MAXVMA
    BY <1>1, Zenon DEF TypeInv, CallTypes, Call
  <2> QED
    BY ONLY <1>1, <2>1, AddrSpaceAssumption DEF Slots
<1>3. vmas[p][i] # NONE
  BY <1>1, Zenon DEF OwnInv
<1> HIDE DEF i
<1>4. Mappings' = Mappings \ {<<p, i>>} /\ <<p, i>> \in Mappings
  BY <1>1, <1>2, <1>3 DEF Mappings, TypeInv, RegionTypes
<1>5. Cardinality(Mappings') = Cardinality(Mappings) - 1
  BY Zenon, <1>4, FiniteHolders, FS_RemoveElement
<1> QED
  BY <1>1, <1>5, SameOpeners, RefsAre, FiniteHolders

LEMMA ForkFileRefs ==
  ASSUME TypeInv, OwnInv, FileRefs, NEW p \in Procs, kfork(p)
  PROVE  FileRefs'
<1>1. PICK c \in Procs : /\ st[c] = "unused"
                         /\ vmas' = [vmas EXCEPT ![c] = vmas[p]]
                         /\ fd' = [fd EXCEPT ![c] = fd[p]]
  BY Zenon DEF kfork, uvmcopy
<1>2. ref' = ref + ForkRefs(p)
  BY Zenon DEF kfork, uvmcopy
<1>3. ~fd[c] /\ \A i \in Slots : vmas[c][i] = NONE
  BY <1>1, Zenon DEF OwnInv
<1> DEFINE U == {i \in Slots : vmas[p][i] # NONE}
<1>4. Cardinality(Mappings') = Cardinality(Mappings) + Cardinality(U)
  <2>1. Mappings' = Mappings \cup ({c} \X U)
    BY <1>1, <1>3, Zenon DEF Mappings, TypeInv, RegionTypes
  <2>2. Mappings \cap ({c} \X U) = {}
    BY <1>3, Zenon DEF Mappings
  <2>3. IsFiniteSet(U) /\ Cardinality(U) \in Nat
    BY Zenon, UsedSlots
  <2>4. IsFiniteSet({c}) /\ Cardinality({c}) = 1
    BY Zenon, FS_Singleton
  <2> HIDE DEF U
  <2>5. IsFiniteSet({c} \X U) /\ Cardinality({c} \X U) = Cardinality(U)
    BY ONLY <2>3, <2>4, FS_Product
  <2>6. Cardinality(Mappings \cup ({c} \X U))
          = Cardinality(Mappings) + Cardinality({c} \X U) - Cardinality(Mappings \cap ({c} \X U))
    BY ONLY <2>5, FiniteHolders, FS_Union
  <2>7. Cardinality(Mappings \cap ({c} \X U)) = 0
    BY Zenon, <2>2, FS_EmptySet
  <2> QED
    BY ONLY <2>1, <2>3, <2>5, <2>6, <2>7, FiniteHolders
<1>5. Cardinality(Openers') = Cardinality(Openers) + (IF fd[p] THEN 1 ELSE 0)
  <2>1. CASE fd[p]
    <3>1. \A q \in Procs : fd'[q] <=> fd[q] \/ q = c
      BY <1>1, <2>1, Zenon DEF TypeInv, ProcTypes
    <3>2. Openers' = Openers \cup {c} /\ c \notin Openers
      BY <3>1, <1>3, Zenon DEF Openers
    <3> QED
      BY Zenon, <3>2, <2>1, FiniteHolders, FS_AddElement
  <2>2. CASE ~fd[p]
    <3>1. \A q \in Procs : fd'[q] <=> fd[q]
      BY <1>1, <1>3, <2>2, Zenon DEF TypeInv, ProcTypes
    <3>2. Openers' = Openers
      BY <3>1, Zenon DEF Openers
    <3> QED
      BY ONLY <3>2, <2>2, FiniteHolders
  <2> QED
    BY ONLY Zenon, <2>1, <2>2
<1>6. ForkRefs(p) = Cardinality(U) + (IF fd[p] THEN 1 ELSE 0) /\ Cardinality(U) \in Nat
  BY Zenon, UsedSlots DEF ForkRefs
<1> HIDE DEF U
<1>7. (IF fd[p] THEN 1 ELSE 0) \in Nat
  BY Zenon
<1> QED
  BY <1>2, <1>4, <1>5, <1>6, <1>7, RefsAre, FiniteHolders

LEMMA StepRefs ==
  ASSUME TypeInv, OwnInv, FileRefs, [Next]_vars
  PROVE  FileRefs'
<1>1. CASE UNCHANGED <<fd, vmas, ref>>
  BY <1>1, SameOpeners, SameMappings, RefsAre
<1>2. CASE ~UNCHANGED <<fd, vmas, ref>>
  <2>1. PICK p \in Procs : sys_mmap(p) \/ ReleaseVma(p) \/ kfork(p) \/ sys_close(p) \/ ExitDone(p)
    BY ZenonT(60), <1>2 DEF Next, vars, sys_sbrk, sys_mapzero, sys_map_ro, sys_munmap, ReleasePage, Store, Fault, mmap_fault, LazyFault, vmfault,
                copyin, copyout, kexec, sys_exit, ExitVma, freeproc, NoLeaf
  <2>2. CASE sys_close(p)
    <3>1. Cardinality(Openers') = Cardinality(Openers) - 1
      BY Zenon, <2>2, OpenerGone DEF sys_close
    <3>2. ref' = ref - 1 /\ vmas' = vmas
      BY Zenon, <2>2 DEF sys_close
    <3> QED
      BY <3>1, <3>2, SameMappings, RefsAre, FiniteHolders
  <2>3. CASE ExitDone(p)
    <3>1. fd' = [fd EXCEPT ![p] = FALSE] /\ vmas' = vmas /\ ref' = IF fd[p] THEN ref - 1 ELSE ref
      BY Zenon, <2>3 DEF ExitDone
    <3>2. CASE fd[p]
      <4>1. Cardinality(Openers') = Cardinality(Openers) - 1
        BY Zenon, <3>1, <3>2, OpenerGone
      <4>2. ref' = ref - 1
        BY Zenon, <3>1, <3>2
      <4> QED
        BY <3>1, <4>1, <4>2, SameMappings, RefsAre, FiniteHolders
    <3>3. CASE ~fd[p]
      <4>1. \A q \in Procs : fd'[q] <=> fd[q]
        BY <3>1, <3>3, Zenon DEF TypeInv, ProcTypes
      <4>2. Openers' = Openers
        BY <4>1, Zenon DEF Openers
      <4> QED
        BY <3>1, <3>3, <4>2, SameMappings, RefsAre
    <3> QED
      BY Zenon, <3>2, <3>3
  <2> QED
    BY Zenon, <2>1, <2>2, <2>3, MmapRefs, ReleaseRefs, ForkFileRefs
<1> QED
  BY Zenon, <1>1, <1>2

LEMMA InitRefs == Init => FileRefs
<1> SUFFICES ASSUME Init PROVE FileRefs
  OBVIOUS
<1>1. PICK p \in Procs : fd = [q \in Procs |-> q = p] /\ ref = 1
  BY Zenon DEF Init
<1>2. vmas = [q \in Procs |-> [i \in Slots |-> NONE]]
  BY Zenon DEF Init
<1>3. Mappings = {}
  BY <1>2, Zenon DEF Mappings
<1>4. Openers = {p}
  BY <1>1, Zenon DEF Openers
<1>5. Cardinality(Mappings) = 0 /\ Cardinality(Openers) = 1
  BY Zenon, <1>3, <1>4, FS_EmptySet, FS_Singleton
<1>6. FileRefs <=> ref = Cardinality(Openers) + Cardinality(Mappings)
  BY Zenon, RefsAre
<1> QED
  BY ONLY <1>1, <1>5, <1>6

\* f->ref is exact in every reachable state: fork and mmap take as many
\* references as munmap, close and exit give back, whatever the order in which
\* a parent and its children unmap, close and exit.
THEOREM ReferencesExact == Spec => []FileRefs
<1>1. TypeInv /\ OwnInv /\ FileRefs /\ [Next]_vars => FileRefs'
  BY StepRefs
<1> QED
  BY <1>1, InitRefs, Base, PTL DEF Spec
-----------------------------------------------------------------------------
(* Mappings                                                                *)

\* Programs that neither shrink their memory nor call exec while they have a
\* mapping, and that map lengths with which no sum wraps.
PlainPrograms ==
  /\ "shrink" \notin Uses /\ "exec" \notin Uses
  /\ \A n \in Lengths : TRAPFRAME + n + PGSIZE + PGSIZE <= ADDRS

\* The sizes of the machine, on their own.
LEMMA SizesAre ==
  PGSIZE \in Nat \ {0} /\ TRAPFRAME \in Nat /\ ADDRS \in Nat \ {0} /\ TRAPFRAME < ADDRS
<1>1. PGSIZE \in Nat \ {0} /\ TRAPFRAME \in Nat /\ ADDRS \in Nat /\ TRAPFRAME < ADDRS
  BY ONLY AddrSpaceAssumption, Zenon
<1>2. QED
  BY ONLY <1>1

\* What lies below the old end lies below the new one.
LEMMA BelowNewEnd ==
  ASSUME NEW x \in Nat, NEW y \in Nat, NEW s \in Nat, NEW a \in Nat, NEW l \in Nat, x + y <= s, s <= a
  PROVE  x + y <= a /\ x + y <= a + l
OBVIOUS

\* Below ADDRS nothing wraps.
LEMMA NoWrap ==
  ASSUME NEW x \in Nat, x < ADDRS
  PROVE  x % ADDRS = x
<1>1. PICK d \in Nat, n \in Nat, y \in 0..ADDRS - 1 : n = ADDRS * d /\ y = x % ADDRS /\ x = n + y
  BY Division, SizesAre
<1>2. ASSUME d # 0 PROVE FALSE
  <2>1. 1 <= d
    BY ONLY <1>2
  <2>2. ADDRS * 1 <= ADDRS * d
    BY ONLY <2>1, Monotone, SizesAre
  <2>3. ADDRS <= n
    BY ONLY <2>2, <1>1, SizesAre
  <2> QED
    BY ONLY <2>3, <1>1, x \in Nat, x < ADDRS, SizesAre
<1>3. n = 0
  BY ONLY <1>1, <1>2, SizesAre
<1> QED
  BY ONLY <1>1, <1>3

\* Rounding up moves an address up, by less than a page.
LEMMA RoundUpAbove ==
  ASSUME NEW x \in Nat, x + PGSIZE <= ADDRS
  PROVE  PGROUNDUP(x) \in Nat /\ x <= PGROUNDUP(x) /\ PGROUNDUP(x) < x + PGSIZE
<1> DEFINE z == x + PGSIZE - 1
<1>1. z \in Nat /\ z < ADDRS
  BY SizesAre
<1>2. PGROUNDUP(x) = PGROUNDDOWN(z)
  BY <1>1, NoWrap, Zenon DEF PGROUNDUP
<1> HIDE DEF z
<1>3. PICK q \in Nat, m \in Nat, r \in 0..PGSIZE - 1 : q = z \div PGSIZE /\ m = PGSIZE * q /\ z = m + r
  BY ONLY <1>1, Division, SizesAre
<1>4. PGROUNDUP(x) = m
  BY <1>2, <1>3, AddrSpaceAssumption, SMT, Zenon DEF PGROUNDDOWN, Page
<1>5. z = m + r
  BY Zenon, <1>3
<1> QED
  BY ONLY <1>4, <1>5, SizesAre, x \in Nat DEF z

\* Mappings may go, and sizes may grow.
LEMMA KeepDisjoint ==
  ASSUME TypeInv, TypeInv', VmasDisjoint,
         \A q \in Procs, i \in Slots : vmas'[q][i] # NONE => vmas'[q][i] = vmas[q][i] /\ sz[q] <= sz'[q]
  PROVE  VmasDisjoint'
<1> SUFFICES ASSUME NEW q \in Procs, NEW i \in Slots, NEW j \in Slots, vmas'[q][i] # NONE
             PROVE  /\ vmas'[q][i].addr + vmas'[q][i].length <= sz'[q]
                    /\ i # j /\ vmas'[q][j] # NONE =>
                         \/ vmas'[q][i].addr + vmas'[q][i].length <= vmas'[q][j].addr
                         \/ vmas'[q][j].addr + vmas'[q][j].length <= vmas'[q][i].addr
  BY Zenon DEF VmasDisjoint
<1>1. vmas'[q][i] = vmas[q][i] /\ sz[q] <= sz'[q]
  BY Zenon
<1>2. vmas[q][i].addr + vmas[q][i].length <= sz[q]
  BY Zenon, <1>1 DEF VmasDisjoint
<1>3. vmas[q][i].addr \in Nat /\ vmas[q][i].length \in Nat /\ sz[q] \in Nat /\ sz'[q] \in Nat
  <2>1. vmas[q][i] \in Vma
    <3>1. vmas \in [Procs -> [Slots -> Vma \cup {NONE}]]
      BY Zenon DEF TypeInv, RegionTypes
    <3>2. vmas[q][i] \in Vma \cup {NONE}
      BY ONLY <3>1, q \in Procs, i \in Slots, Zenon
    <3> QED
      BY <1>1, <3>2, Zenon
  <2>2. sz[q] \in 0..TRAPFRAME /\ sz'[q] \in 0..TRAPFRAME
    BY Zenon DEF TypeInv, ProcTypes
  <2>3. sz[q] \in Nat /\ sz'[q] \in Nat
    BY ONLY <2>2, SizesAre
  <2> QED
    BY ONLY <2>1, <2>3, VmaFields, Zenon
<1>4. ASSUME i # j, vmas'[q][j] # NONE
      PROVE  \/ vmas'[q][i].addr + vmas'[q][i].length <= vmas'[q][j].addr
             \/ vmas'[q][j].addr + vmas'[q][j].length <= vmas'[q][i].addr
  <2>1. vmas'[q][j] = vmas[q][j]
    BY Zenon, <1>4
  <2> QED
    BY Zenon, <1>1, <1>4, <2>1 DEF VmasDisjoint
<1>5. vmas'[q][i].addr + vmas'[q][i].length <= sz'[q]
  BY ONLY <1>1, <1>2, <1>3
<1> QED
  BY Zenon, <1>4, <1>5

\* mmap puts the new mapping above p->sz, and p->sz at its end.
LEMMA MmapDisjoint ==
  ASSUME PlainPrograms, TypeInv, TypeInv', VmasDisjoint, NEW p \in Procs, sys_mmap(p)
  PROVE  VmasDisjoint'
<1>1. PICK n \in Lengths \ {0}, prot \in Prots, shared \in BOOLEAN, k \in Offsets, i \in Slots :
        /\ "W" \in prot /\ shared => writable
        /\ vmas[p][i] = NONE /\ \A j \in 1..i - 1 : vmas[p][j] # NONE
        /\ MmapTop(p, n) <= TRAPFRAME
        /\ sz' = [sz EXCEPT ![p] = MmapTop(p, n)]
        /\ vmas' = [vmas EXCEPT ![p][i] = [addr |-> PGROUNDUP(sz[p]), length |-> PGROUNDUP(n), prot |-> prot,
                                           shared |-> shared, off |-> k]]
  BY Zenon DEF sys_mmap
<1> DEFINE a == PGROUNDUP(sz[p])
           l == PGROUNDUP(n)
<1>2. n \in Nat /\ sz[p] \in Nat /\ sz[p] <= TRAPFRAME /\ TRAPFRAME + n + PGSIZE + PGSIZE <= ADDRS
  <2>1. n \in 0..ADDRS - 1
    BY Zenon, AddrSpaceAssumption
  <2>2. sz[p] \in 0..TRAPFRAME
    BY Zenon DEF TypeInv, ProcTypes
  <2>3. TRAPFRAME + n + PGSIZE + PGSIZE <= ADDRS
    BY Zenon DEF PlainPrograms
  <2> QED
    BY ONLY <2>1, <2>2, <2>3, SizesAre
<1>3. a \in Nat /\ sz[p] <= a /\ a < sz[p] + PGSIZE
  <2>1. sz[p] \in Nat /\ sz[p] + PGSIZE <= ADDRS
    BY ONLY <1>2, SizesAre
  <2> QED
    BY ONLY <2>1, RoundUpAbove, Zenon
<1>4. l \in Nat /\ l < n + PGSIZE
  <2>1. n \in Nat /\ n + PGSIZE <= ADDRS
    BY ONLY <1>2, SizesAre
  <2> QED
    BY ONLY <2>1, RoundUpAbove, Zenon
<1>5. a + l \in Nat /\ a + l < ADDRS
  BY ONLY <1>2, <1>3, <1>4, SizesAre
<1>6. MmapTop(p, n) = a + l
  BY <1>5, NoWrap, Zenon DEF MmapTop, Add
<1> HIDE DEF a, l
<1>7. sz'[p] = a + l
  BY Zenon, <1>1, <1>6 DEF TypeInv, ProcTypes
<1>8. \A q \in Procs \ {p} : sz'[q] = sz[q] /\ vmas'[q] = vmas[q]
  BY Zenon, <1>1 DEF TypeInv, ProcTypes, RegionTypes
<1>9. /\ vmas'[p][i].addr = a /\ vmas'[p][i].length = l
      /\ \A j \in Slots \ {i} : vmas'[p][j] = vmas[p][j]
  BY Zenon, <1>1 DEF TypeInv, RegionTypes, a, l
<1>10. ASSUME NEW j \in Slots \ {i}, vmas[p][j] # NONE
       PROVE  /\ vmas[p][j].addr \in Nat /\ vmas[p][j].length \in Nat
              /\ vmas[p][j].addr + vmas[p][j].length <= sz[p]
  <2>1. vmas[p][j] \in Vma
    <3>1. vmas[p][j] \in Vma \cup {NONE}
      BY ONLY TypeInv, p \in Procs, j \in Slots \ {i}, Zenon DEF TypeInv, RegionTypes
    <3> QED
      BY <1>10, <3>1, Zenon
  <2>2. vmas[p][j].addr + vmas[p][j].length <= sz[p]
    BY Zenon, <1>10 DEF VmasDisjoint
  <2> QED
    BY ONLY <2>1, <2>2, VmaFields, Zenon
<1> SUFFICES ASSUME NEW q \in Procs, NEW g \in Slots, NEW h \in Slots, vmas'[q][g] # NONE
             PROVE  /\ vmas'[q][g].addr + vmas'[q][g].length <= sz'[q]
                    /\ g # h /\ vmas'[q][h] # NONE =>
                         \/ vmas'[q][g].addr + vmas'[q][g].length <= vmas'[q][h].addr
                         \/ vmas'[q][h].addr + vmas'[q][h].length <= vmas'[q][g].addr
  BY Zenon DEF VmasDisjoint
<1>11. CASE q # p
  <2>1. sz'[q] = sz[q] /\ vmas'[q] = vmas[q]
    BY ONLY Zenon, <1>8, <1>11
  <2> QED
    BY Zenon, <2>1 DEF VmasDisjoint
<1>12. CASE q = p /\ g = i
  <2>1. vmas'[q][g].addr + vmas'[q][g].length <= sz'[q]
    BY ONLY <1>3, <1>4, <1>7, <1>9, <1>12
  <2>2. ASSUME g # h, vmas'[q][h] # NONE
        PROVE  vmas'[q][h].addr + vmas'[q][h].length <= vmas'[q][g].addr
    <3>1. h \in Slots \ {i} /\ vmas[p][h] # NONE /\ vmas'[q][h] = vmas[p][h]
      BY Zenon, <1>9, <1>12, <2>2
    <3>2. vmas[p][h].addr \in Nat /\ vmas[p][h].length \in Nat /\ vmas[p][h].addr + vmas[p][h].length <= sz[p]
      BY Zenon, <1>10, <3>1
    <3>3. vmas[p][h].addr + vmas[p][h].length <= a
      BY ONLY <1>2, <1>3, <1>4, <3>2, BelowNewEnd, Zenon
    <3>4. vmas'[q][g].addr = a
      BY Zenon, <1>9, <1>12
    <3> QED
      BY Zenon, <3>1, <3>3, <3>4
  <2> QED
    BY Zenon, <2>1, <2>2
<1>13. CASE q = p /\ g # i
  <2>1. vmas'[q][g] = vmas[p][g] /\ vmas[p][g] # NONE /\ g \in Slots \ {i}
    BY Zenon, <1>9, <1>13
  <2>2. vmas[p][g].addr \in Nat /\ vmas[p][g].length \in Nat /\ vmas[p][g].addr + vmas[p][g].length <= sz[p]
    BY Zenon, <1>10, <2>1
  <2>3. vmas[p][g].addr + vmas[p][g].length <= a /\ vmas[p][g].addr + vmas[p][g].length <= a + l
    BY ONLY <1>2, <1>3, <1>4, <2>2, BelowNewEnd, Zenon
  <2>4. CASE h = i
    <3>2. sz'[q] = a + l /\ vmas'[q][h].addr = a
      BY Zenon, <1>7, <1>9, <1>13, <2>4
    <3> QED
      BY Zenon, <2>1, <2>3, <3>2
  <2>5. CASE h # i
    <3>1. vmas'[q][h] = vmas[p][h]
      BY Zenon, <1>9, <1>13, <2>5
    <3>2. g # h /\ vmas[p][h] # NONE =>
            \/ vmas[p][g].addr + vmas[p][g].length <= vmas[p][h].addr
            \/ vmas[p][h].addr + vmas[p][h].length <= vmas[p][g].addr
      BY Zenon, <2>1 DEF VmasDisjoint
    <3>4. sz'[q] = a + l
      BY Zenon, <1>7, <1>13
    <3> QED
      BY Zenon, <2>1, <2>3, <3>1, <3>2, <3>4
  <2> QED
    BY Zenon, <2>4, <2>5
<1> QED
  BY Zenon, <1>11, <1>12, <1>13

LEMMA ForkDisjoint ==
  ASSUME TypeInv, VmasDisjoint, NEW p \in Procs, kfork(p)
  PROVE  VmasDisjoint'
<1>1. PICK c \in Procs : sz' = [sz EXCEPT ![c] = sz[p]] /\ vmas' = [vmas EXCEPT ![c] = vmas[p]]
  BY Zenon DEF kfork
<1>2. sz'[c] = sz[p] /\ vmas'[c] = vmas[p] /\ \A q \in Procs \ {c} : sz'[q] = sz[q] /\ vmas'[q] = vmas[q]
  BY Zenon, <1>1 DEF TypeInv, ProcTypes, RegionTypes
<1>3. \A q \in Procs : \E r \in Procs : sz'[q] = sz[r] /\ vmas'[q] = vmas[r]
  BY Zenon, <1>2
<1> SUFFICES ASSUME NEW q \in Procs, NEW i \in Slots, NEW j \in Slots, vmas'[q][i] # NONE
             PROVE  /\ vmas'[q][i].addr + vmas'[q][i].length <= sz'[q]
                    /\ i # j /\ vmas'[q][j] # NONE =>
                         \/ vmas'[q][i].addr + vmas'[q][i].length <= vmas'[q][j].addr
                         \/ vmas'[q][j].addr + vmas'[q][j].length <= vmas'[q][i].addr
  BY Zenon DEF VmasDisjoint
<1>4. PICK r \in Procs : sz'[q] = sz[r] /\ vmas'[q] = vmas[r]
  BY Zenon, <1>3
<1> QED
  BY Zenon, <1>4 DEF VmasDisjoint

LEMMA Sizes ==
  ASSUME TypeInv, NEW q \in Procs
  PROVE  sz[q] \in Int
<1>1. sz[q] \in 0..TRAPFRAME
  BY Zenon DEF TypeInv, ProcTypes
<1> QED
  BY ONLY <1>1

\* p's size becomes n, which is no smaller.
LEMMA SizeRaised ==
  ASSUME TypeInv, NEW p \in Procs, NEW n, n >= sz[p], sz' = [sz EXCEPT ![p] = n]
  PROVE  \A q \in Procs : sz[q] <= sz'[q]
<1> TAKE q \in Procs
<1>1. sz[q] \in Int
  BY Zenon, Sizes
<1>2. CASE q = p
  <2>1. sz'[q] = n
    BY Zenon, <1>2 DEF TypeInv, ProcTypes
  <2> QED
    BY Zenon, <1>2, <2>1
<1>3. CASE q # p
  <2>1. sz'[q] = sz[q]
    BY Zenon, <1>3 DEF TypeInv, ProcTypes
  <2> QED
    BY ONLY <1>1, <2>1
<1> QED
  BY Zenon, <1>2, <1>3

\* sbrk and mapzero raise p->sz; only shrinking lowers it.
LEMMA SizeGrows ==
  ASSUME PlainPrograms, TypeInv, NEW p \in Procs, sys_sbrk(p) \/ sys_mapzero(p)
  PROVE  \A q \in Procs : sz[q] <= sz'[q]
<1>1. \A q \in Procs : sz[q] \in Int
  BY Zenon, Sizes
<1>2. CASE sys_sbrk(p)
  <2>1. PICK n \in Deltas : n > 0 /\ (GrowEager(p, n) \/ GrowLazy(p, n))
    BY Zenon, <1>2 DEF sys_sbrk, PlainPrograms
  <2>2. n \in Int
    BY Zenon, AddrSpaceAssumption
  <2>3. sz' = sz \/ sz' = [sz EXCEPT ![p] = sz[p] + n] \/ (sz' = [sz EXCEPT ![p] = Add(sz[p], n)] /\ Add(sz[p], n) >= sz[p])
    BY Zenon, <2>1 DEF GrowEager, GrowLazy
  <2>4. sz[p] + n >= sz[p]
    BY ONLY <1>1, <2>1, <2>2
  <2>5. CASE sz' = sz
    BY ONLY <1>1, <2>5
  <2> QED
    BY Zenon, <2>3, <2>4, <2>5, SizeRaised
<1>3. CASE sys_mapzero(p)
  <2>1. PICK n \in Lengths : sz' = [sz EXCEPT ![p] = Add(sz[p], PGROUNDUP(n))] /\ Add(sz[p], PGROUNDUP(n)) >= sz[p]
    BY Zenon, <1>3 DEF sys_mapzero
  <2> QED
    BY Zenon, <2>1, SizeRaised
<1> QED
  BY Zenon, <1>2, <1>3

LEMMA StepDisjoint ==
  ASSUME PlainPrograms, TypeInv, TypeInv', OwnInv, VmasDisjoint, [Next]_vars
  PROVE  VmasDisjoint'
<1>0. \A q \in Procs : sz[q] \in Int
  BY Zenon, Sizes
<1>1. CASE sz' = sz /\ vmas' = vmas
  BY <1>0, <1>1, KeepDisjoint
<1>2. ASSUME NEW p \in Procs, sys_sbrk(p) \/ sys_mapzero(p)
      PROVE  VmasDisjoint'
  <2>1. vmas' = vmas
    BY Zenon, <1>2 DEF sys_sbrk, sys_mapzero
  <2> QED
    BY Zenon, <1>2, <2>1, SizeGrows, KeepDisjoint
<1>3. ASSUME NEW p \in Procs, ReleaseVma(p)
      PROVE  VmasDisjoint'
  <2>1. sz' = sz /\ vmas' = [vmas EXCEPT ![p][call[p].slot] = NONE]
    BY Zenon, <1>3 DEF ReleaseVma
  <2>2. \A q \in Procs, i \in Slots : vmas'[q][i] # NONE => vmas'[q][i] = vmas[q][i]
    BY <2>1, Zenon DEF TypeInv, RegionTypes
  <2> QED
    BY <1>0, <2>1, <2>2, KeepDisjoint
<1>4. ASSUME NEW p \in Procs, freeproc(p)
      PROVE  VmasDisjoint'
  <2>1. vmas' = vmas /\ \A i \in Slots : vmas[p][i] = NONE
    BY Zenon, <1>4 DEF freeproc, OwnInv
  <2>2. \A q \in Procs \ {p} : sz'[q] = sz[q]
    BY Zenon, <1>4 DEF freeproc, TypeInv, ProcTypes
  <2> QED
    BY <1>0, <2>1, <2>2, KeepDisjoint
<1>5. ASSUME NEW p \in Procs, sys_map_ro(p) \/ sys_munmap(p) \/ ReleasePage(p) \/ Store(p) \/ Fault(p) \/ LazyFault(p)
                              \/ copyin(p) \/ copyout(p) \/ sys_close(p) \/ sys_exit(p) \/ ExitVma(p) \/ ExitDone(p)
      PROVE  sz' = sz /\ vmas' = vmas
  BY <1>5, Zenon DEF sys_map_ro, sys_munmap, ReleasePage, Store, Fault, LazyFault, copyin, copyout, sys_close, sys_exit,
     ExitVma, ExitDone
<1>6. ASSUME NEW p \in Procs PROVE ~kexec(p)
  BY Zenon DEF kexec, PlainPrograms
<1>7. CASE UNCHANGED vars
  BY ONLY <1>1, <1>7, Zenon DEF vars
<1>8. CASE Next
  BY <1>1, <1>2, <1>3, <1>4, <1>5, <1>6, <1>8, MmapDisjoint, ForkDisjoint DEF Next
<1> QED
  BY Zenon, <1>7, <1>8

\* The mappings of a process never overlap and lie below p->sz, with any number
\* of slots, lengths and processes, as long as no program gives back memory below
\* a mapping or keeps mappings across exec, and no length makes mmap's sums wrap.
THEOREM RegionsDisjoint == PlainPrograms => (Spec => []VmasDisjoint)
<1> SUFFICES ASSUME PlainPrograms PROVE Spec => []VmasDisjoint
  BY Zenon
<1>1. Init => VmasDisjoint
  <2>1. Init => vmas = [p \in Procs |-> [i \in Slots |-> NONE]]
    BY Zenon DEF Init
  <2> QED
    BY ONLY <2>1 DEF VmasDisjoint
<1>2. TypeInv /\ TypeInv' /\ OwnInv /\ VmasDisjoint /\ [Next]_vars => VmasDisjoint'
  BY Zenon, StepDisjoint
<1> QED
  BY <1>1, <1>2, Base, PTL DEF Spec
=============================================================================
