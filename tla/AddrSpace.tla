----------------------------- MODULE AddrSpace ------------------------------
(***************************************************************************)
(* User address spaces: lazy sbrk, mmap and munmap of one open file,       *)
(* mapzero, map_ro, page faults, the kernel's own accesses to user memory, *)
(* and what fork, exec, exit and wait do with all of these.                *)
(*                                                                         *)
(* Addresses are counted in units, PGSIZE of them to a page, and sums wrap *)
(* at ADDRS as they do in a uint64.  Page-table pages, the trapframe and   *)
(* the trampoline are left out: walk() finds or makes its entry.  A        *)
(* process's address space is its own, so a system call or a fault is one  *)
(* step, but for munmap and exit, which write pages back one transaction   *)
(* at a time, and for the two attempts that a page fault makes.            *)
(***************************************************************************)
EXTENDS Integers, FiniteSets

CONSTANTS
  Procs, Frames,
  PGSIZE, ADDRS, TRAPFRAME,
  IMAGE,        \* pages of the program that exec loads
  MAXVMA, NVREG,
  FILEMAX,      \* largest file, in pages
  FileInit,     \* contents of the file's pages, and
  FileSize,     \* its length, when it was opened
  Opened,       \* whether it may be open for writing
  Vals,         \* what programs store
  NONE,
  Uses,         \* what programs do besides mapping, touching and unmapping whole regions
  Deltas,       \* arguments of sbrk
  Lengths,      \* lengths passed to mmap, munmap and mapzero
  Prots,        \* protections passed to mmap
  Offsets       \* file pages at which mappings start

Usages == {"grow", "shrink", "mapzero", "map_ro", "copy", "exec", "touch_any", "unmap_any"}
Loaded == {"zero", "A", "ro", "img", "junk"}

Vma  == [addr : 0..TRAPFRAME, length : 0..ADDRS - 1, prot : Prots, shared : BOOLEAN, off : Offsets]
Vreg == [start : 0..TRAPFRAME, size : 0..ADDRS - 1]
Call == [op : {"munmap", "exit", "lazy"}, slot : 0..MAXVMA, va : Nat, end : 0..TRAPFRAME]

ASSUME AddrSpaceAssumption ==
  /\ PGSIZE \in Nat \ {0} /\ TRAPFRAME \in Nat /\ ADDRS \in Nat /\ TRAPFRAME < ADDRS
  /\ TRAPFRAME % PGSIZE = 0 /\ ADDRS % PGSIZE = 0
  /\ IMAGE \in Nat /\ IMAGE * PGSIZE <= TRAPFRAME
  /\ MAXVMA \in Nat /\ NVREG \in Nat /\ FILEMAX \in Nat /\ FileSize \in Nat
  /\ IsFiniteSet(Procs) /\ NONE \notin Frames \cup Vma \cup Vreg /\ NONE \notin Call
  /\ Deltas \subseteq Int /\ Lengths \subseteq 0..ADDRS - 1 /\ Offsets \subseteq Nat
  /\ Prots \subseteq SUBSET {"R", "W", "X"} /\ Opened \subseteq BOOLEAN /\ Uses \subseteq Usages

VARIABLES
  st,           \* "unused", "run" or "zombie"
  sz,           \* p->sz
  pte, perm,    \* the leaf entries: frame and permissions, by page
  mem,          \* contents of the frames
  free,         \* kmem.freelist
  vmas,         \* p->vmas, by slot; NONE is a slot with used = 0
  vregs,        \* p->vregions
  fd,           \* the file is in p->ofile
  ref,          \* f->ref
  writable,     \* f->writable
  file, fsize,  \* the inode's pages and its size
  call,         \* what p is in the middle of: munmap, exit, or the second attempt of a fault
  panicked      \* the panic that stopped the kernel, if any

vars == <<st, sz, pte, perm, mem, free, vmas, vregs, fd, ref, writable, file, fsize, call, panicked>>

Pages    == 0..(TRAPFRAME \div PGSIZE) - 1
Slots    == 1..MAXVMA
Contents == Loaded \cup Vals \cup {FileInit[k] : k \in DOMAIN FileInit}

Page(va)         == va \div PGSIZE
PGROUNDDOWN(va)  == Page(va) * PGSIZE
PGROUNDUP(n)     == PGROUNDDOWN((n + PGSIZE - 1) % ADDRS)
Add(a, b)        == (a + b) % ADDRS

Below(n)         == {g \in Pages : g * PGSIZE < n}
Mapped(p)        == {g \in Pages : pte[p][g] # NONE}
FramesOf(p, S)   == {pte[p][g] : g \in S} \ {NONE}
First(S)         == CHOOSE i \in S : \A j \in S : i <= j

\* What readi finds at page k: zeroes from the end of the file on.
FilePage(k) == IF k < FILEMAX /\ k * PGSIZE < fsize THEN file[k] ELSE "zero"

Up       == panicked = ""
Ready(p) == st[p] = "run" /\ call[p] = NONE /\ Up

Init ==
  /\ \E p \in Procs : \E m \in [0..IMAGE - 1 -> Frames] :
       /\ \A g, h \in 0..IMAGE - 1 : g # h => m[g] # m[h]
       /\ st = [q \in Procs |-> IF q = p THEN "run" ELSE "unused"]
       /\ sz = [q \in Procs |-> IF q = p THEN IMAGE * PGSIZE ELSE 0]
       /\ pte = [q \in Procs |-> [g \in Pages |-> IF q = p /\ g < IMAGE THEN m[g] ELSE NONE]]
       /\ perm = [q \in Procs |-> [g \in Pages |-> IF q = p /\ g < IMAGE THEN {"R", "W", "U"} ELSE {}]]
       /\ mem = [f \in Frames |-> IF \E g \in 0..IMAGE - 1 : m[g] = f THEN "img" ELSE "junk"]
       /\ free = Frames \ {m[g] : g \in 0..IMAGE - 1}
       /\ fd = [q \in Procs |-> q = p] /\ ref = 1
  /\ vmas = [p \in Procs |-> [i \in Slots |-> NONE]]
  /\ vregs = [p \in Procs |-> [i \in 1..NVREG |-> NONE]]
  /\ writable \in Opened
  /\ file = [k \in 0..FILEMAX - 1 |-> IF k \in DOMAIN FileInit THEN FileInit[k] ELSE "zero"]
  /\ fsize = FileSize
  /\ call = [p \in Procs |-> NONE] /\ panicked = ""
-----------------------------------------------------------------------------
(* Page tables                                                             *)

mapping == <<pte, perm, mem, free>>

\* mappages of one page to frame f, filled with c.
Map(p, g, f, c, r) ==
  IF pte[p][g] # NONE
  THEN panicked' = "remap" /\ UNCHANGED mapping
  ELSE /\ pte' = [pte EXCEPT ![p][g] = f]
       /\ perm' = [perm EXCEPT ![p][g] = r]
       /\ mem' = [mem EXCEPT ![f] = c]
       /\ free' = free \ {f}
       /\ UNCHANGED panicked

\* Freed frames are filled with junk.
kfree(F) == [f \in Frames |-> IF f \in F THEN "junk" ELSE mem[f]]

\* uvmunmap with do_free: p is left with the pages outside S.
Unmap(p, S) ==
  /\ pte' = [pte EXCEPT ![p] = [g \in Pages |-> IF g \in S THEN NONE ELSE pte[p][g]]]
  /\ perm' = [perm EXCEPT ![p] = [g \in Pages |-> IF g \in S THEN {} ELSE perm[p][g]]]
  /\ free' = free \cup FramesOf(p, S)
  /\ mem' = kfree(FramesOf(p, S))

\* Ways to give each page of S a frame of its own.
Allocations(S) == {m \in [S -> free] : \A g, h \in S : g # h => m[g] # m[h]}

-----------------------------------------------------------------------------
(* sbrk, mapzero, map_ro                                                   *)

\* growproc(n) for n > 0: a frame for each new page, or none at all.
GrowEager(p, n) ==
  LET new == Below(sz[p] + n) \ Below(sz[p])
      old == new \cap Mapped(p)
  IN /\ sz[p] + n <= TRAPFRAME
     /\ IF old # {}
        THEN /\ Cardinality({g \in new : g <= First(old)}) <= Cardinality(free)
             /\ panicked' = "remap" /\ UNCHANGED <<mapping, sz>>
        ELSE /\ \E m \in Allocations(new) :
                  /\ pte' = [pte EXCEPT ![p] = [g \in Pages |-> IF g \in new THEN m[g] ELSE pte[p][g]]]
                  /\ mem' = [f \in Frames |-> IF \E g \in new : m[g] = f THEN "zero" ELSE mem[f]]
                  /\ free' = free \ {m[g] : g \in new}
             /\ perm' = [perm EXCEPT ![p] = [g \in Pages |-> IF g \in new THEN {"R", "W", "U"} ELSE perm[p][g]]]
             /\ sz' = [sz EXCEPT ![p] = sz[p] + n]
             /\ UNCHANGED panicked

\* growproc(n) for n < 0.
Shrink(p, n) ==
  LET new == (sz[p] + n) % ADDRS
  IN /\ new < sz[p]
     /\ Unmap(p, Below(sz[p]) \ Below(new))
     /\ sz' = [sz EXCEPT ![p] = new]
     /\ UNCHANGED panicked

GrowLazy(p, n) ==
  /\ Add(sz[p], n) >= sz[p] /\ Add(sz[p], n) <= TRAPFRAME
  /\ sz' = [sz EXCEPT ![p] = Add(sz[p], n)]
  /\ UNCHANGED <<mapping, panicked>>

sys_sbrk(p) ==
  /\ Ready(p)
  /\ \E n \in Deltas : \/ n > 0 /\ "grow" \in Uses /\ (GrowEager(p, n) \/ GrowLazy(p, n))
                       \/ n < 0 /\ "shrink" \in Uses /\ Shrink(p, n)
  /\ UNCHANGED <<st, vmas, vregs, fd, ref, writable, file, fsize, call>>

sys_mapzero(p) ==
  /\ Ready(p) /\ "mapzero" \in Uses
  /\ \E n \in Lengths \ {0}, i \in 1..NVREG :
       LET size == PGROUNDUP(n) IN
       /\ vregs[p][i] = NONE /\ \A j \in 1..i - 1 : vregs[p][j] # NONE
       /\ Add(sz[p], size) >= sz[p] /\ Add(sz[p], size) <= TRAPFRAME
       /\ vregs' = [vregs EXCEPT ![p][i] = [start |-> sz[p], size |-> size]]
       /\ sz' = [sz EXCEPT ![p] = Add(sz[p], size)]
  /\ UNCHANGED <<st, mapping, vmas, fd, ref, writable, file, fsize, call, panicked>>

sys_map_ro(p) ==
  /\ Ready(p) /\ "map_ro" \in Uses
  /\ \E g \in Pages, f \in free : Map(p, g, f, "ro", {"R", "U"})
  /\ UNCHANGED <<st, sz, vmas, vregs, fd, ref, writable, file, fsize, call>>

-----------------------------------------------------------------------------
(* mmap and munmap                                                         *)

Covers(v, va) == v # NONE /\ va >= v.addr /\ va < Add(v.addr, v.length)

\* The VMA that a search for va stops at: the first in the table.
VmaSlots(p, va) == {i \in Slots : Covers(vmas[p][i], va)}

\* The search for va stops at the first.
VmaOf(p, va) == {i \in VmaSlots(p, va) : \A j \in VmaSlots(p, va) : i <= j}

\* Mutant: the size grows by one unit too little.
MmapTopShort(p, n) == Add(PGROUNDUP(sz[p]), PGROUNDUP(n) - 1)

\* p->sz after a mapping of length n.
MmapTop(p, n) == Add(PGROUNDUP(sz[p]), PGROUNDUP(n))

sys_mmap(p) ==
  /\ Ready(p) /\ fd[p]
  /\ \E n \in Lengths \ {0}, prot \in Prots, shared \in BOOLEAN, k \in Offsets, i \in Slots :
       /\ "W" \in prot /\ shared => writable
       /\ vmas[p][i] = NONE /\ \A j \in 1..i - 1 : vmas[p][j] # NONE
       /\ MmapTop(p, n) <= TRAPFRAME
       /\ sz' = [sz EXCEPT ![p] = MmapTop(p, n)]
       /\ vmas' = [vmas EXCEPT ![p][i] = [addr |-> PGROUNDUP(sz[p]), length |-> PGROUNDUP(n), prot |-> prot,
                                          shared |-> shared, off |-> k]]
  /\ ref' = ref + 1
  /\ UNCHANGED <<st, mapping, vregs, fd, writable, file, fsize, call, panicked>>

\* Mutant: the offset that mmap was given is forgotten.
FileIndexNoOffset(v, g) == g - Page(v.addr)

\* file_off, in pages, for page g of the mapping.
FileIndex(v, g) == v.off + (g - Page(v.addr))

\* Finds the VMA; its pages are released one at a time.
sys_munmap(p) ==
  /\ Ready(p)
  /\ \E addr \in 0..TRAPFRAME - 1, n \in Lengths : \E i \in VmaOf(p, addr) :
       /\ "unmap_any" \in Uses \/ (addr = vmas[p][i].addr /\ PGROUNDUP(n) = vmas[p][i].length)
       /\ addr + n <= TRAPFRAME
       /\ call' = [call EXCEPT ![p] = [op |-> "munmap", slot |-> i, va |-> PGROUNDDOWN(addr),
                                       end |-> PGROUNDUP(addr + n)]]
  /\ UNCHANGED <<st, sz, mapping, vmas, vregs, fd, ref, writable, file, fsize, panicked>>

Exiting == [op |-> "exit", slot |-> 0, va |-> 0, end |-> 0]

\* writei of page k: not beyond the end of the file, nor past the largest file.
writei(k, c) ==
  IF k * PGSIZE > fsize \/ k >= FILEMAX
  THEN UNCHANGED <<file, fsize>>
  ELSE /\ file' = [file EXCEPT ![k] = c]
       /\ fsize' = IF (k + 1) * PGSIZE > fsize THEN (k + 1) * PGSIZE ELSE fsize

WritesBack(v) == v.shared /\ "W" \in v.prot

\* One page of the loop of munmap, or of exit.
ReleasePage(p) ==
  /\ Up /\ call[p] # NONE /\ call[p].slot # 0 /\ call[p].va < call[p].end
  /\ LET v == vmas[p][call[p].slot]
         g == Page(call[p].va)
     IN IF pte[p][g] = NONE
        THEN UNCHANGED <<mapping, file, fsize>>
        ELSE /\ IF WritesBack(v)
                THEN writei(FileIndex(v, g), mem[pte[p][g]])
                ELSE UNCHANGED <<file, fsize>>
             /\ Unmap(p, {g})
  /\ call' = [call EXCEPT ![p].va = call[p].va + PGSIZE]
  /\ UNCHANGED <<st, sz, vmas, vregs, fd, ref, writable, panicked>>

\* The end of that loop: fileclose, and the slot is free.
ReleaseVma(p) ==
  /\ Up /\ call[p] # NONE /\ call[p].slot # 0 /\ call[p].va >= call[p].end
  /\ vmas' = [vmas EXCEPT ![p][call[p].slot] = NONE]
  /\ ref' = ref - 1
  /\ call' = [call EXCEPT ![p] = IF call[p].op = "munmap" THEN NONE ELSE Exiting]
  /\ UNCHANGED <<st, sz, mapping, vregs, fd, writable, file, fsize, panicked>>

-----------------------------------------------------------------------------
(* Page faults and the kernel's accesses to user memory                    *)

Allowed(p, g, w) == {"U", "R"} \subseteq perm[p][g] /\ (w => "W" \in perm[p][g])

\* A program that only touches what it has, and stores only where it may.
Touches(p, va, w) ==
  \/ "touch_any" \in Uses
  \/ /\ va < sz[p]
     /\ \A i \in VmaSlots(p, va) : "R" \in vmas[p][i].prot /\ (w => "W" \in vmas[p][i].prot)

Store(p) ==
  /\ Ready(p)
  /\ \E g \in Pages, c \in Vals :
       /\ Touches(p, g * PGSIZE, TRUE) /\ Allowed(p, g, TRUE)
       /\ mem' = [mem EXCEPT ![pte[p][g]] = c]
  /\ UNCHANGED <<st, sz, pte, perm, free, vmas, vregs, fd, ref, writable, file, fsize, call, panicked>>

VregSlots(p, va) ==
  {i \in 1..NVREG : vregs[p][i] # NONE /\ va >= vregs[p][i].start
                    /\ va < Add(vregs[p][i].start, vregs[p][i].size)}

\* The page of a mapping, filled from the file.
mmap_fault(p, va) ==
  \E f \in free, i \in VmaOf(p, va) :
    Map(p, Page(va), f, FilePage(FileIndex(vmas[p][i], Page(va))), {"U"} \cup vmas[p][i].prot)

\* usertrap, scause 13 or 15: the mapzero regions, then mmap_fault.
Fault(p) ==
  /\ Ready(p)
  /\ \E va \in 0..TRAPFRAME - 1, w \in BOOLEAN :
       LET g   == Page(va)
           vrs == VregSlots(p, va)
       IN /\ Touches(p, va, w) /\ ~Allowed(p, g, w)
          /\ \/ /\ vrs # {} /\ pte[p][g] = NONE
                /\ \E f \in free : Map(p, g, f, "A", {"R", "W", "U"})
                /\ UNCHANGED call
             \/ /\ vrs # {} /\ pte[p][g] = NONE /\ free = {}
                /\ call' = [call EXCEPT ![p] = Exiting]
                /\ UNCHANGED <<mapping, panicked>>
             \/ /\ vrs = {}
                /\ mmap_fault(p, va)
                /\ UNCHANGED call
             \/ /\ vrs = {} /\ (VmaSlots(p, va) = {} \/ free = {})
                /\ call' = [call EXCEPT ![p] = [op |-> "lazy", slot |-> 0, va |-> va, end |-> va]]
                /\ UNCHANGED <<mapping, panicked>>
  /\ UNCHANGED <<st, sz, vmas, vregs, fd, ref, writable, file, fsize>>

\* A page of zeroes for the heap.
vmfault(p, g) == \E f \in free : Map(p, g, f, "zero", {"R", "W", "U"})

\* The second attempt, vmfault; if it fails too the process is killed.
LazyFault(p) ==
  /\ Up /\ call[p] # NONE /\ call[p].op = "lazy"
  /\ LET g == Page(call[p].va) IN
     IF call[p].va < sz[p] /\ pte[p][g] = NONE /\ free # {}
     THEN /\ vmfault(p, g)
          /\ call' = [call EXCEPT ![p] = NONE]
     ELSE /\ Unmap(p, {g})
          /\ call' = [call EXCEPT ![p] = Exiting]
          /\ UNCHANGED panicked
  /\ UNCHANGED <<st, sz, vmas, vregs, fd, ref, writable, file, fsize>>

\* copyin and copyinstr read a page of user memory.
copyin(p) ==
  /\ Ready(p) /\ "copy" \in Uses
  /\ \E g \in Below(sz[p]), f \in free :
       /\ pte[p][g] = NONE
       /\ Map(p, g, f, "zero", {"R", "W", "U"})
  /\ UNCHANGED <<st, sz, vmas, vregs, fd, ref, writable, file, fsize, call>>

\* copyout writes one.
copyout(p) ==
  /\ Ready(p) /\ "copy" \in Uses
  /\ \E g \in Pages, c \in Vals :
       \/ /\ pte[p][g] # NONE /\ {"U", "W"} \subseteq perm[p][g]
          /\ mem' = [mem EXCEPT ![pte[p][g]] = c]
          /\ UNCHANGED <<pte, perm, free, panicked>>
       \/ /\ g \in Below(sz[p]) /\ pte[p][g] = NONE
          /\ \E f \in free : Map(p, g, f, c, {"R", "W", "U"})
  /\ UNCHANGED <<st, sz, vmas, vregs, fd, ref, writable, file, fsize, call>>

-----------------------------------------------------------------------------
(* fork, exec, exit, wait                                                  *)

\* Mutant: the child's copies of the VMAs are not counted.
ForkRefsOpenOnly(p) == IF fd[p] THEN 1 ELSE 0

\* How often kfork calls filedup on the file.
ForkRefs(p) == Cardinality({i \in Slots : vmas[p][i] # NONE}) + (IF fd[p] THEN 1 ELSE 0)

\* c gets a copy of each page that p has below p->sz, in frames of its own.
uvmcopy(p, c) ==
  LET copied == Below(sz[p]) \cap Mapped(p) IN
  /\ \E m \in Allocations(copied) :
       /\ pte' = [pte EXCEPT ![c] = [g \in Pages |-> IF g \in copied THEN m[g] ELSE NONE]]
       /\ mem' = [f \in Frames |-> IF \E g \in copied : m[g] = f
                                   THEN mem[pte[p][CHOOSE g \in copied : m[g] = f]] ELSE mem[f]]
       /\ free' = free \ {m[g] : g \in copied}
  /\ perm' = [perm EXCEPT ![c] = [g \in Pages |-> IF g \in copied THEN perm[p][g] ELSE {}]]

\* kfork: uvmcopy, then the regions and the file references.  Without a
\* frame for every page the child is freed again and nothing has changed.
kfork(p) ==
  /\ Ready(p)
  /\ \E c \in Procs :
       /\ st[c] = "unused"
       /\ uvmcopy(p, c)
       /\ st' = [st EXCEPT ![c] = "run"]
       /\ sz' = [sz EXCEPT ![c] = sz[p]]
       /\ vregs' = [vregs EXCEPT ![c] = vregs[p]]
       /\ vmas' = [vmas EXCEPT ![c] = vmas[p]]
       /\ fd' = [fd EXCEPT ![c] = fd[p]]
  /\ ref' = ref + ForkRefs(p)
  /\ UNCHANGED <<writable, file, fsize, call, panicked>>

\* freewalk after uvmunmap of [0, p->sz): a leaf above makes it panic.
NoLeaf(p) == Mapped(p) \subseteq Below(sz[p])

\* Mutant: the old image's frames are not freed.
kexecKeepsOld(p) ==
  /\ Ready(p) /\ "exec" \in Uses
  /\ \E m \in Allocations(Below(IMAGE * PGSIZE)) :
       /\ pte' = [pte EXCEPT ![p] = [g \in Pages |-> IF g < IMAGE THEN m[g] ELSE NONE]]
       /\ free' = free \ {m[g] : g \in DOMAIN m}
  /\ perm' = [perm EXCEPT ![p] = [g \in Pages |-> IF g < IMAGE THEN {"R", "W", "U"} ELSE {}]]
  /\ sz' = [sz EXCEPT ![p] = IMAGE * PGSIZE]
  /\ UNCHANGED <<st, mem, vmas, vregs, fd, ref, writable, file, fsize, call, panicked>>

\* kexec: the new image is complete before the old one is freed.
kexec(p) ==
  /\ Ready(p) /\ "exec" \in Uses
  /\ IF NoLeaf(p)
     THEN LET new == Below(IMAGE * PGSIZE)
              old == FramesOf(p, Pages)
          IN
          /\ \E m \in Allocations(new) :
               /\ pte' = [pte EXCEPT ![p] = [g \in Pages |-> IF g \in new THEN m[g] ELSE NONE]]
               /\ mem' = [f \in Frames |-> IF \E g \in new : m[g] = f THEN "img" ELSE kfree(old)[f]]
               /\ free' = (free \ {m[g] : g \in new}) \cup old
          /\ perm' = [perm EXCEPT ![p] = [g \in Pages |-> IF g \in new THEN {"R", "W", "U"} ELSE {}]]
          /\ sz' = [sz EXCEPT ![p] = IMAGE * PGSIZE]
          /\ UNCHANGED panicked
     ELSE /\ Cardinality(free) >= IMAGE
          /\ panicked' = "leaf" /\ UNCHANGED <<mapping, sz>>
  /\ UNCHANGED <<st, vmas, vregs, fd, ref, writable, file, fsize, call>>

sys_close(p) ==
  /\ Ready(p) /\ fd[p]
  /\ fd' = [fd EXCEPT ![p] = FALSE]
  /\ ref' = ref - 1
  /\ UNCHANGED <<st, sz, mapping, vmas, vregs, writable, file, fsize, call, panicked>>

sys_exit(p) ==
  /\ Ready(p)
  /\ call' = [call EXCEPT ![p] = Exiting]
  /\ UNCHANGED <<st, sz, mapping, vmas, vregs, fd, ref, writable, file, fsize, panicked>>

\* Mutant: kexit stops one page short of the mapping's end.
ExitVmaShort(p) ==
  /\ Up /\ call[p] = Exiting
  /\ \E i \in Slots :
       /\ vmas[p][i] # NONE
       /\ call' = [call EXCEPT ![p] = [op |-> "exit", slot |-> i, va |-> vmas[p][i].addr,
                                       end |-> vmas[p][i].addr + vmas[p][i].length - PGSIZE]]
  /\ UNCHANGED <<st, sz, mapping, vmas, vregs, fd, ref, writable, file, fsize, panicked>>

\* The next VMA that kexit releases.
ExitVma(p) ==
  /\ Up /\ call[p] = Exiting
  /\ \E i \in Slots :
       /\ vmas[p][i] # NONE /\ \A j \in Slots : vmas[p][j] # NONE => i <= j
       /\ call' = [call EXCEPT ![p] = [op |-> "exit", slot |-> i, va |-> vmas[p][i].addr,
                                       end |-> Add(vmas[p][i].addr, vmas[p][i].length)]]
  /\ UNCHANGED <<st, sz, mapping, vmas, vregs, fd, ref, writable, file, fsize, panicked>>

\* The rest of kexit: the open files are closed and p is a zombie.
ExitDone(p) ==
  /\ Up /\ call[p] = Exiting /\ \A i \in Slots : vmas[p][i] = NONE
  /\ st' = [st EXCEPT ![p] = "zombie"]
  /\ fd' = [fd EXCEPT ![p] = FALSE]
  /\ ref' = IF fd[p] THEN ref - 1 ELSE ref
  /\ call' = [call EXCEPT ![p] = NONE]
  /\ UNCHANGED <<sz, mapping, vmas, vregs, writable, file, fsize, panicked>>

\* freeproc, from kwait in the parent; freewalk panics if a leaf is left.
\* The regions of mapzero go when allocproc takes the slot again.
freeproc(p) ==
  /\ st[p] = "zombie" /\ Up
  /\ IF NoLeaf(p)
     THEN /\ Unmap(p, Pages)
          /\ sz' = [sz EXCEPT ![p] = 0]
          /\ st' = [st EXCEPT ![p] = "unused"]
          /\ vregs' = [vregs EXCEPT ![p] = [i \in 1..NVREG |-> NONE]]
          /\ UNCHANGED panicked
     ELSE panicked' = "leaf" /\ UNCHANGED <<mapping, sz, st, vregs>>
  /\ UNCHANGED <<vmas, fd, ref, writable, file, fsize, call>>

Next ==
  \E p \in Procs :
    \/ sys_sbrk(p) \/ sys_mapzero(p) \/ sys_map_ro(p) \/ sys_mmap(p) \/ sys_munmap(p)
    \/ ReleasePage(p) \/ ReleaseVma(p)
    \/ Store(p) \/ Fault(p) \/ LazyFault(p) \/ copyin(p) \/ copyout(p)
    \/ kfork(p) \/ kexec(p) \/ sys_close(p) \/ sys_exit(p) \/ ExitVma(p) \/ ExitDone(p) \/ freeproc(p)

Spec == Init /\ [][Next]_vars
-----------------------------------------------------------------------------
(* Properties                                                              *)

\* The types of the model's state; in particular a mapping and the loops over
\* it end below the trapframe (sys_mmap, sys_munmap, kexit), and a page without
\* a frame has no permissions (mappages, uvmunmap).
TypeOK ==
  /\ st \in [Procs -> {"unused", "run", "zombie"}]
  /\ sz \in [Procs -> 0..TRAPFRAME]
  /\ pte \in [Procs -> [Pages -> Frames \cup {NONE}]]
  /\ perm \in [Procs -> [Pages -> SUBSET {"R", "W", "X", "U"}]]
  /\ mem \in [Frames -> Contents]
  /\ free \subseteq Frames
  /\ vmas \in [Procs -> [Slots -> Vma \cup {NONE}]]
  /\ \A p \in Procs, i \in Slots :
       vmas[p][i] # NONE => Add(vmas[p][i].addr, vmas[p][i].length) <= TRAPFRAME
  /\ vregs \in [Procs -> [1..NVREG -> Vreg \cup {NONE}]]
  /\ fd \in [Procs -> BOOLEAN] /\ ref \in Int /\ writable \in BOOLEAN
  /\ file \in [0..FILEMAX - 1 -> Contents] /\ fsize \in Nat
  /\ call \in [Procs -> Call \cup {NONE}]
  /\ panicked \in {"", "remap", "leaf"}
  /\ \A p \in Procs, g \in Pages : pte[p][g] = NONE => perm[p][g] = {}

\* Whatever programs do, a frame is either on the free list or mapped by one
\* page of one process: no frame is shared, freed twice or lost by fork, exec,
\* exit, sbrk, munmap and the fault handlers together.
FramesConserved ==
  /\ \A f \in Frames : f \in free <=> \A p \in Procs, g \in Pages : pte[p][g] # f
  /\ \A p, q \in Procs, g, h \in Pages :
       pte[p][g] = pte[q][h] /\ pte[p][g] # NONE => p = q /\ g = h

\* f->ref counts the descriptors and the VMAs that refer to the file, over all
\* processes: filedup in mmap and fork is matched by fileclose in munmap, close
\* and exit, so that parent and child may unmap or exit in any order.
FileRefs ==
  ref = Cardinality({p \in Procs : fd[p]})
        + Cardinality({h \in Procs \X Slots : vmas[h[1]][h[2]] # NONE})

\* Neither mappages (remap) nor freewalk (leaf) panics.
NoPanic == Up

\* The VMAs of a process lie below p->sz and do not overlap, so that the
\* search of mmap_fault and munmap finds the mapping that mmap returned.
VmasDisjoint ==
  \A p \in Procs, i, j \in Slots :
    vmas[p][i] # NONE =>
      /\ vmas[p][i].addr + vmas[p][i].length <= sz[p]
      /\ i # j /\ vmas[p][j] # NONE =>
           \/ vmas[p][i].addr + vmas[p][i].length <= vmas[p][j].addr
           \/ vmas[p][j].addr + vmas[p][j].length <= vmas[p][i].addr

\* The searches of mmap_fault, munmap and exit find one mapping for an address, and
\* what they and the freeing of the address space do with it makes no panic.
RegionsSound == VmasDisjoint /\ NoPanic

\* The file page behind page g of the mapping in slot i.
Behind(p, i, g) == vmas[p][i].off + (g - Page(vmas[p][i].addr))

\* A page of a mapping that gets its frame while the process runs is filled
\* with the file's page, at that moment (mmap_fault).
FilledFromFile ==
  \A p \in Procs, g \in Pages :
    st[p] = "run" /\ pte[p][g] = NONE /\ pte'[p][g] # NONE =>
      \A i \in Slots :
        Covers(vmas[p][i], g * PGSIZE) => mem'[pte'[p][g]] = FilePage(Behind(p, i, g))

\* Every page that a mapzero region extends over is filled with 'A' on its
\* first use: no other handler gets to it first (usertrap).
FilledWithA ==
  \A p \in Procs, g \in Pages :
    st[p] = "run" /\ pte[p][g] = NONE /\ pte'[p][g] # NONE =>
      \A i \in 1..NVREG :
        /\ vregs[p][i] # NONE /\ Page(vregs[p][i].start) <= g
        /\ g * PGSIZE < vregs[p][i].start + vregs[p][i].size
        => mem'[pte'[p][g]] = "A"

\* Every page comes to a process with the contents that the call which made its
\* region promised, whichever of the three handlers of usertrap supplies it.
PagesFilled == [][FilledFromFile /\ FilledWithA]_vars

Backed(p, i, g) ==
  /\ vmas[p][i] # NONE /\ Covers(vmas[p][i], g * PGSIZE) /\ pte[p][g] # NONE
  /\ vmas[p][i].shared /\ "W" \in vmas[p][i].prot

\* When a page stops being part of a shared writable mapping, because it is
\* unmapped or because the mapping ends, the file has received its contents
\* (munmap and exit; pages past the end of the file excepted).
SharedSaved ==
  \A p \in Procs, i \in Slots, g \in Pages :
    Backed(p, i, g) /\ ~Backed(p, i, g)' /\ Behind(p, i, g) * PGSIZE < fsize
    => file'[Behind(p, i, g)] = mem[pte[p][g]]

\* The file changes only to what a page of a shared writable mapping of that
\* very file page holds, and only if it was opened for writing: stores to a
\* private mapping, to the heap or to another mapping never reach it.
OnlySharedSaved ==
  \A k \in DOMAIN file :
    file'[k] # file[k] =>
      /\ writable
      /\ \E p \in Procs, i \in Slots, g \in Pages :
           Backed(p, i, g) /\ Behind(p, i, g) = k /\ file'[k] = mem[pte[p][g]]

\* The file receives every page of a shared writable mapping when it is given up,
\* and nothing else, over all processes that have inherited the mapping.
FileExact == [][SharedSaved /\ OnlySharedSaved]_vars
=============================================================================
