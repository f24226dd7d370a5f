------------------------------ MODULE Umalloc -------------------------------
(***************************************************************************)
(* The allocator of user programs (user/umalloc.c): a circular list of     *)
(* free blocks in address order, first fit from where the last search      *)
(* ended.  Addresses and sizes are counted in headers.  The static header  *)
(* "base" lies below the heap.                                             *)
(***************************************************************************)
EXTENDS Integers, Sequences, FiniteSets

CONSTANTS
  NALLOC,      \* the least that morecore asks for, 4096 in the code
  HEAPMAX,     \* where sbrk fails
  Units,       \* sizes of the blocks that the program asks for, header included
  Gaps         \* units that the program takes from sbrk for itself

ASSUME UmallocAssumption ==
  NALLOC \in Nat \ {0} /\ HEAPMAX \in Nat /\ Units \subseteq Nat \ {0, 1} /\ Gaps \subseteq Nat

VARIABLES
  list,        \* the headers on the free list: ptr and size, by address
  freep,       \* -1: the list has not been set up
  live,        \* sizes of the blocks that the program holds, by address
  brk,         \* first address beyond the heap
  core,        \* history: the units that morecore has got
  want         \* the size that malloc is looking for; 0: not in malloc

heapVars == <<list, freep, live, brk, core, want>>

Base == 0

UmallocInit ==
  /\ list = <<>> /\ freep = -1 /\ live = <<>> /\ brk = 1 /\ core = {} /\ want = 0

\* f with x mapped to v, and f without x.
Bind(f, x, v) == [y \in DOMAIN f \cup {x} |-> IF y = x THEN v ELSE f[y]]
Drop(f, x)    == [y \in DOMAIN f \ {x} |-> f[y]]

\* The headers from freep on, once around the list.
Around ==
  LET n == Cardinality(DOMAIN list)
      at[k \in 0..n] == IF k = 0 THEN freep ELSE list[at[k - 1]].ptr
  IN at

\* malloc, with the set-up of the list.
MallocCall ==
  /\ want = 0
  /\ want' \in Units
  /\ IF freep = -1
     THEN list' = Bind(list, Base, [ptr |-> Base, size |-> 0]) /\ freep' = Base
     ELSE UNCHANGED <<list, freep>>
  /\ UNCHANGED <<live, brk, core>>

\* The turns of malloc's loop at which a block is large enough.
Fitting == {k \in DOMAIN Around \ {0} : list[Around[k]].size >= want}

\* Mutant: the rest keeps the size of the whole.
SplitWhole(h, n) == h
\* What stays on the list when the tail is handed out.
SplitRest(h, n) == [h EXCEPT !.size = @ - n]

MallocFits ==
  /\ want # 0
  /\ \E k \in Fitting :
       LET p    == Around[k]
           prev == Around[k - 1]
       IN /\ \A j \in Fitting : k <= j
          /\ IF list[p].size = want
             THEN /\ list' = [Drop(list, p) EXCEPT ![prev].ptr = list[p].ptr]
                  /\ live' = Bind(live, p, want)
             ELSE /\ list' = [list EXCEPT ![p] = SplitRest(@, want)]
                  /\ live' = Bind(live, p + list[p].size - want, want)
          /\ freep' = prev
  /\ want' = 0
  /\ UNCHANGED <<brk, core>>

\* free's search: bp lies between p and the next, or beyond one end of the list.
Between(p, bp) ==
  LET next == list[p].ptr IN
  \/ bp > p /\ bp < next
  \/ p >= next /\ (bp > p \/ bp < next)

\* The freed block ends where the next free one starts.
JoinsUp(bp, n, p) == bp + n = list[p].ptr

\* The list with the n units at bp linked in after p.
Linked(bp, n, p) ==
  LET up   == JoinsUp(bp, n, p)
      next == list[p].ptr
      new  == IF up THEN [ptr |-> list[next].ptr, size |-> n + list[next].size]
                    ELSE [ptr |-> next, size |-> n]
      rest == IF up THEN Drop(list, next) ELSE list
  IN IF p + rest[p].size = bp
     THEN [rest EXCEPT ![p] = [ptr |-> new.ptr, size |-> @.size + new.size]]
     ELSE Bind([rest EXCEPT ![p].ptr = bp], bp, new)

Free(bp, n) ==
  \E k \in DOMAIN Around :
    /\ Between(Around[k], bp) /\ \A j \in 0..k - 1 : ~Between(Around[j], bp)
    /\ list' = Linked(bp, n, Around[k])
    /\ freep' = Around[k]

CoreSize == IF want < NALLOC THEN NALLOC ELSE want

\* No block is large enough: morecore, after which the search goes on from freep.
MallocMore ==
  /\ want # 0 /\ Fitting = {}
  /\ brk + CoreSize <= HEAPMAX
  /\ Free(brk, CoreSize)
  /\ brk' = brk + CoreSize
  /\ core' = core \cup (brk..brk + CoreSize - 1)
  /\ UNCHANGED <<live, want>>

MallocFails ==
  /\ want # 0 /\ Fitting = {}
  /\ brk + CoreSize > HEAPMAX
  /\ want' = 0
  /\ UNCHANGED <<list, freep, live, brk, core>>

free(bp) ==
  /\ want = 0
  /\ Free(bp, live[bp])
  /\ live' = Drop(live, bp)
  /\ UNCHANGED <<brk, core, want>>

\* The program moves the end of the heap itself.
UserSbrk ==
  /\ want = 0
  /\ \E g \in Gaps : brk + g <= HEAPMAX /\ brk' = brk + g
  /\ UNCHANGED <<list, freep, live, core, want>>

UmallocNext ==
  MallocCall \/ MallocFits \/ MallocMore \/ MallocFails \/ UserSbrk \/ \E bp \in DOMAIN live : free(bp)

-----------------------------------------------------------------------------
(* Properties                                                              *)

Extent(a, n) == a..a + n - 1
Blocks == {<<a, live[a]>> : a \in DOMAIN live} \cup {<<a, list[a].size>> : a \in DOMAIN list}

\* Every unit that the allocator has got from sbrk belongs to one block, held by
\* the program or free: no two blocks overlap and nothing is lost, whatever the
\* order of the calls.
HeapPartition ==
  /\ core = UNION {Extent(b[1], b[2]) : b \in Blocks}
  /\ DOMAIN live \cap DOMAIN list = {}
  /\ \A b, c \in Blocks : b # c => Extent(b[1], b[2]) \cap Extent(c[1], c[2]) = {}

\* The free list is one cycle through all free blocks in address order, so that
\* the searches of malloc and free end, wherever freep is.
OneCycle ==
  freep # -1 =>
    /\ {Around[k] : k \in DOMAIN Around \ {0}} = DOMAIN list
    /\ Cardinality({a \in DOMAIN list : list[a].ptr <= a}) = 1

\* Two free blocks never touch: free joins a block with both of its neighbours.
Coalesced == \A a \in DOMAIN list \ {Base} : a + list[a].size \notin DOMAIN list

\* After any sequence of malloc and free the blocks and the free list fit together.
HeapConsistent == HeapPartition /\ OneCycle /\ Coalesced
=============================================================================
