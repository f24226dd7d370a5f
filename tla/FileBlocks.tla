----------------------------- MODULE FileBlocks -----------------------------
(***************************************************************************)
(* The contents of files (kernel/fs.c, kernel/file.c): the free map,       *)
(* direct and indirect blocks, readi, writei and itrunc, a write as a      *)
(* series of transactions, the image that mkfs builds, and crashes.        *)
(*                                                                         *)
(* Processes work under the lock of the inode and inside a transaction, so *)
(* what they interleave is the free map and the transactions.  A step is   *)
(* one call of balloc or bfree, or one block copied.  The log is used      *)
(* through what it promises: the transaction is durable when the last      *)
(* operation in it ends.  Lengths are counted in units, BSIZE to a block;  *)
(* a directory entry, and an address in an indirect block, is one unit.    *)
(***************************************************************************)
EXTENDS Integers, Sequences, SequencesExt

CONSTANTS
  Procs, None,
  Mark,          \* what mkfs finds in the files it copies
  Descs,         \* open file descriptions, all of inode File
  BSIZE, NDIRECT,
  SIZE,          \* blocks on the disk
  BPB,           \* free-map bits in a block
  MAXOPBLOCKS,
  Lengths,       \* lengths of reads and writes
  MkfsAppends,   \* what mkfs appends: a sequence of pairs inode, length
  BadSrc,        \* processes whose buffer copyin may refuse
  MAXCALLS, MAXCRASH

Root == 1
File == 2
Inums == {Root, File}
NINDIRECT == BSIZE
MAXFILE == NDIRECT + NINDIRECT

\* The disk starts with the inode block and the free map.
IBLOCK == 0
BBLOCK(b) == 1 + b \div BPB
Nmeta == 1 + (SIZE + BPB - 1) \div BPB
Blocks == 0..SIZE - 1

ASSUME FileBlocksAssumption ==
  /\ BSIZE \in Nat \ {0} /\ NDIRECT \in Nat /\ SIZE \in Nat /\ BPB \in Nat \ {0} /\ Nmeta < SIZE
  /\ MAXOPBLOCKS \in Nat /\ MAXOPBLOCKS >= 6 /\ Lengths \subseteq Nat /\ BadSrc \subseteq Procs
  /\ None \notin Procs /\ MAXCALLS \in Nat /\ MAXCRASH \in Nat

VARIABLES
  fs,        \* the disk as the buffer cache has it: used (the free map), data, dinode
  dur,       \* and as it is after a crash and recovery
  ip,        \* the inodes in memory
  lock,      \* their sleep-locks
  foff,      \* f->off
  op,        \* what each process is doing
  panicked,
  calls, crashes,
  bytes      \* history: the contents that completed calls have given each inode

vars == <<fs, dur, ip, lock, foff, op, panicked, calls, crashes, bytes>>

Zeroed == [k \in 0..BSIZE - 1 |-> 0]
NoAddrs == [k \in 0..NDIRECT |-> 0]
Least(a, b) == IF a <= b THEN a ELSE b

\* The block that entry bn of an inode with addresses a refers to; 0 if none.
AddrIn(data, a, bn) ==
  IF bn < NDIRECT THEN a[bn]
  ELSE IF a[NDIRECT] = 0 THEN 0 ELSE data[a[NDIRECT]][bn - NDIRECT]

-----------------------------------------------------------------------------
(* mkfs                                                                    *)

\* freeblock++
MkfsFresh(img) == [img EXCEPT !.freeblock = img.freeblock + 1]

\* One turn of iappend's loop: n units of contents v, within one block.
MkfsChunk(img, i, n, v) ==
  LET din  == img.dinode[i]
      fbn  == din.size \div BSIZE
      img1 == IF fbn < NDIRECT \/ din.addrs[NDIRECT] # 0 THEN img
              ELSE [MkfsFresh(img) EXCEPT !.dinode[i].addrs[NDIRECT] = img.freeblock]
      ind  == img1.dinode[i].addrs[NDIRECT]
      img2 == IF AddrIn(img1.data, img1.dinode[i].addrs, fbn) # 0 THEN img1
              ELSE IF fbn < NDIRECT
              THEN [MkfsFresh(img1) EXCEPT !.dinode[i].addrs[fbn] = img1.freeblock]
              ELSE [MkfsFresh(img1) EXCEPT !.data[ind][fbn - NDIRECT] = img1.freeblock]
      x    == AddrIn(img2.data, img2.dinode[i].addrs, fbn)
      from == din.size % BSIZE
  IN [img2 EXCEPT !.data[x] = [k \in 0..BSIZE - 1 |-> IF k \in from..from + n - 1 THEN v ELSE @[k]],
                  !.dinode[i].size = din.size + n]

\* iappend, unit by unit.
MkfsAppend(img, a) == FoldLeft(LAMBDA g, k : MkfsChunk(g, a[1], 1, Mark), img, [k \in 1..a[2] |-> k])

MkfsEmpty ==
  [data |-> [b \in Blocks |-> Zeroed], dinode |-> [i \in Inums |-> [addrs |-> NoAddrs, size |-> 0]],
   freeblock |-> Nmeta]

\* balloc: the blocks that have been handed out are in use.
MkfsUsed(img) == 0..img.freeblock - 1

\* main: the appends, then the root directory's size rounded up, and the free map.
Mkfs ==
  LET img  == FoldLeft(MkfsAppend, MkfsEmpty, MkfsAppends)
      size == (img.dinode[Root].size \div BSIZE + 1) * BSIZE
  IN [used |-> MkfsUsed(img), data |-> img.data,
      dinode |-> [img.dinode EXCEPT ![Root].size = size]]

-----------------------------------------------------------------------------
\* The contents that the blocks of inode a give.
Contents(data, a) ==
  [k \in 1..a.size |-> data[AddrIn(data, a.addrs, (k - 1) \div BSIZE)][(k - 1) % BSIZE]]

Init ==
  /\ fs = Mkfs
  /\ ip = fs.dinode
  /\ bytes = [i \in Inums |-> Contents(fs.data, fs.dinode[i])]
  /\ dur = [fs |-> fs, bytes |-> bytes]
  /\ lock = [i \in Inums |-> None] /\ foff = [d \in Descs |-> 0]
  /\ op = [p \in Procs |-> None]
  /\ panicked = FALSE /\ calls = 0 /\ crashes = 0

Set(p, o) == op' = [op EXCEPT ![p] = o]
InTrans(q) == op[q] # None /\ op[q].phase # "begin"
Log(o, S) == [o EXCEPT !.logged = @ \cup S]

\* end_op: with the last operation the transaction, with its disk f, is durable.
EndOp(p, f, b) ==
  dur' = IF \E q \in Procs \ {p} : InTrans(q) THEN dur ELSE [fs |-> f, bytes |-> b]

-----------------------------------------------------------------------------
(* bmap, balloc, writei                                                    *)

Addr(i, bn) == AddrIn(fs.data, ip[i].addrs, bn)
FreeBlocks == Blocks \ fs.used
FirstFree == CHOOSE b \in FreeBlocks : \A c \in FreeBlocks : b <= c

\* Mutant: the bit is not set.
BallocUnmarked == [fs EXCEPT !.data[FirstFree] = Zeroed]
\* balloc, with its bzero.
Balloc == [fs EXCEPT !.used = @ \cup {FirstFree}, !.data[FirstFree] = Zeroed]

\* bmap finds no block: one call of balloc, for the indirect block if it is missing.
BmapAlloc(p) ==
  LET o   == op[p]
      bn  == o.off \div BSIZE
      b   == FirstFree
      ind == ip[o.i].addrs[NDIRECT]
      o1  == Log(o, {BBLOCK(b), b})
  IN /\ o # None /\ o.phase = "loop" /\ o.n > 0
     /\ Addr(o.i, bn) = 0 /\ FreeBlocks # {}
     /\ IF bn < NDIRECT \/ ind = 0
        THEN /\ fs' = Balloc /\ Set(p, o1)
             /\ ip' = [ip EXCEPT ![o.i].addrs[Least(bn, NDIRECT)] = b]
        ELSE /\ fs' = [Balloc EXCEPT !.data[ind][bn - NDIRECT] = b]
             /\ Set(p, Log(o1, {ind}))
             /\ UNCHANGED ip
     /\ UNCHANGED <<dur, lock, foff, panicked, calls, crashes, bytes>>

\* The disk is full.
BmapFails(p) ==
  LET o == op[p] IN
  /\ o # None /\ o.phase = "loop" /\ o.n > 0
  /\ Addr(o.i, o.off \div BSIZE) = 0 /\ FreeBlocks = {}
  /\ Set(p, [o EXCEPT !.phase = "end"])
  /\ UNCHANGED <<fs, dur, ip, lock, foff, panicked, calls, crashes, bytes>>

\* Mutant: the copy starts at the block's first byte.
AtBlockStart(off) == 0
\* off % BSIZE
InBlock(off) == off % BSIZE

\* One block's part of the bytes, or the end because copyin fails.
WriteBlock(p) ==
  LET o    == op[p]
      a    == Addr(o.i, o.off \div BSIZE)
      m    == Least(o.n, BSIZE - (o.off % BSIZE))
      from == InBlock(o.off)
  IN /\ o # None /\ o.phase = "loop" /\ o.n > 0 /\ a # 0
     /\ fs' = [fs EXCEPT !.data[a] =
          [k \in 0..BSIZE - 1 |-> IF k \in from..from + m - 1 THEN o.val ELSE @[k]]]
     /\ Set(p, [Log(o, {a}) EXCEPT !.n = @ - m, !.off = @ + m])
     /\ UNCHANGED <<dur, ip, lock, foff, panicked, calls, crashes, bytes>>

CopyinFails(p) ==
  LET o == op[p] IN
  /\ o # None /\ o.phase = "loop" /\ o.n > 0 /\ Addr(o.i, o.off \div BSIZE) # 0
  /\ p \in BadSrc /\ o.desc # None
  /\ Set(p, [o EXCEPT !.phase = "end"])
  /\ UNCHANGED <<fs, dur, ip, lock, foff, panicked, calls, crashes, bytes>>

\* The contents s with n units of v from offset off on.
Overlaid(s, off, n, v) ==
  [k \in 1..IF off + n > Len(s) THEN off + n ELSE Len(s) |->
     IF k \in off + 1..off + n THEN v ELSE s[k]]

SizeAfter(size, off) == IF off > size THEN off ELSE size

Iupdate(i, new) == [fs EXCEPT !.dinode[i] = new]

\* The end of writei, f->off, iunlock and end_op; then the next part of the write,
\* unless this one was cut short.
WriteEnds(p) ==
  LET o    == op[p]
      new  == [ip[o.i] EXCEPT !.size = SizeAfter(@, o.off)]
      done == o.n1 - o.n
      b    == [bytes EXCEPT ![o.i] = Overlaid(@, o.off - done, done, o.val)]
  IN /\ o # None /\ o.phase \in {"loop", "end"} /\ (o.phase = "loop" => o.n = 0)
     /\ ip' = [ip EXCEPT ![o.i] = new]
     /\ fs' = Iupdate(o.i, new)
     /\ foff' = IF o.desc = None THEN foff ELSE [foff EXCEPT ![o.desc] = @ + done]
     /\ lock' = [lock EXCEPT ![o.i] = None]
     /\ bytes' = b
     /\ EndOp(p, fs', b)
     /\ Set(p, IF o.n = 0 /\ o.left > 0 THEN [o EXCEPT !.phase = "begin", !.logged = {}] ELSE None)
     /\ UNCHANGED <<panicked, calls, crashes>>

-----------------------------------------------------------------------------
(* filewrite, fileread, dirlink, sys_unlink                                *)

\* Mutant: a part may be one block longer.
MaxBytesLong == ((MAXOPBLOCKS - 1 - 1 - 2) \div 2 + 1) * BSIZE
MaxBytes == ((MAXOPBLOCKS - 1 - 1 - 2) \div 2) * BSIZE

Starts(p) == op[p] = None /\ calls < MAXCALLS /\ calls' = calls + 1 /\ ~panicked

\* A call in its first transaction, before ilock.
Call(c, i, d, n, v) ==
  [call |-> c, i |-> i, desc |-> d, left |-> n, n |-> 0, n1 |-> 0, off |-> 0, val |-> v,
   phase |-> "lock", logged |-> {}]

sys_write(p, d) ==
  /\ Starts(p)
  /\ \E n \in Lengths : Set(p, Call("write", File, d, n, p))
  /\ UNCHANGED <<fs, dur, ip, lock, foff, panicked, crashes, bytes>>

\* begin_op for the next part.
NextPart(p) ==
  /\ op[p] # None /\ op[p].phase = "begin"
  /\ Set(p, [op[p] EXCEPT !.phase = "lock"])
  /\ UNCHANGED <<fs, dur, ip, lock, foff, panicked, calls, crashes, bytes>>

\* ilock and the tests of writei, for n units at off; a refusal ends the call.
WriteLocks(p, off, n) ==
  /\ lock[op[p].i] = None
  /\ IF off > ip[op[p].i].size \/ off + n > MAXFILE * BSIZE
     THEN /\ Set(p, None) /\ EndOp(p, fs, bytes) /\ UNCHANGED lock
     ELSE /\ lock' = [lock EXCEPT ![op[p].i] = p]
          /\ Set(p, [op[p] EXCEPT !.phase = "loop", !.off = off, !.n = n, !.n1 = n, !.left = @ - n])
          /\ UNCHANGED dur
  /\ UNCHANGED <<fs, ip, foff, panicked, calls, crashes, bytes>>

WritePart(p) ==
  /\ op[p] # None /\ op[p].phase = "lock" /\ op[p].call = "write"
  /\ WriteLocks(p, foff[op[p].desc], Least(op[p].left, MaxBytes))

\* A new directory entry goes to the first free one, or to the end.
FreeEntries == {k \in 1..ip[Root].size : Contents(fs.data, ip[Root])[k] = 0}
dirlink(p) ==
  /\ Starts(p)
  /\ Set(p, Call("dirlink", Root, None, 1, p))
  /\ UNCHANGED <<fs, dur, ip, lock, foff, panicked, crashes, bytes>>

DirlinkWrites(p) ==
  /\ op[p] # None /\ op[p].phase = "lock" /\ op[p].call = "dirlink"
  /\ lock[Root] = None
  /\ WriteLocks(p, IF FreeEntries = {} THEN ip[Root].size
                   ELSE (CHOOSE k \in FreeEntries : \A j \in FreeEntries : k <= j) - 1, 1)

\* unlink writes a zero entry over the one it removes.
UnlinkWrites(p) ==
  /\ op[p] # None /\ op[p].phase = "lock" /\ op[p].call = "unlink"
  /\ lock[Root] = None
  /\ \E k \in 1..ip[Root].size \ FreeEntries : WriteLocks(p, k - 1, 1)

\* There is no such entry.
UnlinkMissing(p) ==
  /\ op[p] # None /\ op[p].phase = "lock" /\ op[p].call = "unlink" /\ lock[Root] = None
  /\ Set(p, None) /\ EndOp(p, fs, bytes)
  /\ UNCHANGED <<fs, ip, lock, foff, panicked, calls, crashes, bytes>>

sys_unlink(p) ==
  /\ Starts(p)
  /\ Set(p, Call("unlink", Root, None, 1, 0))
  /\ UNCHANGED <<fs, dur, ip, lock, foff, panicked, crashes, bytes>>

\* readi would call balloc for a block that is missing, outside a transaction.
sys_read(p, d) ==
  LET end == {k \in foff[d]..ip[File].size : \E n \in Lengths : k = Least(foff[d] + n, ip[File].size)} IN
  /\ Starts(p) /\ lock[File] = None
  /\ \E k \in end :
       /\ panicked' = \E j \in foff[d]..k - 1 : Addr(File, j \div BSIZE) = 0
       /\ foff' = [foff EXCEPT ![d] = k]
  /\ UNCHANGED <<fs, dur, ip, lock, op, crashes, bytes>>

-----------------------------------------------------------------------------
(* sys_open with O_TRUNC, itrunc                                           *)

sys_open(p, d) ==
  /\ Starts(p)
  /\ Set(p, Call("trunc", File, d, 0, 0))
  /\ UNCHANGED <<fs, dur, ip, lock, foff, panicked, crashes, bytes>>

OpenLocks(p) ==
  /\ op[p] # None /\ op[p].phase = "lock" /\ op[p].call = "trunc" /\ lock[File] = None
  /\ lock' = [lock EXCEPT ![File] = p]
  /\ foff' = [foff EXCEPT ![op[p].desc] = 0]
  /\ Set(p, [op[p] EXCEPT !.phase = "trunc"])
  /\ UNCHANGED <<fs, dur, ip, panicked, calls, crashes, bytes>>

\* The block that itrunc comes to at its turn k: the direct blocks, those in the
\* indirect block, and then that one.
TruncBlock(i, k) == IF k < MAXFILE THEN Addr(i, k) ELSE ip[i].addrs[NDIRECT]

TruncTurns == MAXFILE + 1

\* One turn, with its bfree.
TruncFree(p) ==
  LET o == op[p]
      b == TruncBlock(o.i, o.off)
  IN /\ o # None /\ o.phase = "trunc" /\ o.off < TruncTurns
     /\ IF b = 0
        THEN Set(p, [o EXCEPT !.off = @ + 1]) /\ UNCHANGED <<fs, ip, panicked>>
        ELSE /\ panicked' = (b \notin fs.used)
             /\ fs' = [fs EXCEPT !.used = @ \ {b}]
             /\ ip' = IF o.off < NDIRECT \/ o.off = MAXFILE
                      THEN [ip EXCEPT ![o.i].addrs[Least(o.off, NDIRECT)] = 0] ELSE ip
             /\ Set(p, [Log(o, {BBLOCK(b)}) EXCEPT !.off = @ + 1])
     /\ UNCHANGED <<dur, lock, foff, calls, crashes, bytes>>

TruncEnds(p) ==
  LET o   == op[p]
      new == [ip[o.i] EXCEPT !.size = 0]
      b   == [bytes EXCEPT ![o.i] = <<>>]
  IN /\ o # None /\ o.phase = "trunc" /\ o.off = TruncTurns
     /\ ip' = [ip EXCEPT ![o.i] = new]
     /\ fs' = Iupdate(o.i, new)
     /\ lock' = [lock EXCEPT ![o.i] = None]
     /\ bytes' = b
     /\ EndOp(p, fs', b)
     /\ Set(p, None)
     /\ UNCHANGED <<foff, panicked, calls, crashes>>

-----------------------------------------------------------------------------
\* A crash, recovery and boot.
Crash ==
  /\ crashes < MAXCRASH
  /\ crashes' = crashes + 1
  /\ fs' = dur.fs /\ ip' = dur.fs.dinode /\ bytes' = dur.bytes
  /\ lock' = [i \in Inums |-> None] /\ foff' = [d \in Descs |-> 0]
  /\ op' = [p \in Procs |-> None] /\ panicked' = FALSE
  /\ UNCHANGED <<dur, calls>>

Next ==
  \/ \E p \in Procs :
       \/ \E d \in Descs : sys_write(p, d) \/ sys_read(p, d) \/ sys_open(p, d)
       \/ NextPart(p) \/ WritePart(p) \/ dirlink(p) \/ DirlinkWrites(p) \/ sys_unlink(p) \/ UnlinkWrites(p)
       \/ UnlinkMissing(p)
       \/ BmapAlloc(p) \/ BmapFails(p) \/ WriteBlock(p) \/ CopyinFails(p) \/ WriteEnds(p)
       \/ OpenLocks(p) \/ TruncFree(p) \/ TruncEnds(p)
  \/ Crash

Spec == Init /\ [][Next]_vars

-----------------------------------------------------------------------------
(* Properties                                                              *)

TypeOK ==
  /\ fs.used \subseteq Blocks
  /\ \A i \in Inums : ip[i].size \in 0..MAXFILE * BSIZE /\ ip[i].addrs \in [0..NDIRECT -> Blocks]
  /\ lock \in [Inums -> Procs \cup {None}] /\ foff \in [Descs -> 0..MAXFILE * BSIZE]
  /\ \A p \in Procs : op[p] # None => op[p].off \in 0..MAXFILE * BSIZE /\ op[p].n \in 0..MaxBytes
  /\ panicked \in BOOLEAN

\* The places that refer to block b: entries of the inodes' trees, and the
\* indirect blocks.
Holders(data, inodes, b) ==
  {h \in Inums \X (0..MAXFILE) :
     b = IF h[2] = MAXFILE THEN inodes[h[1]].addrs[NDIRECT]
         ELSE AddrIn(data, inodes[h[1]].addrs, h[2])}

\* The free map and the inodes agree: of the data blocks, those in use have one
\* owner each, and the others none.
Agree(f, inodes) ==
  \A b \in Nmeta..SIZE - 1 :
    Cardinality(Holders(f.data, inodes, b)) = IF b \in f.used THEN 1 ELSE 0

\* After a crash at any moment the free map and the inodes on disk agree: no
\* block is lost, and none belongs to two files.
DurableAgree == Agree(dur.fs, dur.fs.dinode)

\* No block has two owners, and every owner's block is marked, at any moment of
\* writes and truncations that share the free map; only the inode being truncated
\* refers to free blocks.
BlocksOwned ==
  \A b \in Nmeta..SIZE - 1 :
    LET h == Holders(fs.data, ip, b)
        settled == {x \in h : lock[x[1]] = None \/ op[lock[x[1]]].phase # "trunc"}
    IN Cardinality(settled) <= 1 /\ (settled # {} => b \in fs.used)

\* bfree never meets a free block, and a read never comes to a missing one.
NoPanic == ~panicked

\* The free map and the owners of blocks fit together at every step of concurrent
\* writes and truncations, and on disk whenever the machine stops.
BlocksConsistent == TypeOK /\ NoPanic /\ DurableAgree /\ BlocksOwned

\* A file has exactly the contents that the completed calls gave it, also after
\* partial writes, with the disk full, and after a crash.
ContentsExact ==
  \A i \in Inums : lock[i] = None => Contents(fs.data, ip[i]) = bytes[i]

\* filewrite's bound on a part keeps every operation, with the inode block that
\* iupdate writes at its end, within the log blocks that begin_op reserves for it.
OpFitsLog ==
  \A p \in Procs : op[p] # None => Cardinality(op[p].logged \cup {IBLOCK}) <= MAXOPBLOCKS
=============================================================================
