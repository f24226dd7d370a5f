------------------------------- MODULE Inode --------------------------------
(***************************************************************************)
(* The inode table, directories, and the system calls that name, open,     *)
(* link and remove files (kernel/fs.c, kernel/file.c, kernel/sysfile.c),   *)
(* with crashes and the reclaiming of orphans at boot.                     *)
(*                                                                         *)
(* The log is used through what AtomicDisk promises: cur is what system    *)
(* calls see, dur what a crash would leave, and they meet when the last    *)
(* open transaction ends.  A step is what a process does under the lock of *)
(* one inode, or under itable.lock or ftable.lock; the lock of an inode is *)
(* a variable where it is held across steps.  Contents of plain files, "." *)
(* and ".." are left out; a directory is a function from names to inodes.  *)
(***************************************************************************)
EXTENDS Integers, Sequences, FiniteSets

CONSTANTS
  Procs, Initproc,
  NINODES,   \* inodes are 1..NINODES, the root directory is 1
  Names,
  Paths,     \* what programs pass as paths: sequences of names
  NFILE,     \* slots of ftable
  Calls,     \* system calls that programs make
  MAXCALLS,  \* bound on their number between two crashes
  MAXCRASH,  \* bound on the crashes
  None

Inums   == 1..NINODES
ROOTINO == 1
Types   == {"free", "file", "dir"}
PathCalls == {"open", "creat", "mkdir", "unlink", "link", "chdir"}

ASSUME InodeAssumption ==
  /\ Initproc \in Procs /\ NINODES \in Nat \ {0} /\ NFILE \in Nat
  /\ Paths \subseteq Seq(Names) \ {<<>>} /\ Calls \subseteq PathCalls
  /\ MAXCALLS \in Nat /\ MAXCRASH \in Nat /\ None \notin Procs

VARIABLES
  cur, dur,  \* the inodes on disk: type, nlink and directory entries
  txn,       \* processes between begin_op and end_op
  ref,       \* ip->ref
  core,      \* ip->type and ip->nlink, or None while ip->valid = 0
  lock,      \* holder of ip->lock
  file,      \* ftable: reference count and inode, None when free
  fd, cwd,   \* p->ofile, of one entry, and p->cwd
  l,         \* where each process is, and its local variables
  calls, crashes,
  stale,     \* ghost: a name was added to a directory that had been removed
  raced      \* ghost: create gave up an inode that an iput had not yet let go

disk    == <<cur, dur, txn>>
table   == <<ref, core, lock>>
opened  == <<file, fd, cwd>>
ghosts  == <<calls, crashes, stale, raced>>
vars    == <<disk, table, opened, l, ghosts>>

NoEntries == [n \in Names |-> 0]
Fresh(t)  == [type |-> t, nlink |-> 0, ents |-> NoEntries]
Meta(r)   == [type |-> r.type, nlink |-> r.nlink]
Smallest(S) == CHOOSE i \in S : \A j \in S : i <= j

\* A process that is not in a system call.  dp and ip are the references that
\* the call holds, todo those that it is about to give up with iput.
Idle(c) == [call |-> c, at |-> "user", dp |-> 0, ip |-> 0, rest |-> <<>>, par |-> FALSE,
            todo |-> <<>>, put |-> "test"]

Leaving == [Idle("exit") EXCEPT !.at = "leave"]

Mkfs == [i \in Inums |-> IF i = ROOTINO THEN [Fresh("dir") EXCEPT !.nlink = 1] ELSE Fresh("free")]

\* The memory of a kernel that boots: userinit's reference to the root.
Booted(lc, rf, co, lk, fi, f, cw) ==
  /\ lc = [p \in Procs |-> Idle(IF p = Initproc THEN "reclaim" ELSE "none")]
  /\ rf = [i \in Inums |-> IF i = ROOTINO THEN 1 ELSE 0]
  /\ co = [i \in Inums |-> None] /\ lk = [i \in Inums |-> None]
  /\ fi = [s \in 1..NFILE |-> None]
  /\ f = [p \in Procs |-> 0]
  /\ cw = [p \in Procs |-> IF p = Initproc THEN ROOTINO ELSE 0]

Init ==
  /\ cur = Mkfs /\ dur = Mkfs /\ txn = {}
  /\ Booted(l, ref, core, lock, file, fd, cwd)
  /\ calls = 0 /\ crashes = 0 /\ stale = FALSE /\ raced = FALSE

-----------------------------------------------------------------------------
(* Pieces of steps                                                         *)

At(p, a) == l[p].at = a /\ l[p].todo = <<>>

\* p goes on at a with the references d and i, after an iput of each inode of S.
Goto(p, a, d, i, S) ==
  l' = [l EXCEPT ![p].at = a, ![p].dp = d, ![p].ip = i, ![p].todo = S, ![p].put = "test"]

\* The table after iget(i): a new entry is not valid.
Iget(c, i) ==
  /\ ref' = [ref EXCEPT ![i] = ref[i] + 1]
  /\ core' = IF ref[i] = 0 THEN [c EXCEPT ![i] = None] ELSE c

\* What ilock(i) finds in the entry, and the table then.
Seen(i) == IF core[i] = None THEN Meta(cur[i]) ELSE core[i]
Ilock(i) == [core EXCEPT ![i] = Seen(i)]

\* ip->nlink += k and iupdate, in the entry and on disk.
Linked(c, i, k)  == [c EXCEPT ![i].nlink = @ + k]
Iupdate(d, i, k) == [d EXCEPT ![i].type = Seen(i).type, ![i].nlink = Seen(i).nlink + k]

Name(p) == Head(l[p].rest)

\* The inode that directory d has under n, 0 if none, and the entry's changes.
dirlookup(d, n)     == cur[d].ents[n]
dirlink(c, d, n, i) == [c EXCEPT ![d].ents[n] = i]
isdirempty(d)       == cur[d].ents = NoEntries

\* The slots of ftable that filealloc would return: the first free one, if any.
filealloc == {s \in 1..NFILE : file[s] = None /\ \A r \in 1..s - 1 : file[r] # None}
filedup(s) == [file EXCEPT ![s].ref = @ + 1]

-----------------------------------------------------------------------------
(* iput, and the end of a system call                                      *)

Putting(p, s) == l[p].todo # <<>> /\ l[p].put = s

\* iunlockput: the lock goes first.
PutUnlock(p) ==
  /\ Putting(p, "test") /\ lock[Head(l[p].todo)] = p
  /\ lock' = [lock EXCEPT ![Head(l[p].todo)] = None]
  /\ UNCHANGED <<disk, ref, core, opened, l, ghosts>>

\* Mutant: iput frees an inode without links that is in use.
FreesOpen(i) == core[i] # None /\ core[i].nlink = 0
Frees(i) == ref[i] = 1 /\ core[i] # None /\ core[i].nlink = 0

\* Under itable.lock: drop the reference, or lock the inode in order to free it.
Put(p) ==
  LET i == Head(l[p].todo) IN
  /\ Putting(p, "test") /\ lock[i] # p
  /\ IF Frees(i)
     THEN /\ lock[i] = None
          /\ lock' = [lock EXCEPT ![i] = p]
          /\ l' = [l EXCEPT ![p].put = "free"]
          /\ UNCHANGED ref
     ELSE /\ ref' = [ref EXCEPT ![i] = ref[i] - 1]
          /\ l' = [l EXCEPT ![p].todo = Tail(@)]
          /\ UNCHANGED lock
  /\ UNCHANGED <<disk, core, opened, ghosts>>

\* itrunc; ip->type = 0; iupdate.
PutFree(p) ==
  LET i == Head(l[p].todo) IN
  /\ Putting(p, "free")
  /\ cur' = [cur EXCEPT ![i] = Fresh("free")]
  /\ core' = [core EXCEPT ![i] = Meta(Fresh("free"))]
  /\ l' = [l EXCEPT ![p].put = "invalid"]
  /\ UNCHANGED <<dur, txn, ref, lock, opened, ghosts>>

\* ip->valid = 0; releasesleep.
PutInvalid(p) ==
  LET i == Head(l[p].todo) IN
  /\ Putting(p, "invalid")
  /\ core' = [core EXCEPT ![i] = None]
  /\ lock' = [lock EXCEPT ![i] = None]
  /\ l' = [l EXCEPT ![p].put = "drop"]
  /\ UNCHANGED <<disk, ref, opened, ghosts>>

PutDrop(p) ==
  /\ Putting(p, "drop")
  /\ ref' = [ref EXCEPT ![Head(l[p].todo)] = @ - 1]
  /\ l' = [l EXCEPT ![p].todo = Tail(@), ![p].put = "test"]
  /\ UNCHANGED <<disk, core, lock, opened, ghosts>>

\* Mutant: end_op commits with other transactions half done.
CommitsEarly(p) == cur
\* end_op: the last one commits.
Committed(p) == IF txn = {p} THEN cur ELSE dur

EndOp(p) ==
  /\ At(p, "end")
  /\ txn' = txn \ {p}
  /\ dur' = Committed(p)
  /\ l' = [l EXCEPT ![p] =
             CASE l[p].call = "reclaim" -> Idle("reclaim")
               [] l[p].call = "exit" /\ cwd[p] = 0 -> Idle("none")
               [] l[p].call = "exit" /\ cwd[p] # 0 -> Leaving
               [] OTHER -> Idle("user")]
  /\ UNCHANGED <<cur, table, opened, ghosts>>

-----------------------------------------------------------------------------
(* Path lookup                                                             *)

\* A program makes a call with a path that starts at the root or at cwd: begin_op,
\* and the iget or idup of namex.
Start(p) ==
  /\ l[p] = Idle("user") /\ calls < MAXCALLS
  /\ \E c \in Calls, path \in Paths, i \in {ROOTINO, cwd[p]} :
       /\ l' = [l EXCEPT ![p] = [@ EXCEPT !.call = c, !.at = "walk", !.dp = i, !.rest = path,
                                          !.par = c \in {"creat", "mkdir", "unlink"}]]
       /\ Iget(core, i)
  /\ txn' = txn \cup {p}
  /\ calls' = calls + 1
  /\ UNCHANGED <<cur, dur, lock, opened, crashes, stale, raced>>

\* Where p goes when a path does not exist.
NotFound(p) == IF l[p].ip = 0 THEN "end" ELSE "linkbad"

\* One turn of namex's loop: lock the directory, look the name up, and put it.
Walk(p) ==
  LET d == l[p].dp IN
  /\ At(p, "walk") /\ lock[d] = None
  /\ \/ /\ Seen(d).type = "dir" /\ l[p].par /\ Len(l[p].rest) = 1
        /\ core' = Ilock(d)
        /\ Goto(p, "found", d, l[p].ip, <<>>)
        /\ UNCHANGED ref
     \/ /\ Seen(d).type = "dir" /\ ~(l[p].par /\ Len(l[p].rest) = 1)
        /\ dirlookup(d, Name(p)) # 0
        /\ Iget(Ilock(d), dirlookup(d, Name(p)))
        /\ l' = [l EXCEPT ![p].dp = dirlookup(d, Name(p)), ![p].todo = <<d>>,
                          ![p].rest = Tail(@),
                          ![p].at = IF Len(l[p].rest) = 1 THEN "found" ELSE "walk"]
     \/ /\ \/ Seen(d).type # "dir"
           \/ ~(l[p].par /\ Len(l[p].rest) = 1) /\ dirlookup(d, Name(p)) = 0
        /\ core' = Ilock(d)
        /\ Goto(p, NotFound(p), 0, l[p].ip, <<d>>)
        /\ UNCHANGED ref
  /\ UNCHANGED <<disk, lock, opened, ghosts>>

-----------------------------------------------------------------------------
(* open and create                                                         *)

\* The end of sys_open, with i locked: filealloc and fdalloc, or give up.
Opens(p, i) ==
  \/ \E s \in filealloc :
       /\ fd[p] = 0
       /\ file' = [file EXCEPT ![s] = [ref |-> 1, ip |-> i]]
       /\ fd' = [fd EXCEPT ![p] = s]
       /\ Goto(p, "end", 0, 0, <<>>)
  \/ /\ fd[p] # 0 \/ filealloc = {}
     /\ Goto(p, "end", 0, 0, <<i>>)
     /\ UNCHANGED <<file, fd>>

\* sys_open without O_CREATE; a directory can only be opened for reading.
OpenFound(p) ==
  LET i == l[p].dp IN
  /\ At(p, "found") /\ l[p].call = "open" /\ lock[i] = None
  /\ core' = Ilock(i)
  /\ \/ Opens(p, i)
     \/ Seen(i).type = "dir" /\ Goto(p, "end", 0, 0, <<i>>) /\ UNCHANGED <<file, fd>>
  /\ UNCHANGED <<disk, ref, lock, cwd, ghosts>>

\* create: the name exists, or the directory stays locked.
CreateLook(p) ==
  LET d == l[p].dp
      i == dirlookup(d, Name(p))
  IN
  /\ At(p, "found") /\ l[p].call \in {"creat", "mkdir"} /\ lock[d] = None
  /\ \/ /\ i # 0
        /\ Iget(Ilock(d), i)
        /\ Goto(p, "exists", 0, i, <<d>>)
        /\ UNCHANGED lock
     \/ /\ i = 0
        /\ core' = Ilock(d)
        /\ lock' = [lock EXCEPT ![d] = p]
        /\ Goto(p, "alloc", d, 0, <<>>)
        /\ UNCHANGED ref
  /\ UNCHANGED <<disk, opened, ghosts>>

CreateExists(p) ==
  LET i == l[p].ip IN
  /\ At(p, "exists") /\ lock[i] = None
  /\ core' = Ilock(i)
  /\ \/ l[p].call = "creat" /\ Seen(i).type = "file" /\ Opens(p, i)
     \/ /\ l[p].call = "mkdir" \/ Seen(i).type = "dir"
        /\ Goto(p, "end", 0, 0, <<i>>)
        /\ UNCHANGED <<file, fd>>
  /\ UNCHANGED <<disk, ref, lock, cwd, ghosts>>

\* ialloc: the first inode whose type is 0 on disk.
CreateAlloc(p) ==
  LET avail == {i \in Inums : cur[i].type = "free"} IN
  /\ At(p, "alloc")
  /\ \/ /\ avail = {}
        /\ Goto(p, "end", 0, 0, <<l[p].dp>>)
        /\ UNCHANGED <<cur, ref, core>>
     \/ \E i \in avail :
          /\ \A j \in avail : i <= j
          /\ cur' = [cur EXCEPT ![i] = Fresh(IF l[p].call = "mkdir" THEN "dir" ELSE "file")]
          /\ Iget(core, i)
          /\ Goto(p, "init", l[p].dp, i, <<>>)
  /\ UNCHANGED <<dur, txn, lock, opened, ghosts>>

\* With both inodes locked: nlink = 1, and dirlink, which fails on a full disk.
CreateInit(p) ==
  LET d == l[p].dp
      i == l[p].ip
      up == IF l[p].call = "mkdir" THEN 1 ELSE 0
  IN
  /\ At(p, "init") /\ lock[i] = None
  /\ \/ /\ cur' = dirlink(Iupdate(Iupdate(cur, i, 1 - Seen(i).nlink), d, up), d, Name(p), i)
        /\ core' = [Linked(Ilock(i), d, up) EXCEPT ![i].nlink = 1]
        /\ lock' = [lock EXCEPT ![i] = p, ![d] = None]
        /\ stale' = (stale \/ Seen(d).nlink = 0)
        /\ Goto(p, "created", 0, i, <<d>>)
        /\ UNCHANGED raced
     \/ /\ cur' = Iupdate(cur, i, -Seen(i).nlink)
        /\ core' = [Ilock(i) EXCEPT ![i].nlink = 0]
        /\ Goto(p, "end", 0, 0, <<i, d>>)
        /\ raced' = (raced \/ ref[i] > 1)
        /\ UNCHANGED <<lock, stale>>
  /\ UNCHANGED <<dur, txn, ref, opened, calls, crashes>>

\* Mutant: the inode that create returns stays locked.
CreatedLocked(p) ==
  LET i == l[p].ip IN
  /\ At(p, "created")
  /\ \/ l[p].call = "creat" /\ Opens(p, i)
     \/ l[p].call = "mkdir" /\ Goto(p, "end", 0, 0, <<i>>) /\ UNCHANGED <<file, fd>>
  /\ UNCHANGED <<disk, table, cwd, ghosts>>

\* create returns its locked inode to sys_open or sys_mkdir.
Created(p) ==
  LET i == l[p].ip IN
  /\ At(p, "created")
  /\ lock' = [lock EXCEPT ![i] = None]
  /\ \/ l[p].call = "creat" /\ Opens(p, i)
     \/ l[p].call = "mkdir" /\ Goto(p, "end", 0, 0, <<i>>) /\ UNCHANGED <<file, fd>>
  /\ UNCHANGED <<disk, ref, core, cwd, ghosts>>

-----------------------------------------------------------------------------
(* unlink and link                                                         *)

UnlinkLook(p) ==
  LET d == l[p].dp
      i == dirlookup(d, Name(p))
  IN
  /\ At(p, "found") /\ l[p].call = "unlink" /\ lock[d] = None
  /\ \/ /\ i = 0
        /\ core' = Ilock(d)
        /\ Goto(p, "end", 0, 0, <<d>>)
        /\ UNCHANGED <<ref, lock>>
     \/ /\ i # 0
        /\ Iget(Ilock(d), i)
        /\ lock' = [lock EXCEPT ![d] = p]
        /\ Goto(p, "child", d, i, <<>>)
  /\ UNCHANGED <<disk, opened, ghosts>>

\* Clear the entry, with both inodes locked, and put the directory.
UnlinkChild(p) ==
  LET d == l[p].dp
      i == l[p].ip
      down == IF Seen(i).type = "dir" THEN -1 ELSE 0
  IN
  /\ At(p, "child") /\ lock[i] = None
  /\ \/ /\ Seen(i).type = "dir" /\ ~isdirempty(i)
        /\ core' = Ilock(i)
        /\ Goto(p, "end", 0, 0, <<i, d>>)
        /\ UNCHANGED <<cur, lock>>
     \/ /\ Seen(i).type = "dir" => isdirempty(i)
        /\ cur' = dirlink(Iupdate(cur, d, down), d, Name(p), 0)
        /\ core' = Linked(Ilock(i), d, down)
        /\ lock' = [lock EXCEPT ![i] = p, ![d] = None]
        /\ Goto(p, "unlinked", 0, i, <<d>>)
  /\ UNCHANGED <<dur, txn, ref, opened, ghosts>>

\* Mutant: iunlock in place of iunlockput.
UnlinkedKept(p) ==
  LET i == l[p].ip IN
  /\ At(p, "unlinked")
  /\ cur' = Iupdate(cur, i, -1)
  /\ core' = Linked(core, i, -1)
  /\ lock' = [lock EXCEPT ![i] = None]
  /\ Goto(p, "end", 0, 0, <<>>)
  /\ UNCHANGED <<dur, txn, ref, opened, ghosts>>

Unlinked(p) ==
  LET i == l[p].ip IN
  /\ At(p, "unlinked")
  /\ cur' = Iupdate(cur, i, -1)
  /\ core' = Linked(core, i, -1)
  /\ lock' = [lock EXCEPT ![i] = None]
  /\ Goto(p, "end", 0, 0, <<i>>)
  /\ UNCHANGED <<dur, txn, ref, opened, ghosts>>

\* sys_link counts the new link before it looks for the new name's directory.
LinkFound(p) ==
  LET i == l[p].dp IN
  /\ At(p, "found") /\ l[p].call = "link" /\ l[p].ip = 0 /\ lock[i] = None
  /\ \/ /\ Seen(i).type = "dir"
        /\ core' = Ilock(i)
        /\ Goto(p, "end", 0, 0, <<i>>)
        /\ UNCHANGED <<cur, ref>>
     \/ /\ Seen(i).type # "dir"
        /\ cur' = Iupdate(cur, i, 1)
        /\ \E path \in Paths, d \in {ROOTINO, cwd[p]} :
             /\ Iget(Linked(Ilock(i), i, 1), d)
             /\ l' = [l EXCEPT ![p] = [@ EXCEPT !.at = "walk", !.dp = d, !.ip = i, !.rest = path, !.par = TRUE]]
  /\ UNCHANGED <<dur, txn, lock, opened, ghosts>>

LinkEnter(p) ==
  LET d == l[p].dp IN
  /\ At(p, "found") /\ l[p].call = "link" /\ l[p].ip # 0 /\ lock[d] = None
  /\ core' = Ilock(d)
  /\ \/ /\ dirlookup(d, Name(p)) = 0
        /\ cur' = dirlink(cur, d, Name(p), l[p].ip)
        /\ stale' = (stale \/ Seen(d).nlink = 0)
        /\ Goto(p, "end", 0, 0, <<d, l[p].ip>>)
     \/ /\ Goto(p, "linkbad", 0, l[p].ip, <<d>>)
        /\ UNCHANGED <<cur, stale>>
  /\ UNCHANGED <<dur, txn, ref, lock, opened, calls, crashes, raced>>

LinkBad(p) ==
  LET i == l[p].ip IN
  /\ At(p, "linkbad") /\ lock[i] = None
  /\ cur' = Iupdate(cur, i, -1)
  /\ core' = Linked(Ilock(i), i, -1)
  /\ Goto(p, "end", 0, 0, <<i>>)
  /\ UNCHANGED <<dur, txn, ref, lock, opened, ghosts>>

-----------------------------------------------------------------------------
(* chdir, close, fork, exit                                                *)

ChdirFound(p) ==
  LET i == l[p].dp IN
  /\ At(p, "found") /\ l[p].call = "chdir" /\ lock[i] = None
  /\ core' = Ilock(i)
  /\ \/ Seen(i).type # "dir" /\ Goto(p, "end", 0, 0, <<i>>) /\ UNCHANGED cwd
     \/ /\ Seen(i).type = "dir"
        /\ cwd' = [cwd EXCEPT ![p] = i]
        /\ Goto(p, "end", 0, 0, <<cwd[p]>>)
  /\ UNCHANGED <<disk, ref, lock, file, fd, ghosts>>

StillOpen(s) == file[s].ref > 1

\* fileclose, for close and for kexit: the last reference to a file has its inode
\* put, in a transaction that begins after ftable.lock is released.
Close(p, c) ==
  LET s == fd[p] IN
  /\ l[p] = Idle("user") /\ s # 0
  /\ fd' = [fd EXCEPT ![p] = 0]
  /\ IF StillOpen(s)
     THEN /\ file' = [file EXCEPT ![s].ref = @ - 1]
          /\ l' = [l EXCEPT ![p] = IF c = "exit" THEN Leaving ELSE Idle("user")]
     ELSE /\ file' = [file EXCEPT ![s] = None]
          /\ l' = [l EXCEPT ![p].call = c, ![p].at = "closing", ![p].ip = file[s].ip]
  /\ UNCHANGED <<disk, table, cwd, ghosts>>

CloseBegin(p) ==
  /\ At(p, "closing")
  /\ txn' = txn \cup {p}
  /\ Goto(p, "end", 0, 0, <<l[p].ip>>)
  /\ UNCHANGED <<cur, dur, table, opened, ghosts>>

\* kfork: filedup and idup.
Fork(p, c) ==
  /\ l[p] = Idle("user") /\ l[c] = Idle("none")
  /\ l' = [l EXCEPT ![c] = Idle("user")]
  /\ file' = IF fd[p] = 0 THEN file ELSE filedup(fd[p])
  /\ fd' = [fd EXCEPT ![c] = fd[p]]
  /\ cwd' = [cwd EXCEPT ![c] = cwd[p]]
  /\ ref' = [ref EXCEPT ![cwd[p]] = @ + 1]
  /\ UNCHANGED <<disk, core, lock, ghosts>>

\* kexit closes the files and then gives up the current directory.
Exit(p) ==
  /\ p # Initproc
  /\ \/ Close(p, "exit")
     \/ /\ l[p] = Idle("user") /\ fd[p] = 0
        /\ l' = [l EXCEPT ![p] = Leaving]
        /\ UNCHANGED <<disk, table, opened, ghosts>>

ExitLeave(p) ==
  /\ At(p, "leave")
  /\ txn' = txn \cup {p}
  /\ cwd' = [cwd EXCEPT ![p] = 0]
  /\ Goto(p, "end", 0, 0, <<cwd[p]>>)
  /\ UNCHANGED <<cur, dur, table, file, fd, ghosts>>

-----------------------------------------------------------------------------
(* Crash, and ireclaim at the next boot                                    *)

Crash ==
  /\ crashes < MAXCRASH
  /\ cur' = dur /\ txn' = {}
  /\ Booted(l', ref', core', lock', file', fd', cwd')
  /\ calls' = 0 /\ crashes' = crashes + 1 /\ raced' = FALSE
  /\ UNCHANGED <<dur, stale>>

Orphans == {i \in Inums : cur[i].type # "free" /\ cur[i].nlink = 0}

\* The next orphan: iget, begin_op, ilock, iunlock and then iput.
Reclaim(p) ==
  /\ l[p] = Idle("reclaim")
  /\ \/ /\ Orphans = {}
        /\ l' = [l EXCEPT ![p] = Idle("user")]
        /\ UNCHANGED <<txn, ref, core>>
     \/ \E i \in Orphans :
          /\ \A j \in Orphans : i <= j
          /\ txn' = txn \cup {p}
          /\ ref' = [ref EXCEPT ![i] = @ + 1]
          /\ core' = Ilock(i)
          /\ Goto(p, "end", 0, 0, <<i>>)
  /\ UNCHANGED <<cur, dur, lock, opened, ghosts>>

-----------------------------------------------------------------------------
Puts(p)  == PutUnlock(p) \/ Put(p) \/ PutFree(p) \/ PutInvalid(p) \/ PutDrop(p)
Steps(p) ==
  \/ Puts(p) \/ EndOp(p) \/ Walk(p) \/ OpenFound(p)
  \/ CreateLook(p) \/ CreateExists(p) \/ CreateAlloc(p) \/ CreateInit(p) \/ Created(p)
  \/ UnlinkLook(p) \/ UnlinkChild(p) \/ Unlinked(p)
  \/ LinkFound(p) \/ LinkEnter(p) \/ LinkBad(p)
  \/ ChdirFound(p) \/ CloseBegin(p) \/ ExitLeave(p) \/ Reclaim(p)

Next ==
  \/ \E p \in Procs : Steps(p) \/ Start(p) \/ Close(p, "close") \/ Exit(p)
                    \/ (\E c \in Procs : Fork(p, c))
  \/ Crash

Spec == Init /\ [][Next]_vars

-----------------------------------------------------------------------------
(* Properties                                                              *)

Inode == [type : Types, nlink : Int, ents : [Names -> Inums \cup {0}]]

TypeOK ==
  /\ cur \in [Inums -> Inode] /\ dur \in [Inums -> Inode] /\ txn \subseteq Procs
  /\ ref \in [Inums -> Nat] /\ lock \in [Inums -> Procs \cup {None}]
  /\ \A i \in Inums : core[i] = None \/ core[i] \in [type : Types, nlink : Int]
  /\ \A s \in 1..NFILE : file[s] = None \/ file[s] \in [ref : Nat \ {0}, ip : Inums]
  /\ fd \in [Procs -> 0..NFILE] /\ cwd \in [Procs -> Inums \cup {0}]

\* References to i held by open files, current directories and system calls.
Holders(i) ==
  Cardinality({s \in 1..NFILE : file[s] # None /\ file[s].ip = i})
  + Cardinality({p \in Procs : cwd[p] = i})
  + Cardinality({p \in Procs : l[p].dp = i}) + Cardinality({p \in Procs : l[p].ip = i})
  + Cardinality({x \in Procs \X {1, 2} : x[2] <= Len(l[x[1]].todo) /\ l[x[1]].todo[x[2]] = i})

\* ip->ref counts exactly the pointers to the entry: every iget and idup is
\* matched by one iput on every path through the system calls.  f->ref likewise.
RefsExact ==
  /\ TypeOK
  /\ \A i \in Inums : ref[i] = Holders(i)
  /\ \A s \in 1..NFILE : file[s] # None => file[s].ref = Cardinality({p \in Procs : fd[p] = s})

\* The inode that p's next step locks.
Wants(p) ==
  CASE l[p].todo # <<>> -> 0
    [] l[p].at \in {"walk", "found"} -> l[p].dp
    [] l[p].at \in {"exists", "init", "child", "linkbad"} -> l[p].ip
    [] OTHER -> 0

\* No panic: an inode that is about to be locked is allocated, one that is about
\* to be unlinked has a link, names are looked up in directories, and iput finds
\* the inode that it frees unlocked.
NoPanic ==
  \A p \in Procs :
    LET i == Wants(p) IN
    /\ i # 0 /\ lock[i] = None => Seen(i).type # "free"
    /\ l[p].at = "child" /\ lock[i] = None => Seen(i).nlink >= 1
    /\ At(p, "found") /\ l[p].par => Seen(i).type = "dir"
    /\ Putting(p, "test") /\ ref[Head(l[p].todo)] = 1 => lock[Head(l[p].todo)] \in {None, p}

\* An entry that is valid and not locked agrees with the disk.
EntryCurrent ==
  \A i \in Inums : ref[i] > 0 /\ core[i] # None /\ lock[i] = None => core[i] = Meta(cur[i])

\* An open file, or a current directory, is never freed under its user, and an
\* entry of the table that is valid and not locked agrees with the disk.
NoFreedInUse ==
  /\ EntryCurrent
  /\ \A s \in 1..NFILE : file[s] # None => cur[file[s].ip].type # "free"
  /\ \A p \in Procs : cwd[p] # 0 => cur[cwd[p]].type # "free"

\* Names that lead to i, and the entries ".." that lead to it.
Links(d, i) ==
  Cardinality({x \in Inums \X Names : d[x[1]].type = "dir" /\ d[x[1]].ents[x[2]] = i})
  + Cardinality({n \in Names : d[i].type = "dir" /\ d[i].ents[n] # 0
                               /\ d[d[i].ents[n]].type = "dir"})
  + (IF i = ROOTINO THEN 1 ELSE 0)

\* On disk, whenever the machine stops, nlink is the number of names of an
\* inode, and every name leads to an inode in use.
LinksExact(d) ==
  \A i \in Inums :
    /\ d[i].type # "free" => d[i].nlink = Links(d, i)
    /\ d[i].type = "free" => Links(d, i) = 0

DurableLinksExact == stale \/ LinksExact(dur)

\* An inode without names and without users is free: the last iput frees it, or
\* ireclaim after a crash.
FreedAtLastPut ==
  txn = {} /\ l[Initproc].call # "reclaim" =>
    \A i \in Inums : ref[i] = 0 /\ cur[i].type # "free" => cur[i].nlink > 0

\* So it is, but for the inode that create gives up while the iput that freed
\* it before still counts as a reference; ireclaim finds that one too.
NoOrphans == raced \/ FreedAtLastPut

\* After a crash and recovery the names, the link counts and the inodes in use fit
\* together, and so they do when all calls have ended.
TreeConsistent == DurableLinksExact /\ NoOrphans

\* While system calls are in progress one of them can take its next step, and none
\* panics: the locks of inodes are taken in an order without cycles, and no call
\* ends with one.
SomeCallProceeds ==
  /\ NoPanic
  /\ (\E p \in Procs : l[p].at # "user") => \E p \in Procs : l[p].at # "user" /\ ENABLED Steps(p)
=============================================================================
