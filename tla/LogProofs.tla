----------------------------- MODULE LogProofs ------------------------------
(***************************************************************************)
(* Proofs about Log for any number of processes and blocks and any log     *)
(* size: the reservation of begin_op is enough, and a crash at any point   *)
(* leaves every system call done or undone (the refinement of AtomicDisk). *)
(***************************************************************************)
EXTENDS Log, FiniteSetTheorems, TLAPS

-----------------------------------------------------------------------------
(* The inductive invariants.                                               *)

CommitLabels == {"write_log", "write_head", "install", "clear", "done"}

\* log.outstanding counts the operations, and at most one process commits, with
\* no operation outstanding.
PhaseInv ==
  /\ boot # "done" => ~committing /\ ~panicked /\ \A p \in Procs : pc[p] = "idle"
  /\ \A p, q \in Procs : pc[p] \in CommitLabels /\ pc[q] \in CommitLabels => p = q
  /\ \A p \in Procs : pc[p] \in CommitLabels => committing
  /\ committing => Open = {}
  /\ outstanding = Cardinality(Open)

\* The loops of write_log and install_trans stay inside the log.
TailInv ==
  /\ Len(dhead) <= LOGBLOCKS
  /\ \A p \in Procs : pc[p] \in {"write_log", "install"} => tail < Len(lh)
  /\ \A p \in Procs : pc[p] = "write_head" => Len(lh) > 0
  /\ boot = "install" => tail < Len(lh)
  /\ boot = "read_head" => tail = 0

\* One token for each block that an operation may still add to the log.
TokensOf(O, w) == {t \in O \X (1..MAXOPBLOCKS) : t[2] > Cardinality(w[t[1]])}
Tokens == TokensOf(Open, wrote)

\* What is in the log and what may still come fits.
SpaceInv ==
  /\ Len(lh) + Cardinality(Tokens) <= LOGBLOCKS
  /\ \A p \in Procs : IsFiniteSet(wrote[p]) /\ Cardinality(wrote[p]) <= OPBLOCKS
  /\ \A p \in Open : wrote[p] \subseteq Logged

BaseInv == TypeOK /\ PhaseInv /\ TailInv /\ SpaceInv

\* Every block is logged once; a buffer that differs from its home block is
\* pinned; and at each point of the commit and of recovery what has been copied
\* is where the next step expects it.
DataInv ==
  /\ \A i, j \in 1..Len(lh) : lh[i] = lh[j] => i = j
  /\ \A i, j \in 1..Len(dhead) : dhead[i] = dhead[j] => i = j
  /\ ~panicked => \A b \in Blocks : b \notin pinned => cache[b] \in {Absent, disk[b]}
  /\ \A b \in pinned : cache[b] # Absent
  /\ pinned \subseteq Logged
  /\ boot = "done" /\ (\A p \in Procs : pc[p] \notin {"install", "clear", "done"}) =>
       Logged \subseteq pinned
  /\ boot = "done" /\ (\A p \in Procs : pc[p] \notin {"install", "clear"}) => dhead = <<>>
  /\ boot = "done" /\ ~committing /\ Open = {} => lh = <<>>

CommitInv ==
  \A p \in Procs :
    /\ pc[p] = "write_log" => \A j \in 1..tail : dlog[j] = cache[lh[j]]
    /\ pc[p] = "write_head" => \A j \in 1..Len(lh) : dlog[j] = cache[lh[j]]
    /\ pc[p] = "install" =>
         /\ dhead = lh
         /\ \A j \in 1..Len(lh) : IF j > tail
              THEN lh[j] \in pinned /\ cache[lh[j]] = dlog[j]
              ELSE lh[j] \notin pinned /\ disk[lh[j]] = dlog[j]
    /\ pc[p] = "clear" =>
         dhead = lh /\ pinned = {} /\ \A j \in 1..Len(lh) : disk[lh[j]] = dlog[j]
    /\ pc[p] = "done" => lh = <<>>

RecoverInv ==
  /\ boot # "done" => pinned = {}
  /\ boot = "read_head" => lh = <<>>
  /\ boot = "install" => lh = dhead /\ \A j \in 1..tail : disk[lh[j]] = dlog[j]
  /\ boot = "clear" => lh = dhead /\ \A j \in 1..Len(lh) : disk[lh[j]] = dlog[j]

CopyInv == DataInv /\ CommitInv /\ RecoverInv

-----------------------------------------------------------------------------
(* Counting tokens.                                                        *)

\* There are at most MAXOPBLOCKS tokens per operation.
LEMMA TokensBound ==
  ASSUME NEW O, IsFiniteSet(O), NEW w
  PROVE  /\ IsFiniteSet(TokensOf(O, w)) /\ Cardinality(TokensOf(O, w)) \in Nat
         /\ Cardinality(TokensOf(O, w)) <= Cardinality(O) * MAXOPBLOCKS
<1>1. MAXOPBLOCKS \in Nat \ {0}
  BY LogAssumption
<1>2. IsFiniteSet(1..MAXOPBLOCKS) /\ Cardinality(1..MAXOPBLOCKS) = MAXOPBLOCKS
  BY <1>1, FS_Interval
<1>3. /\ IsFiniteSet(O \X (1..MAXOPBLOCKS))
      /\ Cardinality(O \X (1..MAXOPBLOCKS)) = Cardinality(O) * MAXOPBLOCKS
  BY Zenon, <1>2, FS_Product
<1>4. TokensOf(O, w) \in SUBSET (O \X (1..MAXOPBLOCKS))
  BY DEF TokensOf
<1>5. /\ IsFiniteSet(TokensOf(O, w))
      /\ Cardinality(TokensOf(O, w)) <= Cardinality(O \X (1..MAXOPBLOCKS))
  BY <1>3, <1>4, FS_Subset
<1>6. QED
  BY <1>3, <1>5, FS_CardinalityType

\* An operation that ends takes its tokens along.
LEMMA TokensShrink ==
  ASSUME NEW O, IsFiniteSet(O), NEW Q \in SUBSET O, NEW w
  PROVE  Cardinality(TokensOf(Q, w)) <= Cardinality(TokensOf(O, w))
<1>1. TokensOf(Q, w) \in SUBSET TokensOf(O, w)
  BY DEF TokensOf
<1>2. QED
  BY <1>1, TokensBound, FS_Subset

\* The first write of a block by an operation uses up one of its tokens.
LEMMA TokensWrite ==
  ASSUME NEW O, IsFiniteSet(O), NEW w, NEW v, NEW p \in O, NEW b, b \notin w[p],
         IsFiniteSet(w[p]), Cardinality(w[p]) < MAXOPBLOCKS,
         v[p] = w[p] \cup {b}, \A q \in O : q # p => v[q] = w[q]
  PROVE  Cardinality(TokensOf(O, v)) = Cardinality(TokensOf(O, w)) - 1
<1> DEFINE t == <<p, Cardinality(w[p]) + 1>>
<1>1. MAXOPBLOCKS \in Nat /\ Cardinality(w[p]) \in Nat
  BY LogAssumption, FS_CardinalityType
<1>2. Cardinality(w[p] \cup {b}) = Cardinality(w[p]) + 1
  BY Zenon, FS_AddElement
<1>4. t \in TokensOf(O, w)
  BY <1>1 DEF TokensOf
<1>5. TokensOf(O, v) = TokensOf(O, w) \ {t}
  <2>1. ASSUME NEW q \in O, NEW k \in 1..MAXOPBLOCKS
        PROVE  k > Cardinality(v[q]) <=> k > Cardinality(w[q]) /\ <<q, k>> # t
    <3>1. CASE q = p
      <4>1. Cardinality(v[q]) = Cardinality(w[p]) + 1 /\ Cardinality(w[q]) = Cardinality(w[p])
        BY <1>2, <3>1
      <4>2. <<q, k>> # t <=> k # Cardinality(w[p]) + 1
        BY <3>1
      <4>3. k \in Nat
        BY <1>1
      <4>4. QED
        BY <1>1, <4>1, <4>2, <4>3
    <3>2. CASE q # p
      BY <3>2
    <3>3. QED
      BY <3>1, <3>2
  <2>2. QED
    BY <2>1 DEF TokensOf
<1>6. IsFiniteSet(TokensOf(O, w))
  BY TokensBound
<1>7. Cardinality(TokensOf(O, w) \ {t}) = Cardinality(TokensOf(O, w)) - 1
  <2> HIDE DEF t
  <2>1. QED
    BY Zenon, <1>4, <1>6, FS_RemoveElement
<1>8. QED
  BY <1>5, <1>7

\* Without operations there are no tokens.
LEMMA NoTokens == \A w : Cardinality(TokensOf({}, w)) = 0
<1>1. \A w : TokensOf({}, w) = {}
  BY DEF TokensOf
<1>2. QED
  BY <1>1, FS_EmptySet

\* What Append adds to the blocks of a header.
LEMMA AppendRange ==
  ASSUME NEW s \in Seq(Blocks), NEW b \in Blocks
  PROVE  /\ Append(s, b) \in Seq(Blocks) /\ Len(Append(s, b)) = Len(s) + 1
         /\ {Append(s, b)[j] : j \in 1..Len(Append(s, b))} = {s[j] : j \in 1..Len(s)} \cup {b}
<1>1. Len(Append(s, b)) = Len(s) + 1 /\ Append(s, b) \in Seq(Blocks) /\ Len(s) \in Nat
  OBVIOUS
<1>2. Append(s, b)[Len(s) + 1] = b /\ \A j \in 1..Len(s) : Append(s, b)[j] = s[j]
  OBVIOUS
<1>3. QED
  BY <1>1, <1>2

-----------------------------------------------------------------------------
(* Types, phases and space.                                                *)

\* The types, the phases of the commit and the space in the log: see BaseInv.
THEOREM Base == Spec => []BaseInv
<1> USE LogAssumption
<1>o. \A f : IsFiniteSet({p \in Procs : f[p] = "op"})
  BY FS_Subset
<1>1. Init => BaseInv
  <2> SUFFICES ASSUME Init PROVE BaseInv
    OBVIOUS
  <2>1. Open = {}
    BY DEF Init, Open
  <2>2. TypeOK
    <3>1. dlog \in [1..LOGBLOCKS -> Vals] /\ tail \in 0..LOGBLOCKS
      BY DEF Init
    <3>2. pc \in [Procs -> Labels] /\ wrote \in [Procs -> SUBSET Blocks]
      BY DEF Init, Labels
    <3>3. dhead \in Seq(Blocks) /\ lh \in Seq(Blocks)
      BY DEF Init
    <3>4. QED
      BY Zenon, <3>1, <3>2, <3>3 DEF Init, TypeOK
  <2>3. PhaseInv
    BY <2>1, FS_EmptySet DEF Init, PhaseInv, CommitLabels
  <2>4. TailInv
    BY DEF Init, TailInv
  <2>5. SpaceInv
    BY <2>1, NoTokens, FS_EmptySet DEF Init, SpaceInv, Tokens
  <2>6. QED
    BY <2>2, <2>3, <2>4, <2>5 DEF BaseInv
<1>2. BaseInv /\ [Next]_vars => BaseInv'
  <2> SUFFICES ASSUME TypeOK, PhaseInv, TailInv, SpaceInv, [Next]_vars PROVE BaseInv'
    BY DEF BaseInv
  <2>o. IsFiniteSet(Open)
    BY <1>o DEF Open
  <2>l. Len(lh) \in Nat /\ Len(lh) <= LOGBLOCKS
    BY <2>o, TokensBound DEF TypeOK, SpaceInv, Tokens
  <2> USE DEF TypeOK, durable
  <2>1. ASSUME NEW p \in Procs, BeginOp(p) PROVE BaseInv'
    <3>1. /\ Open' = Open \cup {p} /\ p \notin Open /\ lh' = lh
          /\ wrote' = [wrote EXCEPT ![p] = {}]
      BY <2>1 DEF BeginOp, Goto, Open
    <3>3. Cardinality(Open') = outstanding + 1 /\ IsFiniteSet(Open')
      BY <3>1, <2>o, FS_AddElement DEF PhaseInv
    <3>4. /\ Cardinality(Tokens') \in Nat
          /\ Cardinality(Tokens') <= (outstanding + 1) * MAXOPBLOCKS
      BY Zenon, <3>3, TokensBound DEF Tokens
    <3>5. Len(lh) + (outstanding + 1) * MAXOPBLOCKS <= LOGBLOCKS
      BY <2>1 DEF BeginOp, CanBegin
    <3>6. Len(lh') + Cardinality(Tokens') <= LOGBLOCKS
      <4>1. (outstanding + 1) * MAXOPBLOCKS \in Nat
        OBVIOUS
      <4>2. QED
        BY <3>1, <3>4, <3>5, <4>1
    <3>7. wrote'[p] = {} /\ \A q \in Procs : q # p => wrote'[q] = wrote[q]
      BY <3>1
    <3>2. SpaceInv'
      BY <3>1, <3>6, <3>7, FS_EmptySet DEF SpaceInv, Logged
    <3>8. PhaseInv'
      BY <2>1, <3>1, <3>3, Zenon DEF BeginOp, PhaseInv, Up, Goto, CommitLabels, CanBegin
    <3>10. TailInv'
      BY <2>1, <2>l DEF BeginOp, TailInv, PhaseInv, Up, Goto, WakeAll, CommitLabels, Install, Logged
    <3>11. TypeOK'
      BY <2>1, <2>l DEF BeginOp, TailInv, Up, Goto, WakeAll, Install, Bread, Labels, Logged
    <3>12. QED
      BY <3>2, <3>8, <3>10, <3>11 DEF BaseInv
  <2>2. ASSUME NEW p \in Procs, BeginSleep(p) PROVE BaseInv'
    <3>1. Open' = Open /\ UNCHANGED <<wrote, lh>>
      BY <2>2 DEF BeginSleep, Goto, WakeAll, Open, Install
    <3>2. SpaceInv'
      BY <3>1 DEF SpaceInv, Tokens, Logged
    <3>8. PhaseInv'
      BY <2>2, <3>1 DEF BeginSleep, PhaseInv, Up, Goto, WakeAll, CommitLabels, Install
    <3>10. TailInv'
      BY <2>2, <2>l DEF BeginSleep, TailInv, PhaseInv, Up, Goto, WakeAll, CommitLabels, Install, Logged
    <3>11. TypeOK'
      BY <2>2, <2>l DEF BeginSleep, TailInv, Up, Goto, WakeAll, Install, Bread, Labels, Logged
    <3>12. QED
      BY <3>2, <3>8, <3>10, <3>11 DEF BaseInv
  <2>3. ASSUME NEW p \in Procs, Kill(p) PROVE BaseInv'
    <3>1. Open' = Open /\ UNCHANGED <<wrote, lh>>
      BY <2>3 DEF Kill, Goto, WakeAll, Open, Install
    <3>2. SpaceInv'
      BY <3>1 DEF SpaceInv, Tokens, Logged
    <3>8. PhaseInv'
      BY <2>3, <3>1 DEF Kill, PhaseInv, Up, Goto, WakeAll, CommitLabels, Install
    <3>10. TailInv'
      BY <2>3, <2>l DEF Kill, TailInv, PhaseInv, Up, Goto, WakeAll, CommitLabels, Install, Logged
    <3>11. TypeOK'
      BY <2>3, <2>l DEF Kill, TailInv, Up, Goto, WakeAll, Install, Bread, Labels, Logged
    <3>12. QED
      BY <3>2, <3>8, <3>10, <3>11 DEF BaseInv
  <2>4. ASSUME NEW p \in Procs, NEW b \in Blocks, NEW v \in Vals, LogWrite(p, b, v) PROVE BaseInv'
    <3>1. Open' = Open /\ p \in Open
      BY <2>4 DEF LogWrite, Open
    <3>v. wrote' = [wrote EXCEPT ![p] = wrote[p] \cup {b}]
      BY <2>4 DEF LogWrite
    <3>w. wrote'[p] = wrote[p] \cup {b} /\ \A q \in Procs : q # p => wrote'[q] = wrote[q]
      BY <3>v
    <3>l. Logged \subseteq Logged' /\ (Len(lh) < LOGBLOCKS => b \in Logged')
          /\ Len(lh') \in Nat /\ (b \in Logged => lh' = lh) /\ Len(lh') <= Len(lh) + 1
          /\ (Len(lh) >= LOGBLOCKS => lh' = lh)
      <4>1. lh' = lh \/ lh' = Append(lh, b)
        BY <2>4 DEF LogWrite
      <4>2. /\ Len(lh) < LOGBLOCKS /\ b \notin Logged => lh' = Append(lh, b)
            /\ Len(lh) >= LOGBLOCKS \/ b \in Logged => lh' = lh
        BY <2>4 DEF LogWrite
      <4>3. lh' = Append(lh, b) => Logged' = Logged \cup {b} /\ Len(lh') = Len(lh) + 1
        <5>1. lh \in Seq(Blocks)
          BY DEF BaseInv, TypeOK
        <5>2. /\ Len(Append(lh, b)) = Len(lh) + 1
              /\ {Append(lh, b)[j] : j \in 1..Len(Append(lh, b))} = Logged \cup {b}
          BY <5>1, AppendRange, Zenon DEF Logged
        <5>3. lh' = Append(lh, b) =>
                Logged' = {Append(lh, b)[j] : j \in 1..Len(Append(lh, b))}
          BY Zenon DEF Logged
        <5>4. QED
          BY Zenon, <5>2, <5>3
      <4>4. lh' = lh => Logged' = Logged
        BY DEF Logged
      <4>5. Len(lh) \in Nat
        BY DEF BaseInv, TypeOK
      <4>6. QED
        BY <4>1, <4>2, <4>3, <4>4, <4>5
    <3>t. Cardinality(Tokens) \in Nat
      BY <2>o, TokensBound DEF Tokens
    <3>c. IsFiniteSet(wrote[p]) /\ Cardinality(wrote[p]) \in Nat /\ wrote[p] \subseteq Logged
      BY <3>1, FS_CardinalityType DEF SpaceInv
    <3>3. ASSUME b \in wrote[p] PROVE SpaceInv'
      <4>1. wrote' = wrote /\ lh' = lh
        <5>1. wrote[p] \cup {b} = wrote[p]
          BY <3>3
        <5>2. QED
          BY <3>3, <3>v, <3>l, <3>c, <5>1
      <4>2. QED
        BY <4>1, <3>1 DEF SpaceInv, Tokens, Logged
    <3>4. ASSUME b \notin wrote[p] PROVE SpaceInv'
      <4>1. Cardinality(wrote[p]) < OPBLOCKS /\ Cardinality(wrote[p]) < MAXOPBLOCKS
        BY <2>4, <3>4, <3>c DEF LogWrite
      <4>2. Cardinality(Tokens') = Cardinality(Tokens) - 1
        <5>1. \A q \in Open : q # p => wrote'[q] = wrote[q]
          BY <3>w DEF Open
        <5>2. Cardinality(TokensOf(Open, wrote')) = Cardinality(TokensOf(Open, wrote)) - 1
          BY Zenon, <3>1, <3>4, <3>c, <3>w, <4>1, <5>1, <2>o, TokensWrite
        <5>3. QED
          BY <3>1, <5>2 DEF Tokens
      <4>3. Cardinality(Tokens') \in Nat
        BY <3>1, <2>o, TokensBound DEF Tokens
      <4>4. Len(lh) < LOGBLOCKS /\ Len(lh') + Cardinality(Tokens') <= LOGBLOCKS
        BY <4>2, <4>3, <3>t, <3>l DEF SpaceInv
      <4>5. /\ IsFiniteSet(wrote'[p]) /\ Cardinality(wrote'[p]) = Cardinality(wrote[p]) + 1
        BY <3>4, <3>c, <3>w, FS_AddElement
      <4>6. wrote'[p] \subseteq Logged'
        BY <4>4, <3>l, <3>c, <3>w
      <4>7. ASSUME NEW q \in Procs
            PROVE  IsFiniteSet(wrote'[q]) /\ Cardinality(wrote'[q]) <= OPBLOCKS
        <5>1. CASE q = p
          BY <4>1, <4>5, <3>c, <5>1
        <5>2. CASE q # p
          BY <3>w, <5>2 DEF SpaceInv
        <5>3. QED
          BY <5>1, <5>2
      <4>8. ASSUME NEW q \in Open PROVE wrote'[q] \subseteq Logged'
        BY <4>6, <3>l, <3>w, Zenon DEF SpaceInv, Open
      <4>9. QED
        BY <4>4, <4>7, <4>8, <3>1, Zenon DEF SpaceInv
    <3>2. SpaceInv'
      BY <3>3, <3>4
    <3>8. PhaseInv'
      BY <2>4, <3>1 DEF LogWrite, PhaseInv, Up, Goto, WakeAll, CommitLabels, Install
    <3>10. TailInv'
      BY <2>4, <2>l DEF LogWrite, TailInv, PhaseInv, Up, Goto, WakeAll, CommitLabels, Install, Logged
    <3>11. TypeOK'
      BY <2>4, <2>l DEF LogWrite, TailInv, Up, Goto, WakeAll, Install, Bread, Labels, Logged
    <3>12. QED
      BY <3>2, <3>8, <3>10, <3>11 DEF BaseInv
  <2>5. ASSUME NEW p \in Procs, EndOp(p) PROVE BaseInv'
    <3>1. Open' = Open \ {p} /\ p \in Open /\ UNCHANGED <<wrote, lh>>
      BY <2>5 DEF EndOp, Goto, WakeAll, Open
    <3>3. Cardinality(Tokens') <= Cardinality(Tokens) /\ Cardinality(Tokens') \in Nat
      <4>1. Open' \in SUBSET Open /\ IsFiniteSet(Open')
        BY <3>1, <2>o, FS_RemoveElement
      <4>2. QED
        BY <4>1, <3>1, <2>o, TokensShrink, TokensBound DEF Tokens
    <3>4. Cardinality(Tokens) \in Nat
      BY <2>o, TokensBound DEF Tokens
    <3>2. SpaceInv'
      BY <3>1, <3>3, <3>4 DEF SpaceInv, Logged
    <3>7. Cardinality(Open') = Cardinality(Open) - 1
      BY Zenon, <3>1, <2>o, FS_RemoveElement
    <3>8. PhaseInv'
      BY <2>5, <3>1, <3>7 DEF EndOp, PhaseInv, Up, WakeAll, CommitLabels
    <3>10. TailInv'
      BY <2>5, <2>l DEF EndOp, TailInv, PhaseInv, Up, Goto, WakeAll, CommitLabels, Install, Logged
    <3>11. TypeOK'
      BY <2>5, <2>l DEF EndOp, TailInv, Up, Goto, WakeAll, Install, Bread, Labels, Logged
    <3>12. QED
      BY <3>2, <3>8, <3>10, <3>11 DEF BaseInv
  <2>6. ASSUME NEW p \in Procs, EndOpCommits(p) PROVE BaseInv'
    <3>1. Open' = Open \ {p} /\ p \in Open /\ UNCHANGED <<wrote, lh>>
      BY <2>6 DEF EndOpCommits, Goto, WakeAll, Open
    <3>3. Cardinality(Tokens') <= Cardinality(Tokens) /\ Cardinality(Tokens') \in Nat
      <4>1. Open' \in SUBSET Open /\ IsFiniteSet(Open')
        BY <3>1, <2>o, FS_RemoveElement
      <4>2. QED
        BY <4>1, <3>1, <2>o, TokensShrink, TokensBound DEF Tokens
    <3>4. Cardinality(Tokens) \in Nat
      BY <2>o, TokensBound DEF Tokens
    <3>2. SpaceInv'
      BY <3>1, <3>3, <3>4 DEF SpaceInv, Logged
    <3>7. Cardinality(Open') = Cardinality(Open) - 1 /\ IsFiniteSet(Open')
      BY <3>1, <2>o, FS_RemoveElement
    <3>9. Open' = {}
      BY <2>6, <3>7, FS_EmptySet DEF EndOpCommits, PhaseInv
    <3>8. PhaseInv'
      BY <2>6, <3>1, <3>7, <3>9 DEF EndOpCommits, PhaseInv, Up, Goto, CommitLabels
    <3>10. TailInv'
      BY <2>6, <2>l DEF EndOpCommits, TailInv, PhaseInv, Up, Goto, WakeAll, CommitLabels, Install, Logged
    <3>11. TypeOK'
      BY <2>6, <2>l DEF EndOpCommits, TailInv, Up, Goto, WakeAll, Install, Bread, Labels, Logged
    <3>12. QED
      BY <3>2, <3>8, <3>10, <3>11 DEF BaseInv
  <2>7. ASSUME NEW p \in Procs, WriteLog(p) PROVE BaseInv'
    <3>1. Open' = Open /\ UNCHANGED <<wrote, lh>>
      BY <2>7 DEF WriteLog, Goto, WakeAll, Open, Install
    <3>2. SpaceInv'
      BY <3>1 DEF SpaceInv, Tokens, Logged
    <3>8. PhaseInv'
      BY <2>7, <3>1 DEF WriteLog, PhaseInv, Up, Goto, WakeAll, CommitLabels, Install
    <3>10. TailInv'
      BY <2>7, <2>l DEF WriteLog, TailInv, PhaseInv, Up, Goto, WakeAll, CommitLabels, Install, Logged
    <3>11. TypeOK'
      BY <2>7, <2>l DEF WriteLog, TailInv, Up, Goto, WakeAll, Install, Bread, Labels, Logged
    <3>12. QED
      BY <3>2, <3>8, <3>10, <3>11 DEF BaseInv
  <2>8. ASSUME NEW p \in Procs, WriteHead(p) PROVE BaseInv'
    <3>1. Open' = Open /\ UNCHANGED <<wrote, lh>>
      BY <2>8 DEF WriteHead, Goto, WakeAll, Open, Install
    <3>2. SpaceInv'
      BY <3>1 DEF SpaceInv, Tokens, Logged
    <3>8. PhaseInv'
      BY <2>8, <3>1 DEF WriteHead, PhaseInv, Up, Goto, WakeAll, CommitLabels, Install
    <3>10. TailInv'
      BY <2>8, <2>l DEF WriteHead, TailInv, PhaseInv, Up, Goto, WakeAll, CommitLabels, Install, Logged
    <3>11. TypeOK'
      BY <2>8, <2>l DEF WriteHead, TailInv, Up, Goto, WakeAll, Install, Bread, Labels, Logged
    <3>12. QED
      BY <3>2, <3>8, <3>10, <3>11 DEF BaseInv
  <2>9. ASSUME NEW p \in Procs, InstallTrans(p) PROVE BaseInv'
    <3>1. Open' = Open /\ UNCHANGED <<wrote, lh>>
      BY <2>9 DEF InstallTrans, Goto, WakeAll, Open, Install
    <3>2. SpaceInv'
      BY <3>1 DEF SpaceInv, Tokens, Logged
    <3>8. PhaseInv'
      BY <2>9, <3>1 DEF InstallTrans, PhaseInv, Up, Goto, WakeAll, CommitLabels, Install
    <3>10. TailInv'
      BY <2>9, <2>l DEF InstallTrans, TailInv, PhaseInv, Up, Goto, WakeAll, CommitLabels, Install, Logged
    <3>11. TypeOK'
      BY <2>9, <2>l DEF InstallTrans, TailInv, Up, Goto, WakeAll, Install, Bread, Labels, Logged
    <3>12. QED
      BY <3>2, <3>8, <3>10, <3>11 DEF BaseInv
  <2>10. ASSUME NEW p \in Procs, ClearHead(p) PROVE BaseInv'
    <3>1. Open' = {} /\ UNCHANGED wrote /\ Len(lh') \in Nat /\ Len(lh') <= LOGBLOCKS
      BY <2>10 DEF ClearHead, Goto, Open, Up, PhaseInv, TailInv, CommitLabels
    <3>2. SpaceInv'
      BY <3>1, NoTokens DEF SpaceInv, Tokens
    <3>7. Open' = Open
      BY <2>10 DEF ClearHead, Goto, Open
    <3>8. PhaseInv'
      BY <2>10, <3>7 DEF ClearHead, PhaseInv, Up, Goto, CommitLabels
    <3>10. TailInv'
      BY <2>10, <2>l DEF ClearHead, TailInv, PhaseInv, Up, Goto, WakeAll, CommitLabels, Install, Logged
    <3>11. TypeOK'
      BY <2>10, <2>l DEF ClearHead, TailInv, Up, Goto, WakeAll, Install, Bread, Labels, Logged
    <3>12. QED
      BY <3>2, <3>8, <3>10, <3>11 DEF BaseInv
  <2>11. ASSUME NEW p \in Procs, EndCommit(p) PROVE BaseInv'
    <3>1. Open' = Open /\ UNCHANGED <<wrote, lh>>
      BY <2>11 DEF EndCommit, Goto, WakeAll, Open, Install
    <3>2. SpaceInv'
      BY <3>1 DEF SpaceInv, Tokens, Logged
    <3>8. PhaseInv'
      BY <2>11, <3>1, Zenon DEF EndCommit, PhaseInv, Up, Goto, WakeAll, CommitLabels, Install
    <3>10. TailInv'
      BY <2>11, <2>l DEF EndCommit, TailInv, PhaseInv, Up, Goto, WakeAll, CommitLabels, Install, Logged
    <3>11. TypeOK'
      BY Zenon, <2>11, <2>l DEF EndCommit, TailInv, Up, Goto, WakeAll, Install, Bread, Labels, Logged
    <3>12. QED
      BY <3>2, <3>8, <3>10, <3>11 DEF BaseInv
  <2>12. ASSUME NEW b \in Blocks, Load(b) PROVE BaseInv'
    <3>1. Open' = Open /\ UNCHANGED <<wrote, lh>>
      BY <2>12 DEF Load, Goto, WakeAll, Open, Install
    <3>2. SpaceInv'
      BY <3>1 DEF SpaceInv, Tokens, Logged
    <3>8. PhaseInv'
      BY <2>12, <3>1 DEF Load, PhaseInv, Up, Goto, WakeAll, CommitLabels, Install
    <3>10. TailInv'
      BY <2>12, <2>l DEF Load, TailInv, PhaseInv, Up, Goto, WakeAll, CommitLabels, Install, Logged
    <3>11. TypeOK'
      BY <2>12, <2>l DEF Load, TailInv, Up, Goto, WakeAll, Install, Bread, Labels, Logged
    <3>12. QED
      BY <3>2, <3>8, <3>10, <3>11 DEF BaseInv
  <2>13. ASSUME NEW b \in Blocks, Recycle(b) PROVE BaseInv'
    <3>1. Open' = Open /\ UNCHANGED <<wrote, lh>>
      BY <2>13 DEF Recycle, Goto, WakeAll, Open, Install
    <3>2. SpaceInv'
      BY <3>1 DEF SpaceInv, Tokens, Logged
    <3>8. PhaseInv'
      BY <2>13, <3>1 DEF Recycle, PhaseInv, Up, Goto, WakeAll, CommitLabels, Install
    <3>10. TailInv'
      BY <2>13, <2>l DEF Recycle, TailInv, PhaseInv, Up, Goto, WakeAll, CommitLabels, Install, Logged
    <3>11. TypeOK'
      BY <2>13, <2>l DEF Recycle, TailInv, Up, Goto, WakeAll, Install, Bread, Labels, Logged
    <3>12. QED
      BY <3>2, <3>8, <3>10, <3>11 DEF BaseInv
  <2>14. ASSUME Crash PROVE BaseInv'
    <3>1. Open' = {} /\ wrote' = [p \in Procs |-> {}] /\ lh' = <<>>
      BY <2>14 DEF Crash, Open
    <3>2. SpaceInv'
      BY <3>1, NoTokens, FS_EmptySet DEF SpaceInv, Tokens
    <3>8. PhaseInv'
      BY <2>14, <3>1, FS_EmptySet DEF Crash, PhaseInv, CommitLabels
    <3>10. TailInv'
      BY <2>14, <2>l DEF Crash, TailInv, PhaseInv, Up, Goto, WakeAll, CommitLabels, Install, Logged
    <3>13. pc' \in [Procs -> Labels] /\ wrote' \in [Procs -> SUBSET Blocks]
      BY <2>14 DEF Crash, Labels
    <3>14. lh' \in Seq(Blocks) /\ tail' \in 0..LOGBLOCKS
      BY <2>14 DEF Crash
    <3>11. TypeOK'
      BY Zenon, <2>14, <3>13, <3>14 DEF Crash
    <3>12. QED
      BY <3>2, <3>8, <3>10, <3>11 DEF BaseInv
  <2>15. ASSUME ReadHead PROVE BaseInv'
    <3>1. Open' = {} /\ UNCHANGED wrote /\ Len(lh') \in Nat /\ Len(lh') <= LOGBLOCKS
      BY <2>15 DEF ReadHead, Goto, Open, Up, PhaseInv, TailInv, CommitLabels
    <3>2. SpaceInv'
      BY <3>1, NoTokens DEF SpaceInv, Tokens
    <3>7. Open' = Open
      BY <2>15 DEF ReadHead, Goto, Open
    <3>8. PhaseInv'
      BY <2>15, <3>7 DEF ReadHead, PhaseInv, Up, Goto, CommitLabels
    <3>10. TailInv'
      BY <2>15, <2>l DEF ReadHead, TailInv, PhaseInv, Up, Goto, WakeAll, CommitLabels, Install, Logged
    <3>11. TypeOK'
      BY <2>15, <2>l DEF ReadHead, TailInv, Up, Goto, WakeAll, Install, Bread, Labels, Logged
    <3>12. QED
      BY <3>2, <3>8, <3>10, <3>11 DEF BaseInv
  <2>16. ASSUME RecoverInstall PROVE BaseInv'
    <3>1. Open' = Open /\ UNCHANGED <<wrote, lh>>
      BY <2>16 DEF RecoverInstall, Goto, WakeAll, Open, Install
    <3>2. SpaceInv'
      BY <3>1 DEF SpaceInv, Tokens, Logged
    <3>8. PhaseInv'
      BY <2>16, <3>1, Zenon DEF RecoverInstall, PhaseInv, Up, Goto, WakeAll, CommitLabels, Install
    <3>10. TailInv'
      BY <2>16, <2>l DEF RecoverInstall, TailInv, PhaseInv, Up, Goto, WakeAll, CommitLabels, Install, Logged
    <3>11. TypeOK'
      BY <2>16, <2>l DEF RecoverInstall, TailInv, Up, Goto, WakeAll, Install, Bread, Labels, Logged
    <3>12. QED
      BY <3>2, <3>8, <3>10, <3>11 DEF BaseInv
  <2>17. ASSUME RecoverClear PROVE BaseInv'
    <3>1. Open' = {} /\ UNCHANGED wrote /\ Len(lh') \in Nat /\ Len(lh') <= LOGBLOCKS
      BY <2>17 DEF RecoverClear, Goto, Open, Up, PhaseInv, TailInv, CommitLabels
    <3>2. SpaceInv'
      BY <3>1, NoTokens DEF SpaceInv, Tokens
    <3>7. Open' = Open
      BY <2>17 DEF RecoverClear, Goto, Open
    <3>8. PhaseInv'
      BY <2>17, <3>7 DEF RecoverClear, PhaseInv, Up, Goto, CommitLabels
    <3>10. TailInv'
      BY <2>17, <2>l DEF RecoverClear, TailInv, PhaseInv, Up, Goto, WakeAll, CommitLabels, Install, Logged
    <3>11. TypeOK'
      BY <2>17, <2>l DEF RecoverClear, TailInv, Up, Goto, WakeAll, Install, Bread, Labels, Logged
    <3>12. QED
      BY <3>2, <3>8, <3>10, <3>11 DEF BaseInv
  <2>18. CASE UNCHANGED vars
    BY SMTT(30), <2>18 DEF vars, durable, BaseInv, TypeOK, PhaseInv, TailInv, SpaceInv, Tokens, Open, Logged
  <2> HIDE DEF TypeOK
  <2>19. QED
    BY <2>1, <2>2, <2>3, <2>4, <2>5, <2>6, <2>7, <2>8, <2>9, <2>10,
       <2>11, <2>12, <2>13, <2>14, <2>15, <2>16, <2>17, <2>18
    DEF Next, Running, Recover, Finish, Commits
<1>3. QED
  BY <1>1, <1>2, PTL DEF Spec

\* The transaction fits into the log.
LEMMA LogBound == BaseInv => Len(lh) \in Nat /\ Len(lh) <= LOGBLOCKS
<1> USE LogAssumption
<1>1. IsFiniteSet(Open)
  BY FS_Subset DEF Open
<1>2. QED
  BY <1>1, TokensBound DEF BaseInv, TypeOK, SpaceInv, Tokens

\* The types, for any constants.
THEOREM TypeCorrect == Spec => []TypeOK
<1>1. BaseInv => TypeOK
  BY DEF BaseInv
<1>2. QED
  BY <1>1, Base, PTL

\* If every system call writes fewer than MAXOPBLOCKS blocks, then log_write
\* never panics, however many of them share the log, and neither does end_op.
THEOREM LogNeverPanics ==
  ASSUME OPBLOCKS < MAXOPBLOCKS
  PROVE  Spec => []NoPanic
<1> USE LogAssumption
<1>1. Init => NoPanic
  BY DEF Init, NoPanic
<1>2. BaseInv /\ NoPanic /\ [Next]_vars => NoPanic'
  <2> SUFFICES ASSUME BaseInv, NoPanic, [Next]_vars PROVE NoPanic'
    OBVIOUS
  <2> USE DEF NoPanic
  <2>1. ASSUME NEW p \in Procs, BeginOp(p) PROVE NoPanic'
    BY <2>1 DEF BeginOp
  <2>2. ASSUME NEW p \in Procs, BeginSleep(p) PROVE NoPanic'
    BY <2>2 DEF BeginSleep
  <2>3. ASSUME NEW p \in Procs, Kill(p) PROVE NoPanic'
    BY <2>3 DEF Kill
  <2>4. ASSUME NEW p \in Procs, NEW b \in Blocks, NEW v \in Vals, LogWrite(p, b, v) PROVE NoPanic'
    <3>1. p \in Open /\ IsFiniteSet(Open)
      BY <2>4, FS_Subset DEF LogWrite, Open
    <3>2. Cardinality(wrote[p]) \in Nat /\ Cardinality(wrote[p]) < MAXOPBLOCKS
      BY <3>1, FS_CardinalityType DEF BaseInv, SpaceInv, Open
    <3>3. <<p, MAXOPBLOCKS>> \in Tokens
      BY <3>1, <3>2 DEF Tokens, TokensOf
    <3>4. IsFiniteSet(Tokens) /\ Cardinality(Tokens) \in Nat
      BY <3>1, TokensBound DEF Tokens
    <3>5. Cardinality(Tokens) # 0
      BY <3>3, <3>4, FS_EmptySet
    <3>6. Len(lh) < LOGBLOCKS
      BY <3>4, <3>5 DEF BaseInv, TypeOK, SpaceInv
    <3>7. QED
      BY <2>4, <3>6 DEF LogWrite, BaseInv, TypeOK
  <2>5. ASSUME NEW p \in Procs, EndOp(p) PROVE NoPanic'
    BY <2>5 DEF EndOp, BaseInv, PhaseInv, TypeOK, Open
  <2>6. ASSUME NEW p \in Procs, EndOpCommits(p) PROVE NoPanic'
    BY <2>6 DEF EndOpCommits, BaseInv, PhaseInv, TypeOK, Open
  <2>7. ASSUME NEW p \in Procs, WriteLog(p) PROVE NoPanic'
    BY <2>7 DEF WriteLog
  <2>8. ASSUME NEW p \in Procs, WriteHead(p) PROVE NoPanic'
    BY <2>8 DEF WriteHead
  <2>9. ASSUME NEW p \in Procs, InstallTrans(p) PROVE NoPanic'
    BY <2>9 DEF InstallTrans
  <2>10. ASSUME NEW p \in Procs, ClearHead(p) PROVE NoPanic'
    BY <2>10 DEF ClearHead
  <2>11. ASSUME NEW p \in Procs, EndCommit(p) PROVE NoPanic'
    BY <2>11 DEF EndCommit
  <2>12. ASSUME NEW b \in Blocks, Load(b) PROVE NoPanic'
    BY <2>12 DEF Load
  <2>13. ASSUME NEW b \in Blocks, Recycle(b) PROVE NoPanic'
    BY <2>13 DEF Recycle
  <2>14. ASSUME Crash PROVE NoPanic'
    BY <2>14 DEF Crash
  <2>15. ASSUME ReadHead PROVE NoPanic'
    BY <2>15 DEF ReadHead
  <2>16. ASSUME RecoverInstall PROVE NoPanic'
    BY <2>16 DEF RecoverInstall
  <2>17. ASSUME RecoverClear PROVE NoPanic'
    BY <2>17 DEF RecoverClear
  <2>18. CASE UNCHANGED vars
    BY <2>18 DEF vars
  <2>19. QED
    BY Zenon, <2>1, <2>2, <2>3, <2>4, <2>5, <2>6, <2>7, <2>8, <2>9, <2>10,
       <2>11, <2>12, <2>13, <2>14, <2>15, <2>16, <2>17, <2>18
    DEF Next, Running, Recover, Finish, Commits
<1>3. QED
  BY <1>1, <1>2, Base, PTL DEF Spec

\* Nobody sleeps in begin_op while there is room for one more operation.
THEOREM OpsNotStranded == Spec => []NoStrandedOp
<1> USE LogAssumption
<1>1. Init => NoStrandedOp
  BY DEF Init, NoStrandedOp
<1>2. BaseInv /\ NoStrandedOp /\ [Next]_vars => NoStrandedOp'
  <2> SUFFICES ASSUME BaseInv, NoStrandedOp, [Next]_vars PROVE NoStrandedOp'
    OBVIOUS
  <2>0. /\ pc \in [Procs -> Labels] /\ lh \in Seq(Blocks) /\ outstanding \in Nat
        /\ (outstanding + 1) * MAXOPBLOCKS \in Nat /\ PhaseInv
    BY DEF BaseInv, TypeOK
  <2> USE <2>0 DEF NoStrandedOp, Up, CanBegin
  <2>1. ASSUME NEW p \in Procs, BeginOp(p) PROVE NoStrandedOp'
    BY <2>1 DEF BeginOp, Goto, WakeAll, PhaseInv, CommitLabels
  <2>2. ASSUME NEW p \in Procs, BeginSleep(p) PROVE NoStrandedOp'
    BY <2>2 DEF BeginSleep, Goto, WakeAll, PhaseInv, CommitLabels
  <2>3. ASSUME NEW p \in Procs, Kill(p) PROVE NoStrandedOp'
    BY <2>3 DEF Kill, Goto, WakeAll, PhaseInv, CommitLabels
  <2>4. ASSUME NEW p \in Procs, NEW b \in Blocks, NEW v \in Vals, LogWrite(p, b, v) PROVE NoStrandedOp'
    <3>1. Len(lh') >= Len(lh) /\ Len(lh') \in Nat /\ Len(lh) \in Nat
      BY ONLY <2>4, AppendRange DEF LogWrite
    <3>2. UNCHANGED <<outstanding, committing, pc>> /\ Up
      BY <2>4 DEF LogWrite
    <3>3. CanBegin' => CanBegin
      <4> DEFINE X == (outstanding + 1) * MAXOPBLOCKS
      <4>1. X \in Nat /\ X' = X
        BY <3>2
      <4> HIDE DEF X
      <4>2. Len(lh') + X <= LOGBLOCKS => Len(lh) + X <= LOGBLOCKS
        BY <3>1, <4>1
      <4>3. QED
        BY <3>2, <4>1, <4>2 DEF X
    <3>4. QED
      BY Zenon, <3>2, <3>3
  <2>5. ASSUME NEW p \in Procs, EndOp(p) PROVE NoStrandedOp'
    BY <2>5, Zenon DEF EndOp, Goto, WakeAll, PhaseInv, CommitLabels
  <2>6. ASSUME NEW p \in Procs, EndOpCommits(p) PROVE NoStrandedOp'
    BY <2>6 DEF EndOpCommits, Goto, WakeAll, PhaseInv, CommitLabels
  <2>7. ASSUME NEW p \in Procs, WriteLog(p) PROVE NoStrandedOp'
    BY <2>7 DEF WriteLog, Goto, WakeAll, PhaseInv, CommitLabels
  <2>8. ASSUME NEW p \in Procs, WriteHead(p) PROVE NoStrandedOp'
    BY <2>8 DEF WriteHead, Goto, WakeAll, PhaseInv, CommitLabels
  <2>9. ASSUME NEW p \in Procs, InstallTrans(p) PROVE NoStrandedOp'
    BY <2>9 DEF InstallTrans, Goto, WakeAll, PhaseInv, CommitLabels
  <2>10. ASSUME NEW p \in Procs, ClearHead(p) PROVE NoStrandedOp'
    BY <2>10 DEF ClearHead, Goto, WakeAll, PhaseInv, CommitLabels
  <2>11. ASSUME NEW p \in Procs, EndCommit(p) PROVE NoStrandedOp'
    BY ONLY <2>11 DEF EndCommit, Goto, WakeAll, PhaseInv, CommitLabels
  <2>12. ASSUME NEW b \in Blocks, Load(b) PROVE NoStrandedOp'
    BY <2>12 DEF Load, Goto, WakeAll, PhaseInv, CommitLabels
  <2>13. ASSUME NEW b \in Blocks, Recycle(b) PROVE NoStrandedOp'
    BY <2>13 DEF Recycle, Goto, WakeAll, PhaseInv, CommitLabels
  <2>14. ASSUME Crash PROVE NoStrandedOp'
    BY <2>14 DEF Crash, Goto, WakeAll, PhaseInv, CommitLabels
  <2>15. ASSUME ReadHead PROVE NoStrandedOp'
    BY <2>15 DEF ReadHead, Goto, WakeAll, PhaseInv, CommitLabels
  <2>16. ASSUME RecoverInstall PROVE NoStrandedOp'
    BY <2>16, Zenon DEF RecoverInstall, Goto, WakeAll, PhaseInv, CommitLabels
  <2>17. ASSUME RecoverClear PROVE NoStrandedOp'
    BY <2>17, Zenon DEF RecoverClear, Goto, WakeAll, PhaseInv, CommitLabels
  <2>18. CASE UNCHANGED vars
    BY <2>18 DEF vars
  <2> HIDE DEF NoStrandedOp, Up, CanBegin
  <2>19. QED
    BY Zenon, <2>1, <2>2, <2>3, <2>4, <2>5, <2>6, <2>7, <2>8, <2>9, <2>10,
       <2>11, <2>12, <2>13, <2>14, <2>15, <2>16, <2>17, <2>18
    DEF Next, Running, Recover, Finish, Commits
<1>3. QED
  BY <1>1, <1>2, Base, PTL DEF Spec

\* With the reservations of begin_op the log never overflows, and nobody waits for
\* space that is there, if system calls write fewer blocks than they reserve.
THEOREM SpaceIsExact ==
  ASSUME OPBLOCKS < MAXOPBLOCKS
  PROVE  Spec => []SpaceSuffices
<1>1. NoPanic /\ NoStrandedOp => SpaceSuffices
  BY DEF SpaceSuffices
<1>2. QED
  BY <1>1, LogNeverPanics, OpsNotStranded, PTL

-----------------------------------------------------------------------------
(* What is where during a commit and during recovery.                      *)

\* Types and bounds of the log, for the proofs that follow.
LEMMA LogFacts ==
  ASSUME BaseInv
  PROVE  /\ lh \in Seq(Blocks) /\ Len(lh) \in Nat /\ dhead \in Seq(Blocks) /\ Len(dhead) \in Nat
         /\ tail \in Nat /\ \A j \in 1..Len(lh) : lh[j] \in Blocks /\ lh[j] \in Logged /\ j \in 1..LOGBLOCKS
<1>1. lh \in Seq(Blocks) /\ dhead \in Seq(Blocks) /\ tail \in 0..LOGBLOCKS /\ LOGBLOCKS \in Nat
  BY LogAssumption DEF BaseInv, TypeOK
<1>2. Len(lh) \in Nat /\ Len(lh) <= LOGBLOCKS /\ Len(dhead) \in Nat /\ tail \in Nat
  BY <1>1, LogBound
<1>3. ASSUME NEW j \in 1..Len(lh) PROVE lh[j] \in Blocks /\ lh[j] \in Logged /\ j \in 1..LOGBLOCKS
  BY <1>1, <1>2 DEF Logged
<1>4. QED
  BY <1>1, <1>2, <1>3

\* The process that commits is the only one, and nothing else is going on.
LEMMA Committer ==
  ASSUME BaseInv, CopyInv, NEW p \in Procs, pc[p] \in CommitLabels
  PROVE  /\ boot = "done" /\ committing /\ Open = {}
         /\ \A q \in Procs : pc[q] \in CommitLabels => q = p
         /\ pc[p] \in {"write_log", "write_head"} => Logged = pinned /\ dhead = <<>>
         /\ pc[p] = "done" => dhead = <<>>
         /\ pc[p] \in {"write_log", "install"} => tail < Len(lh)
<1>1. boot = "done" /\ committing /\ Open = {} /\ \A q \in Procs : pc[q] \in CommitLabels => q = p
  BY DEF BaseInv, PhaseInv, CommitLabels
<1>2. pc[p] \in {"write_log", "install"} => tail < Len(lh)
  BY DEF BaseInv, TailInv
<1>3. /\ pc[p] \in {"write_log", "write_head"} => Logged = pinned /\ dhead = <<>>
      /\ pc[p] = "done" => dhead = <<>>
  BY Zenon, <1>1 DEF CopyInv, DataInv, CommitLabels
<1>4. QED
  BY <1>1, <1>2, <1>3

\* Nobody commits while an operation is open, or before recovery has ended.
LEMMA NoCommitter ==
  ASSUME BaseInv, CopyInv, boot # "done" \/ Open # {}
  PROVE  /\ \A q \in Procs : pc[q] \notin CommitLabels
         /\ boot = "done" => ~committing /\ Logged = pinned /\ dhead = <<>>
<1>1. (\A q \in Procs : pc[q] \notin CommitLabels) /\ (boot = "done" => ~committing)
  BY DEF BaseInv, PhaseInv, CommitLabels
<1>2. QED
  BY Zenon, <1>1 DEF CopyInv, DataInv, CommitLabels

\* A step that touches neither disk, log nor buffers, and no commit.
LEMMA CopyFrame ==
  ASSUME CopyInv, UNCHANGED <<disk, dlog, dhead, cache, pinned, lh, tail, boot>>,
         panicked => panicked',
         \A q \in Procs : pc[q] \in CommitLabels \/ pc'[q] \in CommitLabels => pc'[q] = pc[q],
         boot = "done" /\ ~committing' /\ Open' = {} => lh = <<>>
  PROVE  CopyInv'
<1>1. Logged' = Logged
  BY DEF Logged
<1>2. DataInv'
  BY <1>1 DEF CopyInv, DataInv, CommitLabels
<1>3. CommitInv'
  BY DEF CopyInv, CommitInv, CommitLabels
<1>4. RecoverInv'
  BY Zenon DEF CopyInv, RecoverInv
<1>5. QED
  BY <1>2, <1>3, <1>4 DEF CopyInv

\* A buffer that is not pinned is filled from its home block, or dropped.
LEMMA CacheFrame ==
  ASSUME BaseInv, CopyInv, UNCHANGED <<disk, dlog, dhead, pinned, lh, tail, boot, panicked, committing, pc>>,
         NEW b \in Blocks, b \notin pinned, NEW v \in {Absent, disk[b]}, cache' = [cache EXCEPT ![b] = v]
  PROVE  CopyInv'
<1>0. cache'[b] = v /\ \A a \in Blocks : a # b => cache'[a] = cache[a]
  BY DEF BaseInv, TypeOK
<1>1. Logged' = Logged /\ Open' = Open
  BY DEF Logged, Open
<1>2. DataInv'
  <2>1. ~panicked' => \A a \in Blocks : a \notin pinned' => cache'[a] \in {Absent, disk'[a]}
    BY <1>0, Zenon DEF CopyInv, DataInv
  <2>2. \A a \in pinned' : cache'[a] # Absent
    BY <1>0 DEF CopyInv, DataInv, BaseInv, TypeOK
  <2>3. QED
    BY <1>1, <2>1, <2>2 DEF CopyInv, DataInv
<1>3. ASSUME NEW q \in Procs
      PROVE  /\ pc'[q] = "write_log" => \A j \in 1..tail' : dlog'[j] = cache'[lh'[j]]
             /\ pc'[q] = "write_head" => \A j \in 1..Len(lh') : dlog'[j] = cache'[lh'[j]]
             /\ pc'[q] = "install" =>
                  /\ dhead' = lh'
                  /\ \A j \in 1..Len(lh') : IF j > tail'
                       THEN lh'[j] \in pinned' /\ cache'[lh'[j]] = dlog'[j]
                       ELSE lh'[j] \notin pinned' /\ disk'[lh'[j]] = dlog'[j]
  <2>1. ASSUME NEW j \in 1..Len(lh), lh[j] \in pinned PROVE cache'[lh[j]] = cache[lh[j]]
    BY <1>0, <2>1, LogFacts
  <2>2. CASE pc[q] \in {"write_log", "write_head"}
    <3>1. (\A j \in 1..Len(lh) : lh[j] \in pinned) /\ (pc[q] = "write_log" => tail < Len(lh))
      BY ONLY BaseInv, CopyInv, <2>2, LogFacts, Committer DEF CommitLabels
    <3>2. pc[q] = "write_log" => \A j \in 1..tail : j \in 1..Len(lh)
      BY ONLY BaseInv, CopyInv, <3>1, LogFacts
    <3>3. QED
      BY <2>1, <2>2, <3>1, <3>2 DEF CopyInv, CommitInv
  <2>3. CASE pc[q] = "install"
    BY <2>1, <2>3 DEF CopyInv, CommitInv
  <2>4. QED
    BY Zenon, <2>2, <2>3
<1>4. CommitInv'
  BY <1>3 DEF CopyInv, CommitInv
<1>5. RecoverInv'
  BY Zenon DEF CopyInv, RecoverInv
<1>6. QED
  BY <1>2, <1>4, <1>5 DEF CopyInv

\* log_write adds a block to the log, or changes one that is there.
LEMMA CopyLogWrite ==
  ASSUME BaseInv, CopyInv, NEW p \in Procs, NEW b \in Blocks, NEW v \in Vals, LogWrite(p, b, v)
  PROVE  CopyInv'
<1> USE LogAssumption
<1>0. /\ pc[p] = "op" /\ boot = "done" /\ ~panicked /\ panicked' = (Len(lh) >= LOGBLOCKS)
      /\ cache' = [cache EXCEPT ![b] = v] /\ v # Absent
      /\ UNCHANGED <<disk, dlog, dhead, committing, tail, pc, boot>>
  BY Zenon DEF LogWrite, Up, durable
<1>1. Open' = Open /\ p \in Open
  BY <1>0 DEF Open
<1>2. Logged = pinned /\ dhead = <<>> /\ \A q \in Procs : pc[q] \notin CommitLabels
  BY <1>0, <1>1, NoCommitter
<1>3. /\ pinned' = Logged' /\ pinned \subseteq pinned' /\ pinned' \subseteq pinned \cup {b}
      /\ ~panicked' => b \in pinned'
      /\ \A i, j \in 1..Len(lh') : lh'[i] = lh'[j] => i = j
  <2>1. CASE Len(lh) >= LOGBLOCKS \/ b \in Logged
    <3>1. lh' = lh /\ pinned' = pinned
      BY <2>1, Zenon DEF LogWrite
    <3>2. Logged' = Logged
      BY <3>1, Zenon DEF Logged
    <3>3. \A i, j \in 1..Len(lh) : lh[i] = lh[j] => i = j
      BY Zenon DEF CopyInv, DataInv
    <3>4. QED
      BY Zenon, <1>0, <1>2, <2>1, <3>1, <3>2, <3>3
  <2>2. CASE ~(Len(lh) >= LOGBLOCKS) /\ b \notin Logged
    <3>1. lh' = Append(lh, b) /\ pinned' = pinned \cup {b} /\ lh \in Seq(Blocks)
      BY <2>2, LogFacts, Zenon DEF LogWrite
    <3>2. Logged' = Logged \cup {b}
      <4>1. {Append(lh, b)[j] : j \in 1..Len(Append(lh, b))} = {lh[j] : j \in 1..Len(lh)} \cup {b}
        BY Zenon, <3>1, AppendRange
      <4>2. Logged' = {lh'[j] : j \in 1..Len(lh')} /\ Logged = {lh[j] : j \in 1..Len(lh)}
        BY Zenon DEF Logged
      <4>3. QED
        BY Zenon, <3>1, <4>1, <4>2
    <3>3. /\ Len(lh') = Len(lh) + 1 /\ Len(lh) \in Nat
          /\ lh'[Len(lh) + 1] = b /\ \A j \in 1..Len(lh) : lh'[j] = lh[j]
      BY ONLY <3>1
    <3>4. \A j \in 1..Len(lh) : lh[j] # b
      BY <2>2, LogFacts
    <3>5. \A i, j \in 1..Len(lh) : lh[i] = lh[j] => i = j
      BY DEF CopyInv, DataInv
    <3>6. \A i, j \in 1..Len(lh') : lh'[i] = lh'[j] => i = j
      <4>1. SUFFICES ASSUME NEW i \in 1..Len(lh'), NEW j \in 1..Len(lh'), lh'[i] = lh'[j] PROVE i = j
        OBVIOUS
      <4>2. (i \in 1..Len(lh) \/ i = Len(lh) + 1) /\ (j \in 1..Len(lh) \/ j = Len(lh) + 1)
        BY ONLY <3>3
      <4>3. QED
        BY Zenon, <3>3, <3>4, <3>5, <4>1, <4>2
    <3>7. QED
      BY Zenon, <1>2, <3>1, <3>2, <3>6
  <2>3. QED
    BY Zenon, <2>1, <2>2
<1>4. DataInv'
  <2>1. cache'[b] = v /\ \A a \in Blocks : a # b => cache'[a] = cache[a]
    BY <1>0, Zenon DEF BaseInv, TypeOK
  <2>2. ~panicked' => \A a \in Blocks : a \notin pinned' => cache'[a] \in {Absent, disk'[a]}
    BY Zenon, <1>0, <1>3, <2>1 DEF CopyInv, DataInv
  <2>3. \A a \in pinned' : cache'[a] # Absent
    BY <1>0, <1>3, <2>1, Zenon DEF CopyInv, DataInv, BaseInv, TypeOK
  <2>4. \A i, j \in 1..Len(dhead') : dhead'[i] = dhead'[j] => i = j
    BY <1>0 DEF CopyInv, DataInv
  <2>5. Open' # {} /\ dhead' = <<>>
    BY ONLY <1>0, <1>1, <1>2
  <2>6. QED
    BY <1>3, <2>2, <2>3, <2>4, <2>5, Zenon DEF DataInv
<1>5. CommitInv'
  BY <1>0, <1>2, Zenon DEF CommitInv, CommitLabels
<1>6. RecoverInv'
  BY <1>0, Zenon DEF RecoverInv
<1>7. QED
  BY ONLY <1>4, <1>5, <1>6 DEF CopyInv

\* The last operation of a transaction starts the commit.
LEMMA CopyEndOpCommits ==
  ASSUME BaseInv, CopyInv, NEW p \in Procs, EndOpCommits(p)
  PROVE  CopyInv'
<1>0. /\ pc[p] = "op" /\ boot = "done" /\ ~panicked /\ committing' = TRUE /\ tail' = 0
      /\ pc' = [pc EXCEPT ![p] = IF lh = <<>> THEN "done" ELSE "write_log"]
      /\ UNCHANGED <<disk, dlog, dhead, cache, pinned, lh, boot>>
  BY DEF EndOpCommits, Up, Goto, durable
<1>1. p \in Open
  BY <1>0 DEF Open
<1>2. Logged = pinned /\ dhead = <<>> /\ \A q \in Procs : pc[q] \notin CommitLabels
  BY <1>0, <1>1, NoCommitter
<1>3. Logged' = Logged
  BY <1>0 DEF Logged
<1>4. DataInv'
  BY <1>0, <1>2, <1>3 DEF CopyInv, DataInv
<1>5. CommitInv'
  <2>1. SUFFICES ASSUME NEW q \in Procs, pc'[q] \in CommitLabels
                 PROVE  (pc'[q] = "done" /\ lh = <<>>) \/ pc'[q] = "write_log"
    BY <1>0 DEF CommitInv, CommitLabels
  <2>2. q = p
    BY <1>0, <1>2, <2>1, Zenon DEF BaseInv, TypeOK
  <2>3. QED
    BY ONLY BaseInv, CopyInv, <1>0, <2>2, Zenon DEF BaseInv, TypeOK
<1>6. RecoverInv'
  BY <1>0, Zenon DEF RecoverInv
<1>7. QED
  BY <1>4, <1>5, <1>6 DEF CopyInv

\* write_log copies one block to the log.
LEMMA CopyWriteLog ==
  ASSUME BaseInv, CopyInv, NEW p \in Procs, WriteLog(p)
  PROVE  CopyInv'
<1> DEFINE n == tail + 1
<1>0. /\ pc[p] = "write_log" /\ boot = "done" /\ tail' = n
      /\ dlog' = [dlog EXCEPT ![n] = Bread(lh[n])] /\ cache' = [cache EXCEPT ![lh[n]] = Bread(lh[n])]
      /\ pc' = [pc EXCEPT ![p] = IF n = Len(lh) THEN "write_head" ELSE "write_log"]
      /\ UNCHANGED <<disk, dhead, pinned, lh, committing, boot, panicked>>
  BY Zenon DEF WriteLog, Up, Goto
<1>1. /\ committing /\ Logged = pinned /\ dhead = <<>> /\ tail < Len(lh)
      /\ \A q \in Procs : pc[q] \in CommitLabels => q = p
  BY <1>0, Committer, Zenon DEF CommitLabels
<1>2. /\ n \in 1..Len(lh) /\ n \in 1..LOGBLOCKS /\ lh[n] \in pinned /\ lh[n] \in Blocks
      /\ tail \in Nat /\ \A j \in 1..n : j \in 1..tail \/ j = n
  BY <1>1, LogFacts
<1> HIDE DEF n
<1>3. cache[lh[n]] # Absent
  BY <1>2, Zenon DEF CopyInv, DataInv
<1>4. cache' = cache /\ dlog' = [dlog EXCEPT ![n] = cache[lh[n]]]
  BY ONLY BaseInv, CopyInv, <1>0, <1>2, <1>3, Zenon DEF Bread, BaseInv, TypeOK
<1>5. Logged' = Logged
  BY Zenon, <1>0 DEF Logged
<1>6. DataInv'
  <2>1. ~panicked' => \A a \in Blocks : a \notin pinned' => cache'[a] \in {Absent, disk'[a]}
    BY Zenon, <1>0, <1>4 DEF CopyInv, DataInv
  <2>2. QED
    BY ONLY BaseInv, CopyInv, <1>0, <1>1, <1>4, <1>5, <2>1 DEF CopyInv, DataInv
<1>7. CommitInv'
  <2>1. \A j \in 1..n : dlog'[j] = cache'[lh[j]]
    <3>1. \A j \in 1..tail : dlog[j] = cache[lh[j]]
      BY <1>0, Zenon DEF CopyInv, CommitInv
    <3>2. dlog'[n] = cache[lh[n]] /\ \A j \in 1..LOGBLOCKS : j # n => dlog'[j] = dlog[j]
      BY <1>2, <1>4 DEF BaseInv, TypeOK
    <3>3. \A j \in 1..tail : j \in 1..LOGBLOCKS
      BY <1>1, <1>2, LogFacts
    <3>4. QED
      BY Zenon, <1>2, <1>4, <3>1, <3>2, <3>3
  <2>2. ASSUME NEW q \in Procs, pc'[q] \in CommitLabels
        PROVE  pc'[q] = "write_log" \/ (pc'[q] = "write_head" /\ n = Len(lh))
    <3>1. q = p
      BY <1>0, <1>1, <2>2, Zenon DEF BaseInv, TypeOK
    <3>2. QED
      BY <1>0, <3>1, Zenon DEF BaseInv, TypeOK
  <2>3. QED
    BY ONLY <1>0, <2>1, <2>2 DEF CommitInv, CommitLabels
<1>8. RecoverInv'
  BY <1>0, Zenon DEF RecoverInv
<1>9. QED
  BY <1>6, <1>7, <1>8 DEF CopyInv

\* write_head: the transaction is on disk.
LEMMA CopyWriteHead ==
  ASSUME BaseInv, CopyInv, NEW p \in Procs, WriteHead(p)
  PROVE  CopyInv'
<1>0. /\ pc[p] = "write_head" /\ boot = "done" /\ dhead' = lh /\ tail' = 0 /\ pc' = [pc EXCEPT ![p] = "install"]
      /\ UNCHANGED <<disk, dlog, cache, pinned, lh, committing, boot, panicked>>
  BY DEF WriteHead, Up, Goto
<1>1. committing /\ Logged = pinned /\ \A q \in Procs : pc[q] \in CommitLabels => q = p
  BY <1>0, Committer, Zenon DEF CommitLabels
<1>2. Logged' = Logged /\ pc'[p] = "install"
  BY <1>0, Zenon DEF Logged, BaseInv, TypeOK
<1>3. DataInv'
  BY ONLY BaseInv, CopyInv, <1>0, <1>1, <1>2 DEF CopyInv, DataInv
<1>4. CommitInv'
  <2>1. \A j \in 1..Len(lh) : j > 0 /\ lh[j] \in pinned /\ cache[lh[j]] = dlog[j]
    BY <1>0, <1>1, LogFacts DEF CopyInv, CommitInv
  <2>2. ASSUME NEW q \in Procs, pc'[q] \in CommitLabels PROVE pc'[q] = "install"
    BY ONLY <1>0, <1>1, <1>2, <2>2 DEF BaseInv, TypeOK
  <2>3. QED
    BY <1>0, <2>1, <2>2, Zenon DEF CommitInv, CommitLabels
<1>5. RecoverInv'
  BY <1>0, Zenon DEF RecoverInv
<1>6. QED
  BY <1>3, <1>4, <1>5 DEF CopyInv

\* What install_trans writes to disk, cache and loop variable.
LEMMA Installed ==
  ASSUME BaseInv, CopyInv, Install, tail < Len(lh)
  PROVE  LET n == tail + 1 IN
         /\ n \in 1..Len(lh) /\ lh[n] \in Blocks /\ tail' = n
         /\ \A j \in 1..Len(lh) : (j > n \/ j = n \/ j \in 1..tail) /\ (j # n => lh[j] # lh[n])
         /\ disk'[lh[n]] = dlog[n] /\ cache'[lh[n]] = dlog[n] /\ dlog[n] # Absent
         /\ \A a \in Blocks : a # lh[n] => disk'[a] = disk[a] /\ cache'[a] = cache[a]
<1> DEFINE n == tail + 1
<1>1. n \in 1..Len(lh) /\ n \in 1..LOGBLOCKS /\ lh[n] \in Blocks /\ tail \in Nat /\ Len(lh) \in Nat
  BY LogFacts
<1>2. \A j \in 1..Len(lh) : j > n \/ j = n \/ j \in 1..tail
  BY <1>1
<1>3. tail' = n /\ disk' = [disk EXCEPT ![lh[n]] = dlog[n]] /\ cache' = [cache EXCEPT ![lh[n]] = dlog[n]]
  BY DEF Install
<1> HIDE DEF n
<1>4. \A j \in 1..Len(lh) : j # n => lh[j] # lh[n]
  BY <1>1, Zenon DEF CopyInv, DataInv
<1>5. dlog[n] # Absent
  BY ONLY BaseInv, <1>1, LogAssumption DEF BaseInv, TypeOK
<1>6. /\ disk'[lh[n]] = dlog[n] /\ cache'[lh[n]] = dlog[n]
      /\ \A a \in Blocks : a # lh[n] => disk'[a] = disk[a] /\ cache'[a] = cache[a]
  BY <1>1, <1>3, Zenon DEF BaseInv, TypeOK
<1>7. QED
  BY <1>1, <1>2, <1>3, <1>4, <1>5, <1>6, Zenon DEF n

\* install_trans copies one block home.
LEMMA CopyInstall ==
  ASSUME BaseInv, CopyInv, NEW p \in Procs, InstallTrans(p)
  PROVE  CopyInv'
<1> DEFINE n == tail + 1
<1>0. /\ pc[p] = "install" /\ boot = "done" /\ pinned' = pinned \ {lh[n]}
      /\ pc' = [pc EXCEPT ![p] = IF n = Len(lh) THEN "clear" ELSE "install"]
      /\ UNCHANGED <<dlog, dhead, lh, committing, boot, panicked>> /\ Install
  BY DEF InstallTrans, Up, Goto
<1>1. committing /\ tail < Len(lh) /\ \A q \in Procs : pc[q] \in CommitLabels => q = p
  BY ONLY BaseInv, CopyInv, <1>0, Committer DEF CommitLabels
<1>2. /\ n \in 1..Len(lh) /\ lh[n] \in Blocks /\ tail' = n
      /\ \A j \in 1..Len(lh) : (j > n \/ j = n \/ j \in 1..tail) /\ (j # n => lh[j] # lh[n])
      /\ disk'[lh[n]] = dlog[n] /\ cache'[lh[n]] = dlog[n] /\ dlog[n] # Absent
      /\ \A a \in Blocks : a # lh[n] => disk'[a] = disk[a] /\ cache'[a] = cache[a]
  BY ONLY Zenon, BaseInv, CopyInv, <1>0, <1>1, Installed
<1>3. Logged' = Logged /\ pc'[p] \in {"clear", "install"} /\ (pc'[p] = "clear" => n = Len(lh))
  BY ONLY <1>0 DEF Logged, BaseInv, TypeOK
<1>4. /\ dhead = lh
      /\ \A j \in 1..Len(lh) : j > tail => lh[j] \in pinned /\ cache[lh[j]] = dlog[j]
      /\ \A j \in 1..Len(lh) : ~(j > tail) => lh[j] \notin pinned /\ disk[lh[j]] = dlog[j]
  BY ONLY BaseInv, CopyInv, <1>0, Zenon DEF CopyInv, CommitInv
<1>5. /\ \A j \in 1..Len(lh) : j > n => j > tail /\ j # n
      /\ \A j \in 1..Len(lh) : ~(j > n) /\ j # n => ~(j > tail)
      /\ ~(n > n) /\ \A j \in 1..Len(lh) : lh[j] \in Blocks
      /\ (n = Len(lh) => \A j \in 1..Len(lh) : ~(j > n))
  BY ONLY BaseInv, CopyInv, <1>2, LogFacts
<1> HIDE DEF n
<1>6. DataInv'
  <2>1. ~panicked' => \A a \in Blocks : a \notin pinned' => cache'[a] \in {Absent, disk'[a]}
    BY <1>0, <1>2, Zenon DEF CopyInv, DataInv
  <2>2. \A a \in pinned' : cache'[a] # Absent
    BY ONLY BaseInv, CopyInv, <1>0, <1>2, Zenon DEF CopyInv, DataInv, BaseInv, TypeOK
  <2>3. pinned' \subseteq Logged'
    BY ONLY BaseInv, CopyInv, <1>0, <1>3, Zenon DEF CopyInv, DataInv
  <2>4. QED
    BY <1>0, <1>1, <1>3, <2>1, <2>2, <2>3 DEF CopyInv, DataInv
<1>7. /\ \A j \in 1..Len(lh) : j > n => lh[j] \in pinned' /\ cache'[lh[j]] = dlog[j]
      /\ \A j \in 1..Len(lh) : ~(j > n) => lh[j] \notin pinned' /\ disk'[lh[j]] = dlog[j]
  <2>1. ASSUME NEW j \in 1..Len(lh), j > n PROVE lh[j] \in pinned' /\ cache'[lh[j]] = dlog[j]
    BY Zenon, <1>0, <1>2, <1>4, <1>5, <2>1
  <2>2. ASSUME NEW j \in 1..Len(lh), ~(j > n) PROVE lh[j] \notin pinned' /\ disk'[lh[j]] = dlog[j]
    <3>1. CASE j = n
      BY ONLY Zenon, <1>0, <1>2, <3>1
    <3>2. CASE j # n
      BY ONLY Zenon, <1>0, <1>2, <1>4, <1>5, <2>2, <3>2
    <3>3. QED
      BY ONLY <3>1, <3>2
  <2>3. QED
    BY Zenon, <2>1, <2>2
<1>8. n = Len(lh) => pinned' = {}
  <2>1. pinned' \subseteq Logged
    BY <1>0, Zenon DEF CopyInv, DataInv
  <2>2. QED
    BY ONLY <1>5, <1>7, <2>1 DEF Logged
<1>9. CommitInv'
  <2>1. ASSUME NEW q \in Procs, pc'[q] \in CommitLabels PROVE q = p
    BY ONLY <1>0, <1>1, <2>1 DEF BaseInv, TypeOK
  <2>2. QED
    BY Zenon, <1>0, <1>2, <1>3, <1>4, <1>5, <1>7, <1>8, <2>1 DEF CommitInv, CommitLabels
<1>10. RecoverInv'
  BY <1>0, Zenon DEF RecoverInv
<1>11. QED
  BY <1>6, <1>9, <1>10 DEF CopyInv

\* The second write_head: the transaction is erased.
LEMMA CopyClearHead ==
  ASSUME BaseInv, CopyInv, NEW p \in Procs, ClearHead(p)
  PROVE  CopyInv'
<1>0. /\ pc[p] = "clear" /\ boot = "done" /\ lh' = <<>> /\ dhead' = <<>> /\ pc' = [pc EXCEPT ![p] = "done"]
      /\ UNCHANGED <<disk, dlog, cache, pinned, committing, tail, boot, panicked>>
  BY DEF ClearHead, Up, Goto
<1>1. committing /\ pinned = {} /\ \A q \in Procs : pc[q] \in CommitLabels => q = p
  BY Zenon, <1>0, Committer DEF CommitLabels, CopyInv, CommitInv
<1>2. Logged' = {} /\ Len(lh') = 0 /\ Len(dhead') = 0
  BY <1>0 DEF Logged
<1>3. DataInv'
  <2>1. \A i, j \in 1..Len(lh') : lh'[i] = lh'[j] => i = j
    BY <1>2
  <2>2. \A i, j \in 1..Len(dhead') : dhead'[i] = dhead'[j] => i = j
    BY <1>2
  <2>3. ~panicked' => \A a \in Blocks : a \notin pinned' => cache'[a] \in {Absent, disk'[a]}
    BY <1>0, Zenon DEF CopyInv, DataInv
  <2>4. (\A a \in pinned' : cache'[a] # Absent) /\ pinned' \subseteq Logged' /\ Logged' \subseteq pinned'
    BY <1>0, <1>1, <1>2, Zenon
  <2>5. QED
    BY <1>0, <2>1, <2>2, <2>3, <2>4, Zenon DEF DataInv
<1>4. CommitInv'
  <2>1. ASSUME NEW q \in Procs, pc'[q] \in CommitLabels PROVE pc'[q] = "done"
    BY <1>0, <1>1, <2>1, Zenon DEF BaseInv, TypeOK
  <2>2. QED
    BY Zenon, <1>0, <2>1 DEF CommitInv, CommitLabels
<1>5. RecoverInv'
  BY <1>0, Zenon DEF RecoverInv
<1>6. QED
  BY <1>3, <1>4, <1>5 DEF CopyInv

\* end_op lets the next transaction start.
LEMMA CopyEndCommit ==
  ASSUME BaseInv, CopyInv, NEW p \in Procs, EndCommit(p)
  PROVE  CopyInv'
<1>0. /\ pc[p] = "done" /\ boot = "done"
      /\ pc' = [q \in Procs |-> IF q = p THEN "idle" ELSE IF pc[q] = "asleep" THEN "woken" ELSE pc[q]]
      /\ UNCHANGED <<disk, dlog, dhead, cache, pinned, lh, tail, boot, panicked>>
  BY DEF EndCommit, Up, WakeAll, durable
<1>1. lh = <<>> /\ dhead = <<>> /\ \A q \in Procs : pc[q] \in CommitLabels => q = p
  BY <1>0, Committer, Zenon DEF CommitLabels, CopyInv, CommitInv
<1>2. Logged' = Logged /\ Logged = {}
  BY <1>0, <1>1 DEF Logged
<1>3. \A q \in Procs : pc'[q] \notin CommitLabels
  BY ONLY <1>0, <1>1 DEF CommitLabels
<1>4. DataInv'
  BY ONLY BaseInv, CopyInv, <1>0, <1>1, <1>2 DEF CopyInv, DataInv
<1>5. CommitInv'
  BY ONLY <1>3, Zenon DEF CommitInv, CommitLabels
<1>6. RecoverInv'
  BY <1>0, Zenon DEF RecoverInv
<1>7. QED
  BY <1>4, <1>5, <1>6 DEF CopyInv

\* A crash forgets all but the disk.
LEMMA CopyCrash ==
  ASSUME BaseInv, CopyInv, Crash
  PROVE  CopyInv'
<1>0. /\ cache' = [b \in Blocks |-> Absent] /\ pinned' = {} /\ lh' = <<>> /\ boot' = "read_head"
      /\ pc' = [p \in Procs |-> "idle"] /\ UNCHANGED <<disk, dlog, dhead>>
  BY DEF Crash, durable
<1>1. Logged' = {} /\ Len(lh') = 0
  BY ONLY <1>0 DEF Logged
<1>2. DataInv'
  BY ONLY BaseInv, CopyInv, <1>0, <1>1 DEF CopyInv, DataInv
<1>3. CommitInv'
  BY <1>0, Zenon DEF CommitInv
<1>4. RecoverInv'
  BY <1>0, Zenon DEF RecoverInv
<1>5. QED
  BY <1>2, <1>3, <1>4 DEF CopyInv

\* Before recovery has ended all processes are idle.
LEMMA CopyRecover ==
  ASSUME BaseInv, CopyInv, Recover
  PROVE  CopyInv'
<1>0. pinned = {} /\ pc' = pc /\ pinned' = pinned /\ panicked' = panicked /\ \A q \in Procs : pc[q] = "idle"
  BY Zenon DEF Recover, ReadHead, RecoverInstall, RecoverClear, CopyInv, RecoverInv, BaseInv, PhaseInv
<1>1. CommitInv'
  BY <1>0, Zenon DEF CommitInv
<1>2. CASE ReadHead
  <2>0. /\ lh' = dhead /\ lh = <<>> /\ tail = 0 /\ UNCHANGED <<disk, dlog, dhead, cache, tail>>
        /\ boot' = IF dhead = <<>> THEN "clear" ELSE "install"
    BY Zenon, <1>2 DEF ReadHead, durable, CopyInv, RecoverInv, BaseInv, TailInv
  <2>1. DataInv'
    BY <1>0, <2>0 DEF CopyInv, DataInv
  <2>2. RecoverInv'
    <3>1. CASE dhead = <<>>
      <4>1. boot' = "clear" /\ Len(lh') = 0
        BY <2>0, <3>1
      <4>2. QED
        BY ONLY <1>0, <2>0, <4>1 DEF RecoverInv
    <3>2. CASE dhead # <<>>
      BY ONLY <1>0, <2>0, <3>2 DEF RecoverInv
    <3>3. QED
      BY <3>1, <3>2
  <2>3. QED
    BY <1>1, <2>1, <2>2 DEF CopyInv
<1>3. CASE RecoverInstall
  <2> DEFINE n == tail + 1
  <2>0. /\ boot = "install" /\ Install /\ boot' = (IF n = Len(lh) THEN "clear" ELSE "install")
        /\ UNCHANGED <<dlog, dhead, lh>>
    BY <1>3 DEF RecoverInstall
  <2>1. tail < Len(lh) /\ lh = dhead /\ \A j \in 1..tail : disk[lh[j]] = dlog[j]
    BY <2>0, Zenon DEF CopyInv, RecoverInv, BaseInv, TailInv
  <2>2. /\ n \in 1..Len(lh) /\ lh[n] \in Blocks /\ tail' = n
        /\ \A j \in 1..Len(lh) : (j > n \/ j = n \/ j \in 1..tail) /\ (j # n => lh[j] # lh[n])
        /\ disk'[lh[n]] = dlog[n] /\ cache'[lh[n]] = dlog[n] /\ dlog[n] # Absent
        /\ \A a \in Blocks : a # lh[n] => disk'[a] = disk[a] /\ cache'[a] = cache[a]
    BY Zenon, <2>0, <2>1, Installed
  <2>3. /\ \A j \in 1..n : j \in 1..Len(lh) /\ (j = n \/ j \in 1..tail)
        /\ \A j \in 1..Len(lh) : lh[j] \in Blocks
    BY ONLY BaseInv, CopyInv, <2>1, LogFacts
  <2> HIDE DEF n
  <2>4. \A j \in 1..n : disk'[lh[j]] = dlog[j]
    BY ONLY <2>1, <2>2, <2>3
  <2>5. RecoverInv'
    BY ONLY <1>0, <2>0, <2>1, <2>2, <2>4, Zenon DEF RecoverInv
  <2>6. DataInv'
    <3>1. ~panicked' => \A a \in Blocks : a \notin pinned' => cache'[a] \in {Absent, disk'[a]}
      BY <1>0, <2>2, Zenon DEF CopyInv, DataInv
    <3>2. boot' # "done"
      BY <2>0
    <3>3. QED
      BY <1>0, <2>0, <3>1, <3>2 DEF CopyInv, DataInv
  <2>7. QED
    BY <1>1, <2>5, <2>6 DEF CopyInv
<1>4. CASE RecoverClear
  <2>0. lh' = <<>> /\ dhead' = <<>> /\ UNCHANGED <<disk, cache>> /\ boot' = "done"
    BY <1>4 DEF RecoverClear
  <2>1. Logged' = {} /\ Len(lh') = 0 /\ Len(dhead') = 0
    BY <2>0 DEF Logged
  <2>2. DataInv'
    BY <1>0, <2>0, <2>1 DEF CopyInv, DataInv
  <2>3. RecoverInv'
    BY <2>0 DEF RecoverInv
  <2>4. QED
    BY <1>1, <2>2, <2>3 DEF CopyInv
<1>5. QED
  BY <1>2, <1>3, <1>4 DEF Recover

\* The copies between cache, log and home blocks are in step: see CopyInv.
THEOREM Copies == Spec => []CopyInv
<1> USE LogAssumption
<1>1. Init => CopyInv
  BY DEF Init, CopyInv, DataInv, CommitInv, RecoverInv, Logged, Open
<1>2. BaseInv /\ CopyInv /\ [Next]_vars => CopyInv'
  <2> SUFFICES ASSUME BaseInv, CopyInv, [Next]_vars PROVE CopyInv'
    OBVIOUS
  <2>1. ASSUME NEW p \in Procs, BeginOp(p) \/ BeginSleep(p) \/ Kill(p) \/ EndOp(p) PROVE CopyInv'
    <3>1. /\ UNCHANGED <<disk, dlog, dhead, cache, pinned, lh, tail, boot>> /\ ~panicked /\ committing' = committing
          /\ \A q \in Procs : pc[q] \in CommitLabels \/ pc'[q] \in CommitLabels => pc'[q] = pc[q]
      <4>1. pc \in [Procs -> Labels]
        BY DEF BaseInv, TypeOK
      <4>2. QED
        BY <2>1, <4>1, Zenon DEF BeginOp, BeginSleep, Kill, EndOp, Goto, WakeAll, Up, durable, CommitLabels, Labels
    <3>2. boot = "done" /\ ~committing' /\ Open' = {} => lh = <<>>
      <4>1. CASE EndOp(p)
        <5>1. Open' = Open \ {p} /\ IsFiniteSet(Open) /\ Cardinality(Open) > 1 /\ p \in Open
          BY <4>1, FS_Subset, Zenon DEF EndOp, WakeAll, Open, BaseInv, TypeOK, PhaseInv
        <5>2. Cardinality(Open') = Cardinality(Open) - 1 /\ Cardinality(Open) \in Nat
          BY Zenon, <5>1, FS_RemoveElement, FS_CardinalityType
        <5>3. Open' # {}
          BY <5>1, <5>2, FS_EmptySet
        <5>4. QED
          BY <5>3
      <4>2. CASE BeginOp(p)
        <5>1. p \in Open'
          BY <4>2, Zenon DEF BeginOp, Goto, Open, BaseInv, TypeOK
        <5>2. QED
          BY <5>1
      <4>3. CASE BeginSleep(p) \/ Kill(p)
        <5>1. Open' = Open
          BY <4>3, Zenon DEF BeginSleep, Kill, Goto, Open, BaseInv, TypeOK
        <5>2. QED
          BY <3>1, <5>1, Zenon DEF CopyInv, DataInv
      <4>4. QED
        BY <2>1, <4>1, <4>2, <4>3
    <3>3. QED
      BY Zenon, <3>1, <3>2, CopyFrame
  <2>2. ASSUME NEW b \in Blocks, Load(b) \/ Recycle(b) PROVE CopyInv'
    <3>1. b \notin pinned
      BY Zenon, <2>2 DEF Load, Recycle, CopyInv, DataInv
    <3>2. UNCHANGED <<disk, dlog, dhead, pinned, lh, tail, boot, panicked, committing, pc>>
      BY ONLY <2>2, Zenon DEF Load, Recycle, durable
    <3>3. cache' = [cache EXCEPT ![b] = disk[b]] \/ cache' = [cache EXCEPT ![b] = Absent]
      BY Zenon, <2>2 DEF Load, Recycle
    <3>4. QED
      BY ONLY BaseInv, CopyInv, <3>1, <3>2, <3>3, CacheFrame
  <2>3. CASE UNCHANGED vars
    <3>1. UNCHANGED <<disk, dlog, dhead, cache, pinned, lh, tail, boot, panicked, committing, pc>> /\ Open' = Open
      BY <2>3, Zenon DEF vars, durable, Open
    <3>2. boot = "done" /\ ~committing' /\ Open' = {} => lh = <<>>
      BY <3>1, Zenon DEF CopyInv, DataInv
    <3>3. QED
      BY Zenon, <3>1, <3>2, CopyFrame
  <2>4. ASSUME NEW p \in Procs, Commits(p) PROVE CopyInv'
    BY <2>4, CopyWriteLog, CopyWriteHead, CopyInstall, CopyClearHead, CopyEndCommit DEF Commits
  <2>5. QED
    BY Zenon, <2>1, <2>2, <2>3, <2>4, CopyLogWrite, CopyEndOpCommits, CopyCrash, CopyRecover
    DEF Next, Running, Finish
<1>3. QED
  BY <1>1, <1>2, Base, PTL DEF Spec

-----------------------------------------------------------------------------
(* Crash atomicity.                                                        *)

\* With an empty header recovery changes nothing.
LEMMA NothingToRecover ==
  ASSUME NEW d, NEW l
  PROVE  RecoveredFrom(d, l, <<>>) = [b \in Blocks |-> d[b]]
BY DEF RecoveredFrom

\* Recovery takes a logged block from the log and any other from its home.
LEMMA RecoversFrom ==
  ASSUME NEW d, NEW l, NEW h \in Seq(Blocks),
         \A i, j \in 1..Len(h) : h[i] = h[j] => i = j
  PROVE  /\ \A j \in 1..Len(h) : RecoveredFrom(d, l, h)[h[j]] = l[j]
         /\ \A b \in Blocks : (\A j \in 1..Len(h) : h[j] # b) => RecoveredFrom(d, l, h)[b] = d[b]
<1>1. ASSUME NEW j \in 1..Len(h) PROVE RecoveredFrom(d, l, h)[h[j]] = l[j]
  <2>1. h[j] \in Blocks
    OBVIOUS
  <2>2. (CHOOSE i \in 1..Len(h) : h[i] = h[j]) = j
    OBVIOUS
  <2>3. QED
    BY Zenon, <2>1, <2>2 DEF RecoveredFrom
<1>2. ASSUME NEW b \in Blocks, \A j \in 1..Len(h) : h[j] # b
      PROVE  RecoveredFrom(d, l, h)[b] = d[b]
  BY <1>2 DEF RecoveredFrom
<1>3. QED
  BY Zenon, <1>1, <1>2

\* The blocks that the header on disk names.
LEMMA RecoveredLogged ==
  ASSUME TypeOK, DataInv
  PROVE  \A j \in 1..Len(dhead) : Recovered[dhead[j]] = dlog[j]
<1>1. dhead \in Seq(Blocks) /\ \A i, j \in 1..Len(dhead) : dhead[i] = dhead[j] => i = j
  BY Zenon DEF TypeOK, DataInv
<1>2. \A j \in 1..Len(dhead) : RecoveredFrom(disk, dlog, dhead)[dhead[j]] = dlog[j]
  BY ONLY <1>1, RecoversFrom
<1>3. QED
  BY <1>2, Zenon DEF Recovered

\* What recovery produces is determined by those two facts.
LEMMA RecoversTo ==
  ASSUME NEW d, NEW l, NEW h \in Seq(Blocks), NEW f, f = [b \in Blocks |-> f[b]],
         \A i, j \in 1..Len(h) : h[i] = h[j] => i = j,
         \A j \in 1..Len(h) : f[h[j]] = l[j],
         \A b \in Blocks : (\A j \in 1..Len(h) : h[j] # b) => f[b] = d[b]
  PROVE  RecoveredFrom(d, l, h) = f
<1>1. ASSUME NEW b \in Blocks PROVE RecoveredFrom(d, l, h)[b] = f[b]
  <2>1. CASE \E j \in 1..Len(h) : h[j] = b
    <3>1. PICK j \in 1..Len(h) : h[j] = b
      BY <2>1
    <3>2. QED
      BY <3>1, RecoversFrom
  <2>2. CASE \A j \in 1..Len(h) : h[j] # b
    BY <2>2, RecoversFrom
  <2>3. QED
    BY <2>1, <2>2
<1>2. RecoveredFrom(d, l, h) = [b \in Blocks |-> RecoveredFrom(d, l, h)[b]]
  BY DEF RecoveredFrom
<1>3. QED
  BY Zenon, <1>1, <1>2

\* When end_op has returned to the last system call, all that the calls wrote
\* would survive a crash.
THEOREM CommittedIsDurable == Spec => []Durable
<1> USE LogAssumption
<1>1. BaseInv /\ CopyInv => Durable
  <2> SUFFICES ASSUME BaseInv, CopyInv, Up, outstanding = 0, ~committing
               PROVE  Recovered = Current
    BY DEF Durable
  <2>1. Open = {}
    BY Zenon, FS_Subset, FS_EmptySet DEF BaseInv, PhaseInv, Open
  <2>2. \A p \in Procs : pc[p] \notin CommitLabels
    BY DEF BaseInv, PhaseInv
  <2>3. lh = <<>> /\ dhead = <<>>
    BY <2>1, <2>2, Zenon DEF CopyInv, DataInv, Up, CommitLabels
  <2>4. pinned = {}
    BY <2>3 DEF CopyInv, DataInv, Logged
  <2>5. \A b \in Blocks : Bread(b) = disk[b]
    BY <2>4, Zenon DEF CopyInv, DataInv, Up, Bread
  <2>6. Recovered = [b \in Blocks |-> disk[b]]
    BY <2>3, NothingToRecover DEF Recovered
  <2>7. QED
    BY <2>5, <2>6 DEF Current, Up
<1>2. QED
  BY <1>1, Base, Copies, PTL

\* The log implements AtomicDisk for any constants: recovery from a crash at any
\* step, including a step of recovery, yields the state after the last commit.
THEOREM CrashAtomicity == Spec => ImplementsAtomicDisk
<1> USE LogAssumption
<1>1. Init => Atomic!Init
  <2> SUFFICES ASSUME Init PROVE Atomic!Init
    OBVIOUS
  <2>1. Recovered = [b \in Blocks |-> disk[b]]
    BY NothingToRecover, Zenon DEF Init, Recovered
  <2>2. Current = Recovered /\ Open = {}
    BY DEF Init, Current, Open
  <2>3. QED
    BY <2>1, <2>2, Zenon DEF Init, Atomic!Init
<1>2. BaseInv /\ CopyInv /\ [Next]_vars => [Atomic!Next]_(Atomic!dvars)
  <2> SUFFICES ASSUME BaseInv, CopyInv, [Next]_vars PROVE [Atomic!Next]_(Atomic!dvars)
    OBVIOUS
  <2>0. TypeOK /\ PhaseInv /\ TailInv /\ DataInv /\ CommitInv /\ RecoverInv
    BY DEF BaseInv, CopyInv
  <2> USE <2>0 DEF TypeOK, durable
  <2>1. ASSUME NEW p \in Procs, BeginOp(p) PROVE [Atomic!Next]_(Atomic!dvars)
    <3>1. Open' = Open \cup {p} /\ p \notin Open
      BY <2>1, Zenon DEF BeginOp, Goto, Open
    <3>2. Recovered' = Recovered
      BY <2>1, Zenon DEF BeginOp, Recovered
    <3>3. Current' = Current
      BY <2>1, <3>2, Zenon DEF BeginOp, Current, Bread
    <3>4. QED
      BY <3>1, <3>2, <3>3, Zenon DEF Atomic!Next, Atomic!Begin
  <2>2. ASSUME NEW p \in Procs, BeginSleep(p) PROVE [Atomic!Next]_(Atomic!dvars)
    <3>1. Open' = Open
      BY <2>2, Zenon DEF BeginSleep, Goto, WakeAll, Open
    <3>2. Recovered' = Recovered
      BY <2>2, Zenon DEF BeginSleep, Recovered
    <3>3. Current' = Current
      BY ONLY <2>2, <3>2, Zenon DEF BeginSleep, Current, Bread, Up
    <3>4. QED
      BY <3>1, <3>2, <3>3, Zenon DEF Atomic!dvars
  <2>3. ASSUME NEW p \in Procs, Kill(p) PROVE [Atomic!Next]_(Atomic!dvars)
    <3>1. Open' = Open
      BY ONLY <2>3 DEF Kill, Goto, WakeAll, Open
    <3>2. Recovered' = Recovered
      BY <2>3, Zenon DEF Kill, Recovered
    <3>3. Current' = Current
      BY <2>3, <3>2, Zenon DEF Kill, Current, Bread, Up
    <3>4. QED
      BY <3>1, <3>2, <3>3 DEF Atomic!dvars
  <2>4. ASSUME NEW p \in Procs, NEW b \in Blocks, NEW v \in Vals, LogWrite(p, b, v) PROVE [Atomic!Next]_(Atomic!dvars)
    <3>1. Open' = Open /\ p \in Open
      BY ONLY <2>4, Zenon DEF LogWrite, Open
    <3>2. Recovered' = Recovered
      BY <2>4, Zenon DEF LogWrite, Recovered
    <3>3. Current' = [Current EXCEPT ![b] = v]
      BY Zenon, <2>4 DEF LogWrite, Up, Current, Bread
    <3>4. QED
      BY Zenon, <3>1, <3>2, <3>3 DEF Atomic!Next, Atomic!Write
  <2>5. ASSUME NEW p \in Procs, EndOp(p) PROVE [Atomic!Next]_(Atomic!dvars)
    <3>1. Open' = Open \ {p} /\ p \in Open
      BY <2>5, Zenon DEF EndOp, Goto, WakeAll, Open
    <3>2. Recovered' = Recovered
      BY ONLY <2>5 DEF EndOp, Recovered
    <3>3. Current' = Current
      BY ONLY <2>5, <3>2, Zenon DEF EndOp, Current, Bread
    <3>4. QED
      BY ONLY <3>1, <3>2, <3>3 DEF Atomic!Next, Atomic!End
  <2>6. ASSUME NEW p \in Procs, EndOpCommits(p) PROVE [Atomic!Next]_(Atomic!dvars)
    <3>1. Open' = Open \ {p} /\ p \in Open
      BY ONLY <2>0, <2>6, Zenon DEF EndOpCommits, Goto, WakeAll, Open
    <3>2. Recovered' = Recovered
      BY ONLY <2>6 DEF EndOpCommits, Recovered
    <3>3. Current' = Current
      BY ONLY <2>6, <3>2, Zenon DEF EndOpCommits, Current, Bread
    <3>4. QED
      BY <3>1, <3>2, <3>3, Zenon DEF Atomic!Next, Atomic!End
  <2>7. ASSUME NEW p \in Procs, WriteLog(p) PROVE [Atomic!Next]_(Atomic!dvars)
    <3>1. Open' = Open
      BY <2>7, Zenon DEF WriteLog, Goto, Open
    <3>2. dhead = <<>> /\ dhead' = <<>> /\ disk' = disk
      BY ONLY <2>0, <2>7, Zenon DEF WriteLog, Up, PhaseInv, CommitLabels, DataInv
    <3>3. Recovered' = Recovered
      BY ONLY <3>2, NothingToRecover DEF Recovered
    <3>4. tail + 1 \in 1..Len(lh)
      BY ONLY <2>0, <2>7 DEF WriteLog, TailInv
    <3>5. Current' = Current
      BY <2>7, <3>4, Zenon DEF WriteLog, Up, Current, Bread
    <3>6. QED
      BY <3>1, <3>3, <3>5 DEF Atomic!dvars
  <2>8. ASSUME NEW p \in Procs, WriteHead(p) PROVE [Atomic!Next]_(Atomic!dvars)
    <3>1. Open' = Open /\ Open = {}
      BY ONLY <2>0, <2>8, Zenon DEF WriteHead, Goto, Open, PhaseInv, CommitLabels
    <3>2. Current' = Current /\ Current = [b \in Blocks |-> Bread(b)]
      BY <2>8, Zenon DEF WriteHead, Up, Current, Bread
    <3>3. Logged = pinned /\ ~panicked
      BY Zenon, <2>8 DEF WriteHead, Up, DataInv, PhaseInv, CommitLabels
    <3>4. ASSUME NEW j \in 1..Len(lh) PROVE Current[lh[j]] = dlog[j]
      <4>1. lh[j] \in Blocks /\ lh[j] \in pinned
        BY Zenon, <3>3 DEF Logged
      <4>2. cache[lh[j]] # Absent /\ cache[lh[j]] = dlog[j]
        BY Zenon, <2>8, <4>1 DEF WriteHead, DataInv, CommitInv
      <4>3. QED
        BY <3>2, <4>1, <4>2, Zenon DEF Bread
    <3>5. ASSUME NEW b \in Blocks, \A j \in 1..Len(lh) : lh[j] # b PROVE Current[b] = disk[b]
      <4>1. b \notin pinned
        BY Zenon, <3>3, <3>5 DEF Logged
      <4>2. QED
        BY <3>2, <3>3, <4>1, Zenon DEF DataInv, Bread
    <3>6. \A i, j \in 1..Len(lh) : lh[i] = lh[j] => i = j
      BY Zenon DEF DataInv
    <3>7. RecoveredFrom(disk, dlog, lh) = Current
      <4>1. Current = [b \in Blocks |-> Current[b]] /\ lh \in Seq(Blocks)
        BY Zenon, <3>2
      <4>2. QED
        BY ONLY <3>4, <3>5, <3>6, <4>1, RecoversTo
    <3>8. Recovered' = Current
      BY ONLY <2>8, <3>7 DEF WriteHead, Recovered
    <3>9. QED
      BY ONLY <3>1, <3>2, <3>8 DEF Atomic!Next, Atomic!Commit
  <2>9. ASSUME NEW p \in Procs, InstallTrans(p) PROVE [Atomic!Next]_(Atomic!dvars)
    <3>1. Open' = Open
      BY <2>9, Zenon DEF InstallTrans, Goto, Open
    <3>2. dhead = lh /\ tail + 1 \in 1..Len(lh) /\ lh[tail + 1] \in Blocks
      BY ONLY <2>0, <2>9 DEF InstallTrans, CommitInv, RecoverInv, TailInv
    <3>3. /\ disk' = [disk EXCEPT ![lh[tail + 1]] = dlog[tail + 1]]
          /\ cache' = [cache EXCEPT ![lh[tail + 1]] = dlog[tail + 1]]
          /\ dlog' = dlog /\ dhead' = dhead
      BY <2>9, Zenon DEF InstallTrans, Install
    <3>4. \A i, j \in 1..Len(dhead) : dhead[i] = dhead[j] => i = j
      BY Zenon DEF DataInv
    <3>5. Recovered' = Recovered
      <4>1. \A j \in 1..Len(dhead) : Recovered[dhead[j]] = dlog[j]
        BY RecoveredLogged, Zenon
      <4>2. \A b \in Blocks : (\A j \in 1..Len(dhead) : dhead[j] # b) => Recovered[b] = disk'[b]
        <5>1. ASSUME NEW b \in Blocks, \A j \in 1..Len(dhead) : dhead[j] # b
              PROVE  Recovered[b] = disk'[b]
          <6>1. disk'[b] = disk[b]
            BY Zenon, <3>2, <3>3, <5>1
          <6>2. Recovered[b] = disk[b]
            BY <5>1, Zenon DEF Recovered, RecoveredFrom
          <6>3. QED
            BY Zenon, <6>1, <6>2
        <5>2. QED
          BY Zenon, <5>1
      <4>3. Recovered = [b \in Blocks |-> Recovered[b]] /\ dhead \in Seq(Blocks)
        BY Zenon DEF Recovered, RecoveredFrom
      <4>4. RecoveredFrom(disk', dlog, dhead) = Recovered
        BY ONLY <3>4, <4>1, <4>2, <4>3, RecoversTo
      <4>5. QED
        BY <3>3, <4>4, Zenon DEF Recovered
    <3>6. cache[lh[tail + 1]] = dlog[tail + 1] /\ boot = "done" /\ boot' = "done"
      BY ONLY <2>0, <2>9, <3>2 DEF InstallTrans, Up, CommitInv
    <3>7. Current' = Current
      <4>1. cache[lh[tail + 1]] # Absent
        BY ONLY <2>0, <2>9, <3>2 DEF InstallTrans, CommitInv, DataInv
      <4>2. ASSUME NEW b \in Blocks PROVE Bread(b)' = Bread(b)
        BY <3>2, <3>3, <3>6, <4>1, Zenon DEF Bread
      <4>3. QED
        BY ONLY <3>6, <4>2, Zenon DEF Current
    <3>8. QED
      BY <3>1, <3>5, <3>7 DEF Atomic!dvars
  <2>10. ASSUME NEW p \in Procs, ClearHead(p) PROVE [Atomic!Next]_(Atomic!dvars)
    <3>1. Open' = Open
      BY <2>10, Zenon DEF ClearHead, Goto, Open
    <3>2. dhead = lh /\ \A j \in 1..Len(lh) : disk[lh[j]] = dlog[j]
      BY <2>10, Zenon DEF ClearHead, CommitInv, RecoverInv
    <3>3. dhead' = <<>> /\ UNCHANGED <<disk, dlog, cache>>
      BY <2>10, Zenon DEF ClearHead
    <3>4. Recovered' = [b \in Blocks |-> disk[b]]
      BY <3>3, NothingToRecover, Zenon DEF Recovered
    <3>5. Recovered = [b \in Blocks |-> disk[b]]
      <4>1. \A i, j \in 1..Len(dhead) : dhead[i] = dhead[j] => i = j
        BY DEF DataInv
      <4>2. [b \in Blocks |-> disk[b]] = disk /\ \A j \in 1..Len(dhead) : disk[dhead[j]] = dlog[j]
        BY Zenon, <3>2
      <4>3. RecoveredFrom(disk, dlog, dhead) = disk
        <5>1. disk = [b \in Blocks |-> disk[b]] /\ dhead \in Seq(Blocks)
          BY Zenon
        <5>2. QED
          BY ONLY <4>1, <4>2, <5>1, RecoversTo
      <4>4. QED
        BY Zenon, <4>2, <4>3 DEF Recovered
    <3>6. Current' = Current
      BY ONLY <2>10, <3>3, Zenon DEF ClearHead, Up, Current, Bread
    <3>7. QED
      BY ONLY <3>1, <3>4, <3>5, <3>6, Zenon DEF Atomic!dvars
  <2>11. ASSUME NEW p \in Procs, EndCommit(p) PROVE [Atomic!Next]_(Atomic!dvars)
    <3>1. Open' = Open
      BY ONLY <2>11, Zenon DEF EndCommit, Goto, WakeAll, Open
    <3>2. Recovered' = Recovered
      BY <2>11, Zenon DEF EndCommit, Recovered
    <3>3. Current' = Current
      BY <2>11, <3>2, Zenon DEF EndCommit, Current, Bread, Up
    <3>4. QED
      BY <3>1, <3>2, <3>3 DEF Atomic!dvars
  <2>12. ASSUME NEW b \in Blocks, Load(b) PROVE [Atomic!Next]_(Atomic!dvars)
    <3>1. Open' = Open
      BY <2>12, Zenon DEF Load, Goto, WakeAll, Open
    <3>2. Recovered' = Recovered
      BY ONLY <2>12, Zenon DEF Load, Recovered
    <3>3. Current' = Current
      BY <2>12, <3>2, Zenon DEF Load, Current, Bread, Up
    <3>4. QED
      BY ONLY <3>1, <3>2, <3>3 DEF Atomic!dvars
  <2>13. ASSUME NEW b \in Blocks, Recycle(b) PROVE [Atomic!Next]_(Atomic!dvars)
    <3>1. Open' = Open
      BY <2>13, Zenon DEF Recycle, Goto, WakeAll, Open
    <3>2. Recovered' = Recovered
      BY ONLY <2>13, Zenon DEF Recycle, Recovered
    <3>3. Current' = Current
      BY ONLY <2>0, <2>13, <3>2 DEF Recycle, Current, Bread, Up, DataInv
    <3>4. QED
      BY <3>1, <3>2, <3>3, Zenon DEF Atomic!dvars
  <2>14. ASSUME Crash PROVE [Atomic!Next]_(Atomic!dvars)
    <3>1. Open' = {}
      BY <2>14, Zenon DEF Crash, Open
    <3>2. Recovered' = Recovered
      BY <2>14, Zenon DEF Crash, Recovered
    <3>3. Current' = Recovered
      BY ONLY <2>14, <3>2, Zenon DEF Crash, Current
    <3>4. QED
      BY ONLY <3>1, <3>2, <3>3 DEF Atomic!Next, Atomic!Crash
  <2>15. ASSUME ReadHead PROVE [Atomic!Next]_(Atomic!dvars)
    <3>1. Open' = Open
      BY <2>15, Zenon DEF ReadHead, Goto, WakeAll, Open
    <3>2. Recovered' = Recovered
      BY <2>15, Zenon DEF ReadHead, Recovered
    <3>3. Current' = Current
      BY ONLY <2>15, <3>2, Zenon DEF ReadHead, Current, Bread, Up
    <3>4. QED
      BY ONLY <3>1, <3>2, <3>3 DEF Atomic!dvars
  <2>16. ASSUME RecoverInstall PROVE [Atomic!Next]_(Atomic!dvars)
    <3>1. Open' = Open
      BY ONLY <2>16 DEF RecoverInstall, Goto, Open
    <3>2. dhead = lh /\ tail + 1 \in 1..Len(lh) /\ lh[tail + 1] \in Blocks
      BY ONLY <2>0, <2>16 DEF RecoverInstall, CommitInv, RecoverInv, TailInv
    <3>3. /\ disk' = [disk EXCEPT ![lh[tail + 1]] = dlog[tail + 1]]
          /\ cache' = [cache EXCEPT ![lh[tail + 1]] = dlog[tail + 1]]
          /\ dlog' = dlog /\ dhead' = dhead
      BY ONLY <2>16, Zenon DEF RecoverInstall, Install
    <3>4. \A i, j \in 1..Len(dhead) : dhead[i] = dhead[j] => i = j
      BY Zenon DEF DataInv
    <3>5. Recovered' = Recovered
      <4>1. \A j \in 1..Len(dhead) : Recovered[dhead[j]] = dlog[j]
        BY RecoveredLogged, Zenon
      <4>2. \A b \in Blocks : (\A j \in 1..Len(dhead) : dhead[j] # b) => Recovered[b] = disk'[b]
        <5>1. ASSUME NEW b \in Blocks, \A j \in 1..Len(dhead) : dhead[j] # b
              PROVE  Recovered[b] = disk'[b]
          <6>1. disk'[b] = disk[b]
            BY Zenon, <3>2, <3>3, <5>1
          <6>2. Recovered[b] = disk[b]
            BY <5>1, Zenon DEF Recovered, RecoveredFrom
          <6>3. QED
            BY Zenon, <6>1, <6>2
        <5>2. QED
          BY Zenon, <5>1
      <4>3. Recovered = [b \in Blocks |-> Recovered[b]] /\ dhead \in Seq(Blocks)
        BY Zenon DEF Recovered, RecoveredFrom
      <4>4. RecoveredFrom(disk', dlog, dhead) = Recovered
        BY ONLY <3>4, <4>1, <4>2, <4>3, RecoversTo
      <4>5. QED
        BY <3>3, <4>4, Zenon DEF Recovered
    <3>6. Current' = Current
      BY <2>16, <3>5, Zenon DEF RecoverInstall, Current
    <3>7. QED
      BY <3>1, <3>5, <3>6, Zenon DEF Atomic!dvars
  <2>17. ASSUME RecoverClear PROVE [Atomic!Next]_(Atomic!dvars)
    <3>1. Open' = Open
      BY ONLY <2>17, Zenon DEF RecoverClear, Goto, Open
    <3>2. dhead = lh /\ \A j \in 1..Len(lh) : disk[lh[j]] = dlog[j]
      BY <2>17, Zenon DEF RecoverClear, CommitInv, RecoverInv
    <3>3. dhead' = <<>> /\ UNCHANGED <<disk, dlog, cache>>
      BY ONLY <2>17, Zenon DEF RecoverClear
    <3>4. Recovered' = [b \in Blocks |-> disk[b]]
      BY <3>3, NothingToRecover, Zenon DEF Recovered
    <3>5. Recovered = [b \in Blocks |-> disk[b]]
      <4>1. \A i, j \in 1..Len(dhead) : dhead[i] = dhead[j] => i = j
        BY DEF DataInv
      <4>2. [b \in Blocks |-> disk[b]] = disk /\ \A j \in 1..Len(dhead) : disk[dhead[j]] = dlog[j]
        BY ONLY Zenon, <2>0, <3>2
      <4>3. RecoveredFrom(disk, dlog, dhead) = disk
        <5>1. disk = [b \in Blocks |-> disk[b]] /\ dhead \in Seq(Blocks)
          BY Zenon
        <5>2. QED
          BY ONLY <4>1, <4>2, <5>1, RecoversTo
      <4>4. QED
        BY Zenon, <4>2, <4>3 DEF Recovered
    <3>6. \A b \in Blocks : Bread(b) = disk[b]
      BY ONLY <2>0, <2>17, Zenon DEF RecoverClear, RecoverInv, DataInv, PhaseInv, Bread
    <3>7. Current' = Current
      BY ONLY <2>17, <3>3, <3>5, <3>6, Zenon DEF RecoverClear, Current, Bread
    <3>8. QED
      BY ONLY <3>1, <3>4, <3>5, <3>7, Zenon DEF Atomic!dvars
  <2>18. CASE UNCHANGED vars
    BY <2>18, Zenon DEF vars, Atomic!dvars, Open, Recovered, Current, Bread
  <2> HIDE DEF TypeOK, durable
  <2>19. QED
    BY Zenon, <2>1, <2>2, <2>3, <2>4, <2>5, <2>6, <2>7, <2>8, <2>9, <2>10,
       <2>11, <2>12, <2>13, <2>14, <2>15, <2>16, <2>17, <2>18
    DEF Next, Running, Recover, Finish, Commits
<1>3. QED
  BY <1>1, <1>2, Base, Copies, PTL DEF Spec, ImplementsAtomicDisk, Atomic!Spec
=============================================================================
