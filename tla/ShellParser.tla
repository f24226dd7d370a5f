---------------------------- MODULE ShellParser -----------------------------
(***************************************************************************)
(* The command lines of sh (user/sh.c): the recursive-descent parser, and  *)
(* the grammar that it is meant to recognise.  A line is the sequence of   *)
(* its tokens, as gettoken cuts it: "+" is >>, and what is not a symbol is *)
(* a word.                                                                 *)
(***************************************************************************)
EXTENDS Integers, Sequences, FiniteSets, SequencesExt

CONSTANT MAXARGS

ASSUME ShellParserAssumption == MAXARGS \in Nat \ {0}

Symbols == {"<", "|", ">", "&", ";", "(", ")", "+"}
RedirTokens == {"<", ">", "+"}

execcmd(argv)       == [type |-> "EXEC", argv |-> argv]
redircmd(cmd, r)    == [type |-> "REDIR", cmd |-> cmd, file |-> r.file, mode |-> r.mode, fd |-> r.fd]
pipecmd(left, right) == [type |-> "PIPE", left |-> left, right |-> right]
listcmd(left, right) == [type |-> "LIST", left |-> left, right |-> right]
backcmd(cmd)        == [type |-> "BACK", cmd |-> cmd]

\* A redirection: what parseredirs passes to redircmd for a token and a file.
Redir(tok, file) ==
  CASE tok = "<" -> [file |-> file, mode |-> "read", fd |-> 0]
    [] tok = ">" -> [file |-> file, mode |-> "truncate", fd |-> 1]
    [] tok = "+" -> [file |-> file, mode |-> "append", fd |-> 1]

\* cmd inside its redirections, the last one outermost.
Wrap(cmd, redirs) == FoldLeft(redircmd, cmd, redirs)

\* What a parsing function returns: the set of what it has built with the tokens
\* that are left, or the empty set when it panics.
Parsed(out, rest) == {[out |-> out, rest |-> rest]}
Panic == {}

peek(s, toks) == s # <<>> /\ Head(s) \in toks

\* The next token is a word: gettoken returns 'a'.
Word(s) == s # <<>> /\ Head(s) \notin Symbols

RECURSIVE parseredirs(_, _), parseargs(_, _, _), parseline(_), parsepipe(_), backs(_, _)

\* The redirections at the head of s, after those in redirs.
parseredirs(redirs, s) ==
  IF ~peek(s, RedirTokens) THEN Parsed(redirs, s)
  ELSE IF ~Word(Tail(s)) THEN Panic
  ELSE parseredirs(Append(redirs, Redir(s[1], s[2])), SubSeq(s, 3, Len(s)))

\* parseexec's loop, with the arguments and the redirections met so far.
parseargs(argv, redirs, s) ==
  UNION {IF r.rest = <<>> \/ peek(r.rest, {"|", ")", "&", ";"})
         THEN Parsed(Wrap(execcmd(argv), r.out), r.rest)
         ELSE IF ~Word(r.rest) \/ Len(argv) + 1 >= MAXARGS THEN Panic
         ELSE parseargs(Append(argv, Head(r.rest)), r.out, Tail(r.rest)) : r \in parseredirs(redirs, s)}

\* s begins with "(".
parseblock(s) ==
  UNION {IF ~peek(l.rest, {")"}) THEN Panic
         ELSE UNION {Parsed(Wrap(l.out, r.out), r.rest) : r \in parseredirs(<<>>, Tail(l.rest))} :
         l \in parseline(Tail(s))}

parseexec(s) == IF peek(s, {"("}) THEN parseblock(s) ELSE parseargs(<<>>, <<>>, s)

\* Mutant: a pipeline nests to the left.
PipeOfFirst(left, right) ==
  IF right.type = "PIPE" THEN pipecmd(pipecmd(left, right.left), right.right) ELSE pipecmd(left, right)
\* How the first command of a pipeline and the rest of it are put together.
PipeOf(left, right) == pipecmd(left, right)

parsepipe(s) ==
  UNION {IF ~peek(l.rest, {"|"}) THEN {l}
         ELSE UNION {Parsed(PipeOf(l.out, r.out), r.rest) : r \in parsepipe(Tail(l.rest))} :
         l \in parseexec(s)}

\* One backcmd for each "&".
backs(cmd, s) ==
  IF peek(s, {"&"}) THEN backs(backcmd(cmd), Tail(s)) ELSE Parsed(cmd, s)

parseline(s) ==
  UNION {IF ~peek(l.rest, {";"}) THEN {l}
         ELSE UNION {Parsed(listcmd(l.out, r.out), r.rest) : r \in parseline(Tail(l.rest))} :
         l \in UNION {backs(p.out, p.rest) : p \in parsepipe(s)}}

\* Leftovers are a syntax error.
parsecmd(s) == {r.out : r \in {x \in parseline(s) : x.rest = <<>>}}

-----------------------------------------------------------------------------
(* The grammar: the trees that a sequence of tokens stands for             *)

RECURSIVE LineTrees(_), JobTrees(_), PipeTrees(_)

Before(s, k) == SubSeq(s, 1, k - 1)
After(s, k)  == SubSeq(s, k + 1, Len(s))
Places(s, t) == {k \in DOMAIN s : s[k] = t}

\* Words and redirections only, every redirection followed by its file.
Plain(s) ==
  /\ \A k \in DOMAIN s : s[k] \in Symbols => s[k] \in RedirTokens
  /\ \A k \in DOMAIN s : s[k] \in RedirTokens => k < Len(s) /\ s[k + 1] \notin Symbols

Redirs(s) ==
  LET at == SetToSortSeq({k \in DOMAIN s : s[k] \in RedirTokens}, <)
  IN [i \in DOMAIN at |-> Redir(s[at[i]], s[at[i] + 1])]

Args(s) ==
  LET at == SetToSortSeq({k \in DOMAIN s : s[k] \notin Symbols /\ (k > 1 => s[k - 1] \notin RedirTokens)}, <)
  IN [i \in DOMAIN at |-> s[at[i]]]

ExecTrees(s) ==
  {Wrap(execcmd(Args(s)), Redirs(s)) : x \in {y \in {s} : Plain(y) /\ Len(Args(y)) < MAXARGS}}
  \cup UNION {{Wrap(t, Redirs(After(s, k))) : t \in LineTrees(SubSeq(s, 2, k - 1))} :
              k \in {j \in Places(s, ")") : /\ s[1] = "(" /\ Plain(After(s, j)) /\ Args(After(s, j)) = <<>>}}

PipeTrees(s) ==
  ExecTrees(s) \cup
  UNION {{pipecmd(l, r) : l \in ExecTrees(Before(s, k)), r \in PipeTrees(After(s, k))} : k \in Places(s, "|")}

JobTrees(s) ==
  PipeTrees(s) \cup
  (IF s # <<>> /\ Last(s) = "&" THEN {backcmd(t) : t \in JobTrees(Front(s))} ELSE {})

LineTrees(s) ==
  JobTrees(s) \cup
  UNION {{listcmd(l, r) : l \in JobTrees(Before(s, k)), r \in LineTrees(After(s, k))} : k \in Places(s, ";")}
=============================================================================
