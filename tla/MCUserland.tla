----------------------------- MODULE MCUserland -----------------------------
(***************************************************************************)
(* User programs, for model checking.  Each runs in an address space of    *)
(* its own, so each behaviour of this module runs one of them: the shell,  *)
(* its parser on a line that grows by a token at a time, malloc, grep or   *)
(* EAFITos.                                                                *)
(***************************************************************************)
EXTENDS Shell, Umalloc, Grep, EAFITos

CONSTANTS
  Tokens,      \* of the lines that are parsed
  MAXTOKENS    \* bound on their length

VARIABLES
  program,     \* the program that runs
  draft        \* the line that the parser is given

allVars == <<program, draft, shellVars, heapVars, grepVars, eafitVars>>

\* The initial state of a program that does not run is of no interest: its input
\* is empty.
NoGrep == gpat = <<>> /\ gfiles = <<>> /\ gin = <<>> /\ gbuf = <<>> /\ gout = <<>> /\ ghist = <<>> /\ gpc = "exit"
NoEAFITos == ein = <<>> /\ epc = "exit" /\ eargs = <<>> /\ echild = "none" /\ efiles = {} /\ etyped = [input |-> <<>>, files |-> {}]

Init ==
  /\ program \in {"sh", "parser", "malloc", "grep", "EAFITos"}
  /\ draft = <<>>
  /\ ShellInit
  /\ UmallocInit
  /\ IF program = "grep" THEN GrepInit ELSE NoGrep
  /\ IF program = "EAFITos" THEN EAFITosInit ELSE NoEAFITos

\* Another token of the line.
TypeToken == Len(draft) < MAXTOKENS /\ \E t \in Tokens : draft' = Append(draft, t)

Next ==
  \/ program = "sh" /\ ShellNext /\ UNCHANGED <<program, draft, heapVars, grepVars, eafitVars>>
  \/ program = "parser" /\ TypeToken /\ UNCHANGED <<program, shellVars, heapVars, grepVars, eafitVars>>
  \/ program = "malloc" /\ UmallocNext /\ UNCHANGED <<program, draft, shellVars, grepVars, eafitVars>>
  \/ program = "grep" /\ GrepNext /\ UNCHANGED <<program, draft, shellVars, heapVars, eafitVars>>
  \/ program = "EAFITos" /\ EAFITosNext /\ UNCHANGED <<program, draft, shellVars, heapVars, grepVars>>

\* The scheduler runs every process of the shell that can run.
Fairness ==
  /\ WF_shellVars(program = "sh" /\ InitForks)
  /\ \A p \in Pids : WF_shellVars(program = "sh" /\ Runs(p))

Spec == Init /\ [][Next]_allVars /\ Fairness

\* The parser of sh accepts exactly the lines of the grammar, none of which is
\* ambiguous, and builds the tree that the grammar gives them: "|" binds tighter
\* than "&", "&" tighter than ";", and redirections belong to their command.
ParsesGrammar ==
  parsecmd(draft) = LineTrees(draft) /\ Cardinality(LineTrees(draft)) <= 1

(* Values *)

AllTokens == (Symbols \ {"+"}) \cup {"a"}

CommandLines ==
  { <<"gen", "|", "cat">>, <<"gen", "|", "gen", "|", "cat", ">", "f", "&">>,
    <<"cat", "<", "f", "&">>, <<"(", "echo", ";", "gen", ")", "|", "cat">>,
    <<"gen", "|", "echo", ";", "x">>, <<"(", "cat", "&", ")", "|", "cat">>,
    <<"|", "cat", "<", "y">>, <<"a", ")">> }

SomePatterns ==
  { <<>>, <<"a">>, <<"^", "a", "$">>, <<"a", "*", "b", "$">>, <<"^", "a", "*", "$">>, <<".", "a">>,
    <<"^", ".", "*", "b">>, <<"b", ".", "*", "a">>, <<"$">>, <<"a", "b", "*", "a">> }

SomeFiles ==
  {<<t>> : t \in [1..5 -> {"a", "b", NL}]} \cup {<<t, <<"a", NL>>>> : t \in [1..2 -> {"a", "b", NL}]}

TypedLines ==
  { <<"crear", "f">>, <<"eliminar", "f">>, <<"si">>, <<"s">>, <<"s", "si">>, <<"sin">>, <<"no">>, <<>>,
    <<"salir">>, <<"listar">>, <<"leer">>, <<"leer", "f">>, <<"calc", "si">>, <<"ayuda">>, <<"tiempo">>, <<"limpiar">>, <<"crear", "g">>, <<"crear">>, <<"eliminar">>,
    <<"leer", "f", "f", "f", "eliminar", "f">> }

SomeInputs ==
  {FlattenSeq([k \in DOMAIN l |-> Append(l[k], EOL)]) : l \in [1..3 -> TypedLines]}
=============================================================================
