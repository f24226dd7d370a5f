------------------------------ MODULE EAFITos -------------------------------
(***************************************************************************)
(* The interactive shell EAFITos (src/utils/apps/EAFITos.c): gets, the     *)
(* cutting of a line into words, and the commands.  The input is a         *)
(* sequence of words and line ends; a buffer of gets holds a number of     *)
(* them, so that a longer line is read in pieces, as the code does.  What  *)
(* commands print is left out.                                             *)
(***************************************************************************)
EXTENDS Integers, Sequences, FiniteSets, SequencesExt

CONSTANTS
  LINEMAX,     \* what line[] holds of a line, its end included
  REPLYMAX,    \* what confirm[] holds
  ARGMAX,      \* words kept, 5 in the code
  Inputs,      \* what the user types
  Files,       \* names of files
  Uncreatable  \* names that open cannot create

ASSUME EAFITosAssumption ==
  /\ LINEMAX \in Nat \ {0} /\ REPLYMAX \in Nat \ {0} /\ ARGMAX \in Nat \ {0}

EOL == "eol"

VARIABLES
  ein,         \* the input that is left
  epc,         \* "prompt", "command", "wait" or "exit"
  eargs,       \* args
  echild,      \* the child: "none", "runs" or "zombie"
  efiles,      \* the files there are
  etyped       \* history: the whole input, and the files at first

eafitVars == <<ein, epc, eargs, echild, efiles, etyped>>

EAFITosInit ==
  /\ ein \in Inputs /\ efiles \in SUBSET Files
  /\ epc = "prompt" /\ eargs = <<>> /\ echild = "none"
  /\ etyped = [input |-> ein, files |-> efiles]

\* gets: up to a line end, the size of the buffer, or the end of the input.
Stops(s, max) == {k \in 0..Len(s) : k = Len(s) \/ k = max \/ (k > 0 /\ s[k] = EOL)}
gets(s, max) == CHOOSE k \in Stops(s, max) : \A j \in Stops(s, max) : k <= j

Taken(max) == SubSeq(ein, 1, gets(ein, max))
Left(max)  == SubSeq(ein, gets(ein, max) + 1, Len(ein))

\* The words of a line, no more than ARGMAX.
Words(line) ==
  LET w == SelectSeq(line, LAMBDA c : c # EOL)
  IN SubSeq(w, 1, IF Len(w) < ARGMAX THEN Len(w) ELSE ARGMAX)

\* gets returns its buffer even at the end of the input: main reads on, for good.
GetLine ==
  /\ epc = "prompt"
  /\ ein' = Left(LINEMAX)
  /\ eargs' = Words(Taken(LINEMAX))
  /\ epc' = IF eargs' = <<>> THEN "prompt" ELSE "command"
  /\ UNCHANGED <<echild, efiles, etyped>>

Command(name) == epc = "command" /\ eargs[1] = name

Salir ==
  /\ Command("salir")
  /\ epc' = "exit"
  /\ UNCHANGED <<ein, eargs, echild, efiles, etyped>>

\* A command that changes nothing: something is printed.
Prints == epc' = "prompt" /\ UNCHANGED <<ein, eargs, echild, efiles, etyped>>

Ayuda   == Command("ayuda") /\ Prints
Tiempo  == Command("tiempo") /\ Prints
Limpiar == Command("limpiar") /\ Prints
Calc    == Command("calc") /\ Prints

Commands == {"salir", "ayuda", "listar", "leer", "tiempo", "limpiar", "crear", "eliminar", "calc"}
Unknown == epc = "command" /\ eargs[1] \notin Commands /\ Prints

\* Where a fork that succeeds leads.
AfterFork == "wait"

\* A program runs in a child.
Spawn ==
  /\ \/ echild' = "runs" /\ epc' = AfterFork
     \/ echild' = "none" /\ epc' = "prompt"           \* fork fails
  /\ UNCHANGED <<ein, eargs, efiles, etyped>>

Listar == Command("listar") /\ Spawn
Leer   == Command("leer") /\ IF Len(eargs) < 2 THEN Prints ELSE Spawn

\* The program ends, or exec fails and the child exits.
ChildEnds ==
  /\ echild = "runs"
  /\ echild' = "zombie"
  /\ UNCHANGED <<ein, epc, eargs, efiles, etyped>>

Wait0 ==
  /\ epc = "wait" /\ echild = "zombie"
  /\ echild' = "none" /\ epc' = "prompt"
  /\ UNCHANGED <<ein, eargs, efiles, etyped>>

Crear ==
  /\ Command("crear")
  /\ IF Len(eargs) # 2 THEN Prints
     ELSE /\ efiles' = efiles \cup ({eargs[2]} \ Uncreatable)
          /\ epc' = "prompt"
          /\ UNCHANGED <<ein, eargs, echild, etyped>>

\* Mutant: any reply will do.
AcceptsAny(reply) == TRUE
\* The reply begins with "si", as "sin" does, or is "s".
Accepts(reply) ==
  /\ reply # <<>>
  /\ \/ reply[1] \in {"si", "sin"}
     \/ reply[1] = "s" /\ (Len(reply) = 1 \/ reply[2] = EOL)

Eliminar ==
  /\ Command("eliminar")
  /\ IF Len(eargs) # 2 THEN Prints
     ELSE /\ ein' = Left(REPLYMAX)
          /\ efiles' = IF Accepts(Taken(REPLYMAX)) THEN efiles \ {eargs[2]} ELSE efiles
          /\ epc' = "prompt"
          /\ UNCHANGED <<eargs, echild, etyped>>

EAFITosNext ==
  \/ GetLine \/ Salir \/ Ayuda \/ Tiempo \/ Limpiar \/ Calc \/ Unknown
  \/ Listar \/ Leer \/ ChildEnds \/ Wait0 \/ Crear \/ Eliminar

-----------------------------------------------------------------------------
(* Properties                                                              *)

RECURSIVE Effect(_, _)

\* "s", or a line that begins with "si".
Yes(line) == line = <<"s">> \/ (line # <<>> /\ line[1] \in {"si", "sin"})

\* What a sequence of lines does to the files: a line that asks for a deletion is
\* followed by the line that confirms it.
Effect(lines, files) ==
  IF lines = <<>> \/ Head(lines) = <<"salir">> THEN files
  ELSE LET line == Head(lines)
           rest == Tail(lines)
           two  == Len(line) = 2
       IN CASE two /\ line[1] = "crear" -> Effect(rest, files \cup ({line[2]} \ Uncreatable))
            [] two /\ line[1] = "eliminar" ->
                 IF rest = <<>> THEN files
                 ELSE Effect(Tail(rest), IF Yes(rest[1]) THEN files \ {line[2]} ELSE files)
            [] OTHER -> Effect(rest, files)

\* The input as lines without their ends.
LinesOf(s) ==
  LET at == SetToSortSeq({k \in DOMAIN s : s[k] = EOL}, <)
  IN [i \in DOMAIN at |-> SubSeq(s, (IF i = 1 THEN 0 ELSE at[i - 1]) + 1, at[i] - 1)]

\* When the input has been used up, the files are those that its lines, read one
\* by one, leave: a reply is never taken for a command nor a command for a reply,
\* and nothing is deleted without a yes.  Lines are complete and fit the buffers.
FilesAsTyped ==
  LET lines == LinesOf(etyped.input) IN
  (epc = "exit" \/ (epc = "prompt" /\ ein = <<>>)) /\ (\A k \in DOMAIN lines : Len(lines[k]) < REPLYMAX) =>
    efiles = Effect(lines, etyped.files)

\* At its prompt and when it ends, the shell has no child, running or dead: every
\* command that forks has waited for it.
ChildReaped == epc # "wait" => echild = "none"

\* The shell does what its lines say, and leaves nothing behind.
CommandsObeyed == FilesAsTyped /\ ChildReaped
=============================================================================
