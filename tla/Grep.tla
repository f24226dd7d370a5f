-------------------------------- MODULE Grep --------------------------------
(***************************************************************************)
(* grep (user/grep.c): the matcher, and the loop that cuts what read       *)
(* returns into lines.  read returns as much as it likes, as it does for a *)
(* pipe.  Texts and patterns are sequences of characters; NL ends a line.  *)
(***************************************************************************)
EXTENDS Integers, Sequences, FiniteSets, SequencesExt

CONSTANTS
  BUFSIZE,     \* sizeof(buf)
  Patterns,
  FileLists    \* what the files on the command line hold

ASSUME GrepAssumption == BUFSIZE \in Nat /\ BUFSIZE >= 2

NL == "nl"

VARIABLES
  gpat,        \* the pattern
  gfiles,      \* the files that are not yet open
  gin,         \* what is left of the open file
  gbuf,        \* buf[0..m-1]
  gout,        \* the lines written, in order
  ghist,       \* history: the files that have been searched
  gpc          \* "open", "read" or "exit"

grepVars == <<gpat, gfiles, gin, gbuf, gout, ghist, gpc>>

GrepInit ==
  /\ gpat \in Patterns
  /\ gfiles \in FileLists
  /\ gin = <<>> /\ gbuf = <<>> /\ gout = <<>> /\ ghist = <<>> /\ gpc = "open"

Rest(s, n) == SubSeq(s, n + 1, Len(s))

RECURSIVE matchhere(_, _), matchstar(_, _, _)

\* re at the beginning of text
matchhere(re, text) ==
  \/ re = <<>>
  \/ /\ Len(re) >= 2 /\ re[2] = "*"
     /\ matchstar(re[1], Rest(re, 2), text)
  \/ /\ ~(Len(re) >= 2 /\ re[2] = "*")
     /\ IF re = <<"$">> THEN text = <<>>
        ELSE /\ re # <<>> /\ text # <<>>
             /\ re[1] = "." \/ re[1] = text[1]
             /\ matchhere(Tail(re), Tail(text))

\* c*re at the beginning of text
matchstar(c, re, text) ==
  \/ matchhere(re, text)
  \/ text # <<>> /\ (text[1] = c \/ c = ".") /\ matchstar(c, re, Tail(text))

match(re, text) ==
  IF re # <<>> /\ re[1] = "^" THEN matchhere(Tail(re), text)
  ELSE \E k \in 0..Len(text) : matchhere(re, Rest(text, k))

\* main: the next file, which may not exist, or the end.
GrepOpen ==
  /\ gpc = "open"
  /\ IF gfiles = <<>>
     THEN gpc' = "exit" /\ UNCHANGED <<gfiles, gin, ghist>>
     ELSE \/ /\ gpc' = "read" /\ gin' = Head(gfiles) /\ gfiles' = Tail(gfiles)
             /\ ghist' = Append(ghist, Head(gfiles))
          \/ gpc' = "exit" /\ UNCHANGED <<gfiles, gin, ghist>>     \* cannot open
  /\ gbuf' = <<>>
  /\ UNCHANGED <<gpat, gout>>

\* The lines that end in s, and what follows the last of them.
Ends(s) == {k \in DOMAIN s : s[k] = NL}
Complete(s) ==
  LET at == SetToSortSeq(Ends(s), <)
  IN [i \in DOMAIN at |-> SubSeq(s, (IF i = 1 THEN 0 ELSE at[i - 1]) + 1, at[i] - 1)]
Partial(s) == Rest(s, IF Ends(s) = {} THEN 0 ELSE CHOOSE k \in Ends(s) : \A j \in Ends(s) : j <= k)

\* Mutant: what follows the last line end is dropped.
LeftoverNone(s) == <<>>
\* What memmove keeps at the start of the buffer.
Leftover(s) == Partial(s)

Space == BUFSIZE - Len(gbuf) - 1

\* A read of n > 0 bytes and the lines that it completes.
GrepRead ==
  /\ gpc = "read"
  /\ \E n \in 1..Space :
       /\ n <= Len(gin)
       /\ LET s == gbuf \o SubSeq(gin, 1, n) IN
          /\ gout' = gout \o SelectSeq(Complete(s), LAMBDA line : match(gpat, line))
          /\ gbuf' = Leftover(s)
       /\ gin' = Rest(gin, n)
  /\ UNCHANGED <<gpat, gfiles, ghist, gpc>>

\* read returns 0: the file is at its end, or the buffer holds no line end.
GrepEof ==
  /\ gpc = "read"
  /\ gin = <<>> \/ Space = 0
  /\ gpc' = "open"
  /\ UNCHANGED <<gpat, gfiles, gin, gbuf, gout, ghist>>

GrepNext == GrepOpen \/ GrepRead \/ GrepEof

-----------------------------------------------------------------------------
(* Properties                                                              *)

\* The texts that a pattern without anchors stands for.
RECURSIVE In(_, _)
In(text, re) ==
  IF re = <<>> THEN text = <<>>
  ELSE IF Len(re) >= 2 /\ re[2] = "*"
  THEN \E k \in 0..Len(text) :
         (\A i \in 1..k : re[1] \in {".", text[i]}) /\ In(Rest(text, k), Rest(re, 2))
  ELSE text # <<>> /\ re[1] \in {".", text[1]} /\ In(Tail(text), Tail(re))

\* A part of the text is one of those, where the anchors say.
Matches(re, text) ==
  LET first == re # <<>> /\ re[1] = "^"
      last  == re # <<>> /\ Last(re) = "$"
      core  == SubSeq(re, IF first THEN 2 ELSE 1, IF last THEN Len(re) - 1 ELSE Len(re))
  IN \E i \in 1..Len(text) + 1, j \in 0..Len(text) :
       (first => i = 1) /\ (last => j = Len(text)) /\ i <= j + 1 /\ In(SubSeq(text, i, j), core)

Fits(text) == \A line \in {Partial(text)} \cup {Complete(text)[k] : k \in DOMAIN Complete(text)} :
                Len(line) < BUFSIZE - 1

\* grep writes the complete lines that the pattern's language has a part of, once
\* each and in order, however read cuts the input, as long as every line of it
\* fits into the buffer.
GrepExact ==
  gpc = "open" /\ (\A k \in DOMAIN ghist : Fits(ghist[k])) =>
    gout = SelectSeq(FlattenSeq([k \in DOMAIN ghist |-> Complete(ghist[k])]),
                     LAMBDA line : Matches(gpat, line))
=============================================================================
