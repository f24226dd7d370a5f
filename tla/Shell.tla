------------------------------- MODULE Shell --------------------------------
(***************************************************************************)
(* How sh runs a command line (user/sh.c: main, runcmd, fork1) and how     *)
(* init keeps it running (user/init.c).  Every process of the tree is      *)
(* here, with its file descriptors: the shell, the copies of it that       *)
(* interpret parts of a command, and the programs that they become.  The   *)
(* kernel's calls are used through what they promise: fork copies the      *)
(* descriptors, open, dup and pipe take the lowest free ones, exit closes  *)
(* all and gives the children to init.                                     *)
(***************************************************************************)
EXTENDS ShellParser

CONSTANTS
  Pids,        \* slots of the process table, those of init and the kernel aside
  NOFILE,      \* descriptors of a process
  Lines,       \* command lines that the user may type
  Missing,     \* programs and files that do not exist
  MAXCMDS      \* bound on the lines typed

ASSUME ShellAssumption == Pids \subseteq Nat \ {0} /\ Pids # {} /\ NOFILE \in Nat /\ NOFILE >= 5

VARIABLES
  proc,        \* the processes
  sh,          \* the shell that init waits for, or NoShell or Halted
  typed,       \* the lines typed so far
  forkFailed   \* history: a fork found no slot

shellVars == <<proc, sh, typed, forkFailed>>

NoShell == 0
Halted  == -1

(* What a descriptor refers to *)
Closed     == [kind |-> "closed", id |-> 0]
Console    == [kind |-> "console", id |-> 0]
File       == [kind |-> "file", id |-> 0]
ReadEnd(k) == [kind |-> "read", id |-> k]
WriteEnd(k) == [kind |-> "write", id |-> k]

Fds == 0..NOFILE - 1
Std == [n \in Fds |-> IF n <= 2 THEN Console ELSE Closed]
None == execcmd(<<>>)
Unused == [pc |-> "unused", cmd |-> None, par |-> 0, fd |-> [n \in Fds |-> Closed], bg |-> FALSE]

\* The shell after its first loop, with descriptors 0, 1 and 2 on the console.
Prompt == [Unused EXCEPT !.pc = "prompt", !.fd = Std]

ShellInit ==
  /\ sh = 1
  /\ proc = [p \in Pids |-> IF p = sh THEN Prompt ELSE Unused]
  /\ typed = 0 /\ forkFailed = FALSE

FreePids == {p \in Pids : proc[p].pc = "unused"}
Children(p) == {q \in Pids : proc[q].par = p /\ proc[q].pc # "unused"}
Holders(end) == {p \in Pids : \E n \in Fds : proc[p].fd[n] = end}

Least(S) == CHOOSE x \in S : \A y \in S : x <= y
close(fd, n)   == [fd EXCEPT ![n] = Closed]
Opened(fd, end) == [fd EXCEPT ![Least({n \in Fds : fd[n] = Closed})] = end]
dup(fd, n)     == Opened(fd, fd[n])

\* exit: the descriptors are closed, the children go to init.
Exited(p) ==
  [q \in Pids |->
     IF q = p THEN [proc[p] EXCEPT !.pc = "zombie", !.cmd = None, !.fd = Unused.fd]
     ELSE IF proc[q].par = p THEN [proc[q] EXCEPT !.par = 0]
     ELSE proc[q]]

Exit(p) == proc' = Exited(p) /\ UNCHANGED <<sh, forkFailed>>

\* p becomes me and has forked a child that runs cmd with descriptors fd.
Forked(p, me, cmd, fd, bg) ==
  \E q \in FreePids :
    /\ \A r \in FreePids : q <= r
    /\ proc' = [proc EXCEPT ![p] = me,
                            ![q] = [pc |-> "run", cmd |-> cmd, par |-> p, fd |-> fd, bg |-> bg]]
    /\ UNCHANGED <<sh, forkFailed>>

\* fork1: without a slot the process panics, be it the shell itself.
fork1(p, me, cmd, fd, bg) ==
  \/ Forked(p, me, cmd, fd, bg)
  \/ FreePids = {} /\ proc' = Exited(p) /\ forkFailed' = TRUE /\ UNCHANGED sh

\* main's loop.  The child parses the line, and exits on a syntax error.
GetCmd(p) ==
  /\ proc[p].pc = "prompt"
  /\ \E line \in Lines : \E parsed \in {parsecmd(line)} :
       \E cmd \in IF parsed = {} THEN {None} ELSE parsed :
         fork1(p, [proc[p] EXCEPT !.pc = "waitMain"], cmd, proc[p].fd, proc[p].bg)

\* The end of the input.
GetEof(p) == proc[p].pc = "prompt" /\ Exit(p)

Running(p, type) == proc[p].pc = "run" /\ proc[p].cmd.type = type

\* exec, which fails for a program that does not exist.
RunExec(p) ==
  /\ Running(p, "EXEC")
  /\ LET argv == proc[p].cmd.argv IN
     IF argv = <<>> \/ Head(argv) \in Missing THEN Exit(p)
     ELSE proc' = [proc EXCEPT ![p].pc = "prog"] /\ UNCHANGED <<sh, forkFailed>>

\* The descriptors after a redirection of n.
RedirFd(fd, n) == Opened(close(fd, n), File)

RunRedir(p) ==
  /\ Running(p, "REDIR")
  /\ LET cmd == proc[p].cmd IN
     IF cmd.mode = "read" /\ cmd.file \in Missing THEN Exit(p)
     ELSE /\ proc' = [proc EXCEPT ![p].cmd = cmd.cmd, ![p].fd = RedirFd(@, cmd.fd)]
          /\ UNCHANGED <<sh, forkFailed>>

\* The parent of a list's left-hand side.
ListWaits(p) == [proc[p] EXCEPT !.pc = "waitList"]

RunList(p) ==
  /\ Running(p, "LIST")
  /\ fork1(p, ListWaits(p), proc[p].cmd.left, proc[p].fd, proc[p].bg)

RunBack(p) ==
  /\ Running(p, "BACK")
  /\ fork1(p, [proc[p] EXCEPT !.cmd = None], proc[p].cmd.cmd, proc[p].fd, TRUE)

\* The two free descriptors and the number of a pipe that is made now.
PipeFds(fd) ==
  LET r == Least({n \in Fds : fd[n] = Closed})
      w == Least({n \in Fds \ {r} : fd[n] = Closed})
  IN <<r, w>>
NewPipe == Least({k \in 1..Cardinality(Pids) : Holders(ReadEnd(k)) \cup Holders(WriteEnd(k)) = {}})

\* pipe, and the fork of the left-hand side.  "pipe" is where the parent stands.
RunPipe(p) ==
  /\ Running(p, "PIPE")
  /\ LET fd == proc[p].fd
         k  == NewPipe
         f  == PipeFds(fd)
         both == [fd EXCEPT ![f[1]] = ReadEnd(k), ![f[2]] = WriteEnd(k)]
         left == close(close(dup(close(both, 1), f[2]), f[1]), f[2])
     IN \/ fork1(p, [proc[p] EXCEPT !.pc = "pipe", !.fd = both], proc[p].cmd.left, left, proc[p].bg)
        \/ Exit(p)                                    \* pipe fails

\* The descriptors of the pipe that p has made.
PipeEnds(p) == {n \in Fds \ 0..2 : proc[p].fd[n].kind \in {"read", "write"}}
EndOf(p, kind) == CHOOSE n \in PipeEnds(p) : proc[p].fd[n].kind = kind

\* The descriptors of the right-hand side.
RightFd(p) ==
  LET fd == proc[p].fd
  IN close(close(dup(close(fd, 0), EndOf(p, "read")), EndOf(p, "read")), EndOf(p, "write"))

PipeRight(p) ==
  /\ proc[p].pc = "pipe"
  /\ fork1(p, [proc[p] EXCEPT !.pc = "pipeClose"], proc[p].cmd.right, RightFd(p), proc[p].bg)

\* Mutant: the parent keeps the writing end.
PipeCloseKeeps(p) == close(proc[p].fd, EndOf(p, "read"))
\* The parent closes both ends of the pipe before it waits.
PipeCloseFd(p) == close(close(proc[p].fd, EndOf(p, "read")), EndOf(p, "write"))

PipeClose(p) ==
  /\ proc[p].pc = "pipeClose"
  /\ proc' = [proc EXCEPT ![p].pc = "waitPipe", ![p].fd = PipeCloseFd(p)]
  /\ UNCHANGED <<sh, forkFailed>>

\* Mutant: a pipeline ends with the first of its commands.
AfterWaitOnce(p) ==
  CASE proc[p].pc = "waitMain"  -> [proc[p] EXCEPT !.pc = "prompt"]
    [] proc[p].pc = "waitList"  -> [proc[p] EXCEPT !.pc = "run", !.cmd = @.right]
    [] proc[p].pc = "waitPipe"  -> [proc[p] EXCEPT !.pc = "run", !.cmd = None]
\* Where a wait(0) that has reaped a child leads; an empty command exits.
AfterWait(p) ==
  CASE proc[p].pc = "waitMain"  -> [proc[p] EXCEPT !.pc = "prompt"]
    [] proc[p].pc = "waitList"  -> [proc[p] EXCEPT !.pc = "run", !.cmd = @.right]
    [] proc[p].pc = "waitPipe"  -> [proc[p] EXCEPT !.pc = "waitPipe2"]
    [] proc[p].pc = "waitPipe2" -> [proc[p] EXCEPT !.pc = "run", !.cmd = None]

Waits == {"waitMain", "waitList", "waitPipe", "waitPipe2"}

\* wait(0) reaps a child that has exited.  It would return -1 to a process without
\* children; none of sh's calls comes to that.
Wait(p) ==
  /\ proc[p].pc \in Waits
  /\ \E q \in Children(p) :
       /\ proc[q].pc = "zombie"
       /\ proc' = [proc EXCEPT ![q] = Unused, ![p] = AfterWait(p)]
  /\ UNCHANGED <<sh, forkFailed>>

(* The programs: "cat" reads its input to the end, "gen" writes more than a  *)
(* pipe holds, "echo" neither.                                               *)
InputEnds(p) ==
  LET in == proc[p].fd[0]
  IN in.kind = "read" => Holders(WriteEnd(in.id)) = {}

OutputTaken(p) ==
  LET out == proc[p].fd[1]
  IN out.kind = "write" =>
       \/ Holders(ReadEnd(out.id)) = {}
       \/ \E q \in Pids : /\ proc[q].pc = "prog" /\ Head(proc[q].cmd.argv) = "cat"
                          /\ proc[q].fd[0] = ReadEnd(out.id)

ProgramEnds(p) ==
  /\ proc[p].pc = "prog"
  /\ Head(proc[p].cmd.argv) = "cat" => InputEnds(p)
  /\ Head(proc[p].cmd.argv) \in {"cat", "gen"} => OutputTaken(p)
  /\ Exit(p)

\* init reaps what it has inherited, and learns so that the shell has ended.
InitWait(p) ==
  /\ proc[p].pc = "zombie" /\ proc[p].par = 0 /\ sh \in Pids
  /\ proc' = [proc EXCEPT ![p] = Unused]
  /\ sh' = IF p = sh THEN NoShell ELSE sh
  /\ UNCHANGED forkFailed

\* init starts another shell.  Without a slot it exits, and the kernel panics.
InitForks ==
  /\ sh = NoShell
  /\ IF FreePids = {}
     THEN sh' = Halted /\ UNCHANGED proc
     ELSE sh' = Least(FreePids) /\ proc' = [proc EXCEPT ![sh'] = Prompt]
  /\ UNCHANGED <<typed, forkFailed>>

Step(p) ==
  \/ RunExec(p) \/ RunRedir(p) \/ RunList(p) \/ RunBack(p)
  \/ RunPipe(p) \/ PipeRight(p) \/ PipeClose(p) \/ Wait(p) \/ ProgramEnds(p) \/ InitWait(p)

Types(p) == sh # Halted /\ typed < MAXCMDS /\ typed' = typed + 1 /\ (GetCmd(p) \/ GetEof(p))
Runs(p)  == sh # Halted /\ Step(p) /\ UNCHANGED typed

ShellNext == InitForks \/ \E p \in Pids : Types(p) \/ Runs(p)

-----------------------------------------------------------------------------
(* Properties                                                              *)

Prompting == sh \in Pids /\ proc[sh].pc = "prompt"

\* A program starts with descriptors 0, 1 and 2 and no other, each open: no end of
\* a pipe leaks into a command, and a redirection takes the place it is meant for.
OnlyStdOpen ==
  \A p \in Pids : proc[p].pc = "prog" => \A n \in Fds : (proc[p].fd[n] # Closed) <=> n <= 2

\* When the shell prompts, what it was asked to run has ended, except for what
\* runs in the background: every wait(0) has waited for the right process.  A
\* process that interprets a command has no child that it has not waited for.
ForegroundDone ==
  /\ Prompting /\ ~forkFailed =>
       \A p \in Pids \ {sh} : proc[p].pc # "unused" => proc[p].bg
  /\ \A p \in Pids : proc[p].pc \in {"prompt", "prog"} => Children(p) = {}

\* Commands start with the right descriptors and are waited for.
CommandsRun == OnlyStdOpen /\ ForegroundDone

\* The prompt comes back: every command of every pipeline ends, because no process
\* keeps an end of a pipe open that its reader or its writer waits for, and every
\* process that is waited for is there or has been.  A shell that ends is
\* replaced, unless background jobs have taken every slot when init forks.
PromptReturns == ~Prompting ~> (Prompting \/ sh = Halted)
=============================================================================
