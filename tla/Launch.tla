------------------------------- MODULE Launch -------------------------------
(***************************************************************************)
(* From a command's text to a process that executes it, and what the user  *)
(* gets to read about it: the two sides of the fork() in Process::run()    *)
(* (src/process.cpp) over the array of Util::parseCommand(), with the      *)
(* loggers of src/log.cpp.                                                 *)
(*                                                                         *)
(* A message is in the buffer of the process that wrote it until it is     *)
(* flushed; fork() copies the buffer with everything else.                 *)
(***************************************************************************)
EXTENDS Util

CONSTANT MaxLaunch   \* bound: length of a command that is run

ASSUME LaunchAssumption == MaxLaunch \in Nat

VARIABLES
  logger,     \* StdoutLogger on a "terminal" or a "pipe"; "file": FileLogger
  parent,     \* where run() is in the process that called it
  child,      \* where it is in the child
  i,          \* the child's index into mCommand, from 0
  size,       \* what its first loop has counted
  filled,     \* characters its second loop has put in args_string
  buffer,     \* what each of the two has written and not flushed
  shown       \* what has reached the terminal, the pipe or the file

local == <<i, size, filled>>
lvars == <<uvars, logger, parent, child, local, buffer, shown>>

\* What is logged, by its level.  "before" stands for all the messages before
\* run(), and "fork" is what LOG_ERROR says.
Plain   == {"before", "inChild", "running", "pid", "fork"}
Severe  == {"forkFailed", "runFailed", "notRun"}
Message == Plain \cup Severe

ParentPoint == {"log", "run", "noFork", "errno", "forked", "peek", "failure",
                "true", "false", "ended"}
ChildPoint  == {"none", "born", "count", "join", "exec", "noExec", "exit",
                "program", "exited", "failed"}

LTypeOK ==
  /\ UTypeOK
  /\ logger \in {"terminal", "pipe", "file"}
  /\ parent \in ParentPoint /\ child \in ChildPoint
  /\ {i, size, filled} \subseteq 0..2 * MaxLaunch + 1
  /\ buffer \in [{"parent", "child"} -> Seq(Message)]
  /\ shown \in Seq(Message)
  /\ parent \in {"log", "run", "noFork", "errno"} => child = "none"

LInit ==
  /\ UInit
  /\ logger \in {"terminal", "pipe", "file"}
  /\ parent = "log" /\ child = "none" /\ i = 0 /\ size = 0 /\ filled = 0
  /\ buffer = [p \in {"parent", "child"} |-> <<>>] /\ shown = <<>>

-----------------------------------------------------------------------------
(* The loggers.                                                            *)

\* Mutant: a message does not end with a new line.
NoNewLine(m) == logger = "pipe" /\ m \in Severe

\* Mutant: errors are written to cout like everything else.
ErrorsToCout(m) == logger = "terminal"

\* What must be flushed at once: a line for the terminal, and what goes to
\* cerr, which is tied to cout and flushes it, too.
Immediate(m) == logger = "terminal" \/ (logger = "pipe" /\ m \in Severe)

Flush(p) == buffer' = [buffer EXCEPT ![p] = <<>>]

\* Mutant: cerr does not flush cout.
SayUntied(p, m) ==
  \/ Immediate(m) /\ shown' = Append(shown, m) /\ UNCHANGED buffer
  \/ /\ ~Immediate(m)
     /\ buffer' = [buffer EXCEPT ![p] = Append(@, m)] /\ UNCHANGED shown

\* A logger prints a message; a full buffer is flushed at any time.
Say(p, m) ==
  \/ shown' = shown \o buffer[p] \o <<m>> /\ Flush(p)
  \/ /\ ~Immediate(m)
     /\ buffer' = [buffer EXCEPT ![p] = Append(@, m)] /\ UNCHANGED shown

\* exit() flushes stdio's buffer, but not the one of a FileLogger on the stack
\* of main() or on the heap.
FlushStdio(p) ==
  /\ shown' = IF logger = "file" THEN shown ELSE shown \o buffer[p]
  /\ Flush(p)

-----------------------------------------------------------------------------
(* run() in the process that calls it.                                     *)

Parent(from, to) ==
  parent = from /\ parent' = to /\ UNCHANGED <<uvars, logger, local>>

\* What has been logged before, such as the command by Config::parseCommand().
Earlier ==
  /\ at = "parsed" /\ Len(command) <= MaxLaunch
  /\ Parent("log", "run") /\ Say("parent", "before") /\ UNCHANGED child

Fork ==
  /\ \/ Parent("run", "noFork") /\ UNCHANGED <<child, buffer>>
     \/ /\ Parent("run", "forked") /\ child' = "born"
        /\ buffer' = [buffer EXCEPT !["child"] = buffer["parent"]]
  /\ UNCHANGED shown

\* LOG and LOG_ERROR; the second uses printError(), which writes to cout.
ForkFailed ==
  /\ \/ Parent("noFork", "errno") /\ Say("parent", "forkFailed")
     \/ Parent("errno", "false") /\ Say("parent", "fork")
  /\ UNCHANGED child

Forked == Parent("forked", "peek") /\ Say("parent", "pid") /\ UNCHANGED child

\* waitpid(WNOHANG)
Peek ==
  /\ \/ child = "failed" /\ Parent("peek", "failure")
     \/ child # "failed" /\ Parent("peek", "true")
  /\ UNCHANGED <<child, buffer, shown>>

Failure == Parent("failure", "false") /\ Say("parent", "runFailed") /\ UNCHANGED child

\* Renzoku ends; the destructor of a logger closes its file.
End ==
  /\ \E from \in {"true", "false"} : Parent(from, "ended")
  /\ shown' = shown \o buffer["parent"] /\ Flush("parent")
  /\ UNCHANGED child

-----------------------------------------------------------------------------
(* run() in the child.                                                     *)

Child(from, to) == child = from /\ child' = to /\ UNCHANGED <<uvars, logger, parent>>
Quiet == UNCHANGED <<buffer, shown>>

Born ==
  /\ Child("born", "count") /\ Say("child", "inChild")
  /\ i' = 1 /\ UNCHANGED <<size, filled>>

\* Mutant: no room for the space after an argument.
CountNoSpace ==
  /\ child = "count" /\ i < Len(args)
  /\ size' = size + Len(args[i + 1]) /\ i' = i + 1
  /\ UNCHANGED <<uvars, logger, parent, child, filled>> /\ Quiet

\* size += strlen(mCommand[i]) + 1
CountArgument ==
  /\ child = "count" /\ i < Len(args)
  /\ size' = size + Len(args[i + 1]) + 1 /\ i' = i + 1
  /\ UNCHANGED <<uvars, logger, parent, child, filled>> /\ Quiet

\* new char[size + 1], and the index starts again.
Counted ==
  /\ i = Len(args) /\ Child("count", "join") /\ Quiet
  /\ i' = 1 /\ UNCHANGED <<size, filled>>

\* The array of an empty command ends before mCommand[1]: the child crashes,
\* or what it finds there has an end.
CountBeyond ==
  /\ i > Len(args) /\ Quiet /\ UNCHANGED local
  /\ Child("count", "failed") \/ Child("count", "exec")

\* strcat() of the argument and of the space.
JoinArgument ==
  /\ child = "join" /\ i < Len(args)
  /\ filled' = filled + Len(args[i + 1]) + 1 /\ i' = i + 1
  /\ UNCHANGED <<uvars, logger, parent, child, size>> /\ Quiet

Joined ==
  /\ i = Len(args) /\ Child("join", "exec") /\ Say("child", "running")
  /\ UNCHANGED local

\* The program takes the place of the child and of its buffer; without a name
\* there is none.
Exec ==
  /\ UNCHANGED <<local, shown>>
  /\ \/ args # <<>> /\ Child("exec", "program") /\ Flush("child")
     \/ Child("exec", "noExec") /\ UNCHANGED buffer

NotRun == Child("noExec", "exit") /\ Say("child", "notRun") /\ UNCHANGED local
Exit   == Child("exit", "failed") /\ FlushStdio("child") /\ UNCHANGED local

ProgramExits ==
  /\ Child("program", "exited") \/ Child("program", "failed")
  /\ UNCHANGED local /\ Quiet

LNext ==
  \/ UNext /\ UNCHANGED <<logger, parent, child, local, buffer, shown>>
  \/ Earlier \/ Fork \/ ForkFailed \/ Forked \/ Peek \/ Failure \/ End
  \/ Born \/ CountArgument \/ Counted \/ CountBeyond \/ JoinArgument \/ Joined
  \/ Exec \/ NotRun \/ Exit \/ ProgramExits

LSpec == LInit /\ [][LNext]_lvars

-----------------------------------------------------------------------------
(* Properties.                                                             *)

\* The child reads no further than the end of mCommand and writes no further
\* than the end of args_string, whatever parseCommand() has made of the
\* command; only the array of an empty command is read beyond its end.
ArgumentsFit ==
  child \in {"count", "join", "exec"} /\ args # <<>> =>
    i <= Len(args) /\ (child # "count" => filled <= size)

\* On a terminal no message appears twice, although fork() copies the buffer
\* and both processes go on writing.
TerminalOnce == logger = "terminal" => IsInjective(shown)

\* The place where a message appears first.
First(m) == SelectInSeq(shown, LAMBDA x : x = m)

\* When Renzoku has ended, what it has said before run() and what has become of
\* the fork() have been shown, and no two of its messages that have been shown
\* have changed places, the report of a failed run() included, although errors
\* take another way than the rest and a child may have flushed a copy.
NothingLost ==
  parent = "ended" =>
    /\ First("before") > 0
    /\ IF child = "none" THEN First("forkFailed") > 0 ELSE First("pid") > 0
    /\ First("forkFailed") > 0 =>
         First("before") < First("forkFailed") /\ First("forkFailed") < First("fork")
    /\ First("pid") > 0 => First("before") < First("pid")
    /\ First("runFailed") > 0 => First("pid") < First("runFailed")

\* A command that could not be executed, and a run() that has answered FALSE,
\* have been reported when the next step is taken.  A FileLogger may keep the
\* report of run() in its buffer and loses the one of the child for good.
FailureReported ==
  logger # "file" =>
    /\ child = "exit" => First("notRun") > 0
    /\ parent = "false" => First("forkFailed") > 0 \/ First("runFailed") > 0
=============================================================================
