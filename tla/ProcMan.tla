------------------------------ MODULE ProcMan ------------------------------
(***************************************************************************)
(* ProcessManager (src/procman.cpp) and the code that drives it: the       *)
(* reaction of Watcher::listen() to a change (rebuild(), then restartAll() *)
(* through Config::restartProcesses()), SIGINT, and the destructors that   *)
(* run when main() leaves its loop.                                        *)
(*                                                                         *)
(* The module composes with Process: the manager's steps call methods of   *)
(* the Process objects, whose system calls are the steps of Process.       *)
(***************************************************************************)
EXTENDS Process, Sequences, FiniteSets

CONSTANTS
  Build,       \* mBuildStep, NULL when the config has no enabled "compile"
  Program,     \* mProgram, NULL when "program" is disabled
  Tests,       \* mProcesses, in the order of the config's "test" sections
  MaxPending   \* bound: matches of one buffer that the cooldown may accept

ASSUME RolesAssumption ==
  /\ Tests \in Seq(Obj)
  /\ \A m, n \in DOMAIN Tests : Tests[m] = Tests[n] => m = n
  /\ {Build, Program} \subseteq Obj \cup {NULL}
  /\ \A n \in DOMAIN Tests : Tests[n] \notin {Build, Program}
  /\ Build = Program => Build = NULL
ASSUME PendingAssumption == MaxPending \in Nat

VARIABLES
  phase,      \* what the thread is doing; "idle" is the test of main()'s loop
  i,          \* the tests a loop over mProcesses has called so far
  gRunning,   \* main.cpp's flag
  pending,    \* matches of the current buffer that may still trigger a build
  builds,     \* history: builds started for the change being handled
  passed      \* history: no test of this round has failed so far

mvars == <<phase, i, gRunning, pending, builds, passed>>
vars  == <<pvars, mvars>>

Loops   == {"halt", "tests", "killTests", "delTests"}
Phase   == {"idle", "listen", "rebuild", "build", "stop", "start",
            "killBuild", "killProgram", "delBuild", "delProgram",
            "gone", "crashed"} \cup Loops
Closing == {"killBuild", "killTests", "killProgram", "delTests", "delBuild",
            "delProgram", "gone"}

PMTypeOK ==
  /\ TypeOK
  /\ phase \in Phase
  /\ i \in 0..Len(Tests)
  /\ gRunning \in BOOLEAN
  /\ pending \in 0..MaxPending
  /\ builds \in 0..2
  /\ passed \in BOOLEAN
  /\ phase \in {"idle", "listen", "gone", "crashed"} => at = "idle"

PMInit ==
  /\ Init
  /\ phase = "idle" /\ i = 0 /\ gRunning = TRUE /\ pending = 0
  /\ builds = 0 /\ passed = TRUE

-----------------------------------------------------------------------------
(* The manager's thread, between two method calls.                         *)

Ready(ph) == at = "idle" /\ phase = ph

\* Call f on o.  Nothing checks mBuildStep and mProgram before they are used:
\* a NULL one makes the method dereference a null this.
Begin(f, o, ph) ==
  IF o = NULL THEN phase' = "crashed" /\ UNCHANGED cvars
              ELSE phase' = ph /\ Invoke(f, o)

Enter(ph) == phase' = ph /\ UNCHANGED cvars

\* A loop over mProcesses: the next test, or the statement after the loop.
NextTest(f)   == i < Len(Tests) /\ i' = i + 1 /\ Begin(f, Tests[i + 1], phase)
TestsDone     == i = Len(Tests) /\ UNCHANGED i
StartLoop(ph) == Enter(ph) /\ i' = 0

\* Mutant: listen() goes on although gRunning has been cleared.
ListenForever ==
  /\ Ready("idle")
  /\ pending' \in 0..MaxPending
  /\ Enter("listen")
  /\ UNCHANGED <<i, builds, passed>>

\* Watcher::listen(): read() returns a buffer of events.
Listen ==
  /\ Ready("idle") /\ gRunning
  /\ pending' \in 0..MaxPending
  /\ Enter("listen")
  /\ UNCHANGED <<i, builds, passed>>

\* A match that the cooldown lets through: Watcher::rebuild().
Change ==
  /\ Ready("listen") /\ pending > 0
  /\ pending' = pending - 1
  /\ Begin("runAndWait", Build, "rebuild")
  /\ builds' = 1
  /\ UNCHANGED <<i, passed>>

\* The rest of the buffer is refused by the cooldown, or there is none.
ListenReturns ==
  /\ Ready("listen")
  /\ pending' = 0
  /\ Enter("idle")
  /\ UNCHANGED <<i, builds, passed>>

\* Mutant: a build that fails is tried again at once.
RebuildRetries ==
  /\ Ready("rebuild")
  /\ \/ ret /\ StartLoop("halt")
     \/ ~ret /\ Begin("runAndWait", Build, "rebuild") /\ UNCHANGED i
  /\ UNCHANGED <<pending, builds, passed>>

RebuildReturns ==
  /\ Ready("rebuild")
  /\ \/ ret /\ StartLoop("halt")
     \/ ~ret /\ Enter("listen") /\ UNCHANGED i
  /\ UNCHANGED <<pending, builds, passed>>

\* restartAll(): haltConstructionProcs(), then runBuild().
Halt ==
  /\ Ready("halt")
  /\ \/ NextTest("kill") /\ UNCHANGED builds
     \/ TestsDone /\ Begin("runAndWait", Build, "build") /\ builds' = builds + 1
  /\ UNCHANGED <<pending, passed>>

\* Mutant: restartAll() does not look at what runBuild() returns.
BuildUnchecked ==
  /\ Ready("build")
  /\ StartLoop("tests") /\ passed' = TRUE
  /\ UNCHANGED <<pending, builds>>

BuildReturns ==
  /\ Ready("build")
  /\ \/ ret /\ StartLoop("tests") /\ passed' = TRUE
     \/ ~ret /\ Enter("listen") /\ UNCHANGED <<i, passed>>
  /\ UNCHANGED <<pending, builds>>

\* Mutant: the tests are started, and nobody waits for them.
TestsInBackground ==
  /\ Ready("tests")
  /\ passed' = (passed /\ (i > 0 => ret))
  /\ \/ NextTest("run")
     \/ TestsDone /\ Begin("kill", Program, "stop")
  /\ UNCHANGED <<pending, builds>>

\* Mutant: the program is started without halting the running one.
StartWithoutHalt ==
  /\ Ready("tests")
  /\ passed' = (passed /\ (i > 0 => ret))
  /\ \/ NextTest("runAndWait")
     \/ TestsDone /\ Begin("run", Program, "start")
  /\ UNCHANGED <<pending, builds>>

\* runProcesses(): a failed test is logged; then haltProgram().
RunTests ==
  /\ Ready("tests")
  /\ passed' = (passed /\ (i > 0 => ret))
  /\ \/ NextTest("runAndWait")
     \/ TestsDone /\ Begin("kill", Program, "stop")
  /\ UNCHANGED <<pending, builds>>

\* startProgram(), whatever haltProgram() has answered.
StopReturns ==
  /\ Ready("stop")
  /\ Begin("run", Program, "start")
  /\ UNCHANGED <<i, pending, builds, passed>>

StartReturns ==
  /\ Ready("start")
  /\ Enter("listen")
  /\ UNCHANGED <<i, pending, builds, passed>>

\* main() leaves its loop: ~Watcher() calls killAll() ...
Quit ==
  /\ Ready("idle") /\ ~gRunning
  /\ Begin("kill", Build, "killBuild")
  /\ UNCHANGED <<i, pending, builds, passed>>

KillBuildReturns ==
  /\ Ready("killBuild")
  /\ StartLoop("killTests")
  /\ UNCHANGED <<pending, builds, passed>>

KillTests ==
  /\ Ready("killTests")
  /\ NextTest("kill") \/ (TestsDone /\ Begin("kill", Program, "killProgram"))
  /\ UNCHANGED <<pending, builds, passed>>

KillProgramReturns ==
  /\ Ready("killProgram")
  /\ StartLoop("delTests")
  /\ UNCHANGED <<pending, builds, passed>>

\* ... and ~ProcessManager() deletes the objects, which kill once more.
DelTests ==
  /\ Ready("delTests")
  /\ NextTest("kill") \/ (TestsDone /\ Begin("kill", Build, "delBuild"))
  /\ UNCHANGED <<pending, builds, passed>>

DelBuildReturns ==
  /\ Ready("delBuild")
  /\ Begin("kill", Program, "delProgram")
  /\ UNCHANGED <<i, pending, builds, passed>>

DelProgramReturns ==
  /\ Ready("delProgram")
  /\ Enter("gone")
  /\ UNCHANGED <<i, pending, builds, passed>>

\* What the thread does by itself, and what it does because a file changed.
Proceed ==
  \/ Listen \/ ListenReturns
  \/ RebuildReturns \/ Halt \/ BuildReturns \/ RunTests
  \/ StopReturns \/ StartReturns
  \/ Quit \/ KillBuildReturns \/ KillTests \/ KillProgramReturns
  \/ DelTests \/ DelBuildReturns \/ DelProgramReturns

\* A step of the manager runs no system call.
Offline == UNCHANGED <<gRunning, mProc, kvars, hvars>>
Manager == (Change \/ Proceed) /\ Offline

\* The SIGINT handler: stop_program(), at any point of the thread.  Only the
\* first one can change anything.
Sigint ==
  /\ gRunning /\ phase \notin {"gone", "crashed"}
  /\ gRunning' = FALSE
  /\ Interrupt
  /\ UNCHANGED <<phase, i, pending, builds, passed>>

PMNext ==
  \/ Manager
  \/ Thread /\ UNCHANGED mvars
  \/ Kernel /\ UNCHANGED mvars
  \/ Sigint

PMSpec == PMInit /\ [][PMNext]_vars

\* The thread is scheduled, except that nobody has to change a file; commands
\* that are waited for exit, and so do children that were sent SIGTERM.
PMFairness ==
  /\ WF_vars((Proceed /\ Offline) \/ (Thread /\ UNCHANGED mvars))
  /\ WF_vars(ExitAwaited /\ UNCHANGED mvars)
  /\ \A p \in Pid : WF_vars(ExitOnTerm(p) /\ UNCHANGED mvars)

PMFairSpec == PMSpec /\ PMFairness

-----------------------------------------------------------------------------
(* What the manager implements.                                            *)

\* How an unreaped child looks from outside; there is at most one of each kind.
Face(p, alive) ==
  IF Zombie(p) THEN "done"
  ELSE IF state[p] = "terminating" THEN "stopping" ELSE alive

Look(children, alive) ==
  IF children = {} THEN "none" ELSE Face(CHOOSE p \in children : TRUE, alive)

Helpers  == {p \in Pid : IsChild(p) /\ forkedFor[p] # Program}
Programs == {p \in Pid : IsChild(p) /\ forkedFor[p] = Program}

Stage ==
  CASE phase \in {"idle", "listen"} -> "asleep"
    [] phase \in {"rebuild", "halt", "build"} -> "building"
    [] phase = "tests" -> "testing"
    [] phase \in {"stop", "start"} -> "swapping"
    [] phase \in Closing \ {"gone"} -> "closing"
    [] OTHER -> phase

\* After an interrupted waitpid() there is nothing to keep any more.
StageBar   == IF eintr THEN "interrupted" ELSE Stage
HelperBar  == IF eintr THEN "none" ELSE Look(Helpers, "busy")
ProgramBar == IF eintr THEN "none" ELSE Look(Programs, "up")
BuiltBar   == ~eintr /\ Build # NULL /\ succeeded[Build]

Abstract == INSTANCE Pipeline WITH
  Complete <- NULL \notin {Build, Program}, Mistakes <- Recycle,
  stage <- StageBar, helper <- HelperBar, program <- ProgramBar,
  built <- BuiltBar, on <- gRunning

\* Every step of the objects, the kernel and the manager is a step of the
\* promised pipeline or changes nothing of it: in particular the program is
\* never stopped before a build has succeeded, no second one is launched
\* beside it, and nothing is left when main() returns.
ImplementsPipeline == Abstract!Spec

-----------------------------------------------------------------------------
(* How many steps of the thread are still ahead, at most.                  *)

\* Until the method being executed returns.
CallAhead ==
  CASE at \in {"fork", "probe"} -> 3
    [] at \in {"peek", "term"} -> 2
    [] at \in {"wait", "reap"} -> 1
    [] OTHER -> 0

\* One change, from Change to StartReturns; the end of Renzoku takes as many.
Round == 8 * Len(Tests) + 19

\* The changes that are pending and the end.
Later == (pending + 1) * Round

\* After the method, until Renzoku is gone: every call that is still to come
\* takes four steps, with the one that makes it.
PhaseAhead ==
  LET n    == Len(Tests)
      rest == 4 * (n - i)
  IN CASE phase = "rebuild"     -> Later + 8 * n + 16
       [] phase = "halt"        -> Later + 4 * n + rest + 15
       [] phase = "build"       -> Later + 4 * n + 11
       [] phase = "tests"       -> Later + rest + 10
       [] phase = "stop"        -> Later + 6
       [] phase = "start"       -> Later + 2
       [] phase = "listen"      -> Later + 1
       [] phase = "idle"        -> Round
       [] phase = "killBuild"   -> 8 * n + 15
       [] phase = "killTests"   -> 4 * n + rest + 14
       [] phase = "killProgram" -> 4 * n + 10
       [] phase = "delTests"    -> rest + 9
       [] phase = "delBuild"    -> 5
       [] phase = "delProgram"  -> 1
       [] OTHER                 -> 0

Ahead == CallAhead + PhaseAhead

-----------------------------------------------------------------------------
(* Properties.                                                             *)

\* No object ever has two children: run() overwrites mProc, so a second child
\* would leave the first one running with nobody able to stop or reap it.
\* Only an interrupted waitpid() can make that happen.
OneChildPerObject ==
  ~eintr => \A p, q \in Pid :
              IsChild(p) /\ IsChild(q) /\ forkedFor[p] = forkedFor[q] => p = q

\* Between two calls of the manager the program is the only child there is:
\* no build or test survives the step that waits for it or kills it, even if
\* it outlived the failure or the early return of another call.
OnlyProgramSurvives ==
  at = "idle" /\ ~eintr =>
    \A p \in Pid : IsChild(p) => forkedFor[p] = Program

\* When main() has returned, no child of Renzoku is left, running or zombie.
NothingLeft ==
  phase = "gone" /\ ~eintr => \A p \in Pid : ~IsChild(p)

\* The waitpid() that SIGINT may interrupt leaves a child behind that nobody
\* may ever stop, but only that one: although run() overwrites mProc, the calls
\* that follow in the pipeline and at the end of main() lose no other.
OneLeftBehind ==
  at = "idle" =>
    Cardinality({p \in Pid : IsChild(p)})
      <= (IF phase = "gone" THEN 0 ELSE 1) + (IF eintr THEN 1 ELSE 0)

\* The tests run, and the old program is stopped and a new one started, only
\* when the latest build command really exited with status 0.
BuildGate ==
  phase \in {"tests", "stop", "start"} /\ ~eintr => succeeded[Build]

\* A program that is running gets SIGTERM from Renzoku only to be replaced
\* after a successful build, or when Renzoku itself terminates.  If the kernel
\* has given it the pid of a test, it gets it when the tests are halted: too
\* early, but not before a build has succeeded, either.
ProgramSpared ==
  [][\A p \in Pid :
       /\ ~eintr
       /\ forkedFor[p] = Program
       /\ state[p] = "running" /\ state'[p] = "terminating"
       => \/ phase \in Closing
          \/ (phase = "stop" \/ (phase = "halt" /\ Recycle)) /\ succeeded[Build]]_vars

\* Whatever builds, tests and fork() answer, and whenever SIGINT or an exit
\* comes: every step of the thread brings it nearer to the end of what it has
\* to do, and nothing but the next buffer of events gives it more.  In
\* particular, a change costs at most Round steps, and so does the end.
StepsCounted ==
  [][\/ Listen
     \/ Ahead' \in 0..Ahead /\ (Manager \/ Thread => Ahead' < Ahead)]_vars

\* The handling of every change comes to an end and listen() goes on.
ChangeServed == phase = "rebuild" ~> phase = "listen"

\* After SIGINT main() returns, whatever was being built, tested or started.
QuitCompletes == ~gRunning ~> phase = "gone"

\* Claims of the documentation that the code does not meet.

\* debian/NEWS: "build and test steps are merely run once" per change.
BuiltOnce == builds <= 1

\* doc/README: the program is relaunched "if there were unit tests and they
\* all passed".
TestsGate == phase \in {"stop", "start"} => passed

\* doc/README: "build the project if it is a project that needs to be built":
\* a project without a compile step is served like any other.
BuildOptional == phase # "crashed"
=============================================================================
