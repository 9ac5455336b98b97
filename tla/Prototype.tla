----------------------------- MODULE Prototype -----------------------------
(***************************************************************************)
(* The prototype Renzoku was written from (oldwatcher.c): one process that *)
(* reads inotify events, rebuilds and replaces the program it has started. *)
(*                                                                         *)
(* runprog() returns in the child, too, when the program cannot be         *)
(* executed: the child then goes on as a watcher of its own, and so the    *)
(* module is about any number of watchers.                                 *)
(***************************************************************************)
EXTENDS Integers, FiniteSets

CONSTANTS
  Main,      \* the process the user has started
  Pid,       \* the pids fork() may return
  None,      \* no process; also every pid up to 1
  MaxEvents  \* bound: events of one read() that ask for a rebuild

ASSUME NamesAssumption  == Main \notin Pid /\ None \notin Pid \cup {Main}
ASSUME EventsAssumption == MaxEvents \in Nat \ {0}

VARIABLES
  state,     \* what a process executes, or that it has exited or is unused
  parent,    \* who may wait for it; None: init
  told,      \* the processes that were sent SIGTERM
  at,        \* where a watcher is
  gRunning,  \* its flag
  events,    \* events of its buffer that it has not finished
  progpid,   \* its program
  build,     \* the child its rebuild() waits for
  built,     \* history: its last build has exited with status 0
  faults     \* history: what has gone wrong so far

vars == <<state, parent, told, at, gRunning, events, progpid, build, built, faults>>

Proc  == Pid \cup {Main}
Point == {"test", "read", "event", "rebuild", "wait", "kill", "reap",
          "launch", "quit", "quitReap", "end"}
Fault == {"fork", "exec", "interrupted", "missed"}

Live(p)   == state[p] \in {"watcher", "program", "build"}
Zombie(p) == state[p] \in {"exited", "failed"}
IsChild(p, c) == c \in Proc /\ parent[c] = p /\ state[c] # "free"

PTypeOK ==
  /\ state \in [Proc -> {"free", "watcher", "program", "build", "exited", "failed"}]
  /\ parent \in [Proc -> Proc \cup {None}]
  /\ told \subseteq {p \in Proc : Live(p)}
  /\ at \in [Proc -> Point] /\ gRunning \in [Proc -> BOOLEAN]
  /\ events \in [Proc -> 0..MaxEvents]
  /\ {progpid, build} \subseteq [Proc -> Proc \cup {None}]
  /\ built \in [Proc -> BOOLEAN]
  /\ faults \subseteq Fault
  /\ \A p \in Proc : state[p] = "watcher" /\ at[p] = "wait" => IsChild(p, build[p])

\* main() installs the handler and calls watcher(), which starts the program.
PInit ==
  /\ state = [p \in Proc |-> IF p = Main THEN "watcher" ELSE "free"]
  /\ parent = [p \in Proc |-> None] /\ told = {}
  /\ at = [p \in Proc |-> "launch"] /\ gRunning = [p \in Proc |-> TRUE]
  /\ events = [p \in Proc |-> 0]
  /\ progpid = [p \in Proc |-> None] /\ build = [p \in Proc |-> None]
  /\ built = [p \in Proc |-> FALSE] /\ faults = {}

-----------------------------------------------------------------------------
(* The steps of a watcher.                                                 *)

Goto(p, from, to) ==
  state[p] = "watcher" /\ at[p] = from /\ at' = [at EXCEPT ![p] = to]

Own    == UNCHANGED <<state, parent, told, built, faults>>
Handle == UNCHANGED <<gRunning, events, progpid, build>>

\* while(gRunning); afterwards the program is killed.
Test(p) ==
  /\ Goto(p, "test", IF gRunning[p] THEN "read" ELSE "quit")
  /\ Own /\ Handle

\* read() returns some files called *.sh, with the cooldown over or not.
Read(p) ==
  /\ Goto(p, "read", "event")
  /\ \E n \in 1..MaxEvents : events' = [events EXCEPT ![p] = n]
  /\ Own /\ UNCHANGED <<gRunning, progpid, build>>

NextEvent(p) ==
  /\ events[p] = 0 /\ Goto(p, "event", "test")
  /\ Own /\ Handle

Finish(p) == events' = [events EXCEPT ![p] = IF @ = 0 THEN 0 ELSE @ - 1]

Event(p) ==
  /\ events[p] > 0
  /\ \/ gRunning[p] /\ Goto(p, "event", "rebuild") /\ UNCHANGED events
     \/ Goto(p, "event", "event") /\ Finish(p)
  /\ Own /\ UNCHANGED <<gRunning, progpid, build>>

Reap(p, c) ==
  /\ IsChild(p, c) /\ Zombie(c)
  /\ state' = [state EXCEPT ![c] = "free"]
  /\ parent' = [parent EXCEPT ![c] = None]

Fork(p, c, what) ==
  /\ state[c] = "free"
  /\ state' = [state EXCEPT ![c] = what] /\ parent' = [parent EXCEPT ![c] = p]
  /\ UNCHANGED told

\* Bound: fork() fails once, and otherwise when there is no pid; execvp() fails
\* once.
ForkFails ==
  /\ "fork" \notin faults \/ \A c \in Pid : state[c] # "free"
  /\ faults' = faults \cup {"fork"}
  /\ UNCHANGED <<state, parent, told, built>>

ExecFails == "exec" \notin faults /\ faults' = faults \cup {"exec"}

\* rebuild(): a make that cannot be executed is a child that exits with 1.
Rebuild(p) ==
  /\ \/ /\ Goto(p, "rebuild", "wait")
        /\ \E c \in Pid : Fork(p, c, "build") /\ build' = [build EXCEPT ![p] = c]
        /\ built' = [built EXCEPT ![p] = FALSE]
        /\ UNCHANGED <<events, faults>>
     \/ Goto(p, "rebuild", "event") /\ Finish(p) /\ ForkFails /\ UNCHANGED build
  /\ UNCHANGED <<gRunning, progpid>>

\* Mutant: rebuild() does not look at the status.
WaitIgnoresStatus(p) ==
  /\ Goto(p, "wait", "kill") /\ Reap(p, build[p]) /\ build' = [build EXCEPT ![p] = None]
  /\ UNCHANGED <<told, built, faults, gRunning, events, progpid>>

\* Mutant: an event whose build has failed is built again.
WaitRetries(p) ==
  /\ \/ Goto(p, "wait", "kill") /\ state[build[p]] = "exited"
     \/ Goto(p, "wait", "event") /\ state[build[p]] = "failed"
  /\ Reap(p, build[p]) /\ build' = [build EXCEPT ![p] = None]
  /\ UNCHANGED <<told, built, faults, gRunning, events, progpid>>

Wait(p) ==
  /\ \/ Goto(p, "wait", "kill") /\ state[build[p]] = "exited" /\ UNCHANGED events
     \/ Goto(p, "wait", "event") /\ state[build[p]] = "failed" /\ Finish(p)
  /\ Reap(p, build[p]) /\ build' = [build EXCEPT ![p] = None]
  /\ UNCHANGED <<told, built, faults, gRunning, progpid>>

\* Mutant: killprog() does not wait.
KillNoWait(p) ==
  /\ \/ Goto(p, "kill", "launch") /\ UNCHANGED events
     \/ Goto(p, "quit", "end") /\ UNCHANGED events
  /\ told' = told \cup {c \in {progpid[p]} \cap Proc : Live(c)}
  /\ UNCHANGED <<state, parent, built, faults, gRunning, progpid, build>>

\* Mutant: killprog() signals whatever it is given.
AnyPid(p) == FALSE

NoPid(p) == progpid[p] = None

\* The processes kill() reaches; 0 is the group of the caller.
Addressed(n) == IF n = None THEN Proc ELSE {n}

\* killprog(): without a pid there is nothing to do, and when kill() fails no
\* program is started again.
Kill(p) ==
  /\ IF NoPid(p)
     THEN (Goto(p, "kill", "launch") \/ Goto(p, "quit", "end")) /\ UNCHANGED <<told, events>>
     ELSE IF \A c \in Addressed(progpid[p]) : state[c] = "free"
     THEN (Goto(p, "kill", "event") \/ Goto(p, "quit", "end")) /\ Finish(p) /\ UNCHANGED told
     ELSE /\ Goto(p, "kill", "reap") \/ Goto(p, "quit", "quitReap")
          /\ told' = told \cup {c \in Addressed(progpid[p]) : Live(c)}
          /\ UNCHANGED events
  /\ UNCHANGED <<state, parent, built, faults, gRunning, progpid, build>>

\* killprog() calls waitpid(), whose failure is only printed.
KillWaits(p) ==
  /\ Goto(p, "reap", "launch") \/ Goto(p, "quitReap", "end")
  /\ \/ Reap(p, progpid[p])
     \/ ~IsChild(p, progpid[p]) /\ UNCHANGED <<state, parent>>
  /\ UNCHANGED <<told, built, faults>> /\ Handle

\* runprog() returns the child's pid, and in the child, which is a second
\* watcher in the middle of the same buffer, 0.
Launch(p) ==
  \E c \in Pid :
    \/ /\ Goto(p, "launch", "event") /\ Finish(p) /\ Fork(p, c, "program")
       /\ progpid' = [progpid EXCEPT ![p] = c]
       /\ UNCHANGED <<built, faults, gRunning, build>>
    \/ /\ state[p] = "watcher" /\ at[p] = "launch" /\ ExecFails /\ Fork(p, c, "watcher")
       /\ at' = [at EXCEPT ![p] = "event", ![c] = "event"]
       /\ LET left == IF events[p] = 0 THEN 0 ELSE events[p] - 1 IN
            events' = [events EXCEPT ![p] = left, ![c] = left]
       /\ progpid' = [progpid EXCEPT ![p] = c, ![c] = None]
       /\ gRunning' = [gRunning EXCEPT ![c] = gRunning[p]]
       /\ build' = [build EXCEPT ![c] = None] /\ built' = [built EXCEPT ![c] = FALSE]

\* Without a fork it returns whatever is in the register of the result.
LaunchFails(p) ==
  /\ Goto(p, "launch", "event") /\ Finish(p) /\ ForkFails
  /\ \E garbage \in Proc \cup {None} : progpid' = [progpid EXCEPT ![p] = garbage]
  /\ UNCHANGED <<gRunning, build>>

\* A process is gone, with its status for a watcher that may still wait; its
\* own children go to init, which waits for all of them.
Gone(p, status) ==
  /\ state' = [c \in Proc |->
       IF c = p THEN IF parent[p] = None THEN "free" ELSE status
       ELSE IF parent[c] = p /\ Zombie(c) THEN "free" ELSE state[c]]
  /\ parent' = [c \in Proc |-> IF parent[c] = p THEN None ELSE parent[c]]
  /\ told' = told \ {p}
  /\ at' = [at EXCEPT ![p] = "launch"] /\ gRunning' = [gRunning EXCEPT ![p] = TRUE]
  /\ events' = [events EXCEPT ![p] = 0] /\ progpid' = [progpid EXCEPT ![p] = None]
  /\ build' = [build EXCEPT ![p] = None]
  /\ UNCHANGED faults

End(p) ==
  /\ state[p] = "watcher" /\ at[p] = "end"
  /\ Gone(p, "exited") /\ built' = [built EXCEPT ![p] = FALSE]

Step(p) ==
  \/ Test(p) \/ NextEvent(p) \/ Event(p) \/ Rebuild(p) \/ Wait(p)
  \/ Kill(p) \/ KillWaits(p) \/ Launch(p) \/ LaunchFails(p) \/ End(p)

-----------------------------------------------------------------------------
(* The environment.                                                        *)

\* A build or a program exits by itself, or anything because of SIGTERM.
Exit(c) ==
  /\ state[c] \in {"build", "program"} \/ c \in told
  /\ \E status \in {"exited", "failed"} :
       /\ c \in told /\ state[c] = "watcher" => status = "failed"
       /\ Gone(c, status)
       /\ built' = [p \in Proc |-> IF build[p] = c THEN status = "exited"
                                   ELSE p # c /\ built[p]]

\* Mutant: the handler is installed so that read() is restarted.
SigintRestarts(p) ==
  /\ state[p] = "watcher" /\ gRunning[p]
  /\ gRunning' = [gRunning EXCEPT ![p] = FALSE]
  /\ UNCHANGED <<state, parent, told, built, at, events, progpid, build, faults>>

\* catch_int(): the first SIGINT interrupts a system call that is waiting,
\* because sa_flags is 0; then signal() has set SA_RESTART.  It is missed when
\* it arrives after gRunning was tested and before read() waits.
Sigint(p) ==
  /\ state[p] = "watcher" /\ gRunning[p]
  /\ gRunning' = [gRunning EXCEPT ![p] = FALSE]
  /\ \/ at[p] = "read" /\ at' = [at EXCEPT ![p] = "test"] /\ UNCHANGED <<build, faults>>
     \/ at[p] = "read" /\ faults' = faults \cup {"missed"} /\ UNCHANGED <<at, build>>
     \/ /\ \/ at[p] = "wait" /\ ~Zombie(build[p]) /\ at' = [at EXCEPT ![p] = "kill"]
           \/ /\ at[p] = "reap" /\ IsChild(p, progpid[p]) /\ ~Zombie(progpid[p])
              /\ at' = [at EXCEPT ![p] = "launch"]
        /\ faults' = faults \cup {"interrupted"} /\ build' = [build EXCEPT ![p] = None]
     \/ at[p] # "read" /\ UNCHANGED <<at, build, faults>>
  /\ UNCHANGED <<state, parent, told, built, events, progpid>>

PNext == \E p \in Proc : Step(p) \/ Read(p) \/ Exit(p) \/ Sigint(p)

PSpec == PInit /\ [][PNext]_vars

\* Processes run, builds end and SIGTERM takes effect; nobody has to change a
\* file or to press a key.
PFairSpec ==
  /\ PSpec
  /\ \A p \in Proc :
       WF_vars(Step(p)) /\ WF_vars((state[p] = "build" \/ p \in told) /\ Exit(p))

-----------------------------------------------------------------------------
(* Properties.                                                             *)

\* A watcher knows every program it has started and that still runs, so that
\* there is only one of them, although a failed fork() may have left anything
\* in progpid; only a killprog() that was interrupted loses one.
ProgramKnown ==
  "interrupted" \notin faults =>
    \A p, c \in Proc : state[c] = "program" /\ parent[c] = p => progpid[p] = c

\* SIGTERM goes to a child of the watcher that sends it, unless a failed fork()
\* has left something else in progpid.
SignalsChild ==
  [][\A c \in told' \ told :
       "fork" \in faults \/ \E p \in Proc : at[p] \in {"kill", "quit"} /\ parent[c] = p]_vars

\* No program outlives its watcher as an orphan, unless something has failed
\* before: fork() or execvp(), or a waitpid() that a signal has interrupted.
NoOrphan ==
  (\E c \in Proc : state[c] = "program" /\ parent[c] = None)
    => faults \cap {"fork", "exec", "interrupted"} # {}

\* A program is replaced only after a build that has exited with status 0,
\* unless that build's waitpid() was interrupted.
ReplacedWhenBuilt ==
  \A p \in Proc : state[p] = "watcher" /\ at[p] \in {"kill", "reap"} =>
    built[p] \/ "interrupted" \in faults

\* How far a watcher has to go until it reads again or ends: the events of its
\* buffer, each with a build, a kill and a launch, and the way out of the loop.
Handling == [rebuild |-> 4, wait |-> 3, kill |-> 2, reap |-> 1, launch |-> 0]
Leaving  == [event |-> 5, test |-> 4, read |-> 3, quit |-> 3, quitReap |-> 2, end |-> 1]
Left(p) ==
  IF at[p] \in DOMAIN Handling
  THEN 7 * (IF events[p] = 0 THEN 1 ELSE events[p]) + Handling[at[p]]
  ELSE 7 * events[p] + Leaving[at[p]]

\* Only read() gives a watcher anything to do: everything else it does, what
\* fails included, brings it nearer to the next read() or to its end, and
\* nothing that its children, other watchers or a SIGINT do takes it back.
WorkBounded ==
  [][\A p \in Proc : state[p] = "watcher" /\ state'[p] = "watcher" =>
       \/ Left(p)' < Left(p)
       \/ UNCHANGED <<at[p], events[p]>>
       \/ at[p] = "read"]_vars

\* A SIGINT that is not missed ends the prototype, in spite of all failures
\* and of an execvp() that has made watchers of its children.
SigintEnds == ~gRunning[Main] /\ "missed" \notin faults ~> state[Main] # "watcher"
=============================================================================
