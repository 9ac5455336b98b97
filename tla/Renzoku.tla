------------------------------ MODULE Renzoku ------------------------------
(***************************************************************************)
(* The whole of Renzoku at work: listen() of Watcher, the pipeline of      *)
(* ProcMan and the user who saves files meanwhile.  The two modules look   *)
(* at the same thread from two sides; here every step of the thread is one *)
(* of both, and what Watcher leaves open, whether a build succeeds, is     *)
(* decided by the process that ran it.                                     *)
(***************************************************************************)
EXTENDS ProcMan

CONSTANTS File, Matches, Cooldown, QueueMax, BufferMax, MaxSaves

VARIABLES
  where,     \* Watcher's at
  queue, buffer, k, age, saves, version, seen, running, excuses,
  image      \* history: version of the files the process was built from

W == INSTANCE Watcher WITH at <- where

watch == <<where, queue, buffer, k, age, saves, version, seen, running, excuses>>
rvars == <<vars, watch, image>>

\* What Watcher assumes of its constants.
ASSUME WatcherAssumption ==
  /\ Matches \in [File -> Nat]
  /\ {Cooldown, QueueMax, BufferMax} \subseteq Nat \ {0}
  /\ MaxSaves \in Nat

\* The bound of ProcMan on the matches of one buffer is never reached.
ASSUME EnoughPending == \A f \in File : BufferMax * Matches[f] <= MaxPending

RInit == PMInit /\ W!WInit /\ image = [p \in Pid |-> 0]

-----------------------------------------------------------------------------
(* listen() and the statements between the calls of the pipeline.          *)

\* The thread takes a step of listen() and one of the manager together.
Both(listening, managing) ==
  listening /\ managing /\ Offline /\ UNCHANGED <<saves, version, image>>

MainLoop    == Both(W!MainLoop, Quit \/ (Listen /\ pending' = MaxPending))
Returned    == Both(W!SelectReturns \/ W!ListenReturns, ListenReturns)
Accept      == Both(W!Accept, Change)
Rebuilt     == Both(IF ret THEN W!RebuildSucceeds ELSE W!BuildFails, RebuildReturns)
BuildAgain  == Both(W!BuildAgain, Halt /\ phase' # "halt")
BuiltAgain  == Both(IF ret THEN W!BuildSucceeds ELSE W!BuildFails, BuildReturns)
Relaunched  == Both(W!Relaunch, StartReturns)

\* The other steps of the manager are none of listen()'s.
Manage ==
  Both(UNCHANGED watch,
       \/ Halt /\ phase' = "halt"
       \/ RunTests \/ StopReturns
       \/ KillBuildReturns \/ KillTests \/ KillProgramReturns
       \/ DelTests \/ DelBuildReturns \/ DelProgramReturns)

\* The other steps of listen() call nothing.
Read == (W!Read \/ W!Refuse \/ W!NextEvent) /\ UNCHANGED <<vars, saves, version, image>>

\* A system call.  The program is made of what the build before has read.
SystemCall ==
  /\ Thread /\ UNCHANGED <<mvars, watch>>
  /\ image' = [p \in Pid |-> IF p \notin Programs' THEN 0
                             ELSE IF p \in Programs THEN image[p] ELSE seen]

Run == \/ MainLoop \/ Returned \/ Accept \/ Rebuilt \/ BuildAgain \/ BuiltAgain
       \/ Relaunched \/ Manage \/ Read \/ SystemCall

Interrupted == Sigint /\ UNCHANGED <<watch, image>>

RNext ==
  \/ Run
  \/ Kernel /\ UNCHANGED <<mvars, watch, image>>
  \/ Interrupted
  \/ ((\E f \in File : W!Save(f)) \/ W!Tick) /\ UNCHANGED <<vars, image>>

RSpec == RInit /\ [][RNext]_rvars

-----------------------------------------------------------------------------
(* Properties.                                                             *)

\* The two sides agree: whatever a build, a test or the kernel answers, what
\* one side does next the other one is ready for, until main() has returned.
\* The thread only ever waits for a child.
NeverStuck == phase \in {"gone", "crashed"} \/ Blocked \/ ENABLED Run

\* The steps of the whole are steps that Watcher allows for listen().
ImplementsWatcher == W!WSpec

\* From the file to the process: when Renzoku is back asleep with nothing
\* queued and there is no excuse, a program that is running was built from
\* the newest version of the files, not merely relaunched after it.
UpToDate ==
  where \in {"main", "select"} /\ queue = <<>> /\ excuses = {} /\ ~eintr =>
    \A p \in Programs : image[p] = version
=============================================================================
