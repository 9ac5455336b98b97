------------------------------ MODULE Watcher ------------------------------
(***************************************************************************)
(* Watcher::listen() (src/watcher.cpp) and main()'s loop around it: from a *)
(* file being saved, through inotify's queue, the buffer of one read() and *)
(* the cooldown, to the build and the relaunch.                            *)
(*                                                                         *)
(* What happens to the processes is in ProcMan; here a build is a step     *)
(* that succeeds or fails, and what matters is which version of the files  *)
(* it has seen.  Only saves of a file some filter matches make a version.  *)
(***************************************************************************)
EXTENDS Integers, Sequences

CONSTANTS
  File,        \* the names inotify reports
  Matches,     \* for every name, how many of the filters match it
  Cooldown,    \* the 5 seconds of listen()
  QueueMax,    \* inotify's max_queued_events
  BufferMax,   \* events that fit in mBuffer
  MaxSaves     \* bound: saves in a behaviour

ASSUME MatchesAssumption  == Matches \in [File -> Nat]
ASSUME CooldownAssumption == Cooldown \in Nat \ {0}
ASSUME SizesAssumption    ==
  /\ QueueMax \in Nat \ {0} /\ BufferMax \in Nat \ {0}
  /\ MaxSaves \in Nat

VARIABLES
  at,        \* where the thread is
  queue,     \* inotify's queue
  buffer,    \* the events of mBuffer that listen() has not finished
  k,         \* matching filters tried for the first event of buffer
  age,       \* seconds since mTimer, up to Cooldown
  gRunning,  \* main.cpp's flag
  saves,     \* saves so far
  version,   \* history: version of the files
  seen,      \* history: version the current build has read
  running,   \* history: version the program was last relaunched with
  excuses    \* history: why a change may go without a relaunch

wvars == <<at, queue, buffer, k, age, gRunning, saves, version, seen, running, excuses>>

Where  == {"main", "select", "buffer", "rebuild", "halt", "build", "relaunch", "done"}
Reason == {"cooldown", "failure", "overflow"}

WTypeOK ==
  /\ at \in Where
  /\ queue \in Seq(File) /\ Len(queue) <= QueueMax
  /\ buffer \in Seq(File) /\ Len(buffer) <= BufferMax
  /\ k \in Nat
  /\ buffer # <<>> => k <= Matches[Head(buffer)]
  /\ at \in {"rebuild", "halt", "build", "relaunch"} =>
       buffer # <<>> /\ k < Matches[Head(buffer)]
  /\ at \in {"main", "select", "done"} => buffer = <<>>
  /\ age \in 0..Cooldown
  /\ gRunning \in BOOLEAN
  /\ saves \in 0..MaxSaves
  /\ version \in 0..saves
  /\ seen \in 0..version
  /\ running \in 0..seen
  /\ excuses \subseteq Reason

\* mTimer starts 15 seconds in the past: the first change is never refused.
WInit ==
  /\ at = "main"
  /\ queue = <<>> /\ buffer = <<>> /\ k = 0
  /\ age = Cooldown
  /\ gRunning = TRUE
  /\ saves = 0 /\ version = 0 /\ seen = 0 /\ running = 0
  /\ excuses = {}

-----------------------------------------------------------------------------
(* The environment: the user, the clock and inotify.                       *)

\* inotify merges an event with an equal one at the end of its queue, and
\* drops an event when the queue is full.
Merged(f) == queue # <<>> /\ queue[Len(queue)] = f

Save(f) ==
  /\ saves < MaxSaves
  /\ saves' = saves + 1
  /\ version' = IF Matches[f] > 0 THEN version + 1 ELSE version
  /\ \/ Merged(f) /\ UNCHANGED <<queue, excuses>>
     \/ ~Merged(f) /\ Len(queue) < QueueMax
                   /\ queue' = Append(queue, f) /\ UNCHANGED excuses
     \/ ~Merged(f) /\ Len(queue) >= QueueMax
                   /\ excuses' = excuses \cup {"overflow"} /\ UNCHANGED queue
  /\ UNCHANGED <<at, buffer, k, age, gRunning, seen, running>>

Tick ==
  /\ age < Cooldown
  /\ age' = age + 1
  /\ UNCHANGED <<at, queue, buffer, k, gRunning, saves, version, seen, running, excuses>>

StopProgram ==
  /\ gRunning /\ gRunning' = FALSE
  /\ UNCHANGED <<at, queue, buffer, k, age, saves, version, seen, running, excuses>>

-----------------------------------------------------------------------------
(* The thread.                                                             *)

outside == <<gRunning, saves, version>>

Goto(point) == at' = point

\* Mutant: main() does not test gRunning.
LoopForever ==
  /\ at = "main"
  /\ Goto("select")
  /\ UNCHANGED <<queue, buffer, k, age, seen, running, excuses>>

\* main(): while(gRunning) w.listen();
MainLoop ==
  /\ at = "main"
  /\ Goto(IF gRunning THEN "select" ELSE "done")
  /\ UNCHANGED <<queue, buffer, k, age, seen, running, excuses>>

\* select() reports the descriptor and read() fills the buffer.
Read ==
  /\ at = "select" /\ queue # <<>>
  /\ LET n == IF Len(queue) < BufferMax THEN Len(queue) ELSE BufferMax IN
       /\ buffer' = SubSeq(queue, 1, n)
       /\ queue' = SubSeq(queue, n + 1, Len(queue))
  /\ k' = 0
  /\ Goto("buffer")
  /\ UNCHANGED <<age, seen, running, excuses>>

\* select() times out after a second, or SIGINT interrupts it.
SelectReturns ==
  /\ at = "select" /\ queue = <<>>
  /\ Goto("main")
  /\ UNCHANGED <<queue, buffer, k, age, seen, running, excuses>>

\* Mutant: the last filter that matches is never tried.
HasEarlierMatch == at = "buffer" /\ buffer # <<>> /\ k + 1 < Matches[Head(buffer)]

\* The next filter that matches the event, and whether the cooldown is over.
HasMatch == at = "buffer" /\ buffer # <<>> /\ k < Matches[Head(buffer)]
Cool     == age >= Cooldown

Refuse ==
  /\ HasMatch /\ ~Cool
  /\ k' = k + 1
  /\ excuses' = excuses \cup {"cooldown"}
  /\ UNCHANGED <<at, queue, buffer, age, seen, running>>

Accept ==
  /\ HasMatch /\ Cool
  /\ Goto("rebuild")
  /\ UNCHANGED <<queue, buffer, k, age, seen, running, excuses>>

\* rebuild() is over: on success mTimer = time(0), and restartProgram() begins.
RebuildSucceeds ==
  /\ at = "rebuild"
  /\ age' = 0
  /\ Goto("halt")
  /\ UNCHANGED <<queue, buffer, k, seen, running, excuses>>

\* restartAll(): the tests are halted and the build command runs again.
BuildAgain ==
  /\ at = "halt"
  /\ seen' = version
  /\ Goto("build")
  /\ UNCHANGED <<queue, buffer, k, age, running, excuses>>

BuildSucceeds ==
  /\ at = "build"
  /\ Goto("relaunch")
  /\ UNCHANGED <<queue, buffer, k, age, seen, running, excuses>>

\* Mutant: a match whose build has failed is tried again.
BuildFailsAgain ==
  /\ at \in {"rebuild", "build"}
  /\ excuses' = excuses \cup {"failure"}
  /\ Goto("buffer")
  /\ UNCHANGED <<queue, buffer, k, age, seen, running>>

\* One of the two builds fails: nothing is relaunched.
BuildFails ==
  /\ at \in {"rebuild", "build"}
  /\ k' = k + 1
  /\ excuses' = excuses \cup {"failure"}
  /\ Goto("buffer")
  /\ UNCHANGED <<queue, buffer, age, seen, running>>

\* The tests have run and the new program is started.
Relaunch ==
  /\ at = "relaunch"
  /\ running' = seen
  /\ excuses' = IF seen = version THEN {} ELSE excuses
  /\ k' = k + 1
  /\ Goto("buffer")
  /\ UNCHANGED <<queue, buffer, age, seen>>

\* Mutant: the filters are not tried from the first one for the next event.
NextEventKeepsFilter ==
  /\ at = "buffer" /\ buffer # <<>> /\ k >= Matches[Head(buffer)]
  /\ buffer' = Tail(buffer)
  /\ UNCHANGED <<at, queue, k, age, seen, running, excuses>>

\* Mutant: only the first event of the buffer is looked at.
OnlyFirstEvent ==
  /\ at = "buffer" /\ buffer # <<>> /\ k >= Matches[Head(buffer)]
  /\ buffer' = <<>>
  /\ k' = 0
  /\ UNCHANGED <<at, queue, age, seen, running, excuses>>

\* No filter is left for this event: i += EVENT_SIZE + event->len.
NextEvent ==
  /\ at = "buffer" /\ buffer # <<>> /\ k >= Matches[Head(buffer)]
  /\ buffer' = Tail(buffer)
  /\ k' = 0
  /\ UNCHANGED <<at, queue, age, seen, running, excuses>>

ListenReturns ==
  /\ at = "buffer" /\ buffer = <<>>
  /\ Goto("main")
  /\ UNCHANGED <<queue, buffer, k, age, seen, running, excuses>>

Listener ==
  /\ \/ MainLoop \/ Read \/ SelectReturns
     \/ Refuse \/ Accept \/ RebuildSucceeds \/ BuildAgain \/ BuildSucceeds
     \/ BuildFails \/ Relaunch \/ NextEvent \/ ListenReturns
  /\ UNCHANGED outside

WNext ==
  \/ Listener
  \/ \E f \in File : Save(f)
  \/ Tick
  \/ StopProgram

WSpec == WInit /\ [][WNext]_wvars

\* The thread is scheduled, its builds end (ProcMan), and time passes.
WFairness == WF_wvars(Listener) /\ WF_wvars(Tick)

WFairSpec == WSpec /\ WFairness

-----------------------------------------------------------------------------
(* Properties.                                                             *)

\* When Renzoku goes back to sleep with nothing queued, the program runs the
\* newest version of the files, or a match was refused by the cooldown, a
\* build failed or inotify dropped an event since it last did.  A save during
\* a build, a merged event or the end of a buffer is no such reason.
Accounted ==
  at \in {"main", "select"} /\ queue = <<>> /\ running # version => excuses # {}

\* How far listen() still has to go: before, in or after the buffer, events in
\* it, matches of the first one, statements of the match being handled.
Stage == [main |-> 1, select |-> 3, buffer |-> 2, rebuild |-> 2, halt |-> 2,
          build |-> 2, relaunch |-> 2, done |-> 0]
Statement == [main |-> 0, select |-> 0, buffer |-> 4, rebuild |-> 3, halt |-> 2,
              build |-> 1, relaunch |-> 0, done |-> 0]
Untried == IF buffer = <<>> THEN 0 ELSE Matches[Head(buffer)] - k
Left == <<Stage[at], Len(buffer), Untried, Statement[at]>>

\* The first place where two of these differ decides.
Less(l, m) == \E i \in 1..4 : l[i] < m[i] /\ \A j \in 1..(i - 1) : l[j] = m[j]

\* One call of listen() ends: each of its steps brings it nearer to its end,
\* whether a match is refused, built or fails to build, and nothing that is
\* saved meanwhile takes it back.  Only main() starts it again, while gRunning.
ListenBounded ==
  [][IF Listener THEN (at = "main" /\ gRunning) \/ Less(Left', Left)
                 ELSE Left' = Left]_wvars

\* A change that finds Renzoku asleep, with the cooldown over, is built.
QuietChangeBuilt ==
  (at = "select" /\ age = Cooldown /\ queue # <<>> /\ Matches[Head(queue)] > 0)
    ~> at = "rebuild"

\* After SIGINT main() leaves its loop, whatever is left in the buffer.
LoopEnds == ~gRunning ~> at = "done"
=============================================================================
