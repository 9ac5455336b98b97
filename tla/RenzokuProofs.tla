--------------------------- MODULE RenzokuProofs ---------------------------
(***************************************************************************)
(* What TLAPS proves of the whole: its behaviours are behaviours of both   *)
(* of its parts, so that what is proved of the parts holds of it, and from *)
(* the two together it follows that the program that runs is up to date.   *)
(***************************************************************************)
EXTENDS Renzoku, ProcManProofs

WP == INSTANCE WatcherProofs WITH at <- where

USE PidAssumption, ObjAssumption, RolesAssumption, WatcherAssumption

-----------------------------------------------------------------------------
(* The parts.                                                              *)

\* What the thread does is what the manager, its objects or nobody does.
LEMMA ManagerPart == [RNext]_rvars => [PMNext]_vars
<1> SUFFICES ASSUME [RNext]_rvars PROVE PMNext \/ UNCHANGED vars
  OBVIOUS
<1>1. CASE MainLoop \/ Returned \/ Accept \/ Rebuilt \/ BuildAgain \/ BuiltAgain
             \/ Relaunched \/ Manage
  <2>1. Manager
    BY <1>1 DEF MainLoop, Returned, Accept, Rebuilt, BuildAgain, BuiltAgain,
       Relaunched, Manage, Both, Manager, Proceed
  <2> QED
    BY <2>1 DEF PMNext
<1> QED
  BY <1>1 DEF RNext, Run, Read, SystemCall, Interrupted, PMNext, rvars

\* Each of its steps is one of listen(), of its environment, or none of both.
LEMMA ListenerPart == [RNext]_rvars => [W!WNext]_(W!wvars)
<1> SUFFICES ASSUME [RNext]_rvars PROVE W!WNext \/ UNCHANGED <<watch, gRunning>>
  BY DEF W!wvars, watch
<1>1. ASSUME Offline \/ UNCHANGED vars, UNCHANGED <<saves, version>> PROVE UNCHANGED W!outside
  BY <1>1 DEF Offline, vars, mvars, W!outside
<1>2. CASE MainLoop \/ Returned \/ Accept \/ Rebuilt \/ BuildAgain \/ BuiltAgain
             \/ Relaunched \/ Read
  <2>1. W!Listener
    BY <1>1, <1>2 DEF MainLoop, Returned, Accept, Rebuilt, BuildAgain, BuiltAgain,
       Relaunched, Read, Both, W!Listener
  <2> QED
    BY <2>1 DEF W!WNext
<1>3. CASE Manage
  BY <1>3 DEF Manage, Both, Offline
<1>4. CASE SystemCall \/ (Kernel /\ UNCHANGED <<mvars, watch, image>>) \/ UNCHANGED rvars
  BY <1>4 DEF SystemCall, mvars, rvars, vars
<1>5. CASE Interrupted
  BY <1>5 DEF Interrupted, Sigint, watch, W!WNext, W!StopProgram
<1>6. CASE ((\E f \in File : W!Save(f)) \/ W!Tick) /\ UNCHANGED <<vars, image>>
  BY <1>6 DEF W!WNext
<1> QED
  BY <1>2, <1>3, <1>4, <1>5, <1>6 DEF RNext, Run

\* Everything proved of PMSpec holds of the whole.
THEOREM ManagerImplemented == RSpec => PMSpec
  BY ManagerPart, PTL DEF RSpec, RInit, PMSpec

\* Renzoku at work is a listen() that Watcher describes: a build that Watcher
\* lets succeed or fail at will does what its processes make of it.
THEOREM WatcherImplemented == RSpec => ImplementsWatcher
  BY ListenerPart, PTL DEF RSpec, RInit, ImplementsWatcher, W!WSpec

\* Watcher, and Watcher as WatcherProofs extends it, are the same.
LEMMA SameWatcher ==
  /\ W!WInit <=> WP!WInit
  /\ W!wvars = WP!wvars
  /\ W!WNext <=> WP!WNext
  BY
     DEF W!Save, WP!Save, W!Tick, WP!Tick, W!StopProgram,
         WP!StopProgram, W!Listener, WP!Listener, W!outside, WP!outside,
         W!Goto, WP!Goto, W!HasMatch, WP!HasMatch, W!Cool, WP!Cool,
         W!Merged, WP!Merged, W!WNext, WP!WNext, W!WInit, WP!WInit,
         W!wvars, WP!wvars, W!WSpec, WP!WSpec, W!MainLoop, WP!MainLoop,
         W!Read, WP!Read, W!SelectReturns, WP!SelectReturns, W!Refuse,
         WP!Refuse, W!Accept, WP!Accept, W!RebuildSucceeds,
         WP!RebuildSucceeds, W!BuildAgain, WP!BuildAgain,
         W!BuildSucceeds, WP!BuildSucceeds, W!BuildFails, WP!BuildFails,
         W!Relaunch, WP!Relaunch, W!NextEvent, WP!NextEvent,
         W!ListenReturns, WP!ListenReturns

\* Everything proved of Watcher holds of the whole.
LEMMA WatcherBehaviour == RSpec => WP!WSpec
<1>1. [W!WNext]_(W!wvars) => [WP!WNext]_(WP!wvars)
  BY SameWatcher DEF W!wvars, WP!wvars
<1> QED
  BY <1>1, WatcherImplemented, SameWatcher, PTL DEF ImplementsWatcher, W!WSpec, WP!WSpec

-----------------------------------------------------------------------------
(* From the file to the process.                                           *)

\* The two sides of the thread are at the same place.
Sides ==
  /\ where \in {"main", "select", "buffer"} => phase \in {"idle", "listen"}
  /\ phase = "idle" => where = "main"
  /\ phase = "listen" => where \in {"select", "buffer"}
  /\ phase \in {"rebuild", "halt", "build"} => where = phase
  /\ phase \in {"tests", "stop", "start"} => where = "relaunch"
  /\ phase \in Closing => where = "done"

\* The program that runs was built from what Watcher takes it to be; the one
\* that is being started, from what the latest build has read.
Images ==
  \A p \in Programs : image[p] = IF phase = "start" THEN seen ELSE running

\* A step of listen() that the manager takes too keeps the sides together.
LEMMA KeepsSides == PMInv /\ Sides /\ [RNext]_rvars => Sides'
<1> SUFFICES ASSUME PMInv, Sides, [RNext]_rvars PROVE Sides'
  OBVIOUS
<1> USE DEF Sides, W!Goto, Ready, Begin, Enter, StartLoop, NextTest, TestsDone, Closing
<1>1. CASE MainLoop \/ Returned
  BY <1>1 DEF MainLoop, Returned, Both, Listen, Quit, ListenReturns, W!MainLoop,
     W!SelectReturns, W!ListenReturns, Offline
<1>2. CASE Accept
  BY <1>2 DEF Accept, Both, Change, W!Accept
<1>3. CASE Rebuilt \/ BuiltAgain
  BY <1>3 DEF Rebuilt, BuiltAgain, Both, RebuildReturns, BuildReturns,
     W!RebuildSucceeds, W!BuildSucceeds, W!BuildFails
<1>4. CASE BuildAgain
  BY <1>4 DEF BuildAgain, Both, Halt, W!BuildAgain
<1>5. CASE Relaunched
  BY <1>5 DEF Relaunched, Both, StartReturns, W!Relaunch
<1>6. CASE Manage
  BY <1>6 DEF Manage, Both, watch, Halt, RunTests, StopReturns, KillBuildReturns,
     KillTests, KillProgramReturns, DelTests, DelBuildReturns, DelProgramReturns
<1>7. CASE Read
  BY <1>7 DEF Read, vars, mvars, W!Read, W!Refuse, W!NextEvent, W!HasMatch
<1>8. CASE SystemCall \/ (Kernel /\ UNCHANGED <<mvars, watch, image>>) \/ Interrupted
  BY <1>8 DEF SystemCall, Interrupted, Sigint, mvars, watch
<1>9. CASE ((\E f \in File : W!Save(f)) \/ W!Tick) /\ UNCHANGED <<vars, image>>
  BY <1>9 DEF W!Save, W!Tick, vars, mvars
<1>10. CASE UNCHANGED rvars
  BY <1>10 DEF rvars, vars, mvars, watch
<1> QED
  BY <1>1, <1>2, <1>3, <1>4, <1>5, <1>6, <1>7, <1>8, <1>9, <1>10 DEF RNext, Run

\* Without a fork() there is no new program.
LEMMA SamePrograms ==
  ASSUME UNCHANGED <<state, forkedFor>> PROVE Programs' = Programs
  BY DEF Programs, IsChild, Alive, Zombie

\* No program runs that is not the one Watcher knows.
LEMMA KeepsImages ==
  ASSUME PMInv, PMInv', Sides, ~eintr, ~eintr', Images, [RNext]_rvars
  PROVE  Images'
<1>0. PInv /\ TypeOK /\ Tidy
  BY DEF PMInv, PInv
<1>1. ASSUME Manager, UNCHANGED image,
             \/ UNCHANGED running /\ phase # "start" /\ phase' # "start"
             \/ running' = seen /\ phase = "start" /\ phase' # "start"
             \/ phase = "stop"
      PROVE  Images'
  <2>1. at = "idle" /\ Programs' = Programs
    BY <1>1, ManagerFrame, SamePrograms
  <2>2. phase = "stop" => Programs = {}
    <3>1. phase = "stop" => NoChild(Program)
      BY <1>0, <2>1, Settled DEF PMInv, Calls, Called, Tidy
    <3> QED
      BY <3>1 DEF Programs, NoChild
  <2> QED
    BY <1>1, <2>1, <2>2 DEF Images
<1> USE DEF Ready, Begin, Enter, StartLoop, NextTest, TestsDone
<1>2. CASE MainLoop \/ Returned \/ Accept \/ Rebuilt \/ BuildAgain \/ BuiltAgain
  <2>1. Manager /\ UNCHANGED image
    BY <1>2 DEF MainLoop, Returned, Accept, Rebuilt, BuildAgain, BuiltAgain, Both,
       Manager, Proceed
  <2>2. phase # "start" /\ phase' # "start" /\ UNCHANGED running
    BY <1>2 DEF MainLoop, Returned, Accept, Rebuilt, BuildAgain, BuiltAgain, Both,
       Listen, Quit, ListenReturns, Change, RebuildReturns, Halt, BuildReturns,
       W!MainLoop, W!SelectReturns, W!ListenReturns, W!Accept, W!RebuildSucceeds,
       W!BuildFails, W!BuildAgain, W!BuildSucceeds
  <2> QED
    BY <1>1, <2>1, <2>2
<1>3. CASE Relaunched
  BY <1>1, <1>3 DEF Relaunched, Both, StartReturns, Manager, Proceed, W!Relaunch
<1>4. CASE Manage
  <2>1. Manager /\ UNCHANGED <<image, seen, running>>
    BY <1>4 DEF Manage, Both, Manager, Proceed, watch
  <2>2. phase # "start" /\ (phase' = "start" => phase = "stop")
    BY <1>4 DEF Manage, Both, Halt, RunTests, StopReturns, KillBuildReturns,
       KillTests, KillProgramReturns, DelTests, DelBuildReturns, DelProgramReturns
  <2> QED
    BY <1>1, <2>1, <2>2
<1>5. CASE SystemCall
  <2>1. NewChild /\ UNCHANGED <<phase, seen, running>> /\ this \in Obj /\ at # "idle"
    BY <1>0, <1>5, ThreadChildren, ThreadFrame DEF SystemCall, mvars, watch, TypeOK
  <2>2. ASSUME NEW p \in Programs' PROVE image'[p] = IF phase = "start" THEN seen ELSE running
    <3>1. p \in Pid /\ IsChild(p)' /\ forkedFor'[p] = Program
      BY DEF Programs
    <3>2. CASE p \in Programs
      BY <1>5, <2>1, <3>1, <3>2 DEF SystemCall, Images
    <3>3. CASE p \notin Programs
      <4>1. at = "fork" /\ this = Program
        BY <2>1, <3>1, <3>3 DEF NewChild, Programs
      <4>2. phase = "start"
        BY <1>0, <2>1, <4>1, WhoseCall DEF PInv, Control
      <4> QED
        BY <1>5, <3>1, <3>3, <4>2 DEF SystemCall
    <3> QED
      BY <3>2, <3>3
  <2> QED
    BY <2>1, <2>2 DEF Images
<1>6. CASE Kernel /\ UNCHANGED <<mvars, watch, image>>
  <2>1. Programs' \subseteq Programs
    BY <1>0, <1>6, KernelChildren DEF Programs
  <2> QED
    BY <1>6, <2>1 DEF Images, mvars, watch
<1>7. CASE \/ Read \/ Interrupted \/ UNCHANGED rvars
           \/ ((\E f \in File : W!Save(f)) \/ W!Tick) /\ UNCHANGED <<vars, image>>
  <2>1. UNCHANGED <<state, forkedFor, phase, seen, running, image>>
    BY <1>7 DEF Read, Interrupted, Sigint, Interrupt, kvars, rvars, vars, pvars, mvars,
       watch, W!Read, W!Refuse, W!NextEvent, W!Save, W!Tick
  <2> QED
    BY <2>1, SamePrograms DEF Images
<1> QED
  BY <1>2, <1>3, <1>4, <1>5, <1>6, <1>7 DEF RNext, Run

\* Whatever is saved while whatever runs, a program that runs when Renzoku goes
\* back to sleep was built from the newest files, unless there is an excuse
\* or SIGINT has interrupted a waitpid().
THEOREM UpToDateCorrect == RSpec => []UpToDate
<1>1. RInit => Sides /\ Images
  BY DEF RInit, PMInit, Init, W!WInit, Sides, Closing, Images, Programs, IsChild, Alive, Zombie
<1>2. PMInv /\ PMInv' /\ Sides /\ (~eintr => Images) /\ [RNext]_rvars
        => Sides' /\ (~eintr' => Images')
  <2>1. PMInv /\ [RNext]_rvars => (eintr => eintr')
    BY ManagerPart, ManagerFrame, ThreadFrame, KernelChildren
       DEF PMNext, Sigint, Interrupt, vars, pvars, PMInv, PInv, TypeOK
  <2> QED
    BY <2>1, KeepsSides, KeepsImages
<1>3. WP!Accounted /\ Sides /\ (~eintr => Images) => UpToDate
  BY DEF WP!Accounted, Sides, Images, UpToDate
<1>4. RSpec => []WP!Accounted
  <2>1. WP!WSpec => []WP!Accounted
    BY WP!AccountedCorrect DEF WP!MatchesAssumption, WP!CooldownAssumption, WP!SizesAssumption
  <2> QED
    BY <2>1, WatcherBehaviour, PTL
<1> QED
  BY <1>1, <1>2, <1>3, <1>4, ManagerImplemented, PMInvariance, PTL DEF RSpec

-----------------------------------------------------------------------------
(* Why neither side waits for the other.                                   *)

\* A full buffer can hold MaxPending matches, so that each event stands for
\* MaxPending / BufferMax of them, and k of the first event's have been tried;
\* while one is being built it is not pending any more.
Owes(tried) == BufferMax * pending >= MaxPending * Len(buffer) - BufferMax * tried

Enough ==
  /\ phase = "listen" /\ where = "select" => pending = MaxPending
  /\ phase = "listen" /\ where = "buffer" => Owes(k)
  /\ phase \in {"rebuild", "halt", "build", "tests", "stop", "start"} => Owes(k + 1)


\* A product grows with its second factor.
LEMMA Monotone ==
  ASSUME NEW size \in Nat, NEW less \in Nat, NEW more \in Nat, less <= more
  PROVE  size * less <= size * more
<1>1. PICK rest \in Nat : more = less + rest
  <2>1. more - less \in Nat /\ more = less + (more - less)
    OBVIOUS
  <2> QED
    BY <2>1
<1>2. size * more = size * less + size * rest
  BY <1>1
<1>3. size * less \in Int /\ size * rest \in Nat
  OBVIOUS
<1> QED
  BY <1>2, <1>3

\* What is owed before a step is enough for what is owed after it: one match
\* taken out of the pending ones, no more events than fit in the buffer, and an
\* event all of whose matches have been tried.
LEMMA OneTaken ==
  ASSUME NEW size \in Nat, NEW most \in Nat, NEW p \in Nat, NEW events \in Nat,
         NEW tried \in Nat, size * p >= most * events - size * tried
  PROVE  size * (p - 1) >= most * events - size * (tried + 1)
<1>1. size * p \in Int /\ most * events \in Int /\ size * tried \in Int
  OBVIOUS
<1>2. size * (p - 1) = size * p - size /\ size * (tried + 1) = size * tried + size
  OBVIOUS
<1> QED
  BY <1>1, <1>2

LEMMA BufferFilled ==
  ASSUME NEW size \in Nat, NEW most \in Nat, NEW events \in Nat, events <= size
  PROVE  size * most >= most * events - size * 0
<1>1. most * events <= most * size /\ most * events \in Int /\ most * size \in Int
  BY Monotone
<1>2. size * most = most * size /\ size * 0 = 0
  OBVIOUS
<1> QED
  BY <1>1, <1>2

LEMMA EventDone ==
  ASSUME NEW size \in Nat, NEW most \in Nat, NEW p \in Nat, NEW events \in Nat,
         NEW tried \in Nat, size * p >= most * events - size * tried,
         size * tried <= most
  PROVE  size * p >= most * (events - 1) - size * 0
<1>1. size * p \in Int /\ most * events \in Int /\ size * tried \in Int
  OBVIOUS
<1>2. most * (events - 1) = most * events - most /\ size * 0 = 0
  OBVIOUS
<1> QED
  BY <1>1, <1>2

\* The matches of one event, tried or not, are covered by MaxPending.
LEMMA OneEvent ==
  ASSUME NEW f \in File, NEW tried \in Nat, tried <= Matches[f]
  PROVE  BufferMax * tried <= MaxPending
<1>1. /\ BufferMax \in Nat /\ MaxPending \in Nat /\ Matches[f] \in Nat
      /\ BufferMax * Matches[f] <= MaxPending
  BY WatcherAssumption, PendingAssumption, EnoughPending
<1>2. BufferMax * tried <= BufferMax * Matches[f]
  BY <1>1, Monotone
<1>3. BufferMax * tried \in Int /\ BufferMax * Matches[f] \in Int
  BY <1>1
<1> QED
  BY <1>1, <1>2, <1>3

\* When nothing is pending every match of the first event has been tried.
LEMMA NothingOwed ==
  ASSUME NEW size \in Nat \ {0}, NEW most \in Nat, NEW events \in Nat \ {0},
         NEW tried \in Nat, size * 0 >= most * events - size * tried
  PROVE  size * (tried + 1) > most
<1>1. most * events >= most /\ most * events \in Int /\ size * tried \in Int
  OBVIOUS
<1>2. size * 0 = 0 /\ size * (tried + 1) = size * tried + size
  OBVIOUS
<1> QED
  BY <1>1, <1>2

\* The numbers that these are about.
LEMMA Numbers ==
  ASSUME PMTypeOK, WP!WTypeOK
  PROVE  /\ BufferMax \in Nat \ {0} /\ MaxPending \in Nat
         /\ pending \in Nat /\ k \in Nat /\ Len(buffer) \in Nat
<1>1. pending \in Nat
  BY PendingAssumption DEF PMTypeOK
<1>2. k \in Nat /\ buffer \in Seq(File)
  BY DEF WP!WTypeOK
<1> QED
  BY <1>1, <1>2, WatcherAssumption, PendingAssumption

\* Nothing that listen() or the manager does takes away from what is owed.
LEMMA KeepsEnough ==
  ASSUME PMTypeOK, WP!WTypeOK, Sides, Enough, [RNext]_rvars
  PROVE  Enough'
<1> DEFINE stages == {"rebuild", "halt", "build", "tests", "stop", "start"}
<1>0. /\ BufferMax \in Nat \ {0} /\ MaxPending \in Nat /\ pending \in Nat /\ k \in Nat
      /\ Len(buffer) \in Nat
  BY Numbers
<1>1. ASSUME UNCHANGED <<where, pending, buffer, k>>,
             phase' = phase \/ (phase \in stages /\ phase' \in stages)
                            \/ phase' \notin stages \cup {"listen"}
      PROVE  Enough'
  BY <1>1 DEF Enough, Owes
<1> USE DEF W!Goto, Ready, Begin, Enter, StartLoop, NextTest, TestsDone
<1>2. CASE MainLoop
  BY <1>2 DEF MainLoop, Both, Listen, Quit, W!MainLoop, Offline, Enough
<1>3. CASE Returned
  BY <1>3 DEF Returned, Both, ListenReturns, Enough
<1>4. CASE Accept
  <2>1. /\ phase = "listen" /\ where = "buffer" /\ phase' \in {"rebuild", "crashed"}
        /\ pending > 0 /\ pending' = pending - 1 /\ UNCHANGED <<buffer, k>>
    BY <1>4 DEF Accept, Both, Change, W!Accept, W!HasMatch
  <2>2. Owes(k)
    BY <2>1 DEF Enough
  <2>3. Owes(k + 1)'
    BY <1>0, <2>1, <2>2, OneTaken DEF Owes
  <2> QED
    BY <2>1, <2>3 DEF Enough
<1>5. CASE Rebuilt \/ BuiltAgain \/ BuildAgain \/ Relaunched
  <2>1. /\ phase \in stages /\ UNCHANGED <<pending, buffer>>
        /\ \/ phase' \in stages \cup {"crashed"} /\ k' = k
           \/ phase' = "listen" /\ k' = k + 1 /\ where' = "buffer"
    BY <1>5 DEF Rebuilt, BuiltAgain, BuildAgain, Relaunched, Both, RebuildReturns,
       BuildReturns, Halt, StartReturns, W!RebuildSucceeds, W!BuildSucceeds,
       W!BuildFails, W!BuildAgain, W!Relaunch
  <2>2. Owes(k + 1)
    BY <2>1 DEF Enough
  <2> QED
    BY <2>1, <2>2 DEF Enough, Owes
<1>6. CASE Manage
  <2>1. UNCHANGED <<pending, buffer, k, where>>
    BY <1>6 DEF Manage, Both, watch, Halt, RunTests, StopReturns, KillBuildReturns,
       KillTests, KillProgramReturns, DelTests, DelBuildReturns, DelProgramReturns
  <2>2. (phase \in stages /\ phase' \in stages) \/ phase' \notin stages \cup {"listen"}
    BY <1>6 DEF Manage, Both, Halt, RunTests, StopReturns, KillBuildReturns,
       KillTests, KillProgramReturns, DelTests, DelBuildReturns, DelProgramReturns
  <2> QED
    BY <1>1, <2>1, <2>2
<1>7. CASE Read
  <2>0. UNCHANGED <<phase, pending>>
    BY <1>7 DEF Read, vars, mvars
  <2>1. CASE phase # "listen"
    BY <1>7, <2>0, <2>1 DEF Read, W!Read, W!Refuse, W!NextEvent, W!HasMatch, Sides, Enough
  <2>2. CASE phase = "listen" /\ W!Read
    <3>1. Len(buffer') \in Nat /\ Len(buffer') <= BufferMax /\ k' = 0 /\ where' = "buffer"
      BY <1>0, <2>2 DEF W!Read, WP!WTypeOK
    <3>2. pending = MaxPending
      BY <2>2 DEF W!Read, Enough
    <3>3. Owes(k)'
      BY <1>0, <2>0, <3>1, <3>2, BufferFilled DEF Owes
    <3> QED
      BY <2>0, <2>2, <3>1, <3>3 DEF Enough
  <2>3. CASE phase = "listen" /\ W!Refuse
    <3>1. k' = k + 1 /\ UNCHANGED <<buffer, where>> /\ where = "buffer"
      BY <2>3 DEF W!Refuse, W!HasMatch
    <3>2. Owes(k)'
      <4>1. Owes(k)
        BY <2>3, <3>1 DEF Enough
      <4>2. BufferMax * (k + 1) = BufferMax * k + BufferMax
        BY <1>0
      <4>3. BufferMax * k \in Int /\ MaxPending * Len(buffer) \in Int
            /\ BufferMax * pending \in Int
        BY <1>0
      <4> QED
        BY <1>0, <2>0, <3>1, <4>1, <4>2, <4>3 DEF Owes
    <3> QED
      BY <2>0, <2>3, <3>1, <3>2 DEF Enough
  <2>4. CASE phase = "listen" /\ W!NextEvent
    <3>1. /\ where = "buffer" /\ where' = "buffer" /\ buffer # <<>> /\ k' = 0
          /\ buffer' = Tail(buffer)
      BY <2>4 DEF W!NextEvent
    <3>2. /\ Len(buffer') = Len(buffer) - 1 /\ Head(buffer) \in File
          /\ k <= Matches[Head(buffer)] /\ Matches[Head(buffer)] \in Nat
      BY <3>1 DEF WP!WTypeOK
    <3>4. BufferMax * k <= MaxPending
      BY <1>0, <3>2, OneEvent
    <3>5. Owes(k)
      BY <2>4, <3>1 DEF Enough
    <3>6. Owes(k)'
      BY <1>0, <2>0, <3>1, <3>2, <3>4, <3>5, EventDone DEF Owes
    <3> QED
      BY <2>0, <2>4, <3>1, <3>6 DEF Enough
  <2> QED
    BY <1>7, <2>1, <2>2, <2>3, <2>4 DEF Read
<1>8. CASE SystemCall \/ (Kernel /\ UNCHANGED <<mvars, watch, image>>) \/ Interrupted
           \/ UNCHANGED rvars
  BY <1>1, <1>8 DEF SystemCall, Interrupted, Sigint, mvars, watch, rvars, vars
<1>9. CASE ((\E f \in File : W!Save(f)) \/ W!Tick) /\ UNCHANGED <<vars, image>>
  BY <1>1, <1>9 DEF W!Save, W!Tick, vars, mvars
<1> QED
  BY <1>2, <1>3, <1>4, <1>5, <1>6, <1>7, <1>8, <1>9 DEF RNext, Run

\* A match that is still to be tried is still pending.
LEMMA MatchPending ==
  ASSUME PMTypeOK, WP!WTypeOK, Enough, phase = "listen", W!HasMatch
  PROVE  pending > 0
<1>1. /\ BufferMax \in Nat \ {0} /\ MaxPending \in Nat /\ pending \in Nat /\ k \in Nat
      /\ Len(buffer) \in Nat
  BY Numbers
<1>2. /\ buffer \in Seq(File) /\ buffer # <<>> /\ where = "buffer"
      /\ k < Matches[Head(buffer)]
  BY DEF WP!WTypeOK, W!HasMatch
<1>3. Len(buffer) \in Nat \ {0} /\ Head(buffer) \in File
  BY <1>2
<1>4. k + 1 \in Nat /\ k + 1 <= Matches[Head(buffer)]
  BY <1>1, <1>2, <1>3, WatcherAssumption
<1>5. BufferMax * (k + 1) <= MaxPending
  BY <1>3, <1>4, OneEvent
<1>6. BufferMax * pending >= MaxPending * Len(buffer) - BufferMax * k
  BY <1>2 DEF Enough, Owes
<1>7. pending = 0 => BufferMax * (k + 1) > MaxPending
  BY <1>1, <1>3, <1>6, NothingOwed
<1>8. BufferMax * (k + 1) \in Int
  BY <1>1
<1> QED
  BY <1>1, <1>5, <1>7, <1>8

\* Between two calls the two sides of the model are at corresponding places,
\* and the manager expects at least the changes that listen() may still find
\* in its buffer.
SidesAgree ==
  at = "idle" =>
    /\ phase = "idle"   => where = "main"
    /\ phase = "listen" => \/ where = "select"
                           \/ where = "buffer" /\ (W!HasMatch => pending > 0)
    /\ phase \in {"rebuild", "halt", "build"} => where = phase
    /\ phase \in {"tests", "stop", "start"}   => where = "relaunch"
    /\ phase \in Closing                      => where = "done"

\* The guards that Both joins hold together: what one side of the thread does
\* next the other one is ready for.  This is about the composition, which has
\* two program counters for the one call stack of the code.
LEMMA SidesAgreeHolds == RSpec => []SidesAgree
<1>1. RInit => Sides /\ Enough
  BY DEF RInit, PMInit, W!WInit, Sides, Enough, Closing
<1>2. PMInv /\ WP!WTypeOK /\ Sides /\ Enough /\ [RNext]_rvars => Sides' /\ Enough'
  BY KeepsSides, KeepsEnough DEF PMInv
<1>3. PMInv /\ WP!WTypeOK /\ Sides /\ Enough => SidesAgree
  BY MatchPending DEF PMInv, Sides, SidesAgree
<1>4. RSpec => []WP!WTypeOK
  <2>1. WP!WSpec => []WP!WTypeOK
    BY WP!WTypeCorrect DEF WP!MatchesAssumption, WP!CooldownAssumption, WP!SizesAssumption
  <2> QED
    BY <2>1, WatcherBehaviour, PTL
<1> QED
  BY <1>1, <1>2, <1>3, <1>4, ManagerImplemented, PMInvariance, PTL DEF RSpec
=============================================================================
