--------------------------- MODULE PrototypeProofs ---------------------------
(***************************************************************************)
(* What TLAPS proves of Prototype, for any number of pids and events: with *)
(* every watcher that a failed execvp() adds, and whatever a failed fork() *)
(* leaves in progpid.                                                      *)
(***************************************************************************)
EXTENDS Prototype, TLAPS

USE NamesAssumption, EventsAssumption

-----------------------------------------------------------------------------
(* The inductive invariant.                                                *)

\* rebuild() waits for its own make, and knows how it has ended.
Waiting ==
  \A p \in Proc :
    /\ at[p] # "wait" => build[p] = None
    /\ state[p] = "watcher" /\ at[p] = "wait" =>
         /\ state[build[p]] \in {"build", "exited", "failed"}
         /\ state[build[p]] = "exited" => built[p]

\* Only a watcher has children.
Parents == \A c \in Proc : parent[c] # None => state[parent[c]] = "watcher"

NoProgram(p) == \A c \in Proc : ~(state[c] = "program" /\ parent[c] = p)

\* Before a program is started, and when a watcher ends, there is none.
Replaced ==
  "interrupted" \notin faults =>
    \A p \in Proc : at[p] \in {"launch", "end"} => NoProgram(p)

\* Where a second watcher, and a signal to the first one, come from.
Origins ==
  /\ Main \in told \/ (\E p \in Proc : progpid[p] = Main) => "fork" \in faults
  /\ \A c \in Pid : state[c] = "watcher" => "exec" \in faults

\* As long as fork() succeeds, progpid is None or names a child.
OwnProgram ==
  "fork" \notin faults =>
    \A p \in Proc : at[p] \notin {"launch", "end"} /\ progpid[p] # None =>
      IsChild(p, progpid[p]) /\ (at[p] = "wait" => build[p] # progpid[p])

PInv ==
  /\ PTypeOK /\ ReplacedWhenBuilt /\ ProgramKnown /\ NoOrphan
  /\ Waiting /\ Parents /\ Replaced /\ Origins /\ OwnProgram

\* None is no process, and no history is ever forgotten.
LEMMA Basics ==
  ASSUME PTypeOK
  PROVE  /\ None \notin Proc /\ Main \in Proc /\ Proc = Pid \cup {Main}
         /\ state \in [Proc -> {"free", "watcher", "program", "build", "exited", "failed"}]
         /\ parent \in [Proc -> Proc \cup {None}] /\ told \subseteq Proc
         /\ at \in [Proc -> Point] /\ gRunning \in [Proc -> BOOLEAN]
         /\ events \in [Proc -> 0..MaxEvents] /\ built \in [Proc -> BOOLEAN]
         /\ progpid \in [Proc -> Proc \cup {None}] /\ build \in [Proc -> Proc \cup {None}]
BY DEF PTypeOK, Proc

LEMMA PInitInv == PInit => PInv
<1> SUFFICES ASSUME PInit PROVE PInv
  OBVIOUS
<1>1. PTypeOK
  BY DEF PInit, PTypeOK, Proc, Point, Live
<1>2. ReplacedWhenBuilt /\ ProgramKnown /\ NoOrphan
  BY DEF PInit, ReplacedWhenBuilt, ProgramKnown, NoOrphan
<1>3. Waiting /\ Parents /\ Replaced /\ Origins /\ OwnProgram
  BY DEF PInit, Waiting, Parents, Replaced, NoProgram, Origins, OwnProgram, Proc
<1> QED
  BY <1>1, <1>2, <1>3 DEF PInv

-----------------------------------------------------------------------------
(* The steps.                                                              *)

\* finish() counts an event that is there.
LEMMA Finished ==
  ASSUME PTypeOK, NEW p \in Proc, Finish(p)
  PROVE  events' \in [Proc -> 0..MaxEvents]
<1>1. events \in [Proc -> 0..MaxEvents] /\ MaxEvents \in Nat
  BY DEF PTypeOK
<1>2. (IF events[p] = 0 THEN 0 ELSE events[p] - 1) \in 0..MaxEvents
  BY <1>1
<1> QED
  BY <1>1, <1>2 DEF Finish

\* A step of a watcher that is neither waiting nor about to replace anything.
LEMMA LocalInv ==
  ASSUME PInv, NEW p \in Proc, Own, UNCHANGED <<progpid, build>>,
         state[p] = "watcher", at[p] \in {"test", "read", "event"},
         NEW q \in {"test", "read", "event", "rebuild", "quit"}, at' = [at EXCEPT ![p] = q],
         gRunning' = gRunning, events' \in [Proc -> 0..MaxEvents]
  PROVE  PInv'
<1>0. PTypeOK
  BY DEF PInv
<1>1. /\ UNCHANGED <<state, parent, told, built, faults, progpid, build>> /\ q \in Point
      /\ \A o \in Proc : at'[o] = at[o] \/ (o = p /\ at'[o] = q)
  BY <1>0, Basics DEF Own, Point
<1>2. PTypeOK'
  BY <1>0, <1>1 DEF PTypeOK, Live, IsChild
<1>3. ReplacedWhenBuilt' /\ ProgramKnown' /\ NoOrphan' /\ Parents' /\ Replaced' /\ Origins'
  BY <1>1 DEF PInv, ReplacedWhenBuilt, ProgramKnown, NoOrphan, Parents, Replaced, NoProgram, Origins
<1>4. Waiting' /\ OwnProgram'
  BY <1>1 DEF PInv, Waiting, OwnProgram, IsChild
<1> QED
  BY <1>2, <1>3, <1>4 DEF PInv

LEMMA LoopInv ==
  ASSUME PInv, NEW p \in Proc, Test(p) \/ Read(p) \/ NextEvent(p) \/ Event(p)
  PROVE  PInv'
<1>0. PTypeOK
  BY DEF PInv
<1>1. CASE Test(p)
  <2>1. events' \in [Proc -> 0..MaxEvents]
    BY <1>0, <1>1 DEF Test, Handle, PTypeOK
  <2> QED
    BY <1>1, <2>1, LocalInv DEF Test, Goto, Handle
<1>2. CASE Read(p)
  <2>1. events' \in [Proc -> 0..MaxEvents]
    BY <1>0, <1>2 DEF Read, PTypeOK
  <2> QED
    BY <1>2, <2>1, LocalInv DEF Read, Goto
<1>3. CASE NextEvent(p)
  <2>1. events' \in [Proc -> 0..MaxEvents]
    BY <1>0, <1>3 DEF NextEvent, Handle, PTypeOK
  <2> QED
    BY <1>3, <2>1, LocalInv DEF NextEvent, Goto, Handle
<1>4. CASE Event(p)
  <2>1. events' \in [Proc -> 0..MaxEvents]
    BY <1>0, <1>4, Finished DEF Event, PTypeOK
  <2> QED
    BY <1>4, <2>1, LocalInv DEF Event, Goto
<1> QED
  BY <1>1, <1>2, <1>3, <1>4

\* A child that is waited for was none of the programs, and becomes free.
LEMMA ReapInv ==
  ASSUME PInv, NEW p \in Proc, NEW c, Reap(p, c)
  PROVE  /\ c \in Proc /\ parent[c] = p /\ state[c] \in {"exited", "failed"} /\ c \notin told
         /\ state' = [state EXCEPT ![c] = "free"] /\ parent' = [parent EXCEPT ![c] = None]
         /\ state[p] = "watcher" /\ p # c
BY Basics DEF PInv, Reap, IsChild, Zombie, PTypeOK, Live, Parents

\* The build begins, or fork() fails and the event is finished.
LEMMA RebuildInv == ASSUME PInv, NEW p \in Proc, Rebuild(p) PROVE PInv'
<1>0. PTypeOK /\ None \notin Proc /\ state[p] = "watcher" /\ at[p] = "rebuild" /\ build[p] = None
  BY Basics DEF PInv, Rebuild, Goto, Waiting
<1>1. ASSUME NEW c \in Pid, Fork(p, c, "build"), build' = [build EXCEPT ![p] = c],
             at' = [at EXCEPT ![p] = "wait"], built' = [built EXCEPT ![p] = FALSE],
             UNCHANGED <<gRunning, progpid, events, faults>>
      PROVE  PInv'
  <2>1. /\ c \in Proc /\ c # p /\ state[c] = "free" /\ c \notin told /\ UNCHANGED told
        /\ state' = [state EXCEPT ![c] = "build"] /\ parent' = [parent EXCEPT ![c] = p]
    BY <1>0, <1>1, Basics DEF Fork, PTypeOK, Live
  <2>2. /\ \A o \in Proc : o # p => at'[o] = at[o] /\ build'[o] = build[o] /\ built'[o] = built[o]
        /\ \A o \in Proc : o # c => state'[o] = state[o] /\ parent'[o] = parent[o]
        /\ at'[p] = "wait" /\ build'[p] = c /\ state'[c] = "build" /\ parent'[c] = p
    BY <1>0, <1>1, <2>1, Basics DEF PTypeOK
  <2>3. PTypeOK'
    BY <1>0, <1>1, <2>1, <2>2, Basics DEF PTypeOK, Live, IsChild, Point
  <2>4. ReplacedWhenBuilt' /\ ProgramKnown' /\ NoOrphan' /\ Replaced'
    BY <1>0, <1>1, <2>1, <2>2 DEF PInv, ReplacedWhenBuilt, ProgramKnown, NoOrphan, Replaced, NoProgram
  <2>5. Waiting' /\ Parents' /\ Origins'
    BY <1>0, <1>1, <2>1, <2>2, Basics DEF PInv, Waiting, Parents, Origins, PTypeOK, IsChild
  <2>6. OwnProgram'
    BY <1>0, <1>1, <2>1, <2>2 DEF PInv, OwnProgram, IsChild
  <2> QED
    BY <2>3, <2>4, <2>5, <2>6 DEF PInv
<1>2. ASSUME at' = [at EXCEPT ![p] = "event"], Finish(p), ForkFails,
             UNCHANGED <<build, gRunning, progpid>>
      PROVE  PInv'
  <2>1. /\ UNCHANGED <<state, parent, told, built, progpid, build>> /\ faults' = faults \cup {"fork"}
        /\ \A o \in Proc : at'[o] = at[o] \/ (o = p /\ at'[o] = "event")
    BY <1>0, <1>2, Basics DEF ForkFails
  <2>2. PTypeOK'
    BY <1>0, <1>2, <2>1, Finished, Basics DEF PTypeOK, Live, IsChild, Point, Fault
  <2>3. ReplacedWhenBuilt' /\ ProgramKnown' /\ NoOrphan' /\ Replaced'
    BY <2>1 DEF PInv, ReplacedWhenBuilt, ProgramKnown, NoOrphan, Replaced, NoProgram
  <2>4. Waiting' /\ Parents' /\ Origins' /\ OwnProgram'
    BY <1>0, <2>1 DEF PInv, Waiting, Parents, Origins, OwnProgram
  <2> QED
    BY <2>2, <2>3, <2>4 DEF PInv
<1> QED
  BY <1>1, <1>2 DEF Rebuild, Goto

\* The build is over: with status 0 the program will be replaced.
LEMMA WaitInv == ASSUME PInv, NEW p \in Proc, Wait(p) PROVE PInv'
<1> DEFINE c == build[p]
<1>0. /\ PTypeOK /\ None \notin Proc /\ state[p] = "watcher" /\ at[p] = "wait"
      /\ c \in Proc /\ parent[c] = p /\ state[c] \in {"exited", "failed"} /\ c \notin told /\ p # c
      /\ state' = [state EXCEPT ![c] = "free"] /\ parent' = [parent EXCEPT ![c] = None]
      /\ build' = [build EXCEPT ![p] = None]
      /\ UNCHANGED <<told, built, faults, gRunning, progpid>>
  BY ReapInv, Basics DEF PInv, Wait, Goto
<1>1. PICK q : at' = [at EXCEPT ![p] = q] /\ (q = "event" \/ (q = "kill" /\ state[c] = "exited"))
  BY DEF Wait, Goto
<1>2. /\ \A o \in Proc : o # p => at'[o] = at[o] /\ build'[o] = build[o]
      /\ \A o \in Proc : o # c => state'[o] = state[o] /\ parent'[o] = parent[o]
      /\ at'[p] = q /\ build'[p] = None /\ state'[c] = "free" /\ parent'[c] = None
  BY <1>0, <1>1, Basics
<1>3. PTypeOK'
  <2>1. events' \in [Proc -> 0..MaxEvents]
    BY <1>0, Finished, Basics DEF Wait
  <2>2. \A o \in Proc : state'[o] = "watcher" /\ at'[o] = "wait" => IsChild(o, build[o])'
    BY <1>0, <1>1, <1>2 DEF PTypeOK, IsChild
  <2>3. /\ state' \in [Proc -> {"free", "watcher", "program", "build", "exited", "failed"}]
        /\ parent' \in [Proc -> Proc \cup {None}]
    BY <1>0, Basics
  <2>4. at' \in [Proc -> Point] /\ build' \in [Proc -> Proc \cup {None}]
    BY <1>0, <1>1, Basics DEF Point
  <2>5. told' \subseteq {o \in Proc : Live(o)'}
    BY <1>0, <1>2 DEF PTypeOK, Live
  <2> QED
    BY <1>0, <2>1, <2>2, <2>3, <2>4, <2>5 DEF PTypeOK
<1>4. ReplacedWhenBuilt' /\ ProgramKnown' /\ NoOrphan' /\ Replaced'
  BY <1>0, <1>1, <1>2 DEF PInv, ReplacedWhenBuilt, ProgramKnown, NoOrphan, Replaced, NoProgram, Waiting
<1>5. Waiting' /\ Parents' /\ Origins'
  BY <1>0, <1>1, <1>2 DEF PInv, Waiting, Parents, Origins, PTypeOK, IsChild
<1>6. OwnProgram'
  BY <1>0, <1>1, <1>2 DEF PInv, OwnProgram, IsChild
<1> QED
  BY <1>3, <1>4, <1>5, <1>6 DEF PInv

\* killprog() before its waitpid().
LEMMA KillInv == ASSUME PInv, NEW p \in Proc, Kill(p) PROVE PInv'
<1>0. /\ PTypeOK /\ None \notin Proc /\ state[p] = "watcher" /\ at[p] \in {"kill", "quit"}
      /\ UNCHANGED <<state, parent, built, faults, gRunning, progpid, build>>
  BY Basics DEF PInv, Kill, Goto
<1>1. PICK q : /\ at' = [at EXCEPT ![p] = q]
               /\ \/ q = "launch" /\ NoPid(p)
                  \/ q = "end" /\ (NoPid(p) \/ state[progpid[p]] = "free")
                  \/ q = "event"
                  \/ q = "reap" /\ at[p] = "kill"
                  \/ q = "quitReap"
  BY DEF Kill, Goto, NoPid, Addressed
<1>2. /\ \A o \in Proc : o # p => at'[o] = at[o]
      /\ at'[p] = q
  BY <1>0, <1>1, Basics
<1>3. told \subseteq told' /\ \A c \in told' : c \in told \/ (c \in Proc /\ c = progpid[p] /\ Live(c))
  BY <1>0, Basics DEF Kill, NoPid, Addressed
<1>4. PTypeOK'
  <2>1. events' \in [Proc -> 0..MaxEvents]
    BY <1>0, Finished, Basics DEF Kill
  <2>2. told' \subseteq {o \in Proc : Live(o)'}
    BY <1>0, <1>3 DEF PTypeOK, Live
  <2>3. at' \in [Proc -> Point]
    BY <1>0, <1>1, Basics DEF Point
  <2> QED
    BY <1>0, <1>1, <1>2, <2>1, <2>2, <2>3 DEF PTypeOK, IsChild
<1>5. ReplacedWhenBuilt' /\ ProgramKnown' /\ NoOrphan'
  BY <1>0, <1>1, <1>2 DEF PInv, ReplacedWhenBuilt, ProgramKnown, NoOrphan
<1>6. Replaced'
  <2>1. ASSUME "interrupted" \notin faults, q \in {"launch", "end"} PROVE NoProgram(p)
    BY <1>0, <1>1, <2>1 DEF PInv, ProgramKnown, NoProgram, NoPid
  <2> QED
    BY <1>0, <1>2, <2>1 DEF PInv, Replaced, NoProgram
<1>7. Waiting' /\ Parents' /\ Origins' /\ OwnProgram'
  BY <1>0, <1>1, <1>2, <1>3 DEF PInv, Waiting, Parents, Origins, OwnProgram, IsChild
<1> QED
  BY <1>4, <1>5, <1>6, <1>7 DEF PInv

\* Its waitpid().
LEMMA KillWaitsInv == ASSUME PInv, NEW p \in Proc, KillWaits(p) PROVE PInv'
<1>0. /\ PTypeOK /\ None \notin Proc /\ state[p] = "watcher" /\ at[p] \in {"reap", "quitReap"}
      /\ UNCHANGED <<told, built, faults, gRunning, events, progpid, build>> /\ build[p] = None
  BY Basics DEF PInv, KillWaits, Goto, Handle, Waiting
<1>1. PICK q \in {"launch", "end"} : at' = [at EXCEPT ![p] = q]
  BY DEF KillWaits, Goto
<1>2. at'[p] = q /\ \A o \in Proc : o # p => at'[o] = at[o]
  BY <1>0, <1>1, Basics
<1>3. \A c \in Proc :
         \/ state'[c] = state[c] /\ parent'[c] = parent[c]
         \/ /\ c = progpid[p] /\ parent[c] = p /\ state[c] \in {"exited", "failed"} /\ c \notin told
            /\ state'[c] = "free" /\ parent'[c] = None
  <2>1. CASE Reap(p, progpid[p])
    BY <1>0, <2>1, ReapInv, Basics
  <2>2. CASE UNCHANGED <<state, parent>>
    BY <2>2
  <2> QED
    BY <2>1, <2>2 DEF KillWaits
<1>4. NoProgram(p)' \/ "interrupted" \in faults
  <2>1. CASE Reap(p, progpid[p])
    BY <1>0, <1>3, <2>1, ReapInv, Basics DEF PInv, ProgramKnown, NoProgram
  <2>2. CASE ~IsChild(p, progpid[p]) /\ UNCHANGED <<state, parent>>
    BY <1>0, <2>2 DEF PInv, ProgramKnown, NoProgram, IsChild
  <2> QED
    BY <2>1, <2>2 DEF KillWaits
<1>5. PTypeOK'
  <2>1. /\ state' \in [Proc -> {"free", "watcher", "program", "build", "exited", "failed"}]
        /\ parent' \in [Proc -> Proc \cup {None}] /\ at' \in [Proc -> Point]
    BY <1>0, <1>1, Basics DEF KillWaits, Reap, Point
  <2>2. \A o \in Proc : state'[o] = "watcher" /\ at'[o] = "wait" => IsChild(o, build[o])'
    BY <1>0, <1>1, <1>2, <1>3 DEF PTypeOK, IsChild
  <2>3. told' \subseteq {o \in Proc : Live(o)'}
    BY <1>0, <1>3 DEF PTypeOK, Live
  <2> QED
    BY <1>0, <2>1, <2>2, <2>3 DEF PTypeOK
<1>6. ReplacedWhenBuilt' /\ ProgramKnown' /\ NoOrphan'
  BY <1>0, <1>1, <1>2, <1>3 DEF PInv, ReplacedWhenBuilt, ProgramKnown, NoOrphan
<1>7. Replaced'
  BY <1>0, <1>1, <1>2, <1>3, <1>4 DEF PInv, Replaced, NoProgram
<1>8. Waiting'
  BY <1>0, <1>1, <1>2, <1>3 DEF PInv, Waiting, PTypeOK, IsChild
<1>9. Parents' /\ Origins' /\ OwnProgram'
  BY <1>0, <1>1, <1>2, <1>3, Basics DEF PInv, Parents, Origins, OwnProgram, IsChild
<1> QED
  BY <1>5, <1>6, <1>7, <1>8, <1>9 DEF PInv

\* The program is started, in a child that was nobody.
LEMMA ProgramStarts ==
  ASSUME PInv, NEW p \in Proc, NEW c \in Pid,
         state[p] = "watcher", at[p] = "launch", at' = [at EXCEPT ![p] = "event"],
         Finish(p), Fork(p, c, "program"), progpid' = [progpid EXCEPT ![p] = c],
         UNCHANGED <<built, faults, gRunning, build>>
  PROVE  PInv'
<1>0. /\ PTypeOK /\ None \notin Proc /\ c \in Proc /\ c # p /\ c # Main
      /\ state[c] = "free" /\ c \notin told /\ told' = told
      /\ state' = [state EXCEPT ![c] = "program"] /\ parent' = [parent EXCEPT ![c] = p]
  BY Basics DEF PInv, Fork, PTypeOK, Live
<1>1. /\ \A o \in Proc : o # p => at'[o] = at[o] /\ progpid'[o] = progpid[o]
      /\ \A o \in Proc : o # c => state'[o] = state[o] /\ parent'[o] = parent[o]
      /\ at'[p] = "event" /\ progpid'[p] = c /\ state'[c] = "program" /\ parent'[c] = p
  BY <1>0, Basics
<1>2. PTypeOK'
  BY <1>0, <1>1, Finished, Basics DEF PTypeOK, Live, IsChild, Point
<1>3. ReplacedWhenBuilt' /\ NoOrphan' /\ Replaced'
  BY <1>0, <1>1 DEF PInv, ReplacedWhenBuilt, NoOrphan, Replaced, NoProgram
<1>4. ProgramKnown'
  BY <1>0, <1>1 DEF PInv, ProgramKnown, Replaced, NoProgram
<1>5. Waiting' /\ Parents' /\ Origins'
  BY <1>0, <1>1, Basics DEF PInv, Waiting, Parents, Origins, PTypeOK, IsChild
<1>6. OwnProgram'
  BY <1>0, <1>1 DEF PInv, OwnProgram, IsChild
<1> QED
  BY <1>2, <1>3, <1>4, <1>5, <1>6 DEF PInv

\* It cannot be executed: the child is a watcher of its own, without children.
LEMMA WatcherStarts ==
  ASSUME PInv, NEW p \in Proc, NEW c \in Pid, NEW left \in 0..MaxEvents,
         state[p] = "watcher", at[p] = "launch", ExecFails, Fork(p, c, "watcher"),
         at' = [at EXCEPT ![p] = "event", ![c] = "event"],
         events' = [events EXCEPT ![p] = left, ![c] = left],
         progpid' = [progpid EXCEPT ![p] = c, ![c] = None],
         gRunning' = [gRunning EXCEPT ![c] = gRunning[p]],
         build' = [build EXCEPT ![c] = None], built' = [built EXCEPT ![c] = FALSE]
  PROVE  PInv'
<1>0. /\ PTypeOK /\ None \notin Proc /\ c \in Proc /\ c # p /\ c # Main
      /\ state[c] = "free" /\ c \notin told /\ told' = told /\ faults' = faults \cup {"exec"}
      /\ state' = [state EXCEPT ![c] = "watcher"] /\ parent' = [parent EXCEPT ![c] = p]
  BY Basics DEF PInv, Fork, PTypeOK, Live, ExecFails
<1>1. /\ \A o \in Proc : o # p /\ o # c => at'[o] = at[o] /\ progpid'[o] = progpid[o]
      /\ \A o \in Proc : o # c =>
           state'[o] = state[o] /\ parent'[o] = parent[o] /\ build'[o] = build[o] /\ built'[o] = built[o]
      /\ at'[p] = "event" /\ progpid'[p] = c /\ state'[c] = "watcher" /\ parent'[c] = p
      /\ at'[c] = "event" /\ progpid'[c] = None /\ build'[c] = None
  BY <1>0, Basics
<1>2. PTypeOK'
  <2>1. /\ events' \in [Proc -> 0..MaxEvents] /\ gRunning' \in [Proc -> BOOLEAN]
        /\ at' \in [Proc -> Point] /\ built' \in [Proc -> BOOLEAN]
        /\ progpid' \in [Proc -> Proc \cup {None}] /\ build' \in [Proc -> Proc \cup {None}]
    BY <1>0, Basics DEF Point
  <2>2. \A o \in Proc : state'[o] = "watcher" /\ at'[o] = "wait" => IsChild(o, build[o])'
    BY <1>0, <1>1 DEF PTypeOK, IsChild
  <2> QED
    BY <1>0, <1>1, <2>1, <2>2, Basics DEF PTypeOK, Live, Fault
<1>3. /\ \A o \in Proc : at'[o] = at[o] \/ at'[o] = "event"
      /\ \A o \in Proc : state'[o] = "program" => state[o] = "program" /\ parent'[o] = parent[o]
      /\ "interrupted" \in faults' <=> "interrupted" \in faults
  BY <1>0, <1>1
<1>4. ReplacedWhenBuilt' /\ NoOrphan' /\ Replaced'
  <2>1. ReplacedWhenBuilt'
    BY <1>0, <1>1, <1>3 DEF PInv, ReplacedWhenBuilt
  <2>2. NoOrphan'
    BY <1>0, <1>3 DEF NoOrphan
  <2>3. Replaced'
    BY <1>3 DEF PInv, Replaced, NoProgram
  <2> QED
    BY <2>1, <2>2, <2>3
<1>5. ProgramKnown'
  <2>1. \A o \in Proc : parent[o] # c
    BY <1>0 DEF PInv, Parents
  <2>2. "interrupted" \notin faults => NoProgram(p)
    BY <1>0 DEF PInv, Replaced
  <2> SUFFICES ASSUME "interrupted" \notin faults, NEW q \in Proc, NEW d \in Proc,
                      state'[d] = "program", parent'[d] = q
               PROVE  progpid'[q] = d
    BY <1>3 DEF ProgramKnown
  <2>3. state[d] = "program" /\ parent[d] = q
    BY <1>3
  <2>4. q # p /\ q # c /\ progpid[q] = d
    BY <2>1, <2>2, <2>3 DEF PInv, ProgramKnown, NoProgram
  <2> QED
    BY <1>1, <2>4
<1>6. Waiting'
  BY <1>0, <1>1 DEF PInv, Waiting, PTypeOK, IsChild
<1>7. Parents' /\ Origins'
  BY <1>0, <1>1, Basics DEF PInv, Parents, Origins
<1>8. OwnProgram'
  <2> SUFFICES ASSUME "fork" \notin faults, NEW o \in Proc,
                      at'[o] \notin {"launch", "end"}, progpid'[o] # None
               PROVE  IsChild(o, progpid[o])' /\ (at'[o] = "wait" => build'[o] # progpid'[o])
    BY <1>0 DEF OwnProgram
  <2>1. CASE o = p
    BY <1>0, <1>1, <2>1 DEF IsChild
  <2>2. CASE o = c
    BY <1>1, <2>2
  <2>3. CASE o # p /\ o # c
    <3>1. PICK x : x = progpid[o]
      OBVIOUS
    <3>2. /\ x \in Proc /\ parent[x] = o /\ state[x] # "free"
          /\ at[o] = "wait" => build[o] # x
      <4>1. at[o] \notin {"launch", "end"} /\ progpid[o] # None
        BY <1>1, <2>3
      <4>2. IsChild(o, progpid[o]) /\ (at[o] = "wait" => build[o] # progpid[o])
        BY <4>1 DEF PInv, OwnProgram
      <4> QED
        BY <3>1, <4>2 DEF IsChild
    <3>3. /\ progpid'[o] = x /\ parent'[x] = o /\ state'[x] # "free"
          /\ at'[o] = at[o] /\ build'[o] = build[o]
      BY <1>0, <1>1, <2>3, <3>1, <3>2
    <3> QED
      BY <3>2, <3>3 DEF IsChild
  <2> QED
    BY <2>1, <2>2, <2>3
<1> QED
  BY <1>2, <1>4, <1>5, <1>6, <1>7, <1>8 DEF PInv

LEMMA LaunchInv == ASSUME PInv, NEW p \in Proc, Launch(p) PROVE PInv'
<1> DEFINE left == IF events[p] = 0 THEN 0 ELSE events[p] - 1
<1>1. left \in 0..MaxEvents
  BY Basics DEF PInv
<1> HIDE DEF left
<1>2. PICK c \in Pid :
        \/ /\ Goto(p, "launch", "event") /\ Finish(p) /\ Fork(p, c, "program")
           /\ progpid' = [progpid EXCEPT ![p] = c]
           /\ UNCHANGED <<built, faults, gRunning, build>>
        \/ /\ state[p] = "watcher" /\ at[p] = "launch" /\ ExecFails /\ Fork(p, c, "watcher")
           /\ at' = [at EXCEPT ![p] = "event", ![c] = "event"]
           /\ events' = [events EXCEPT ![p] = left, ![c] = left]
           /\ progpid' = [progpid EXCEPT ![p] = c, ![c] = None]
           /\ gRunning' = [gRunning EXCEPT ![c] = gRunning[p]]
           /\ build' = [build EXCEPT ![c] = None] /\ built' = [built EXCEPT ![c] = FALSE]
  BY DEF Launch, left
<1> QED
  BY <1>1, <1>2, ProgramStarts, WatcherStarts DEF Goto

\* Without a fork nothing is started, and progpid is anything.
LEMMA LaunchFailsInv == ASSUME PInv, NEW p \in Proc, LaunchFails(p) PROVE PInv'
<1>0. /\ PTypeOK /\ None \notin Proc /\ state[p] = "watcher" /\ at[p] = "launch"
      /\ at' = [at EXCEPT ![p] = "event"] /\ faults' = faults \cup {"fork"}
      /\ UNCHANGED <<state, parent, told, built, gRunning, build>>
  BY Basics DEF PInv, LaunchFails, Goto, ForkFails
<1>1. PICK garbage \in Proc \cup {None} : progpid' = [progpid EXCEPT ![p] = garbage]
  BY DEF LaunchFails
<1>2. /\ \A o \in Proc : o # p => at'[o] = at[o] /\ progpid'[o] = progpid[o]
      /\ at'[p] = "event" /\ progpid'[p] = garbage
  BY <1>0, <1>1, Basics
<1>3. PTypeOK'
  BY <1>0, <1>1, <1>2, Finished, Basics DEF LaunchFails, PTypeOK, Live, IsChild, Point, Fault
<1>4. ReplacedWhenBuilt' /\ NoOrphan' /\ Replaced' /\ ProgramKnown'
  BY <1>0, <1>2 DEF PInv, ReplacedWhenBuilt, NoOrphan, Replaced, NoProgram, ProgramKnown
<1>5. Waiting' /\ Parents' /\ Origins' /\ OwnProgram'
  BY <1>0, <1>2 DEF PInv, Waiting, Parents, Origins, OwnProgram
<1> QED
  BY <1>3, <1>4, <1>5 DEF PInv

\* A process that ends leaves its children to init.
LEMMA GoneInv ==
  ASSUME PInv, NEW x \in Proc, NEW status \in {"exited", "failed"}, Gone(x, status), Live(x),
         built' \in [Proc -> BOOLEAN],
         \A p \in Proc : p # x /\ state[p] = "watcher" =>
           built'[p] = (IF build[p] = x THEN status = "exited" ELSE built[p]),
         faults \cap {"fork", "exec", "interrupted"} = {} => NoProgram(x)
  PROVE  PInv'
<1>0. /\ PTypeOK /\ None \notin Proc /\ faults' = faults /\ told' = told \ {x}
      /\ at' = [at EXCEPT ![x] = "launch"] /\ progpid' = [progpid EXCEPT ![x] = None]
      /\ build' = [build EXCEPT ![x] = None]
  BY Basics DEF PInv, Gone
<1>1. /\ state' \in [Proc -> {"free", "watcher", "program", "build", "exited", "failed"}]
      /\ parent' \in [Proc -> Proc \cup {None}]
      /\ \A o \in Proc : o # x => at'[o] = at[o] /\ progpid'[o] = progpid[o] /\ build'[o] = build[o]
      /\ at'[x] = "launch" /\ progpid'[x] = None /\ build'[x] = None
  BY <1>0, Basics DEF Gone
<1>2. /\ state'[x] \in {"free", status} /\ (parent[x] # None => state'[x] = status)
      /\ \A o \in Proc : o # x =>
           \/ state'[o] = state[o]
           \/ parent[o] = x /\ state[o] \in {"exited", "failed"} /\ state'[o] = "free"
      /\ \A o \in Proc : parent'[o] = IF parent[o] = x THEN None ELSE parent[o]
  BY <1>0, Basics DEF Gone, Zombie
<1>3. PTypeOK'
  <2>1. /\ events' \in [Proc -> 0..MaxEvents] /\ gRunning' \in [Proc -> BOOLEAN]
        /\ at' \in [Proc -> Point]
        /\ progpid' \in [Proc -> Proc \cup {None}] /\ build' \in [Proc -> Proc \cup {None}]
    BY <1>0, Basics DEF Gone, Point
  <2>2. \A o \in Proc : state'[o] = "watcher" /\ at'[o] = "wait" => IsChild(o, build[o])'
    BY <1>0, <1>1, <1>2 DEF PTypeOK, IsChild
  <2>3. told' \subseteq {o \in Proc : Live(o)'}
    BY <1>0, <1>1, <1>2 DEF PTypeOK, Live
  <2> QED
    BY <1>0, <1>1, <2>1, <2>2, <2>3 DEF PTypeOK
<1>4. Waiting'
  BY <1>0, <1>1, <1>2 DEF PInv, Waiting, PTypeOK, IsChild
<1>5. ReplacedWhenBuilt'
  BY <1>0, <1>1, <1>2 DEF PInv, ReplacedWhenBuilt, Waiting
<1>6. ProgramKnown' /\ Replaced'
  BY <1>0, <1>1, <1>2 DEF PInv, ProgramKnown, Replaced, NoProgram
<1>7. NoOrphan'
  BY <1>0, <1>1, <1>2 DEF PInv, NoOrphan, NoProgram
<1>8. Parents' /\ Origins'
  BY <1>0, <1>1, <1>2, Basics DEF PInv, Parents, Origins
<1>9. OwnProgram'
  BY <1>0, <1>1, <1>2 DEF PInv, OwnProgram, IsChild
<1> QED
  BY <1>3, <1>4, <1>5, <1>6, <1>7, <1>8, <1>9 DEF PInv

\* A watcher that ends by itself has replaced its program by nothing.
LEMMA EndInv == ASSUME PInv, NEW p \in Proc, End(p) PROVE PInv'
<1>1. /\ PTypeOK /\ Live(p) /\ state[p] = "watcher" /\ at[p] = "end"
      /\ Gone(p, "exited") /\ built' = [built EXCEPT ![p] = FALSE]
  BY DEF PInv, End, Live
<1>2. built' \in [Proc -> BOOLEAN]
  BY <1>1, Basics
<1>3. \A o \in Proc : o # p /\ state[o] = "watcher" =>
        built'[o] = (IF build[o] = p THEN "exited" = "exited" ELSE built[o])
  <2> SUFFICES ASSUME NEW o \in Proc, o # p, state[o] = "watcher"
               PROVE  build[o] # p /\ built'[o] = built[o]
    OBVIOUS
  <2>1. build[o] # p
    BY <1>1, Basics DEF PInv, Waiting
  <2> QED
    BY <1>1, <2>1, Basics
<1>4. faults \cap {"fork", "exec", "interrupted"} = {} => NoProgram(p)
  BY <1>1 DEF PInv, Replaced
<1> QED
  BY <1>1, <1>2, <1>3, <1>4, GoneInv

\* A build and a program have no children; only fork() and execvp() make a
\* SIGTERM reach a watcher.
LEMMA ExitInv == ASSUME PInv, NEW c \in Proc, Exit(c) PROVE PInv'
<1>1. PTypeOK /\ Live(c)
  BY DEF PInv, PTypeOK, Exit, Live
<1>2. PICK status \in {"exited", "failed"} :
        /\ Gone(c, status)
        /\ built' = [p \in Proc |-> IF build[p] = c THEN status = "exited" ELSE p # c /\ built[p]]
  BY DEF Exit
<1>3. built' \in [Proc -> BOOLEAN]
  BY <1>1, <1>2, Basics
<1>4. \A p \in Proc : p # c /\ state[p] = "watcher" =>
        built'[p] = (IF build[p] = c THEN status = "exited" ELSE built[p])
  BY <1>1, <1>2, Basics
<1>5. faults \cap {"fork", "exec", "interrupted"} = {} => NoProgram(c)
  <2>1. CASE state[c] = "watcher"
    BY <1>1, <2>1, Basics DEF PInv, Exit, Origins
  <2>2. CASE state[c] # "watcher"
    BY <1>1, <2>2, Basics DEF PInv, Parents, NoProgram
  <2> QED
    BY <2>1, <2>2
<1> QED
  BY <1>1, <1>2, <1>3, <1>4, <1>5, GoneInv

\* SIGINT: what it interrupts is no longer waited for.
LEMMA SigintInv == ASSUME PInv, NEW p \in Proc, Sigint(p) PROVE PInv'
<1>0. /\ PTypeOK /\ None \notin Proc /\ state[p] = "watcher"
      /\ gRunning' = [gRunning EXCEPT ![p] = FALSE]
      /\ UNCHANGED <<state, parent, told, built, events, progpid>>
  BY Basics DEF PInv, Sigint
<1>1. \/ UNCHANGED <<at, build>> /\ faults \subseteq faults' /\ faults' \subseteq faults \cup {"missed"}
      \/ /\ at[p] = "read" /\ at' = [at EXCEPT ![p] = "test"] /\ UNCHANGED <<build, faults>>
      \/ /\ \/ at[p] = "wait" /\ at' = [at EXCEPT ![p] = "kill"]
            \/ at[p] = "reap" /\ at' = [at EXCEPT ![p] = "launch"]
         /\ faults' = faults \cup {"interrupted"} /\ build' = [build EXCEPT ![p] = None]
  BY DEF Sigint
<1>2. /\ faults \subseteq faults' /\ faults' \subseteq faults \cup {"missed", "interrupted"}
      /\ \A o \in Proc : o # p => at'[o] = at[o] /\ build'[o] = build[o]
      /\ \/ at'[p] = at[p] /\ build'[p] = build[p]
         \/ at[p] = "read" /\ at'[p] = "test" /\ build'[p] = build[p]
         \/ /\ at[p] \in {"wait", "reap"} /\ at'[p] \in {"kill", "launch"} /\ build'[p] = None
            /\ "interrupted" \in faults'
  BY <1>0, <1>1, Basics
<1>3. PTypeOK'
  <2>1. /\ at' \in [Proc -> Point] /\ build' \in [Proc -> Proc \cup {None}]
        /\ gRunning' \in [Proc -> BOOLEAN]
    BY <1>0, <1>1, Basics DEF Point
  <2> QED
    BY <1>0, <1>2, <2>1 DEF PTypeOK, Live, IsChild, Fault
<1>4. ReplacedWhenBuilt'
  BY <1>0, <1>2 DEF PInv, ReplacedWhenBuilt
<1>5. ProgramKnown' /\ NoOrphan' /\ Replaced'
  BY <1>0, <1>2 DEF PInv, ProgramKnown, NoOrphan, Replaced, NoProgram
<1>6. Waiting' /\ Parents' /\ Origins'
  BY <1>0, <1>2 DEF PInv, Waiting, Parents, Origins
<1>7. OwnProgram'
  BY <1>0, <1>2 DEF PInv, OwnProgram, IsChild
<1> QED
  BY <1>3, <1>4, <1>5, <1>6, <1>7 DEF PInv

LEMMA PNextInv == PInv /\ [PNext]_vars => PInv'
<1> SUFFICES ASSUME PInv, [PNext]_vars PROVE PInv'
  OBVIOUS
<1>1. CASE UNCHANGED vars
  BY <1>1 DEF vars, PInv, PTypeOK, Live, IsChild, ReplacedWhenBuilt, ProgramKnown, NoOrphan,
              Waiting, Parents, Replaced, NoProgram, Origins, OwnProgram
<1>2. CASE PNext
  <2>1. PICK p \in Proc : Step(p) \/ Read(p) \/ Exit(p) \/ Sigint(p)
    BY <1>2 DEF PNext
  <2> QED
    BY <2>1, LoopInv, RebuildInv, WaitInv, KillInv, KillWaitsInv, LaunchInv, LaunchFailsInv,
       EndInv, ExitInv, SigintInv DEF Step
<1> QED
  BY <1>1, <1>2

THEOREM PInvariance == PSpec => []PInv
<1> QED
  BY PInitInv, PNextInv, PTL DEF PSpec

-----------------------------------------------------------------------------
(* What it implies.                                                        *)

\* Type correctness: a watcher that waits for a build has a child to wait for,
\* and SIGTERM is pending only for processes that run.
THEOREM PTypeCorrect == PSpec => []PTypeOK
<1>1. PInv => PTypeOK
  BY DEF PInv
<1> QED
  BY <1>1, PInvariance, PTL

\* A program is replaced only after a build that has succeeded.
THEOREM ReplacedWhenBuiltCorrect == PSpec => []ReplacedWhenBuilt
<1>1. PInv => ReplacedWhenBuilt
  BY DEF PInv
<1> QED
  BY <1>1, PInvariance, PTL

\* A watcher knows its program, even after a fork() that has failed.
THEOREM ProgramKnownCorrect == PSpec => []ProgramKnown
<1>1. PInv => ProgramKnown
  BY DEF PInv
<1> QED
  BY <1>1, PInvariance, PTL

\* No program is an orphan as long as nothing has failed.
THEOREM NoOrphanCorrect == PSpec => []NoOrphan
<1>1. PInv => NoOrphan
  BY DEF PInv
<1> QED
  BY <1>1, PInvariance, PTL

\* As long as fork() succeeds, SIGTERM goes to a child of its sender.
THEOREM SignalsChildCorrect == PSpec => SignalsChild
<1> DEFINE Sent == \A c \in told' \ told :
                     "fork" \in faults \/ \E p \in Proc : at[p] \in {"kill", "quit"} /\ parent[c] = p
<1>1. PInv /\ [PNext]_vars => [Sent]_vars
  <2> SUFFICES ASSUME PInv, PNext, NEW c \in told' \ told, "fork" \notin faults
               PROVE  \E p \in Proc : at[p] \in {"kill", "quit"} /\ parent[c] = p
    BY DEF vars
  <2>1. PICK p \in Proc : Step(p) \/ Read(p) \/ Exit(p) \/ Sigint(p)
    BY DEF PNext
  <2>2. Kill(p)
    BY <2>1 DEF Step, Test, NextEvent, Event, Rebuild, Wait, KillWaits, Launch, LaunchFails, End,
                Read, Exit, Sigint, Own, Fork, ForkFails, Gone
  <2>3. at[p] \in {"kill", "quit"} /\ c = progpid[p]
    BY <2>2, Basics DEF PInv, Kill, Goto, NoPid, Addressed
  <2>4. parent[c] = p
    BY <2>2, <2>3, Basics DEF PInv, OwnProgram, IsChild, Kill, NoPid
  <2> QED
    BY <2>3, <2>4
<1> QED
  BY <1>1, PInvariance, PTL DEF PSpec, SignalsChild

-----------------------------------------------------------------------------
(* Why a watcher comes back to its read(), or to its end.                  *)

\* Left, as a function of the place of a watcher and of its events.
Way(place, n) ==
  IF place \in DOMAIN Handling
  THEN 7 * (IF n = 0 THEN 1 ELSE n) + Handling[place]
  ELSE 7 * n + Leaving[place]

\* What Finish() leaves of n events.
Rest(n) == IF n = 0 THEN 0 ELSE n - 1

LEMMA Places ==
  ASSUME NEW n \in Nat
  PROVE  LET m == IF n = 0 THEN 1 ELSE n IN
         /\ Way("rebuild", n) = 7 * m + 4 /\ Way("wait", n) = 7 * m + 3
         /\ Way("kill", n) = 7 * m + 2    /\ Way("reap", n) = 7 * m + 1
         /\ Way("launch", n) = 7 * m      /\ Way("event", n) = 7 * n + 5
         /\ Way("test", n) = 7 * n + 4    /\ Way("read", n) = 7 * n + 3
         /\ Way("quit", n) = 7 * n + 3    /\ Way("quitReap", n) = 7 * n + 2
         /\ Way("end", n) = 7 * n + 1
<1>1. DOMAIN Handling = {"rebuild", "wait", "kill", "reap", "launch"}
  BY DEF Handling
<1>2. /\ Handling["rebuild"] = 4 /\ Handling["wait"] = 3 /\ Handling["kill"] = 2
      /\ Handling["reap"] = 1 /\ Handling["launch"] = 0
      /\ Leaving["event"] = 5 /\ Leaving["test"] = 4 /\ Leaving["read"] = 3
      /\ Leaving["quit"] = 3 /\ Leaving["quitReap"] = 2 /\ Leaving["end"] = 1
  BY DEF Handling, Leaving
<1> QED
  BY <1>1, <1>2 DEF Way

\* Whatever a watcher does at one place, the next one is nearer to the end.
LEMMA Onward ==
  ASSUME NEW n \in Nat
  PROVE  /\ n > 0 => Way("rebuild", n) < Way("event", n)
         /\ n > 0 => Way("event", Rest(n)) < Way("event", n)
         /\ n = 0 => Way("test", n) < Way("event", n)
         /\ Way("wait", n) < Way("rebuild", n) /\ Way("kill", n) < Way("wait", n)
         /\ Way("reap", n) < Way("kill", n) /\ Way("launch", n) < Way("reap", n)
         /\ Way("launch", n) < Way("kill", n)
         /\ \A q \in {"rebuild", "wait", "kill", "launch"} : Way("event", Rest(n)) < Way(q, n)
         /\ Way("read", n) < Way("test", n) /\ Way("quit", n) < Way("test", n)
         /\ Way("quitReap", n) < Way("quit", n) /\ Way("end", n) < Way("quit", n)
         /\ Way("end", Rest(n)) < Way("quit", n) /\ Way("end", n) < Way("quitReap", n)
<1> DEFINE m == IF n = 0 THEN 1 ELSE n
<1>1. m \in Nat /\ m >= n /\ Rest(n) \in Nat /\ m >= Rest(n) + 1 /\ (n > 0 => Rest(n) = n - 1)
  BY DEF Rest
<1>2. /\ Way("rebuild", n) = 7 * m + 4 /\ Way("wait", n) = 7 * m + 3
      /\ Way("kill", n) = 7 * m + 2    /\ Way("reap", n) = 7 * m + 1
      /\ Way("launch", n) = 7 * m      /\ Way("event", n) = 7 * n + 5
      /\ Way("test", n) = 7 * n + 4    /\ Way("read", n) = 7 * n + 3
      /\ Way("quit", n) = 7 * n + 3    /\ Way("quitReap", n) = 7 * n + 2
      /\ Way("end", n) = 7 * n + 1
  BY Places
<1>3. Way("event", Rest(n)) = 7 * Rest(n) + 5 /\ Way("end", Rest(n)) = 7 * Rest(n) + 1
  BY <1>1, Places
<1>4. n > 0 => m = n
  OBVIOUS
<1>5. n = 0 => Rest(n) = 0
  BY DEF Rest
<1> HIDE DEF m
<1>6. /\ Way("event", Rest(n)) < Way("launch", n) /\ Way("event", Rest(n)) < Way("kill", n)
      /\ Way("event", Rest(n)) < Way("wait", n) /\ Way("event", Rest(n)) < Way("rebuild", n)
  BY <1>1, <1>2, <1>3
<1>7. /\ n > 0 => Way("rebuild", n) < Way("event", n)
      /\ n > 0 => Way("event", Rest(n)) < Way("event", n)
      /\ Way("end", Rest(n)) < Way("quit", n)
  BY <1>1, <1>2, <1>3, <1>4, <1>5
<1>8. /\ n = 0 => Way("test", n) < Way("event", n)
      /\ Way("wait", n) < Way("rebuild", n) /\ Way("kill", n) < Way("wait", n)
      /\ Way("reap", n) < Way("kill", n) /\ Way("launch", n) < Way("reap", n)
      /\ Way("launch", n) < Way("kill", n)
      /\ Way("read", n) < Way("test", n) /\ Way("quit", n) < Way("test", n)
      /\ Way("quitReap", n) < Way("quit", n) /\ Way("end", n) < Way("quit", n)
      /\ Way("end", n) < Way("quitReap", n)
  BY <1>1, <1>2
<1> QED
  BY <1>6, <1>7, <1>8

\* A step that a watcher takes brings it nearer to its next read() or its end.
LEMMA StepNearer ==
  ASSUME PTypeOK, NEW p \in Proc, Step(p), state'[p] = "watcher"
  PROVE  Left(p)' < Left(p)
<1> DEFINE n == events[p]
<1>0. /\ n \in Nat /\ at \in [Proc -> Point] /\ events \in [Proc -> 0..MaxEvents]
      /\ state \in [Proc -> {"free", "watcher", "program", "build", "exited", "failed"}]
  BY Basics
<1>1. Left(p) = Way(at[p], n) /\ Left(p)' = Way(at'[p], events'[p])
  BY DEF Left, Way
<1>2. Finish(p) => events'[p] = Rest(n)
  BY <1>0 DEF Finish, Rest
<1>3. ASSUME NEW from, NEW to, Goto(p, from, to) PROVE at[p] = from /\ at'[p] = to
  BY <1>0, <1>3 DEF Goto
<1> HIDE DEF n
<1>4. CASE Test(p)
  <2>1. at[p] = "test" /\ at'[p] \in {"read", "quit"} /\ events'[p] = n
    BY <1>3, <1>4 DEF Test, Handle, n
  <2> QED
    BY <1>0, <1>1, <2>1, Onward
<1>5. CASE NextEvent(p)
  <2>1. at[p] = "event" /\ at'[p] = "test" /\ n = 0 /\ events'[p] = n
    BY <1>3, <1>5 DEF NextEvent, Handle, n
  <2> QED
    BY <1>0, <1>1, <2>1, Onward
<1>6. CASE Event(p)
  <2>1. /\ at[p] = "event" /\ n > 0
        /\ \/ at'[p] = "rebuild" /\ events'[p] = n
           \/ at'[p] = "event" /\ events'[p] = Rest(n)
    BY <1>2, <1>3, <1>6 DEF Event, n
  <2> QED
    BY <1>0, <1>1, <2>1, Onward
<1>7. CASE Rebuild(p)
  <2>1. /\ at[p] = "rebuild"
        /\ \/ at'[p] = "wait" /\ events'[p] = n
           \/ at'[p] = "event" /\ events'[p] = Rest(n)
    BY <1>2, <1>3, <1>7 DEF Rebuild, n
  <2> QED
    BY <1>0, <1>1, <2>1, Onward
<1>8. CASE Wait(p)
  <2>1. /\ at[p] = "wait"
        /\ \/ at'[p] = "kill" /\ events'[p] = n
           \/ at'[p] = "event" /\ events'[p] = Rest(n)
    BY <1>2, <1>3, <1>8 DEF Wait, n
  <2> QED
    BY <1>0, <1>1, <2>1, Onward
<1>9. CASE Kill(p)
  <2>1. \/ at[p] = "kill" /\ at'[p] \in {"launch", "reap"} /\ events'[p] = n
        \/ at[p] = "kill" /\ at'[p] = "event" /\ events'[p] = Rest(n)
        \/ at[p] = "quit" /\ at'[p] \in {"end", "quitReap"} /\ events'[p] = n
        \/ at[p] = "quit" /\ at'[p] = "end" /\ events'[p] = Rest(n)
    BY <1>2, <1>3, <1>9 DEF Kill, n
  <2> QED
    BY <1>0, <1>1, <2>1, Onward
<1>10. CASE KillWaits(p)
  <2>1. /\ \/ at[p] = "reap" /\ at'[p] = "launch"
           \/ at[p] = "quitReap" /\ at'[p] = "end"
        /\ events'[p] = n
    BY <1>3, <1>10 DEF KillWaits, Handle, n
  <2> QED
    BY <1>0, <1>1, <2>1, Onward
<1>11. CASE Launch(p) \/ LaunchFails(p)
  <2>1. at[p] = "launch" /\ at'[p] = "event" /\ events'[p] = Rest(n)
    <3>1. CASE LaunchFails(p)
      BY <1>2, <1>3, <3>1 DEF LaunchFails
    <3>2. CASE Launch(p)
      <4>1. PICK c \in Pid :
              \/ Goto(p, "launch", "event") /\ Finish(p)
              \/ /\ state[p] = "watcher" /\ at[p] = "launch" /\ state[c] = "free"
                 /\ at' = [at EXCEPT ![p] = "event", ![c] = "event"]
                 /\ events' = [events EXCEPT ![p] = Rest(n), ![c] = Rest(n)]
        BY <3>2 DEF Launch, Fork, Rest, n
      <4>2. CASE Goto(p, "launch", "event") /\ Finish(p)
        BY <1>2, <1>3, <4>2
      <4>3. CASE ~(Goto(p, "launch", "event") /\ Finish(p))
        BY <1>0, <4>1, <4>3
      <4> QED
        BY <4>2, <4>3
    <3> QED
      BY <1>11, <3>1, <3>2
  <2> QED
    BY <1>0, <1>1, <2>1, Onward
<1>12. CASE End(p)
  BY <1>0, <1>12 DEF End, Gone
<1> QED
  BY <1>4, <1>5, <1>6, <1>7, <1>8, <1>9, <1>10, <1>11, <1>12 DEF Step

\* A step of another watcher leaves it where it is.
LEMMA OthersStep ==
  ASSUME PTypeOK, NEW p \in Proc, NEW o \in Proc, o # p, state[p] = "watcher",
         Step(o) \/ Read(o)
  PROVE  UNCHANGED <<at[p], events[p]>>
<1>0. /\ at \in [Proc -> Point] /\ events \in [Proc -> 0..MaxEvents]
  BY Basics
<1>1. Finish(o) => events'[p] = events[p]
  BY <1>0 DEF Finish
<1>2. ASSUME NEW from, NEW to, Goto(o, from, to) PROVE at'[p] = at[p]
  BY <1>0, <1>2 DEF Goto
<1>3. CASE Test(o) \/ NextEvent(o) \/ Event(o) \/ Read(o)
  BY <1>0, <1>1, <1>2, <1>3 DEF Test, NextEvent, Event, Read, Handle
<1>4. CASE Rebuild(o) \/ Wait(o) \/ LaunchFails(o)
  BY <1>0, <1>1, <1>2, <1>4 DEF Rebuild, Wait, LaunchFails
<1>5. CASE Kill(o) \/ KillWaits(o)
  BY <1>0, <1>1, <1>2, <1>5 DEF Kill, KillWaits, Handle
<1>6. CASE Launch(o)
  <2>1. PICK c \in Pid :
          \/ Goto(o, "launch", "event") /\ Finish(o)
          \/ /\ state[c] = "free"
             /\ at' = [at EXCEPT ![o] = "event", ![c] = "event"]
             /\ \E left : events' = [events EXCEPT ![o] = left, ![c] = left]
    BY <1>6 DEF Launch, Fork
  <2>2. CASE Goto(o, "launch", "event") /\ Finish(o)
    BY <1>1, <1>2, <2>2
  <2>3. CASE ~(Goto(o, "launch", "event") /\ Finish(o))
    <3>1. c # p
      BY <2>1, <2>3
    <3> QED
      BY <1>0, <2>1, <2>3, <3>1
  <2> QED
    BY <2>2, <2>3
<1>7. CASE End(o)
  BY <1>0, <1>7 DEF End, Gone
<1> QED
  BY <1>3, <1>4, <1>5, <1>6, <1>7 DEF Step

\* The environment only ever makes a watcher give up waiting.
LEMMA OutsideNearer ==
  ASSUME PTypeOK, NEW p \in Proc, NEW o \in Proc, state[p] = "watcher",
         state'[p] = "watcher", Exit(o) \/ Sigint(o)
  PROVE  Left(p)' < Left(p) \/ UNCHANGED <<at[p], events[p]>> \/ at[p] = "read"
<1>0. /\ at \in [Proc -> Point] /\ events \in [Proc -> 0..MaxEvents] /\ events[p] \in Nat
      /\ state \in [Proc -> {"free", "watcher", "program", "build", "exited", "failed"}]
  BY Basics
<1>1. CASE Exit(o)
  <2>1. \E status \in {"exited", "failed"} : Gone(o, status)
    BY <1>1 DEF Exit
  <2>2. o # p
    BY <1>0, <2>1 DEF Gone
  <2> QED
    BY <1>0, <2>1, <2>2 DEF Gone
<1>2. CASE Sigint(o)
  <2>1. events' = events
    BY <1>2 DEF Sigint
  <2>2. CASE at'[p] = at[p]
    BY <2>1, <2>2
  <2>3. CASE at'[p] # at[p]
    <3>1. \/ at[p] = "read"
          \/ at[p] = "wait" /\ at'[p] = "kill"
          \/ at[p] = "reap" /\ at'[p] = "launch"
      BY <1>0, <1>2, <2>3 DEF Sigint
    <3>2. Left(p) = Way(at[p], events[p]) /\ Left(p)' = Way(at'[p], events[p])
      BY <2>1 DEF Left, Way
    <3> QED
      BY <1>0, <3>1, <3>2, Onward
  <2> QED
    BY <2>2, <2>3
<1> QED
  BY <1>1, <1>2

\* Apart from read() nothing makes a watcher's way longer: for any number of
\* events, watchers, failures and signals each of them comes back to read() or
\* to its end, as long as the processes it waits for do end.
THEOREM WorkBoundedCorrect == PSpec => WorkBounded
<1>1. ASSUME PTypeOK, [PNext]_vars, NEW p \in Proc, state[p] = "watcher", state'[p] = "watcher"
      PROVE  Left(p)' < Left(p) \/ UNCHANGED <<at[p], events[p]>> \/ at[p] = "read"
  <2>1. CASE UNCHANGED vars
    BY <2>1 DEF vars
  <2>2. CASE PNext
    <3>1. PICK o \in Proc : Step(o) \/ Read(o) \/ Exit(o) \/ Sigint(o)
      BY <2>2 DEF PNext
    <3>2. CASE Exit(o) \/ Sigint(o)
      BY <1>1, <3>2, OutsideNearer
    <3>3. CASE (Step(o) \/ Read(o)) /\ o # p
      BY <1>1, <3>3, OthersStep
    <3>4. CASE Step(o) /\ o = p
      BY <1>1, <3>4, StepNearer
    <3>5. CASE Read(o) /\ o = p
      BY <3>5 DEF Read, Goto
    <3> QED
      BY <3>1, <3>2, <3>3, <3>4, <3>5
  <2> QED
    BY <1>1, <2>1, <2>2
<1>2. PTypeOK /\ [PNext]_vars =>
        [\A p \in Proc : state[p] = "watcher" /\ state'[p] = "watcher" =>
           \/ Left(p)' < Left(p)
           \/ UNCHANGED <<at[p], events[p]>>
           \/ at[p] = "read"]_vars
  BY <1>1
<1> QED
  BY <1>2, PTypeCorrect, PTL DEF PSpec, WorkBounded
=============================================================================
