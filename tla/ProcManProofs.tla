--------------------------- MODULE ProcManProofs ---------------------------
(***************************************************************************)
(* What TLAPS proves of ProcMan, for any number of tests and pids, with or *)
(* without a build step and a program.  The steps of Process keep the      *)
(* invariant of ProcessProofs; this module adds what the manager's order   *)
(* of calls guarantees, and that the whole implements Pipeline.            *)
(***************************************************************************)
EXTENDS ProcMan, ProcessProofs

USE PidAssumption, ObjAssumption, RolesAssumption, PendingAssumption

-----------------------------------------------------------------------------
(* The manager's steps, as steps of Process.                               *)

\* A call begins, unless its object is NULL and Renzoku crashes.
LEMMA BeginCall ==
  ASSUME NEW f \in Method, NEW o \in Obj \cup {NULL}, NEW ph,
         at = "idle", Begin(f, o, ph), Offline
  PROVE  \/ o \in Obj /\ phase' = ph /\ StartCall(f, o)
         \/ o = NULL /\ phase' = "crashed" /\ UNCHANGED pvars
  BY DEF Begin, StartCall, Offline, cvars, kvars, hvars, pvars

\* The loops over mProcesses call objects of the manager.
LEMMA TestObjects ==
  ASSUME i \in 0..Len(Tests), i < Len(Tests)
  PROVE  /\ Tests[i + 1] \in Obj
         /\ Tests[i + 1] \notin {Build, Program}
         /\ i + 1 \in 1..Len(Tests)
  OBVIOUS

\* The same of the test called last.
LEMMA TestCalled ==
  ASSUME i \in 0..Len(Tests), i # 0
  PROVE  Tests[i] \in Obj \ {Build, Program}
  OBVIOUS

\* Every step of the manager starts one call or leaves Process alone.
LEMMA ManagerSteps ==
  ASSUME PMTypeOK, Manager
  PROVE  UNCHANGED pvars \/ \E f \in Method, o \in Obj : StartCall(f, o)
<1> USE DEF Method, Ready
<1>0. Offline /\ i \in 0..Len(Tests)
  BY DEF Manager, PMTypeOK
<1>1. ASSUME NEW ph, Enter(ph)
      PROVE  UNCHANGED pvars
  BY <1>0, <1>1 DEF Enter, Offline, cvars, kvars, hvars, pvars
<1>2. ASSUME at = "idle", NEW f \in Method, NextTest(f)
      PROVE  UNCHANGED pvars \/ \E o \in Obj : StartCall(f, o)
  BY <1>0, <1>2, BeginCall, TestObjects DEF NextTest
<1>3. ASSUME at = "idle", NEW f \in Method, NEW ph,
             Begin(f, Build, ph) \/ Begin(f, Program, ph)
      PROVE  UNCHANGED pvars \/ \E o \in Obj : StartCall(f, o)
  BY <1>0, <1>3, BeginCall
<1>4. CASE Change
  BY <1>3, <1>4 DEF Change
<1>5. CASE Proceed
  BY <1>1, <1>2, <1>3, <1>5
     DEF Proceed, Listen, ListenReturns, RebuildReturns, Halt, BuildReturns,
         RunTests, StopReturns, StartReturns, Quit, KillBuildReturns, KillTests,
         KillProgramReturns, DelTests, DelBuildReturns, DelProgramReturns, StartLoop
<1> QED
  BY <1>4, <1>5 DEF Manager

\* PMNext, as the steps the lemmas of ProcessProofs are about.
LEMMA PMCases ==
  ASSUME PMTypeOK, [PMNext]_vars
  PROVE  \/ Thread \/ Kernel \/ Interrupt \/ UNCHANGED pvars
         \/ \E f \in Method, o \in Obj : StartCall(f, o)
  BY ManagerSteps DEF PMNext, Sigint, vars

\* Hence PInv survives under the manager.
LEMMA PMKeepsInv == PMTypeOK /\ PInv /\ [PMNext]_vars => PInv'
  BY PMCases, ThreadInv, KernelInv, InterruptInv, CallInv, StutterInv

-----------------------------------------------------------------------------
(* The inductive invariant of the manager.                                 *)

\* What the thread called last in each phase.
Called(f, o) == fn = f /\ this = o

Calls ==
  /\ phase \in {"idle", "listen", "gone", "crashed"} => at = "idle"
  /\ phase \in {"rebuild", "build"} => Called("runAndWait", Build)
  /\ phase \in {"stop", "killProgram", "delProgram"} => Called("kill", Program)
  /\ phase = "start" => Called("run", Program)
  /\ phase \in {"killBuild", "delBuild"} => Called("kill", Build)
  /\ phase \in Loops /\ i = 0 => at = "idle"
  /\ phase = "tests" /\ i # 0 => Called("runAndWait", Tests[i])
  /\ phase \in Loops \ {"tests"} /\ i # 0 => Called("kill", Tests[i])
  /\ phase \in {"rebuild", "halt"} => builds = 1
  /\ phase \in {"rebuild", "halt", "build", "tests", "stop", "start"} =>
       Build \in Obj

\* The object's children have all been reaped.
NoChild(o) == \A p \in Pid : IsChild(p) => forkedFor[p] # o

\* Every child is named by the object it was forked for, so none is lost.
NoneLost == \A p \in Pid : IsChild(p) => mProc[forkedFor[p]] = p

\* The phases that only a build that has succeeded leads to.
Built == {"halt", "tests", "stop", "start"}

\* Who may have a child: the program, and the object being called, the latter
\* only once it has forked.
Tidy ==
  /\ NoneLost
  /\ at = "fork" => NoChild(this)
  /\ \A o \in Obj : o = Program \/ (o = this /\ at # "idle") \/ NoChild(o)
  /\ phase \in {"delTests", "delBuild", "delProgram", "gone"} => NoChild(Program)
  /\ phase \in Built => succeeded[Build]

PMInv == PInv /\ PMTypeOK /\ Calls /\ (~eintr => Tidy)

\* Nothing has been called yet and there is no child.
LEMMA PMInitInv == PMInit => PMInv
<1> SUFFICES ASSUME PMInit PROVE PMInv
  OBVIOUS
<1>1. PInv
  BY InitInv DEF PMInit
<1> QED
  BY <1>1 DEF PMInit, PMInv, PMTypeOK, PInv, Init, Calls, Tidy, NoneLost, NoChild,
              IsChild, Alive, Zombie, Phase, Loops, Built

\* When a call that waits or kills has returned, its object has no child.
LEMMA Settled ==
  PInv /\ NoneLost /\ ~eintr /\ at = "idle" /\ fn \in {"runAndWait", "kill"}
    => NoChild(this)
  BY DEF PInv, TypeOK, Outcome, KillReaps, NoneLost, NoChild

\* A system call leaves the control state of the manager as it is ...
LEMMA ThreadFrame ==
  ASSUME Thread
  PROVE  at # "idle" /\ at' # "fork" /\ UNCHANGED <<fn, this, eintr>>
  BY DEF Thread, ForkFails, ForkChild, Peek, AfterRun, Wait, Probe, Term, KillReap,
         Goto, Return, hvars

\* An action makes no child but the one that run() forks for this.
NewChild ==
  /\ \A p \in Pid : IsChild(p)' =>
       \/ IsChild(p) /\ forkedFor'[p] = forkedFor[p]
       \/ at = "fork" /\ forkedFor'[p] = this /\ mProc'[this] = p
  /\ at # "fork" => mProc' = mProc
  /\ \A o \in Obj \ {this} :
       mProc'[o] = mProc[o] /\ succeeded'[o] = succeeded[o]

\* ... and makes no child but the one that run() forks.
LEMMA ThreadChildren == PInv /\ Thread => NewChild
<1> SUFFICES ASSUME PInv, Thread PROVE NewChild
  OBVIOUS
<1> USE DEF PInv, TypeOK, IsChild, Alive, Zombie, NewChild, kvars, hvars
<1>1. CASE ForkFails
  BY <1>1 DEF ForkFails
<1>2. ASSUME NEW p \in Pid, ForkChild(p) PROVE NewChild
  BY <1>2 DEF ForkChild
<1>3. CASE Peek
  BY <1>3 DEF Peek, Reap
<1>4. CASE Wait
  BY <1>4 DEF Wait, Reap
<1>5. CASE Probe
  BY <1>5 DEF Probe
<1>6. CASE Term
  BY <1>6 DEF Term
<1>7. CASE KillReap
  BY <1>7 DEF KillReap, Reap
<1> QED
  BY <1>1, <1>2, <1>3, <1>4, <1>5, <1>6, <1>7 DEF Thread

\* A step of the kernel makes no child, and changes only the outcome of one.
LEMMA KernelChildren ==
  ASSUME PInv, Kernel
  PROVE  /\ UNCHANGED <<mProc, at, fn, this, ret, eintr>>
         /\ \A p \in Pid : IsChild(p)' => IsChild(p) /\ forkedFor'[p] = forkedFor[p]
         /\ \A o \in Obj : NoChild(o) => succeeded'[o] = succeeded[o]
  BY DEF PInv, TypeOK, Kernel, Exit, ForeignStart, Available, ForeignExit, Reap,
         IsChild, NoChild, Alive, Zombie, cvars, hvars

\* A system call of a method keeps what the manager relies on.
LEMMA ThreadTidy == PMInv /\ Thread /\ UNCHANGED mvars => PMInv'
<1> SUFFICES ASSUME PMInv, Thread, UNCHANGED mvars PROVE PMInv'
  OBVIOUS
<1>1. PInv' /\ at # "idle" /\ at' # "fork" /\ UNCHANGED <<fn, this, eintr>>
  BY ThreadInv, ThreadFrame DEF PMInv
<1>2. PMTypeOK'
  BY <1>1 DEF PMInv, PMTypeOK, PInv, mvars
<1>3. Calls'
  BY <1>1 DEF PMInv, Calls, Called, mvars
<1>4. ASSUME ~eintr' PROVE Tidy'
  <2>1. NewChild /\ Tidy /\ this \in Obj /\ PInv
    BY <1>1, <1>4, ThreadChildren DEF PMInv, PInv, TypeOK
  <2>2. NoneLost'
    BY <2>1 DEF NewChild, Tidy, NoneLost, NoChild, PInv, TypeOK, IsChild
  <2>3. \A o \in Obj \ {this} : NoChild(o) => NoChild(o)'
    BY <2>1 DEF NewChild, NoChild
  <2>4. fn = "run" => this = Program
    BY <1>1 DEF PMInv, PMTypeOK, Calls, Called, Phase, Loops
  <2>5. ASSUME at' = "idle", fn # "run" PROVE NoChild(this)'
    <3>1. (PInv /\ NoneLost /\ ~eintr /\ at = "idle"
             /\ fn \in {"runAndWait", "kill"} => NoChild(this))'
      BY Settled, PTL
    <3>2. fn' \in {"runAndWait", "kill"}
      BY <1>1, <2>1, <2>5 DEF PInv, TypeOK, Method
    <3> QED
      BY <1>1, <1>4, <2>2, <2>5, <3>1, <3>2
  <2>6. \A o \in Obj : (o = Program \/ (o = this /\ at # "idle") \/ NoChild(o))'
    BY <1>1, <2>1, <2>3, <2>4, <2>5 DEF Tidy
  <2>7. phase \in {"delTests", "delBuild", "delProgram", "gone"}
          => NoChild(Program)'
    <3>1. phase \in {"delTests", "delBuild", "delProgram", "gone"} => at # "fork"
      BY <2>1 DEF PMInv, Calls, Called, PInv, Control, Loops
    <3> QED
      BY <2>1, <3>1 DEF NewChild, Tidy, NoChild
  <2>8. phase \in Built => succeeded'[Build]
    <3>1. phase \in Built => this # Build
      BY <1>1, <2>1, TestCalled DEF PMInv, PMTypeOK, Calls, Called, Loops, Built
    <3>2. phase \in Built => Build \in Obj
      BY DEF PMInv, Calls, Built
    <3> QED
      BY <2>1, <3>1, <3>2 DEF NewChild, Tidy
  <2> QED
    BY <1>1, <2>2, <2>6, <2>7, <2>8 DEF Tidy, mvars
<1> QED
  BY <1>1, <1>2, <1>3, <1>4 DEF PMInv

\* So does a step of the kernel: no child exits twice, and the outcome of the
\* build is settled once the tests run.
LEMMA KernelTidy == PMInv /\ Kernel /\ UNCHANGED mvars => PMInv'
<1> SUFFICES ASSUME PMInv, Kernel, UNCHANGED mvars PROVE PMInv'
  OBVIOUS
<1>1. PInv' /\ PInv
  BY KernelInv DEF PMInv
<1>2. /\ UNCHANGED <<mProc, at, fn, this, ret, eintr>>
      /\ \A p \in Pid : IsChild(p)' => IsChild(p) /\ forkedFor'[p] = forkedFor[p]
      /\ \A o \in Obj : NoChild(o) => succeeded'[o] = succeeded[o]
  BY <1>1, KernelChildren
<1>3. PMTypeOK'
  BY <1>1, <1>2 DEF PMInv, PMTypeOK, PInv, mvars
<1>4. Calls'
  BY <1>2 DEF PMInv, Calls, Called, mvars
<1>5. ASSUME ~eintr' PROVE Tidy'
  <2>1. Tidy
    BY <1>2, <1>5 DEF PMInv
  <2>2. NoneLost'
    BY <1>2, <2>1 DEF Tidy, NoneLost
  <2>3. \A o : NoChild(o) => NoChild(o)'
    BY <1>2 DEF NoChild
  <2>4. phase \in Built => Build \in Obj /\ NoChild(Build)
    <3>1. phase \in Built =>
            /\ Build \in Obj /\ Build # Program
            /\ Build # this \/ at = "idle"
      BY TestCalled DEF PMInv, PMTypeOK, Calls, Called, Loops, Built
    <3> QED
      BY <2>1, <3>1 DEF Tidy
  <2>5. phase \in Built => succeeded'[Build]
    BY <1>2, <2>1, <2>4 DEF Tidy
  <2> QED
    BY <1>2, <2>1, <2>2, <2>3, <2>5 DEF Tidy, mvars
<1> QED
  BY <1>1, <1>3, <1>4, <1>5 DEF PMInv

\* SIGINT either changes nothing the manager relies on or is on record.
LEMMA SigintTidy == PMInv /\ Sigint => PMInv'
<1> SUFFICES ASSUME PMInv, Sigint PROVE PMInv'
  OBVIOUS
<1>1. PInv' /\ Interrupt
  BY InterruptInv DEF PMInv, Sigint
<1>2. UNCHANGED <<mProc, state, forkedFor, fn, this, succeeded,
                  phase, i, pending, builds, passed>>
  BY <1>1 DEF Sigint, Interrupt, Return, cvars, kvars
<1>3. at' = at \/ at' = "idle"
  BY <1>1 DEF Interrupt, Return, cvars
<1>4. PMTypeOK'
  BY <1>1, <1>2, <1>3 DEF PMInv, PMTypeOK, PInv, Sigint
<1>5. Calls'
  BY <1>2, <1>3 DEF PMInv, Calls, Called
<1>6. ASSUME ~eintr' PROVE Tidy'
  <2>1. ~eintr /\ at' = at
    BY <1>1, <1>6 DEF Interrupt, cvars, PMInv, PInv, TypeOK
  <2> QED
    BY <1>2, <2>1 DEF PMInv, Tidy, NoneLost, NoChild, IsChild, Alive, Zombie
<1> QED
  BY <1>1, <1>4, <1>5, <1>6 DEF PMInv

\* What a step of the manager owes the invariant, beyond what it leaves alone:
\* it forks only for an object without a child, closes down only without a
\* program, and goes on after the build only with a build that succeeded.
Owed ==
  /\ at' = "fork" => NoChild(this')
  /\ phase' \in {"delTests", "delBuild", "delProgram", "gone"} => NoChild(Program)
  /\ phase' \in Built => succeeded[Build]

\* The manager's own steps keep the invariant.
LEMMA ManagerTidy == PMInv /\ Manager => PMInv'
<1> SUFFICES ASSUME PMInv, Manager PROVE PMInv'
  OBVIOUS
<1>1. PInv'
  BY ManagerSteps, CallInv, StutterInv DEF PMInv
<1>2. at = "idle" /\ UNCHANGED <<mProc, state, forkedFor, eintr, succeeded, gRunning>>
  BY DEF Manager, Offline, Proceed, Ready, Change, Listen, ListenReturns,
         RebuildReturns, Halt, BuildReturns, RunTests, StopReturns, StartReturns,
         Quit, KillBuildReturns, KillTests, KillProgramReturns, DelTests,
         DelBuildReturns, DelProgramReturns, kvars, hvars
<1>3. \A o : NoChild(o)' <=> NoChild(o)
  BY <1>2 DEF NoChild, IsChild, Alive, Zombie
<1>4. NoneLost' <=> NoneLost
  BY <1>2 DEF NoneLost, IsChild, Alive, Zombie
<1>5. ~eintr => /\ Tidy
                /\ \A o \in Obj : o = Program \/ NoChild(o)
                /\ fn \in {"runAndWait", "kill"} => NoChild(this)
  BY <1>2, Settled DEF PMInv, Tidy
<1>6. NoChild(this)' <=> NoChild(this')
  BY <1>2 DEF NoChild, IsChild, Alive, Zombie
<1>7. SUFFICES PMTypeOK' /\ Calls' /\ (~eintr => Owed)
  BY <1>1, <1>2, <1>3, <1>4, <1>5, <1>6 DEF PMInv, Tidy, Owed
<1>8. Build # NULL => Build \in Obj /\ Build # Program
  OBVIOUS
<1> USE <1>1, <1>2, <1>5, <1>8 DEF Built, Begin, Enter, StartLoop, NextTest, TestsDone, Ready, Invoke
<1>9. CASE Change
  BY <1>9, TestObjects DEF Change, PMInv, PMTypeOK, PInv, Calls, Called, Owed, Phase,
     Loops, Tidy, WaitVerdict, cvars
<1>10. CASE Listen
  BY <1>10, TestObjects DEF Listen, PMInv, PMTypeOK, PInv, Calls, Called, Owed, Phase,
     Loops, Tidy, WaitVerdict, cvars
<1>11. CASE ListenReturns
  BY <1>11, TestObjects DEF ListenReturns, PMInv, PMTypeOK, PInv, Calls, Called, Owed, Phase,
     Loops, Tidy, WaitVerdict, cvars
<1>12. CASE RebuildReturns
  <2>1. phase = "rebuild" /\ Called("runAndWait", Build)
    BY <1>12 DEF RebuildReturns, PMInv, Calls
  <2>2. ~eintr /\ ret => succeeded[Build]
    BY <2>1 DEF Called, PMInv, PInv, WaitVerdict
  <2>3. CASE ret
    BY <1>12, <2>1, <2>2, <2>3 DEF RebuildReturns, PMInv, PMTypeOK, PInv, Calls,
       Called, Owed, Phase, Loops, cvars
  <2>4. CASE ~ret
    BY <1>12, <2>1, <2>4 DEF RebuildReturns, PMInv, PMTypeOK, PInv, Calls, Called,
       Owed, Phase, Loops, cvars
  <2> QED
    BY <2>3, <2>4
<1>13. CASE Halt
  BY <1>13, TestObjects DEF Halt, PMInv, PMTypeOK, PInv, Calls, Called, Owed, Phase,
     Loops, Tidy, WaitVerdict, cvars
<1>14. CASE BuildReturns
  <2>1. phase = "build" /\ Called("runAndWait", Build)
    BY <1>14 DEF BuildReturns, PMInv, Calls
  <2>2. ~eintr /\ ret => succeeded[Build]
    BY <2>1 DEF Called, PMInv, PInv, WaitVerdict
  <2>3. CASE ret
    BY <1>14, <2>1, <2>2, <2>3 DEF BuildReturns, PMInv, PMTypeOK, PInv, Calls,
       Called, Owed, Phase, Loops, cvars
  <2>4. CASE ~ret
    BY <1>14, <2>1, <2>4 DEF BuildReturns, PMInv, PMTypeOK, PInv, Calls, Called,
       Owed, Phase, Loops, cvars
  <2> QED
    BY <2>3, <2>4
<1>15. CASE RunTests
  BY <1>15, TestObjects DEF RunTests, PMInv, PMTypeOK, PInv, Calls, Called, Owed, Phase,
     Loops, Tidy, WaitVerdict, cvars
<1>16. CASE StopReturns
  BY <1>16, TestObjects DEF StopReturns, PMInv, PMTypeOK, PInv, Calls, Called, Owed, Phase,
     Loops, Tidy, WaitVerdict, cvars
<1>17. CASE StartReturns
  BY <1>17, TestObjects DEF StartReturns, PMInv, PMTypeOK, PInv, Calls, Called, Owed, Phase,
     Loops, Tidy, WaitVerdict, cvars
<1>18. CASE Quit
  BY <1>18, TestObjects DEF Quit, PMInv, PMTypeOK, PInv, Calls, Called, Owed, Phase,
     Loops, Tidy, WaitVerdict, cvars
<1>19. CASE KillBuildReturns
  BY <1>19, TestObjects DEF KillBuildReturns, PMInv, PMTypeOK, PInv, Calls, Called, Owed, Phase,
     Loops, Tidy, WaitVerdict, cvars
<1>20. CASE KillTests
  BY <1>20, TestObjects DEF KillTests, PMInv, PMTypeOK, PInv, Calls, Called, Owed, Phase,
     Loops, Tidy, WaitVerdict, cvars
<1>21. CASE KillProgramReturns
  BY <1>21, TestObjects DEF KillProgramReturns, PMInv, PMTypeOK, PInv, Calls, Called, Owed, Phase,
     Loops, Tidy, WaitVerdict, cvars
<1>22. CASE DelTests
  BY <1>22, TestObjects DEF DelTests, PMInv, PMTypeOK, PInv, Calls, Called, Owed, Phase,
     Loops, Tidy, WaitVerdict, cvars
<1>23. CASE DelBuildReturns
  BY <1>23, TestObjects DEF DelBuildReturns, PMInv, PMTypeOK, PInv, Calls, Called, Owed, Phase,
     Loops, Tidy, WaitVerdict, cvars
<1>24. CASE DelProgramReturns
  BY <1>24, TestObjects DEF DelProgramReturns, PMInv, PMTypeOK, PInv, Calls, Called, Owed, Phase,
     Loops, Tidy, WaitVerdict, cvars
<1> QED
  BY <1>9, <1>10, <1>11, <1>12, <1>13, <1>14, <1>15, <1>16, <1>17, <1>18, <1>19, <1>20, <1>21, <1>22, <1>23, <1>24 DEF Manager, Proceed

\* PMInv is an invariant of the manager, whatever the children and the user do.
LEMMA PMInvariance == PMSpec => []PMInv
<1>1. PMInv /\ UNCHANGED vars => PMInv'
  <2> SUFFICES ASSUME PMInv, UNCHANGED vars PROVE PMInv'
    OBVIOUS
  <2>1. PInv' /\ UNCHANGED pvars /\ UNCHANGED mvars
    BY StutterInv DEF PMInv, vars
  <2> QED
    BY <2>1 DEF PMInv, PMTypeOK, PInv, Calls, Called, Tidy, NoneLost, NoChild,
       IsChild, Alive, Zombie, pvars, mvars
<1>2. PMInv /\ [PMNext]_vars => PMInv'
  BY <1>1, ManagerTidy, ThreadTidy, KernelTidy, SigintTidy DEF PMNext
<1> QED
  BY PMInitInv, <1>2, PTL DEF PMSpec

-----------------------------------------------------------------------------
(* The theorems.                                                           *)

\* Every variable of the composition always has its type, and the thread is in
\* no system call while main() or listen() runs.
THEOREM PMTypeCorrect == PMSpec => []PMTypeOK
  BY PMInvariance, PTL DEF PMInv

\* No object ever has two children, as long as no waitpid() is interrupted.
THEOREM OneChildCorrect == PMSpec => []OneChildPerObject
<1>1. PMInv => OneChildPerObject
  BY DEF PMInv, Tidy, NoneLost, OneChildPerObject
<1> QED
  BY <1>1, PMInvariance, PTL

\* No build or test command outlives the call that waits for it.
THEOREM SurvivorsCorrect == PMSpec => []OnlyProgramSurvives
<1>1. PMInv => OnlyProgramSurvives
  BY DEF PMInv, Tidy, NoChild, OnlyProgramSurvives, IsChild
<1> QED
  BY <1>1, PMInvariance, PTL

\* Renzoku leaves no child behind, whenever SIGINT arrives.
THEOREM NothingLeftCorrect == PMSpec => []NothingLeft
<1>1. PMInv => NothingLeft
  BY DEF PMInv, Calls, Tidy, NoChild, NothingLeft, IsChild
<1> QED
  BY <1>1, PMInvariance, PTL

\* Nothing is tested, stopped or started without a build that succeeded.
THEOREM BuildGateCorrect == PMSpec => []BuildGate
<1>1. PMInv => BuildGate
  BY DEF PMInv, Tidy, BuildGate, Built
<1> QED
  BY <1>1, PMInvariance, PTL

-----------------------------------------------------------------------------
(* Signals.                                                                *)

\* Only SIGINT makes Renzoku close down or interrupts a waitpid().
Asked == eintr \/ phase \in Closing => ~gRunning

\* A kill() in progress finds no child but the program: every build and test
\* has been waited for, so that SIGTERM is for the program only.
Harmless ==
  /\ at # "idle" /\ fn = "kill" => \A o \in Obj \ {Program} : NoChild(o)
  /\ \A p \in Pid : IsChild(p) /\ state[p] = "terminating" => forkedFor[p] = Program

PipeInv == PMInv /\ (~Recycle => NamerOwns) /\ Asked /\ (~eintr => Harmless)

\* The call that is being executed in each phase.
LEMMA WhoseCall ==
  ASSUME PMInv, at # "idle"
  PROVE  /\ this \in Obj
         /\ \/ fn = "run" /\ this = Program /\ phase = "start"
            \/ fn = "runAndWait" /\ this = Build /\ phase \in {"rebuild", "build"}
            \/ fn = "runAndWait" /\ this \notin {Build, Program} /\ phase = "tests"
            \/ fn = "kill" /\ this = Program /\ phase \in {"stop", "killProgram", "delProgram"}
            \/ fn = "kill" /\ this # Program
                 /\ phase \in {"halt", "killTests", "delTests", "killBuild", "delBuild"}
<1> USE DEF PMInv, Calls, Called
<1>1. this \in Obj /\ phase \in Phase /\ phase \notin {"idle", "listen", "gone", "crashed"}
  BY DEF PMTypeOK, PInv, TypeOK
<1>2. CASE phase \in Loops
  <2>1. i \in 0..Len(Tests) /\ i # 0 /\ this = Tests[i]
    BY <1>2 DEF PMTypeOK, Loops
  <2>2. this \notin {Build, Program}
    BY <2>1, TestCalled
  <2> QED
    BY <1>1, <1>2, <2>1, <2>2 DEF Loops
<1>3. CASE phase \notin Loops
  BY <1>1, <1>3 DEF Phase
<1> QED
  BY <1>2, <1>3

\* A step of the manager leaves the process table and gRunning alone.
LEMMA ManagerFrame ==
  ASSUME Manager
  PROVE  at = "idle" /\ UNCHANGED <<mProc, state, forkedFor, gRunning, eintr, succeeded>>
  BY DEF Manager, Offline, Proceed, Ready, Change, Listen, ListenReturns,
         RebuildReturns, Halt, BuildReturns, RunTests, StopReturns, StartReturns,
         Quit, KillBuildReturns, KillTests, KillProgramReturns, DelTests,
         DelBuildReturns, DelProgramReturns, kvars, hvars

\* Without SIGINT the manager never enters a closing phase.
LEMMA KeepsAsked == PMInv /\ Asked /\ [PMNext]_vars => Asked'
<1> SUFFICES ASSUME PMInv, Asked, [PMNext]_vars PROVE Asked'
  OBVIOUS
<1>1. CASE Manager
  BY <1>1, ManagerFrame DEF Manager, Proceed, Asked, Closing, Loops, Ready, Begin,
     Enter, StartLoop, NextTest, TestsDone, Change, Listen, ListenReturns,
     RebuildReturns, Halt, BuildReturns, RunTests, StopReturns, StartReturns,
     Quit, KillBuildReturns, KillTests, KillProgramReturns, DelTests,
     DelBuildReturns, DelProgramReturns
<1>2. CASE Thread /\ UNCHANGED mvars
  BY <1>2, ThreadFrame DEF Asked, mvars
<1>3. CASE Kernel /\ UNCHANGED mvars
  BY <1>3, KernelChildren DEF Asked, mvars, PMInv
<1>4. CASE Sigint
  BY <1>4 DEF Sigint, Asked
<1>5. CASE UNCHANGED vars
  BY <1>5 DEF Asked, vars, pvars, mvars
<1> QED
  BY <1>1, <1>2, <1>3, <1>4, <1>5 DEF PMNext

\* SIGTERM is sent by the method kill() of some object, to the pid it has named
\* last.
LEMMA Terminated ==
  ASSUME PInv, Thread, NEW p \in Pid, state[p] # "terminating", state'[p] = "terminating"
  PROVE  /\ at = "term" /\ fn = "kill" /\ this \in Obj /\ p = mProc[this]
         /\ state[p] = "running" /\ UNCHANGED forkedFor
<1> USE DEF PInv, TypeOK
<1>1. Term
  BY DEF Thread, ForkFails, ForkChild, Peek, Wait, Probe, KillReap, Reap, kvars
<1>2. fn = "kill" /\ this \in Obj /\ mProc[this] \in Pid
  BY <1>1 DEF Term, Control, ForkedPid, Method
<1>3. Addressed(mProc[this]) = {mProc[this]}
  BY <1>2, PidAssumption DEF Addressed
<1> QED
  BY <1>1, <1>2, <1>3 DEF Term

\* No step makes SIGTERM reach a build or a test.
LEMMA KeepsHarmless ==
  PMInv /\ (~eintr => Harmless) /\ [PMNext]_vars => (~eintr' => Harmless')
<1> SUFFICES ASSUME PMInv, ~eintr => Harmless, [PMNext]_vars, ~eintr'
             PROVE  Harmless'
  OBVIOUS
<1>0. PInv /\ TypeOK
  BY DEF PMInv, PInv
<1>1. CASE Thread /\ UNCHANGED mvars
  <2>1. ~eintr /\ Harmless /\ at # "idle" /\ UNCHANGED <<fn, this>> /\ NewChild
    BY <1>0, <1>1, ThreadFrame, ThreadChildren
  <2>2. fn = "kill" => \A o \in Obj \ {Program} : NoChild(o)'
    <3>1. fn = "kill" => at # "fork"
      BY <1>0 DEF PInv, Control
    <3> QED
      BY <2>1, <3>1 DEF Harmless, NewChild, NoChild
  <2>3. ASSUME NEW p \in Pid, IsChild(p)', state'[p] = "terminating"
        PROVE  forkedFor'[p] = Program
    <3>1. CASE state[p] = "terminating"
      <4>1. forkedFor'[p] = forkedFor[p]
        BY <1>0, <1>1, <2>3, <3>1 DEF Thread, ForkFails, ForkChild, Peek, Wait, Probe,
           Term, KillReap, kvars, TypeOK
      <4>2. IsChild(p)
        BY <2>3, <3>1, <4>1 DEF IsChild, Alive
      <4> QED
        BY <2>1, <3>1, <4>1, <4>2 DEF Harmless
    <3>2. CASE state[p] # "terminating"
      <4>1. fn = "kill" /\ state[p] = "running" /\ forkedFor'[p] = forkedFor[p]
        BY <1>0, <1>1, <2>3, <3>2, Terminated
      <4>2. IsChild(p) /\ forkedFor[p] \in Obj
        BY <2>3, <4>1 DEF IsChild, Alive
      <4> QED
        BY <2>1, <4>1, <4>2 DEF Harmless, NoChild
    <3> QED
      BY <3>1, <3>2
  <2> QED
    BY <2>1, <2>2, <2>3 DEF Harmless
<1>2. CASE Kernel /\ UNCHANGED mvars
  <2>1. /\ UNCHANGED <<at, fn, eintr>>
        /\ \A p \in Pid : IsChild(p)' => IsChild(p) /\ forkedFor'[p] = forkedFor[p]
    BY <1>0, <1>2, KernelChildren
  <2>2. \A p \in Pid : state'[p] = "terminating" => state[p] = "terminating"
    BY <1>0, <1>2 DEF Kernel, Exit, ForeignStart, ForeignExit, Reap, TypeOK
  <2> QED
    BY <2>1, <2>2 DEF Harmless, NoChild
<1>3. CASE Manager
  <2>1. at = "idle" /\ ~eintr /\ UNCHANGED <<state, forkedFor>> /\ Tidy /\ Harmless
    BY <1>3, ManagerFrame DEF PMInv
  <2> QED
    BY <2>1 DEF Harmless, Tidy, NoChild, IsChild, Alive, Zombie
<1>4. CASE Sigint \/ UNCHANGED vars
  <2>1. /\ ~eintr /\ UNCHANGED <<state, forkedFor, fn>>
        /\ at' = at
    BY <1>0, <1>4 DEF Sigint, Interrupt, Return, cvars, kvars, vars, pvars, TypeOK
  <2> QED
    BY <2>1 DEF Harmless, NoChild, IsChild, Alive, Zombie
<1> QED
  BY <1>1, <1>2, <1>3, <1>4 DEF PMNext

\* PipeInv is an invariant of the manager.
LEMMA PipeInvariance == PMSpec => []PipeInv
<1>1. PMInit => NamerOwns /\ Asked /\ Harmless
  BY InitOwns DEF PMInit, Init, Asked, Closing, Loops, Harmless, IsChild, Alive, Zombie
<1>2. PMInv /\ ~Recycle /\ NamerOwns /\ [PMNext]_vars => NamerOwns'
  BY PMCases, ThreadOwns, KernelOwns, OtherOwns
     DEF PMInv, Interrupt, StartCall, pvars, kvars
<1>3. PMInv /\ (~Recycle => NamerOwns) /\ Asked /\ (~eintr => Harmless) /\ [PMNext]_vars
        => (~Recycle => NamerOwns') /\ Asked' /\ (~eintr' => Harmless')
  BY <1>2, KeepsAsked, KeepsHarmless
<1>4. PMInv /\ PMInv' /\ (~Recycle => NamerOwns) /\ Asked /\ (~eintr => Harmless)
        /\ [PMNext]_vars => (~Recycle => NamerOwns)' /\ Asked' /\ (~eintr => Harmless)'
  BY <1>3
<1> QED
  BY <1>1, <1>4, PMInvariance, PTL DEF PMSpec, PipeInv

\* Whom a kill() hits that is none of the program's: the program can have got
\* the pid of a test or of the build, and it is stopped early if the tests are
\* being halted, after a build that has succeeded.
LEMMA WhoIsHit ==
  ASSUME PipeInv, ~eintr, at # "idle", fn = "kill", NEW p \in Pid, p = mProc[this],
         state[p] # "free", forkedFor[p] = Program
  PROVE  phase \in Closing \ {"gone"} \/ ((phase = "stop" \/ (phase = "halt" /\ Recycle))
                                        /\ Build \in Obj /\ succeeded[Build])
<1>1. PMInv /\ this \in Obj /\ Tidy
  BY WhoseCall DEF PipeInv, PMInv
<1>2. phase \in {"stop", "halt"} => Build \in Obj /\ succeeded[Build]
  BY <1>1 DEF PMInv, Calls, Tidy, Built
<1>3. this # Program => Recycle
  BY <1>1 DEF PipeInv, NamerOwns
<1> QED
  BY <1>1, <1>2, <1>3, WhoseCall DEF Closing, Loops

\* What ProgramSpared says of one step.
SparedStep ==
  \A p \in Pid :
    /\ ~eintr
    /\ forkedFor[p] = Program
    /\ state[p] = "running" /\ state'[p] = "terminating"
    => \/ phase \in Closing
       \/ (phase = "stop" \/ (phase = "halt" /\ Recycle)) /\ succeeded[Build]

\* Renzoku terminates the running program only to replace it after a successful
\* build or to quit; if its pid has been that of a test, it may be stopped
\* before the second build, which may fail, but never before the first one.
THEOREM SparedCorrect == PMSpec => ProgramSpared
<1>1. PipeInv /\ [PMNext]_vars => SparedStep
  <2> SUFFICES ASSUME PipeInv, [PMNext]_vars, NEW p \in Pid, ~eintr, forkedFor[p] = Program,
                      state[p] = "running", state'[p] = "terminating"
               PROVE  \/ phase \in Closing
                      \/ (phase = "stop" \/ (phase = "halt" /\ Recycle)) /\ succeeded[Build]
    BY DEF SparedStep
  <2>1. PMInv /\ PInv /\ state \in [Pid -> ProcState]
    BY DEF PipeInv, PMInv, PInv, TypeOK
  <2>2. Thread
    <3>1. ~(UNCHANGED state)
      OBVIOUS
    <3>2. ~Kernel
      BY <2>1 DEF Kernel, Exit, ForeignStart, ForeignExit, Reap, ProcState
    <3> QED
      BY <2>1, <3>1, <3>2, PMCases DEF PMInv, Interrupt, StartCall, pvars, kvars
  <2>3. at = "term" /\ fn = "kill" /\ p = mProc[this]
    BY <2>1, <2>2, Terminated
  <2> QED
    BY <2>3, WhoIsHit
<1>2. [][SparedStep]_vars <=> ProgramSpared
  BY PTL DEF SparedStep, ProgramSpared
<1> QED
  BY <1>1, <1>2, PipeInvariance, PTL DEF PMSpec


-----------------------------------------------------------------------------
(* How the children look.                                                  *)

IsHelper(p)  == IsChild(p) /\ forkedFor[p] # Program
IsProgram(p) == IsChild(p) /\ forkedFor[p] = Program

\* The abstract variables, told by any child of the kind.
Views ==
  /\ \A p \in Pid : IsHelper(p) => HelperBar = Face(p, "busy")
  /\ \A p \in Pid : IsProgram(p) => ProgramBar = Face(p, "up")
  /\ (\A p \in Pid : ~IsHelper(p)) => HelperBar = "none"
  /\ (\A p \in Pid : ~IsProgram(p)) => ProgramBar = "none"
  /\ StageBar = Stage
  /\ BuiltBar = (Build # NULL /\ succeeded[Build])

\* No kind has two children, so CHOOSE has no choice.
LEMMA OneOfEach == PMInv /\ ~eintr => Views
<1> SUFFICES ASSUME PMInv, ~eintr PROVE Views
  OBVIOUS
<1>0. Tidy /\ TypeOK
  BY DEF PMInv, PInv
<1>1. ASSUME NEW p \in Pid, IsHelper(p) PROVE HelperBar = Face(p, "busy")
  <2>1. Helpers = {p}
    BY <1>0, <1>1 DEF Helpers, IsHelper, Tidy, NoneLost, NoChild, IsChild
  <2>2. (CHOOSE q \in Helpers : TRUE) = p
    BY <2>1
  <2> QED
    BY <2>1, <2>2 DEF HelperBar, Look
<1>2. ASSUME NEW p \in Pid, IsProgram(p) PROVE ProgramBar = Face(p, "up")
  <2>1. Programs = {p}
    BY <1>0, <1>2 DEF Programs, IsProgram, Tidy, NoneLost, NoChild, IsChild
  <2>2. (CHOOSE q \in Programs : TRUE) = p
    BY <2>1
  <2> QED
    BY <2>1, <2>2 DEF ProgramBar, Look
<1> QED
  BY <1>1, <1>2 DEF Views, HelperBar, ProgramBar, StageBar, BuiltBar, Look, Helpers,
     Programs, IsHelper, IsProgram

\* The same after a step.
LEMMA OneOfEachNext == PMInv' /\ ~eintr' => Views'
  BY OneOfEach, PTL

\* A step that touches at most one pid changes nothing of a kind it is not of.
LEMMA OtherKind ==
  ASSUME Views, Views', NEW q,
         \A p \in Pid \ {q} : state'[p] = state[p] /\ forkedFor'[p] = forkedFor[p]
  PROVE  /\ ~IsHelper(q) /\ ~IsHelper(q)' => HelperBar' = HelperBar
         /\ ~IsProgram(q) /\ ~IsProgram(q)' => ProgramBar' = ProgramBar
<1>1. \A p \in Pid \ {q} :
        /\ IsHelper(p)' <=> IsHelper(p)
        /\ IsProgram(p)' <=> IsProgram(p)
        /\ Face(p, "busy")' = Face(p, "busy")
        /\ Face(p, "up")' = Face(p, "up")
  BY DEF IsHelper, IsProgram, IsChild, Alive, Zombie, Face
<1>2. ASSUME ~IsHelper(q), ~IsHelper(q)' PROVE HelperBar' = HelperBar
  BY <1>1, <1>2 DEF Views
<1>3. ASSUME ~IsProgram(q), ~IsProgram(q)' PROVE ProgramBar' = ProgramBar
  BY <1>1, <1>3 DEF Views
<1> QED
  BY <1>2, <1>3

\* A step that leaves the process table alone changes no child.
LEMMA NoKind ==
  ASSUME Views, Views', UNCHANGED <<state, forkedFor>>
  PROVE  UNCHANGED <<HelperBar, ProgramBar>>
  BY DEF Views, IsHelper, IsProgram, IsChild, Alive, Zombie, Face

-----------------------------------------------------------------------------
(* ProcMan implements Pipeline.  Each step of the objects, the kernel and  *)
(* the manager is shown to be a step of Pipeline or a stuttering one.      *)

Simulated ==
  Abstract!Next \/ UNCHANGED <<StageBar, HelperBar, ProgramBar, BuiltBar, gRunning>>

\* The initial states are initial states of Pipeline.
LEMMA InitSimulated == PMInit => Abstract!Init
<1> SUFFICES ASSUME PMInit PROVE Abstract!Init
  OBVIOUS
<1>1. Views
  BY OneOfEach, PMInitInv DEF PMInit, Init
<1>2. \A p \in Pid : ~IsHelper(p) /\ ~IsProgram(p)
  BY DEF PMInit, Init, IsHelper, IsProgram, IsChild, Alive, Zombie
<1>3. BuiltBar = FALSE
  <2>1. Build # NULL => ~succeeded[Build]
    BY DEF PMInit, Init
  <2> QED
    BY <2>1 DEF BuiltBar
<1>4. StageBar = "asleep" /\ gRunning = TRUE
  BY DEF PMInit, Init, StageBar, Stage, Closing
<1> QED
  BY <1>1, <1>2, <1>3, <1>4 DEF Views, Abstract!Init

\* An exit is the exit of a helper or of the program.
LEMMA KernelSimulated ==
  ASSUME PipeInv, PMInv', Kernel, UNCHANGED mvars, ~eintr
  PROVE  Simulated
<1>0. /\ PInv /\ TypeOK /\ Tidy /\ Harmless
      /\ UNCHANGED <<mProc, at, fn, this, ret, eintr, phase, gRunning>>
  BY KernelChildren DEF PipeInv, PMInv, PInv, mvars
<1>1. Views /\ Views'
  BY <1>0, OneOfEach, OneOfEachNext DEF PipeInv
<1>2. StageBar' = StageBar
  BY <1>0 DEF StageBar, Stage
<1>3. ASSUME NEW p \in Pid, Exit(p) PROVE Simulated
  <2>1. PICK s \in {"exited", "failed"} :
          /\ state' = [state EXCEPT ![p] = s]
          /\ succeeded' = IF mProc[forkedFor[p]] = p
                          THEN [succeeded EXCEPT ![forkedFor[p]] = (s = "exited")]
                          ELSE succeeded
    BY <1>3 DEF Exit
  <2>2. IsChild(p) /\ Alive(p) /\ forkedFor[p] \in Obj /\ UNCHANGED forkedFor
    BY <1>3 DEF Exit, IsChild
  <2>3. IsChild(p)' /\ Zombie(p)'
    BY <1>0, <2>1, <2>2 DEF IsChild, Alive, Zombie, TypeOK
  <2>4. \A q \in Pid \ {p} : state'[q] = state[q] /\ forkedFor'[q] = forkedFor[q]
    BY <1>0, <2>1, <2>2 DEF TypeOK
  <2>5. CASE forkedFor[p] = Program
    <3>1. ProgramBar = Face(p, "up") /\ ProgramBar' = Face(p, "up")'
      BY <1>1, <2>2, <2>3, <2>5 DEF Views, IsProgram
    <3>2. ProgramBar \in {"up", "stopping"} /\ ProgramBar' = "done"
      BY <2>2, <2>3, <3>1 DEF Face, Alive, Zombie
    <3>3. HelperBar' = HelperBar
      BY <1>1, <2>2, <2>4, <2>5, OtherKind DEF IsHelper
    <3>4. BuiltBar' = BuiltBar
      BY <1>0, <1>1, <2>1, <2>2, <2>5 DEF Views, TypeOK
    <3> QED
      BY <1>0, <1>2, <3>2, <3>3, <3>4
         DEF Simulated, Abstract!Next, Abstract!ProgramExits, Abstract!Turns
  <2>6. CASE forkedFor[p] # Program
    <3>1. HelperBar = Face(p, "busy") /\ HelperBar' = Face(p, "busy")'
      BY <1>1, <2>2, <2>3, <2>6 DEF Views, IsHelper
    <3>2. HelperBar = "busy" /\ HelperBar' = "done"
      BY <1>0, <2>2, <2>3, <2>6, <3>1 DEF Face, Alive, Zombie, Harmless
    <3>3. ProgramBar' = ProgramBar
      BY <1>1, <2>2, <2>4, <2>6, OtherKind DEF IsProgram
    <3>4. forkedFor[p] = this /\ at # "idle" /\ fn # "kill"
      BY <1>0, <2>2, <2>6 DEF Tidy, NoChild, Harmless
    <3>5. \/ StageBar = "building"
          \/ this # Build /\ BuiltBar' = BuiltBar
      <4>1. CASE phase \in {"rebuild", "build"}
        BY <4>1 DEF StageBar, Stage, Closing
      <4>2. CASE phase \notin {"rebuild", "build"}
        <5>1. this # Build
          BY <2>6, <3>4, <4>2, WhoseCall DEF PipeInv
        <5> QED
          BY <1>0, <1>1, <2>1, <2>2, <3>4, <5>1 DEF Views, TypeOK
      <4> QED
        BY <4>1, <4>2
    <3>6. BuiltBar' \in BOOLEAN
      BY DEF BuiltBar
    <3> QED
      BY <1>0, <1>2, <3>2, <3>3, <3>5, <3>6
         DEF Simulated, Abstract!Next, Abstract!HelperExits
  <2> QED
    BY <2>5, <2>6
<1>4. ASSUME NEW p \in Pid, ForeignExit(p) \/ ForeignStart(p) PROVE Simulated
  <2>1. ~IsChild(p) /\ ~IsChild(p)'
    <3>1. CASE ForeignExit(p)
      BY <1>0, <3>1, ObjAssumption DEF ForeignExit, IsChild, Reap
    <3>2. CASE ForeignStart(p)
      BY <1>0, <3>2, ObjAssumption DEF ForeignStart, Available, IsChild, Alive, Zombie, TypeOK
    <3> QED
      BY <1>4, <3>1, <3>2
  <2>2. \A q \in Pid \ {p} : state'[q] = state[q] /\ forkedFor'[q] = forkedFor[q]
    BY <1>0, <1>4 DEF ForeignExit, ForeignStart, Reap, TypeOK
  <2>3. HelperBar' = HelperBar /\ ProgramBar' = ProgramBar
    BY <1>1, <2>1, <2>2, OtherKind DEF IsHelper, IsProgram
  <2>4. BuiltBar' = BuiltBar
    BY <1>0, <1>4 DEF ForeignExit, ForeignStart, hvars, BuiltBar
  <2> QED
    BY <1>0, <1>2, <2>3, <2>4 DEF Simulated
<1> QED
  BY <1>3, <1>4 DEF Kernel

\* A reaped child was the helper or the program, and is gone.
LEMMA ReapSimulated ==
  ASSUME PipeInv, PMInv', ~eintr, at # "idle", NEW q \in Pid, q = mProc[this],
         IsChild(q), Zombie(q), Reap(q), fn = "kill" \/ forkedFor[q] = this,
         UNCHANGED <<forkedFor, succeeded, eintr, phase, gRunning>>
  PROVE  Simulated
<1>0. /\ TypeOK /\ Tidy /\ Views /\ Views' /\ Harmless /\ this \in Obj
      /\ forkedFor[q] \in Obj
  BY OneOfEach, OneOfEachNext DEF PipeInv, PMInv, PInv, TypeOK, IsChild
<1>1. ~IsChild(q)'
  BY <1>0 DEF IsChild, Alive, Zombie, Reap, TypeOK
<1>2. \A p \in Pid \ {q} : state'[p] = state[p] /\ forkedFor'[p] = forkedFor[p]
  BY <1>0 DEF Reap, TypeOK
<1>3. \A p \in Pid \ {q} : IsChild(p) => forkedFor[p] # forkedFor[q]
  BY <1>0, <1>1 DEF Tidy, NoneLost
<1>4. \A p \in Pid \ {q} : IsChild(p)' => IsChild(p)
  BY <1>2 DEF IsChild, Alive, Zombie
<1>5. StageBar' = StageBar /\ BuiltBar' = BuiltBar
  BY DEF StageBar, Stage, BuiltBar
<1>6. CASE forkedFor[q] = Program
  <2>1. ProgramBar = "done"
    BY <1>0, <1>1, <1>6 DEF Views, IsProgram, Face
  <2>2. ProgramBar' = "none"
    BY <1>0, <1>1, <1>2, <1>3, <1>4, <1>6 DEF Views, IsProgram
  <2>3. HelperBar' = HelperBar
    BY <1>0, <1>1, <1>2, <1>6, OtherKind DEF IsHelper
  <2>4. fn = "kill" \/ phase = "start"
    BY <1>6, WhoseCall DEF PipeInv
  <2>5. \/ phase \in {"start", "stop"} \cup (Closing \ {"gone"})
        \/ phase = "halt" /\ Recycle /\ Build \in Obj /\ succeeded[Build] /\ fn = "kill"
    BY <1>6, <2>4, WhoIsHit DEF Zombie
  <2>6. CASE phase \in {"start", "stop"} \cup (Closing \ {"gone"})
    <3>1. StageBar \in {"swapping", "closing"}
      BY <2>6 DEF StageBar, Stage, Closing, Loops
    <3> QED
      BY <1>5, <2>1, <2>2, <2>3, <3>1
         DEF Simulated, Abstract!Next, Abstract!ReapProgram, Abstract!Turns
  <2>7. CASE phase = "halt" /\ Recycle /\ Build \in Obj /\ succeeded[Build] /\ fn = "kill"
    <3>1. StageBar = "building" /\ BuiltBar
      BY <2>7 DEF StageBar, Stage, Closing, Loops, BuiltBar
    <3>2. HelperBar = "none"
      BY <1>0, <2>7 DEF Harmless, Views, IsHelper, NoChild, IsChild
    <3> QED
      BY <1>5, <2>1, <2>2, <2>3, <2>7, <3>1, <3>2
         DEF Simulated, Abstract!Next, Abstract!Mistake, Abstract!Turns
  <2> QED
    BY <2>5, <2>6, <2>7
<1>7. CASE forkedFor[q] # Program
  <2>1. HelperBar = "done"
    BY <1>0, <1>1, <1>7 DEF Views, IsHelper, Face
  <2>2. forkedFor[q] = this
    BY <1>0, <1>7 DEF Harmless, NoChild
  <2>3. \A p \in Pid : ~IsHelper(p)'
    BY <1>0, <1>1, <1>2, <1>3, <1>4, <1>7, <2>2 DEF IsHelper, IsChild, Tidy, NoChild
  <2>4. HelperBar' = "none"
    BY <1>0, <2>3 DEF Views
  <2>5. ProgramBar' = ProgramBar
    BY <1>0, <1>1, <1>2, <1>7, OtherKind DEF IsProgram
  <2> QED
    BY <1>5, <2>1, <2>4, <2>5 DEF Simulated, Abstract!Next, Abstract!ReapHelper
<1> QED
  BY <1>6, <1>7

\* fork() starts a helper or the program, which nobody runs beside it.
LEMMA ForkSimulated ==
  ASSUME PipeInv, PMInv', ~eintr, NEW p \in Pid, ForkChild(p), UNCHANGED mvars
  PROVE  Simulated
<1>0. /\ TypeOK /\ Tidy /\ Views /\ Views' /\ this \in Obj /\ NoChild(this)
      /\ at = "fork" /\ fn # "kill" /\ eintr' = eintr
  BY OneOfEach, OneOfEachNext
     DEF PipeInv, PMInv, PInv, TypeOK, Control, Tidy, ForkChild
<1>1. /\ state[p] = "free" /\ state'[p] = "running" /\ forkedFor'[p] = this
      /\ \A q \in Pid \ {p} : state'[q] = state[q] /\ forkedFor'[q] = forkedFor[q]
      /\ \A o \in Obj : succeeded'[o] = (o # this /\ succeeded[o])
  BY <1>0 DEF ForkChild, Available, TypeOK
<1>2. ~IsChild(p) /\ IsChild(p)'
  BY <1>0, <1>1 DEF IsChild, Alive, Zombie
<1>3. StageBar' = StageBar /\ UNCHANGED <<phase, gRunning>>
  BY <1>0 DEF StageBar, Stage, mvars
<1>4. CASE this = Program
  <2>1. ProgramBar = "none"
    BY <1>0, <1>4 DEF Views, IsProgram, NoChild
  <2>2. ProgramBar' = "up"
    BY <1>0, <1>1, <1>2, <1>4 DEF Views, IsProgram, Face, Zombie
  <2>3. HelperBar' = HelperBar
    BY <1>0, <1>1, <1>2, <1>4, OtherKind DEF IsHelper
  <2>4. phase = "start"
    BY <1>0, <1>4, WhoseCall DEF PipeInv
  <2>5. StageBar = "swapping"
    BY <2>4 DEF StageBar, Stage, Closing
  <2>6. Build \in Obj /\ Build # this /\ succeeded[Build]
    BY <1>0, <1>4, <2>4, RolesAssumption, ObjAssumption
       DEF PipeInv, PMInv, Calls, Tidy, Built
  <2>7. BuiltBar /\ BuiltBar' = BuiltBar
    BY <1>0, <1>1, <2>6 DEF Views
  <2> QED
    BY <1>3, <2>1, <2>2, <2>3, <2>5, <2>7
       DEF Simulated, Abstract!Next, Abstract!Launch, Abstract!Turns
<1>5. CASE this # Program
  <2>1. HelperBar = "none"
    BY <1>0 DEF Views, IsHelper, NoChild, Tidy, IsChild
  <2>2. HelperBar' = "busy"
    BY <1>0, <1>1, <1>2, <1>5 DEF Views, IsHelper, Face, Zombie
  <2>3. ProgramBar' = ProgramBar
    BY <1>0, <1>1, <1>2, <1>5, OtherKind DEF IsProgram
  <2>4. \/ this = Build /\ phase \in {"rebuild", "build"}
        \/ this # Build /\ phase = "tests"
    BY <1>0, <1>5, WhoseCall DEF PipeInv
  <2>5. \/ this = Build /\ StageBar = "building"
        \/ this # Build /\ StageBar = "testing"
    BY <2>4 DEF StageBar, Stage, Closing
  <2>6. BuiltBar' = (StageBar = "testing" /\ BuiltBar)
    BY <1>0, <1>1, <2>5 DEF Views
  <2> QED
    BY <1>3, <2>1, <2>2, <2>3, <2>5, <2>6
       DEF Simulated, Abstract!Next, Abstract!StartHelper
<1> QED
  BY <1>4, <1>5

\* A fork() that fails starts nothing.
LEMMA ForkFailsSimulated ==
  ASSUME PipeInv, PMInv', ~eintr, ForkFails, UNCHANGED mvars
  PROVE  Simulated
<1>0. /\ TypeOK /\ Tidy /\ Views /\ Views' /\ this \in Obj /\ NoChild(this)
      /\ at = "fork" /\ fn # "kill" /\ eintr' = eintr
  BY OneOfEach, OneOfEachNext
     DEF PipeInv, PMInv, PInv, TypeOK, Control, Tidy, ForkFails
<1>1. /\ UNCHANGED <<HelperBar, ProgramBar>>
      /\ \A o \in Obj : succeeded'[o] = (o # this /\ succeeded[o])
  BY <1>0, NoKind DEF ForkFails, TypeOK, kvars
<1>2. StageBar' = StageBar /\ UNCHANGED <<phase, gRunning>>
  BY <1>0 DEF StageBar, Stage, mvars
<1>3. CASE this = Program
  <2>1. BuiltBar' = BuiltBar
    BY <1>0, <1>1, <1>3 DEF Views
  <2> QED
    BY <1>1, <1>2, <2>1 DEF Simulated
<1>4. CASE this # Program
  <2>1. HelperBar = "none"
    BY <1>0 DEF Views, IsHelper, NoChild, Tidy, IsChild
  <2>2. \/ this = Build /\ phase \in {"rebuild", "build"}
        \/ this # Build /\ phase = "tests"
    BY <1>0, <1>4, WhoseCall DEF PipeInv
  <2>3. \/ this = Build /\ StageBar = "building"
        \/ this # Build /\ StageBar = "testing"
    BY <2>2 DEF StageBar, Stage, Closing
  <2>4. BuiltBar' = (StageBar = "testing" /\ BuiltBar)
    BY <1>0, <1>1, <2>3 DEF Views
  <2> QED
    BY <1>1, <1>2, <2>1, <2>3, <2>4
       DEF Simulated, Abstract!Next, Abstract!StartHelper
<1> QED
  BY <1>3, <1>4

\* SIGTERM stops the program or somebody else's process, and the program only
\* when Pipeline allows it.
LEMMA TermSimulated ==
  ASSUME PipeInv, PMInv', ~eintr, Term, UNCHANGED mvars
  PROVE  Simulated
<1>0. /\ PInv /\ TypeOK /\ Tidy /\ Views /\ Views' /\ Harmless /\ this \in Obj
      /\ at = "term" /\ fn = "kill" /\ mProc[this] \in Pid /\ UNCHANGED <<forkedFor, hvars>>
  <2>1. at = "term" /\ UNCHANGED <<forkedFor, hvars>> /\ ~eintr'
    BY DEF Term, hvars
  <2>2. PInv /\ TypeOK /\ Tidy /\ Harmless /\ Views /\ Views'
    BY <2>1, OneOfEach, OneOfEachNext DEF PipeInv, PMInv, PInv
  <2> QED
    BY <2>1, <2>2 DEF PInv, TypeOK, Control, ForkedPid
<1>1. PICK q \in Pid : q = mProc[this]
  BY <1>0
<1>2. UNCHANGED <<StageBar, BuiltBar, phase, gRunning>>
  BY <1>0 DEF StageBar, Stage, BuiltBar, mvars, hvars
<1>3. /\ \A p \in Pid \ {q} : state'[p] = state[p] /\ forkedFor'[p] = forkedFor[p]
      /\ state'[q] = state[q] \/ (state[q] = "running" /\ state'[q] = "terminating")
  <2>1. Addressed(q) = {q}
    BY <1>1, PidAssumption DEF Addressed
  <2>2. CASE Exists(q)
    BY <1>0, <1>1, <2>1, <2>2 DEF Term, TypeOK
  <2>3. CASE ~Exists(q)
    BY <1>0, <1>1, <2>3 DEF Term
  <2> QED
    BY <2>2, <2>3
<1>4. CASE state'[q] = state[q]
  <2>1. TypeOK'
    BY DEF PMInv, PInv
  <2>2. UNCHANGED state
    BY <1>0, <1>3, <1>4, <2>1 DEF TypeOK
  <2> QED
    BY <1>0, <1>2, <2>2, NoKind DEF Simulated
<1>5. CASE state[q] = "running" /\ state'[q] = "terminating" /\ forkedFor[q] \notin Obj
  <2>1. ~IsChild(q) /\ ~IsChild(q)'
    BY <1>0, <1>5 DEF IsChild
  <2>2. HelperBar' = HelperBar /\ ProgramBar' = ProgramBar
    BY <1>0, <1>3, <2>1, OtherKind DEF IsHelper, IsProgram
  <2> QED
    BY <1>2, <2>2 DEF Simulated
<1>6. CASE state[q] = "running" /\ state'[q] = "terminating" /\ forkedFor[q] \in Obj
  <2>1. IsChild(q) /\ IsChild(q)'
    BY <1>0, <1>6 DEF IsChild, Alive
  <2>2. forkedFor[q] = Program
    BY <1>0, <1>6, <2>1 DEF Harmless, NoChild
  <2>3. ProgramBar = "up" /\ ProgramBar' = "stopping"
    BY <1>0, <1>6, <2>1, <2>2 DEF Views, IsProgram, Face, Zombie
  <2>4. HelperBar' = HelperBar
    BY <1>0, <1>3, <2>1, <2>2, OtherKind DEF IsHelper
  <2>5. \/ phase \in Closing \ {"gone"}
        \/ (phase = "stop" \/ (Recycle /\ phase = "halt")) /\ Build \in Obj /\ succeeded[Build]
    BY <1>0, <1>1, <1>6, <2>2, WhoIsHit
  <2>6. HelperBar = "none"
    BY <1>0 DEF Harmless, Views, IsHelper, NoChild, IsChild
  <2>7. \/ StageBar = "closing"
        \/ BuiltBar /\ (StageBar = "swapping" \/ (Recycle /\ StageBar = "building"))
    BY <2>5 DEF StageBar, Stage, BuiltBar, Closing, Loops
  <2> QED
    BY <1>2, <2>3, <2>4, <2>6, <2>7
       DEF Simulated, Abstract!Next, Abstract!Stop, Abstract!Mistake, Abstract!Turns
<1> QED
  BY <1>3, <1>4, <1>5, <1>6

\* The other system calls only reap.
LEMMA ThreadSimulated ==
  ASSUME PipeInv, PMInv', ~eintr, Thread, UNCHANGED mvars
  PROVE  Simulated
<1>0. at # "idle" /\ UNCHANGED <<eintr, phase, gRunning>>
  BY ThreadFrame DEF mvars
<1>1. ASSUME UNCHANGED <<kvars, hvars>> PROVE Simulated
  BY <1>0, <1>1, OneOfEach, OneOfEachNext, NoKind
     DEF PipeInv, Simulated, StageBar, Stage, BuiltBar, kvars, hvars
<1>2. CASE Peek \/ Wait \/ KillReap
  <2>1. UNCHANGED <<forkedFor, hvars>>
    BY <1>2 DEF Peek, Wait, KillReap
  <2>2. \/ UNCHANGED state
        \/ IsChild(mProc[this]) /\ Zombie(mProc[this]) /\ Reap(mProc[this])
    BY <1>2 DEF Peek, Wait, KillReap, Zombie
  <2>3. CASE UNCHANGED state
    BY <1>1, <2>1, <2>3 DEF kvars
  <2>4. CASE IsChild(mProc[this]) /\ Zombie(mProc[this]) /\ Reap(mProc[this])
    <3>1. mProc[this] \in Pid
      BY <2>4 DEF IsChild
    <3>2. fn = "kill" \/ forkedFor[mProc[this]] = this
      BY <1>2, <2>4 DEF Peek, Wait, KillReap, PipeInv, PMInv, PInv, Control, Outcome, Pending
    <3> QED
      BY <1>0, <2>1, <2>4, <3>1, <3>2, ReapSimulated DEF hvars
  <2> QED
    BY <2>2, <2>3, <2>4
<1>3. CASE Probe
  BY <1>1, <1>3 DEF Probe
<1> QED
  BY <1>2, <1>3, ForkFailsSimulated, ForkSimulated, TermSimulated DEF Thread

\* Where the manager goes next, as Pipeline sees it.
LEMMA StageOf ==
  ASSUME ~eintr
  PROVE  /\ phase \in {"idle", "listen"} => StageBar = "asleep"
         /\ phase \in {"rebuild", "halt", "build"} => StageBar = "building"
         /\ phase = "tests" => StageBar = "testing"
         /\ phase \in {"stop", "start"} => StageBar = "swapping"
         /\ phase \in Closing \ {"gone"} => StageBar = "closing"
         /\ phase \in {"gone", "crashed"} => StageBar = phase
  BY DEF StageBar, Stage, Closing

\* The manager changes the stage and nothing else, between two calls.
LEMMA ManagerSimulated ==
  ASSUME PipeInv, PMInv', ~eintr, Manager
  PROVE  Simulated
<1>0. /\ Calls /\ Tidy /\ Views /\ Views' /\ PInv /\ Asked
      /\ at = "idle" /\ UNCHANGED <<state, forkedFor, gRunning, eintr, succeeded>>
  BY ManagerFrame, OneOfEach, OneOfEachNext DEF PipeInv, PMInv
<1>1. UNCHANGED <<HelperBar, ProgramBar, BuiltBar>>
  BY <1>0, NoKind DEF BuiltBar
<1>2. HelperBar = "none"
  BY <1>0 DEF Views, IsHelper, IsChild, Tidy, NoChild
<1>3. StageBar' = (IF eintr THEN "interrupted" ELSE Stage)'
  BY DEF StageBar
<1>4. (~eintr =>
         /\ phase \in {"idle", "listen"} => StageBar = "asleep"
         /\ phase \in {"rebuild", "halt", "build"} => StageBar = "building"
         /\ phase = "tests" => StageBar = "testing"
         /\ phase \in {"stop", "start"} => StageBar = "swapping"
         /\ phase \in Closing \ {"gone"} => StageBar = "closing"
         /\ phase \in {"gone", "crashed"} => StageBar = phase)'
  BY StageOf, PTL
<1> USE <1>0, <1>1, <1>2, <1>4, StageOf
    DEF Simulated, Ready, Begin, Enter, StartLoop, NextTest, TestsDone, Closing, Loops
<1>5. ASSUME phase' = "crashed", NULL \in {Build, Program} PROVE Simulated
  BY <1>5 DEF Abstract!Next, Abstract!Crash
<1>6. CASE Change
  BY <1>5, <1>6 DEF Change, Abstract!Next, Abstract!Notice, Abstract!Go
<1>7. CASE Listen \/ ListenReturns
  BY <1>7 DEF Listen, ListenReturns
<1>8. CASE RebuildReturns \/ BuildReturns
  <2>1. Build \in Obj /\ fn = "runAndWait" /\ this = Build
    BY <1>8 DEF RebuildReturns, BuildReturns, Calls, Called
  <2>2. ret <=> BuiltBar
    BY <2>1 DEF PInv, WaitVerdict, BuiltBar
  <2> QED
    BY <1>8, <2>2 DEF RebuildReturns, BuildReturns, Abstract!Next, Abstract!GiveUp,
       Abstract!Built, Abstract!Go
<1>9. CASE Halt
  BY <1>9, TestObjects DEF Halt, Calls, PipeInv, PMInv, PMTypeOK
<1>10. CASE RunTests
  BY <1>5, <1>10, TestObjects DEF RunTests, PipeInv, PMInv, PMTypeOK, Abstract!Next,
     Abstract!Tested, Abstract!Go
<1>11. CASE StopReturns \/ StartReturns
  BY <1>5, <1>11 DEF StopReturns, StartReturns, Abstract!Next, Abstract!Swapped, Abstract!Go
<1>12. CASE Quit
  BY <1>5, <1>12 DEF Quit, Abstract!Next, Abstract!Close, Abstract!Go
<1>13. CASE KillTests \/ DelTests
  BY <1>5, <1>13, TestObjects DEF KillTests, DelTests, PipeInv, PMInv, PMTypeOK
<1>14. CASE KillBuildReturns \/ KillProgramReturns \/ DelBuildReturns
  BY <1>5, <1>14 DEF KillBuildReturns, KillProgramReturns, DelBuildReturns
<1>15. CASE DelProgramReturns
  <2>1. NoChild(Program)
    BY <1>15 DEF DelProgramReturns, Tidy
  <2>2. ProgramBar = "none"
    BY <2>1 DEF Views, IsProgram, NoChild
  <2> QED
    BY <1>15, <2>2 DEF DelProgramReturns, Abstract!Next, Abstract!Leave, Abstract!Go
<1> QED
  BY <1>6, <1>7, <1>8, <1>9, <1>10, <1>11, <1>12, <1>13, <1>14, <1>15 DEF Manager, Proceed

\* SIGINT asks Renzoku to end, and may put an end to every promise.
LEMMA SigintSimulated ==
  ASSUME PipeInv, PMInv', ~eintr, Sigint
  PROVE  Simulated
<1>0. /\ UNCHANGED <<state, forkedFor, succeeded, phase>> /\ gRunning = TRUE /\ gRunning' = FALSE
      /\ eintr' = eintr \/ (eintr' /\ at \in {"wait", "reap"})
  BY DEF Sigint, Interrupt, Blocked, cvars, kvars, PipeInv, PMInv, PMTypeOK, PInv, TypeOK
<1>1. CASE ~eintr'
  <2>1. UNCHANGED <<HelperBar, ProgramBar>>
    BY <1>0, <1>1, OneOfEach, OneOfEachNext, NoKind DEF PipeInv
  <2>2. UNCHANGED <<StageBar, BuiltBar>>
    BY <1>0, <1>1 DEF StageBar, Stage, BuiltBar
  <2> QED
    BY <1>0, <2>1, <2>2 DEF Simulated, Abstract!Next, Abstract!TurnOff
<1>2. CASE eintr'
  <2>1. phase \in {"rebuild", "halt", "build", "tests", "stop", "start"}
    BY <1>0, <1>2, WhoseCall DEF PipeInv, Asked, Closing, Loops
  <2>2. StageBar \in {"building", "testing", "swapping"}
    BY <2>1, StageOf
  <2>3. /\ StageBar' = "interrupted" /\ HelperBar' = "none" /\ ProgramBar' = "none"
        /\ BuiltBar' = FALSE
    BY <1>2 DEF StageBar, HelperBar, ProgramBar, BuiltBar
  <2> QED
    BY <1>0, <2>2, <2>3 DEF Simulated, Abstract!Next, Abstract!Interrupt
<1> QED
  BY <1>1, <1>2

\* Once a waitpid() has been interrupted the promise is void, and stays void.
LEMMA VoidSimulated == PipeInv /\ eintr /\ [PMNext]_vars => Simulated
<1> SUFFICES ASSUME PipeInv, eintr, [PMNext]_vars PROVE Simulated
  OBVIOUS
<1>1. eintr' = eintr /\ gRunning' = gRunning
  BY ManagerFrame, ThreadFrame, KernelChildren
     DEF PMNext, Sigint, PipeInv, PMInv, Asked, vars, pvars, mvars
<1> QED
  BY <1>1 DEF Simulated, StageBar, HelperBar, ProgramBar, BuiltBar

\* Every step is a step of Pipeline or a stuttering one.
LEMMA StepSimulated == PipeInv /\ PMInv' /\ [PMNext]_vars => Simulated
<1> SUFFICES ASSUME PipeInv, PMInv', [PMNext]_vars, ~eintr PROVE Simulated
  BY VoidSimulated
<1>1. ASSUME UNCHANGED vars PROVE Simulated
  <2>1. UNCHANGED <<HelperBar, ProgramBar>>
    BY <1>1, OneOfEach, OneOfEachNext, NoKind DEF PipeInv, vars, pvars
  <2> QED
    BY <1>1, <2>1 DEF Simulated, StageBar, Stage, BuiltBar, vars, pvars, mvars
<1> QED
  BY <1>1, ManagerSimulated, ThreadSimulated, KernelSimulated, SigintSimulated DEF PMNext

\* ProcMan keeps Pipeline's promise for every list of tests and every pid
\* space: a program is replaced only after a successful build, nothing runs
\* beside it but one build or test, and nothing is left at the end.  If the
\* kernel reuses a pid that an object still names, it may be stopped between
\* two builds, and nothing worse happens to it.
THEOREM PipelineCorrect == PMSpec => ImplementsPipeline
<1>1. Simulated => [Abstract!Next]_(Abstract!avars)
  BY DEF Simulated, Abstract!avars
<1> QED
  BY InitSimulated, PipeInvariance, PMInvariance, StepSimulated, <1>1, PTL
     DEF PMSpec, ImplementsPipeline, Abstract!Spec

-----------------------------------------------------------------------------
(* How many steps are ahead.                                               *)

\* What is pending takes a round each, and the end takes one.
LEMMA LaterRounds ==
  ASSUME NEW a \in Nat, NEW r \in Nat
  PROVE  /\ (a + 1) * r = a * r + r
         /\ a * r \in Nat
         /\ a \in Nat \ {0} => (a - 1 + 1) * r = a * r
  OBVIOUS

\* Of the objects' steps each is one of the three that are left.
LEMMA CallCounted ==
  TypeOK => /\ CallAhead \in 0..3
            /\ Thread => CallAhead' \in 0..3 /\ CallAhead' < CallAhead
  BY DEF TypeOK, Point, CallAhead, Thread, ForkFails, ForkChild, Peek, Wait, Probe, Term,
     KillReap, AfterRun, Goto, Return

\* The length of the list of tests, the loops' place in it, and the rounds.
LEMMA Counts ==
  ASSUME PMTypeOK
  PROVE  /\ Len(Tests) \in Nat /\ i \in Nat /\ i <= Len(Tests) /\ pending \in Nat
         /\ Round \in Nat /\ Round = 8 * Len(Tests) + 19
         /\ Later \in Nat /\ Later >= Round
         /\ pending = 0 => Later = Round
         /\ pending' = pending => Later' = Later
         /\ pending > 0 /\ pending' = pending - 1 => Later' = Later - Round
<1>1. /\ Len(Tests) \in Nat /\ i \in Nat /\ i <= Len(Tests) /\ pending \in Nat
      /\ Round \in Nat /\ Round = 8 * Len(Tests) + 19
  BY DEF PMTypeOK, Round
<1>2. Later = pending * Round + Round /\ pending * Round \in Nat
  BY <1>1, LaterRounds DEF Later
<1>3. pending = 0 => Later = Round
  BY <1>1, <1>2 DEF Later
<1>4. pending' = pending => Later' = Later
  BY DEF Later, Round
<1>5. ASSUME pending > 0, pending' = pending - 1 PROVE Later' = Later - Round
  <2>1. Later' = (pending - 1 + 1) * Round
    BY <1>5 DEF Later, Round
  <2> QED
    BY <1>1, <1>2, <1>5, <2>1, LaterRounds
<1> QED
  BY <1>1, <1>2, <1>3, <1>4, <1>5

\* The same after a step.
LEMMA CountsNext ==
  ASSUME PMTypeOK'
  PROVE  Later' \in Nat /\ Later' >= Round /\ i' \in Nat /\ i' <= Len(Tests)
<1>1. pending' \in Nat /\ i' \in Nat /\ i' <= Len(Tests) /\ Round \in Nat
  BY DEF PMTypeOK, Round
<1> DEFINE owed == pending' * Round
<1>2. Later' = owed + Round /\ owed \in Nat
  BY <1>1, LaterRounds DEF Later, Round
<1> HIDE DEF owed
<1> QED
  BY <1>1, <1>2

\* What is ahead is a number.
LEMMA PhaseCounted == PMTypeOK => PhaseAhead \in Nat
<1> SUFFICES ASSUME PMTypeOK PROVE PhaseAhead \in Nat
  OBVIOUS
<1>1. /\ Len(Tests) \in Nat /\ i \in Nat /\ i <= Len(Tests)
      /\ Round \in Nat /\ Later \in Nat
  BY Counts
<1> DEFINE n    == Len(Tests)
           rest == 4 * (n - i)
<1>2. n \in Nat /\ rest \in Nat
  BY <1>1
<1>3. {Later + 8 * n + 16, Later + 4 * n + rest + 15, Later + 4 * n + 11,
       Later + rest + 10, Later + 6, Later + 2, Later + 1, Round, 8 * n + 15,
       4 * n + rest + 14, 4 * n + 10, rest + 9, 5, 1, 0} \subseteq Nat
  <2> HIDE DEF n, rest
  <2> QED
    BY <1>1, <1>2
<1> QED
  BY <1>3, Zenon DEF PhaseAhead

\* A step of the manager leads to a phase with less ahead, even if the call it
\* makes takes three steps; only a new buffer may hold more.
LEMMA ManagerCounted ==
  ASSUME PMTypeOK, PMTypeOK', Manager, ~Listen
  PROVE  Ahead' \in Nat /\ Ahead' < Ahead
<1> DEFINE n == Len(Tests)
           Leads(ph) == \/ phase' = ph /\ CallAhead' = 3
                        \/ phase' = "crashed" /\ CallAhead' = 0
<1>1. at = "idle" /\ CallAhead = 0
  BY DEF Manager, Proceed, Change, Listen, ListenReturns, RebuildReturns, Halt, BuildReturns,
         RunTests, StopReturns, StartReturns, Quit, KillBuildReturns, KillTests,
         KillProgramReturns, DelTests, DelBuildReturns, DelProgramReturns, Ready, CallAhead
<1>2. /\ n \in Nat /\ i \in Nat /\ i <= n
      /\ Round = 8 * n + 19 /\ Later \in Nat /\ Later >= Round
      /\ pending' = pending => Later' = Later
      /\ pending > 0 /\ pending' = pending - 1 => Later' = Later - Round
  BY Counts
<1>3. Later' \in Nat /\ Later' >= Round /\ i' \in Nat /\ i' <= n
  BY CountsNext
<1>4. ASSUME NEW f, NEW o, NEW ph, Begin(f, o, ph)
      PROVE  Leads(ph)
  BY <1>1, <1>4 DEF Begin, Invoke, CallAhead, cvars
<1>5. ASSUME NEW ph, Enter(ph) PROVE phase' = ph /\ CallAhead' = 0
  BY <1>1, <1>5 DEF Enter, CallAhead, cvars
<1>6. ASSUME NEW f, NextTest(f)
      PROVE  i < n /\ i' = i + 1 /\ Leads(phase)
  BY <1>4, <1>6 DEF NextTest, n
<1>7. ASSUME PhaseAhead \in Nat \ {0}, phase' = "crashed", CallAhead' = 0
      PROVE  Ahead' \in Nat /\ Ahead' < Ahead
  <2>1. PhaseAhead' = 0
    BY <1>7 DEF PhaseAhead
  <2> QED
    BY <1>1, <1>7, <2>1 DEF Ahead
<1> HIDE DEF n
<1> USE <1>1, <1>2, <1>3, <1>5 DEF Ready, StartLoop, TestsDone, Ahead
<1>8. CASE Change
  <2>1. /\ phase = "listen" /\ pending > 0 /\ pending' = pending - 1
        /\ Leads("rebuild")
    BY <1>8, <1>4 DEF Change
  <2>2. CASE phase' = "crashed"
    <3>1. PhaseAhead \in Nat \ {0}
      BY <2>1 DEF PhaseAhead, n
    <3> QED
      BY <1>7, <2>1, <2>2, <3>1
  <2>3. CASE phase' = "rebuild"
    BY <2>1, <2>3 DEF PhaseAhead, n
  <2> QED
    BY <2>1, <2>2, <2>3
<1>9. CASE ListenReturns
  <2>1. phase = "listen" /\ phase' = "idle" /\ CallAhead' = 0 /\ UNCHANGED i
    BY <1>9 DEF ListenReturns
  <2> QED
    BY <2>1 DEF PhaseAhead, n
<1>10. CASE RebuildReturns
  <2>1. /\ phase = "rebuild" /\ CallAhead' = 0 /\ UNCHANGED pending
        /\ (phase' = "halt" /\ i' = 0) \/ (phase' = "listen" /\ i' = i)
    BY <1>10 DEF RebuildReturns
  <2>2. CASE phase' = "halt"
    BY <2>1, <2>2 DEF PhaseAhead, n
  <2>3. CASE phase' = "listen"
    BY <2>1, <2>3 DEF PhaseAhead, n
  <2> QED
    BY <2>1, <2>2, <2>3
<1>11. CASE Halt
  <2>1. /\ phase = "halt" /\ UNCHANGED pending
        /\ \/ i < n /\ i' = i + 1 /\ Leads("halt")
           \/ i = n /\ i' = i /\ Leads("build")
    BY <1>11, <1>4, <1>6 DEF Halt, n
  <2>2. CASE phase' = "crashed"
    <3>1. PhaseAhead \in Nat \ {0}
      BY <2>1 DEF PhaseAhead, n
    <3> QED
      BY <1>7, <2>1, <2>2, <3>1
  <2>3. CASE phase' = "halt"
    <3>1. PhaseAhead = Later + 4 * n + 4 * (n - i) + 15
      BY <2>1 DEF PhaseAhead, n
    <3>2. PhaseAhead' = Later' + 4 * n + 4 * (n - i') + 15
      BY <2>3 DEF PhaseAhead, n
    <3> QED
      BY <2>1, <2>3, <3>1, <3>2
  <2>4. CASE phase' = "build"
    BY <2>1, <2>4 DEF PhaseAhead, n
  <2> QED
    BY <2>1, <2>2, <2>3, <2>4
<1>12. CASE BuildReturns
  <2>1. /\ phase = "build" /\ CallAhead' = 0 /\ UNCHANGED pending
        /\ (phase' = "tests" /\ i' = 0) \/ (phase' = "listen" /\ i' = i)
    BY <1>12 DEF BuildReturns
  <2>2. CASE phase' = "tests"
    BY <2>1, <2>2 DEF PhaseAhead, n
  <2>3. CASE phase' = "listen"
    BY <2>1, <2>3 DEF PhaseAhead, n
  <2> QED
    BY <2>1, <2>2, <2>3
<1>13. CASE RunTests
  <2>1. /\ phase = "tests" /\ UNCHANGED pending
        /\ \/ i < n /\ i' = i + 1 /\ Leads("tests")
           \/ i = n /\ i' = i /\ Leads("stop")
    BY <1>13, <1>4, <1>6 DEF RunTests, n
  <2>2. CASE phase' = "crashed"
    <3>1. PhaseAhead \in Nat \ {0}
      BY <2>1 DEF PhaseAhead, n
    <3> QED
      BY <1>7, <2>1, <2>2, <3>1
  <2>3. CASE phase' = "tests"
    <3>1. PhaseAhead = Later + 4 * (n - i) + 10
      BY <2>1 DEF PhaseAhead, n
    <3>2. PhaseAhead' = Later' + 4 * (n - i') + 10
      BY <2>3 DEF PhaseAhead, n
    <3> QED
      BY <2>1, <2>3, <3>1, <3>2
  <2>4. CASE phase' = "stop"
    BY <2>1, <2>4 DEF PhaseAhead, n
  <2> QED
    BY <2>1, <2>2, <2>3, <2>4
<1>14. CASE StopReturns
  <2>1. /\ phase = "stop" /\ UNCHANGED <<i, pending>>
        /\ Leads("start")
    BY <1>14, <1>4 DEF StopReturns
  <2>2. CASE phase' = "crashed"
    <3>1. PhaseAhead \in Nat \ {0}
      BY <2>1 DEF PhaseAhead, n
    <3> QED
      BY <1>7, <2>1, <2>2, <3>1
  <2>3. CASE phase' = "start"
    BY <2>1, <2>3 DEF PhaseAhead, n
  <2> QED
    BY <2>1, <2>2, <2>3
<1>15. CASE StartReturns
  <2>1. phase = "start" /\ phase' = "listen" /\ CallAhead' = 0 /\ UNCHANGED <<i, pending>>
    BY <1>15 DEF StartReturns
  <2> QED
    BY <2>1 DEF PhaseAhead, n
<1>16. CASE Quit
  <2>1. /\ phase = "idle" /\ UNCHANGED <<i, pending>>
        /\ Leads("killBuild")
    BY <1>16, <1>4 DEF Quit
  <2>2. CASE phase' = "crashed"
    <3>1. PhaseAhead \in Nat \ {0}
      BY <2>1 DEF PhaseAhead, n
    <3> QED
      BY <1>7, <2>1, <2>2, <3>1
  <2>3. CASE phase' = "killBuild"
    BY <2>1, <2>3 DEF PhaseAhead, n
  <2> QED
    BY <2>1, <2>2, <2>3
<1>17. CASE KillBuildReturns
  <2>1. phase = "killBuild" /\ phase' = "killTests" /\ CallAhead' = 0 /\ i' = 0 /\ UNCHANGED pending
    BY <1>17 DEF KillBuildReturns
  <2> QED
    BY <2>1 DEF PhaseAhead, n
<1>18. CASE KillTests
  <2>1. /\ phase = "killTests" /\ UNCHANGED pending
        /\ \/ i < n /\ i' = i + 1 /\ Leads("killTests")
           \/ i = n /\ i' = i /\ Leads("killProgram")
    BY <1>18, <1>4, <1>6 DEF KillTests, n
  <2>2. CASE phase' = "crashed"
    <3>1. PhaseAhead \in Nat \ {0}
      BY <2>1 DEF PhaseAhead, n
    <3> QED
      BY <1>7, <2>1, <2>2, <3>1
  <2>3. CASE phase' = "killTests"
    <3>1. PhaseAhead = 4 * n + 4 * (n - i) + 14
      BY <2>1 DEF PhaseAhead, n
    <3>2. PhaseAhead' = 4 * n + 4 * (n - i') + 14
      BY <2>3 DEF PhaseAhead, n
    <3> QED
      BY <2>1, <2>3, <3>1, <3>2
  <2>4. CASE phase' = "killProgram"
    BY <2>1, <2>4 DEF PhaseAhead, n
  <2> QED
    BY <2>1, <2>2, <2>3, <2>4
<1>19. CASE KillProgramReturns
  <2>1. phase = "killProgram" /\ phase' = "delTests" /\ CallAhead' = 0 /\ i' = 0 /\ UNCHANGED pending
    BY <1>19 DEF KillProgramReturns
  <2> QED
    BY <2>1 DEF PhaseAhead, n
<1>20. CASE DelTests
  <2>1. /\ phase = "delTests" /\ UNCHANGED pending
        /\ \/ i < n /\ i' = i + 1 /\ Leads("delTests")
           \/ i = n /\ i' = i /\ Leads("delBuild")
    BY <1>20, <1>4, <1>6 DEF DelTests, n
  <2>2. CASE phase' = "crashed"
    <3>1. PhaseAhead \in Nat \ {0}
      BY <2>1 DEF PhaseAhead, n
    <3> QED
      BY <1>7, <2>1, <2>2, <3>1
  <2>3. CASE phase' = "delTests"
    <3>1. PhaseAhead = 4 * (n - i) + 9
      BY <2>1 DEF PhaseAhead, n
    <3>2. PhaseAhead' = 4 * (n - i') + 9
      BY <2>3 DEF PhaseAhead, n
    <3> QED
      BY <2>1, <2>3, <3>1, <3>2
  <2>4. CASE phase' = "delBuild"
    BY <2>1, <2>4 DEF PhaseAhead, n
  <2> QED
    BY <2>1, <2>2, <2>3, <2>4
<1>21. CASE DelBuildReturns
  <2>1. /\ phase = "delBuild" /\ UNCHANGED <<i, pending>>
        /\ Leads("delProgram")
    BY <1>21, <1>4 DEF DelBuildReturns
  <2>2. CASE phase' = "crashed"
    <3>1. PhaseAhead \in Nat \ {0}
      BY <2>1 DEF PhaseAhead, n
    <3> QED
      BY <1>7, <2>1, <2>2, <3>1
  <2>3. CASE phase' = "delProgram"
    BY <2>1, <2>3 DEF PhaseAhead, n
  <2> QED
    BY <2>1, <2>2, <2>3
<1>22. CASE DelProgramReturns
  <2>1. phase = "delProgram" /\ phase' = "gone" /\ CallAhead' = 0 /\ UNCHANGED <<i, pending>>
    BY <1>22 DEF DelProgramReturns
  <2> QED
    BY <2>1 DEF PhaseAhead, n
<1> QED
  BY <1>8, <1>9, <1>10, <1>11, <1>12, <1>13, <1>14, <1>15, <1>16, <1>17, <1>18,
     <1>19, <1>20, <1>21, <1>22 DEF Manager, Proceed

\* What StepsCounted says of one step.
StepCounted ==
  \/ Listen
  \/ Ahead' \in 0..Ahead /\ (Manager \/ Thread => Ahead' < Ahead)

\* For any number of tests and pending changes, the thread has only so many
\* steps left until it needs a new buffer or is gone, and whatever the kernel,
\* the commands and SIGINT do, they never give it more.
THEOREM StepsCountedCorrect == PMSpec => StepsCounted
<1>1. ASSUME PMInv, PMInv', PMNext PROVE StepCounted
  <2>0. PMTypeOK /\ PMTypeOK' /\ TypeOK
    BY <1>1 DEF PMInv, PInv
  <2>1. CASE Listen
    BY <2>1 DEF StepCounted
  <2>2. CASE Manager /\ ~Listen
    <3>1. Ahead' \in Nat /\ Ahead' < Ahead
      BY <2>0, <2>2, ManagerCounted
    <3>2. Ahead \in Nat
      BY <2>0, CallCounted, PhaseCounted DEF Ahead
    <3> QED
      BY <3>1, <3>2 DEF StepCounted
  <2>3. CASE ~Manager
    <3>1. UNCHANGED <<phase, i, pending>>
      BY <1>1, <2>3 DEF PMNext, mvars, Sigint
    <3>2. PhaseAhead' = PhaseAhead /\ PhaseAhead \in Nat
      BY <2>0, <3>1, PhaseCounted DEF PhaseAhead, Later, Round
    <3>3. CallAhead' \in 0..CallAhead
      <4>1. CASE Thread
        BY <2>0, <4>1, CallCounted
      <4>2. CASE Kernel
        <5>1. at' = at
          BY <4>2 DEF Kernel, Exit, ForeignStart, ForeignExit, cvars
        <5> QED
          BY <2>0, <5>1, CallCounted DEF CallAhead
      <4>3. CASE Sigint
        <5>1. at' = at \/ at' = "idle"
          BY <4>3 DEF Sigint, Interrupt, Return, cvars
        <5>2. CallAhead' = CallAhead \/ CallAhead' = 0
          BY <5>1 DEF CallAhead
        <5> QED
          BY <2>0, <5>2, CallCounted
      <4> QED
        BY <1>1, <2>3, <4>1, <4>2, <4>3 DEF PMNext
    <3>4. Thread => CallAhead' < CallAhead
      BY <2>0, CallCounted
    <3>5. CallAhead \in 0..3
      BY <2>0, CallCounted
    <3>6. CallAhead' \in Nat /\ CallAhead' <= CallAhead /\ CallAhead \in Nat
      BY <3>3, <3>5
    <3>7. /\ Ahead' \in 0..Ahead
          /\ CallAhead' < CallAhead => Ahead' < Ahead
      <4>1. ASSUME NEW a \in Nat, NEW b \in Nat, NEW c \in Nat, a <= b
            PROVE  a + c \in 0..(b + c) /\ (a < b => a + c < b + c)
        BY <4>1
      <4>2. Ahead = CallAhead + PhaseAhead /\ Ahead' = CallAhead' + PhaseAhead
        BY <3>2 DEF Ahead
      <4> QED
        BY <3>2, <3>6, <4>1, <4>2
    <3> QED
      BY <2>3, <3>4, <3>7 DEF StepCounted
  <2> QED
    BY <2>1, <2>2, <2>3
<1>2. PMInv /\ PMInv' /\ [PMNext]_vars => [StepCounted]_vars
  BY <1>1
<1>3. [][StepCounted]_vars <=> StepsCounted
  BY PTL DEF StepCounted, StepsCounted
<1> QED
  BY <1>2, <1>3, PMInvariance, PTL DEF PMSpec
=============================================================================
