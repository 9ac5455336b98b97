--------------------------- MODULE ProcessProofs ---------------------------
(***************************************************************************)
(* What TLAPS proves of Process, for any objects and pids.  Each invariant *)
(* is proved step by step for Thread, Kernel, Interrupt and the start of a *)
(* call, so that a composition of Process with its callers can cite the    *)
(* lemmas as they are.                                                     *)
(***************************************************************************)
EXTENDS Process, TLAPS

\* The caller starts a method; nothing else changes.
StartCall(f, o) ==
  at = "idle" /\ Invoke(f, o) /\ UNCHANGED <<mProc, kvars, hvars>>

-----------------------------------------------------------------------------
(* Typing.                                                                 *)

\* The initial values of the class and the process table have their types.
LEMMA InitType == Init => TypeOK
  BY DEF Init, TypeOK, Point, Method, ProcState

\* A system call of a method keeps the types.
LEMMA ThreadType == TypeOK /\ Thread => TypeOK'
<1> SUFFICES ASSUME TypeOK, Thread PROVE TypeOK'
  OBVIOUS
<1> USE DEF TypeOK, Point, Method, ProcState, kvars, hvars, Goto, Return
<1>1. CASE ForkFails
  BY <1>1 DEF ForkFails
<1>2. ASSUME NEW p \in Pid, ForkChild(p) PROVE TypeOK'
  BY <1>2 DEF ForkChild
<1>3. CASE Peek
  BY <1>3 DEF Peek, AfterRun, Reap
<1>4. CASE Wait
  BY <1>4 DEF Wait, Reap
<1>5. CASE Probe
  BY <1>5 DEF Probe
<1>6. CASE Term
  BY <1>6 DEF Term
<1>7. CASE KillReap
  BY <1>7 DEF KillReap, Reap
<1> QED
  BY <1>1, <1>2, <1>3, <1>4, <1>5, <1>6, <1>7 DEF Thread

\* A step of the kernel keeps the types.
LEMMA KernelType == TypeOK /\ Kernel => TypeOK'
<1> SUFFICES ASSUME TypeOK, NEW p \in Pid,
                    Exit(p) \/ ForeignStart(p) \/ ForeignExit(p)
             PROVE  TypeOK'
  BY DEF Kernel
<1> USE DEF TypeOK, ProcState, cvars, hvars
<1>1. CASE Exit(p)
  BY <1>1 DEF Exit
<1>2. CASE ForeignStart(p)
  BY <1>2 DEF ForeignStart
<1>3. CASE ForeignExit(p)
  BY <1>3 DEF ForeignExit, Reap
<1> QED
  BY <1>1, <1>2, <1>3

\* SIGINT keeps the types.
LEMMA InterruptType == TypeOK /\ Interrupt => TypeOK'
  BY DEF TypeOK, Interrupt, Point, Return, cvars, kvars

\* The start of a call keeps the types.
LEMMA CallType ==
  ASSUME TypeOK, NEW f \in Method, NEW o \in Obj, StartCall(f, o)
  PROVE  TypeOK'
  BY DEF TypeOK, StartCall, Invoke, Point, Method, kvars, hvars

\* A step that changes none of the variables keeps the types.
LEMMA StutterType == TypeOK /\ UNCHANGED pvars => TypeOK'
  BY DEF TypeOK, pvars

\* Next, as the steps the lemmas of this module are about.
LEMMA NextCases ==
  ASSUME [Next]_pvars
  PROVE  \/ Thread \/ Kernel \/ Interrupt \/ UNCHANGED pvars
         \/ \E f \in Method, o \in Obj : StartCall(f, o)
  BY DEF Next, Call, StartCall

\* Every variable always has its type.
THEOREM TypeCorrect == Spec => []TypeOK
<1>1. TypeOK /\ [Next]_pvars => TypeOK'
  BY NextCases, ThreadType, KernelType, InterruptType, CallType, StutterType
<1> QED
  BY InitType, <1>1, PTL DEF Spec

-----------------------------------------------------------------------------
(* The inductive invariant.                                                *)

\* The method being executed is the one its next system call belongs to.
Control ==
  /\ fn \in Method => this \in Obj
  /\ at \in {"fork", "peek"} => fn \in {"run", "runAndWait"}
  /\ at = "wait" => fn = "runAndWait"
  /\ at \in {"probe", "term", "reap"} => fn = "kill"

\* A pid that is waited for or signalled came out of fork().
ForkedPid == at \in {"peek", "wait", "term", "reap"} => mProc[this] \in Pid

\* The child that run() has forked and nobody has reaped yet, and what it
\* will be remembered for.
Pending ==
  LET p == mProc[this] IN
    /\ IsChild(p) /\ forkedFor[p] = this
    /\ Zombie(p) => (succeeded[this] <=> state[p] = "exited")

\* What runAndWait() can rely on between its system calls, and after them.
Outcome ==
  /\ at = "peek" => Pending
  /\ at = "wait" => Pending \/ (~IsChild(mProc[this]) /\ succeeded[this])
  /\ at = "idle" /\ fn = "runAndWait" /\ ~eintr => ~IsChild(mProc[this])

PInv ==
  TypeOK /\ Control /\ ForkedPid /\ Outcome /\ WaitVerdict /\ KillReaps

\* Nothing has been called yet.
LEMMA InitInv == Init => PInv
<1> SUFFICES ASSUME Init PROVE PInv
  OBVIOUS
<1>1. TypeOK
  BY InitType
<1> QED
  BY <1>1 DEF Init, PInv, Control, ForkedPid, Outcome, WaitVerdict, KillReaps,
           Method

\* A system call of a method keeps the invariant.
LEMMA ThreadInv == PInv /\ Thread => PInv'
<1> SUFFICES ASSUME PInv, Thread PROVE PInv'
  OBVIOUS
<1> USE PidAssumption, ObjAssumption
<1>0. TypeOK'
  BY ThreadType DEF PInv
<1> USE <1>0 DEF PInv, Control, ForkedPid, kvars, hvars, Goto, Return,
                 WaitVerdict, KillReaps, Outcome, Pending
<1>1. CASE ForkFails
  BY <1>1 DEF ForkFails, TypeOK, IsChild
<1>2. ASSUME NEW p \in Pid, ForkChild(p) PROVE PInv'
  <2>1. mProc'[this] = p /\ forkedFor'[p] = this /\ state'[p] = "running"
    BY <1>2 DEF ForkChild, TypeOK
  <2> QED
    BY <1>2, <2>1 DEF ForkChild, TypeOK, IsChild, Zombie, Alive
<1>3. CASE Peek
  BY <1>3 DEF Peek, AfterRun, Reap, TypeOK, IsChild, Zombie, Alive
<1>4. CASE Wait
  BY <1>4 DEF Wait, Reap, TypeOK, IsChild, Zombie, Alive
<1>5. CASE Probe
  BY <1>5 DEF Probe, NeverForked, TypeOK, IsChild
<1>6. CASE Term
  <2>1. mProc[this] \in Pid /\ UNCHANGED <<mProc, forkedFor, eintr, fn, this>>
    BY <1>6 DEF Term
  <2>2. CASE Exists(mProc[this])
    BY <1>6, <2>1, <2>2 DEF Term
  <2>3. CASE ~Exists(mProc[this])
    <3>1. ~IsChild(mProc[this])
      BY <2>1, <2>3 DEF Exists, Addressed, IsChild
    <3>2. UNCHANGED state /\ at = "term" /\ at' = "idle"
      BY <1>6, <2>3 DEF Term
    <3>3. ~IsChild(mProc[this])'
      BY <2>1, <3>1, <3>2 DEF IsChild, Alive, Zombie
    <3> QED
      BY <1>6, <2>1, <3>2, <3>3
  <2> QED
    BY <2>2, <2>3
<1>7. CASE KillReap
  BY <1>7 DEF KillReap, Reap, TypeOK, IsChild, Zombie, Alive
<1> QED
  BY <1>1, <1>2, <1>3, <1>4, <1>5, <1>6, <1>7 DEF Thread

\* A step of the kernel keeps the invariant.
LEMMA KernelInv == PInv /\ Kernel => PInv'
<1> SUFFICES ASSUME PInv, NEW p \in Pid,
                    Exit(p) \/ ForeignStart(p) \/ ForeignExit(p)
             PROVE  PInv'
  BY DEF Kernel
<1> USE PidAssumption, ObjAssumption
<1>0. TypeOK'
  BY KernelType DEF Kernel, PInv
<1> USE <1>0 DEF PInv, Control, ForkedPid, cvars, hvars,
                 WaitVerdict, KillReaps, Outcome, Pending
<1>1. CASE Exit(p)
  <2>1. PICK s \in {"exited", "failed"} :
          /\ state' = [state EXCEPT ![p] = s]
          /\ succeeded' = IF mProc[forkedFor[p]] = p
                          THEN [succeeded EXCEPT ![forkedFor[p]] = (s = "exited")]
                          ELSE succeeded
    BY <1>1 DEF Exit
  <2>2. UNCHANGED <<mProc, forkedFor, at, fn, this, ret, eintr>>
    BY <1>1 DEF Exit
  <2>3. IsChild(p) /\ Alive(p) /\ ~Zombie(p)
    BY <1>1 DEF Exit, IsChild, Alive, Zombie
  <2>4. \A n : IsChild(n)' <=> IsChild(n)
    BY <2>1, <2>2, <2>3 DEF IsChild, Alive, Zombie, TypeOK
  <2>5. CASE this \in Obj /\ mProc[this] = p
    BY <2>1, <2>2, <2>3, <2>4, <2>5 DEF Zombie, TypeOK, Method
  <2>6. CASE this \in Obj /\ mProc[this] # p
    <3>1. succeeded'[this] = succeeded[this]
      BY <2>1, <2>6 DEF TypeOK
    <3>2. Pending => Pending'
      BY <2>1, <2>2, <2>4, <2>6, <3>1 DEF Zombie, TypeOK
    <3> QED
      BY <2>2, <2>4, <2>6, <3>1, <3>2
  <2>7. CASE this \notin Obj
    BY <2>2, <2>7 DEF TypeOK, Method
  <2> QED
    BY <2>5, <2>6, <2>7
<1>2. CASE ForeignStart(p)
  BY <1>2 DEF ForeignStart, Available, TypeOK, IsChild, Zombie, Alive
<1>3. CASE ForeignExit(p)
  BY <1>3 DEF ForeignExit, Reap, TypeOK, IsChild, Zombie, Alive
<1> QED
  BY <1>1, <1>2, <1>3

\* SIGINT keeps the invariant: an interrupted waitpid() is on record.
LEMMA InterruptInv == PInv /\ Interrupt => PInv'
<1> SUFFICES ASSUME PInv, Interrupt PROVE PInv'
  OBVIOUS
<1>0. TypeOK'
  BY InterruptType DEF PInv
<1> QED
  BY <1>0 DEF PInv, Control, ForkedPid, Outcome, Pending, WaitVerdict,
     KillReaps, Interrupt, Return, Blocked, IsChild, Zombie, Alive, cvars, kvars

\* The start of a call keeps the invariant.
LEMMA CallInv ==
  ASSUME PInv, NEW f \in Method, NEW o \in Obj, StartCall(f, o)
  PROVE  PInv'
<1>0. TypeOK'
  BY CallType DEF PInv
<1> QED
  BY <1>0 DEF PInv, Control, ForkedPid, Outcome, WaitVerdict, KillReaps,
     StartCall, Invoke, Method

\* A step that changes none of the variables keeps the invariant.
LEMMA StutterInv == PInv /\ UNCHANGED pvars => PInv'
<1> SUFFICES ASSUME PInv, UNCHANGED pvars PROVE PInv'
  OBVIOUS
<1>0. TypeOK'
  BY StutterType DEF PInv
<1> QED
  BY <1>0 DEF PInv, Control, ForkedPid, Outcome, Pending, WaitVerdict,
     KillReaps, IsChild, Zombie, Alive, pvars

\* PInv is an invariant of the class under any use of its methods.
LEMMA Invariance == Spec => []PInv
<1>1. PInv /\ [Next]_pvars => PInv'
  BY NextCases, ThreadInv, KernelInv, InterruptInv, CallInv, StutterInv
<1> QED
  BY InitInv, <1>1, PTL DEF Spec

\* runAndWait() tells whether its child exited with status 0, in every
\* interleaving of the child's exit with the two waitpid() calls, unless a
\* signal interrupts a waitpid().
THEOREM VerdictCorrect == Spec => []WaitVerdict
  BY Invariance, PTL DEF PInv

\* A kill() that has returned leaves no child behind its pid.
THEOREM KillCorrect == Spec => []KillReaps
  BY Invariance, PTL DEF PInv

-----------------------------------------------------------------------------
(* Signals, when the kernel does not reuse a pid that an object names.     *)

\* A process whose pid an object names was forked by that object's run().
NamerOwns ==
  \A o \in Obj, p \in Pid : mProc[o] = p /\ state[p] # "free" => forkedFor[p] = o

\* An action may send SIGTERM only to the child of the object that kills.
OwnChildOnly ==
  \A p \in Pid : state[p] = "running" /\ state'[p] = "terminating"
                   => p = mProc[this] /\ forkedFor[p] = this

\* No pid is in use before the first fork().
LEMMA InitOwns == Init => NamerOwns
  BY DEF Init, NamerOwns

\* A system call of a method keeps NamerOwns: fork() returns an unnamed pid.
LEMMA ThreadOwns == ~Recycle /\ PInv /\ NamerOwns /\ Thread => NamerOwns'
<1> SUFFICES ASSUME ~Recycle, PInv, NamerOwns, Thread,
                    NEW o \in Obj, NEW q \in Pid,
                    mProc'[o] = q, state'[q] # "free"
             PROVE  forkedFor'[q] = o
  BY DEF NamerOwns
<1> USE PidAssumption DEF PInv, TypeOK, NamerOwns
<1>1. CASE ForkFails
  BY <1>1 DEF ForkFails, kvars
<1>2. ASSUME NEW p \in Pid, ForkChild(p) PROVE forkedFor'[q] = o
  BY <1>2 DEF ForkChild, Available, Named
<1>3. CASE Peek
  BY <1>3 DEF Peek, Reap
<1>4. CASE Wait
  BY <1>4 DEF Wait, Reap
<1>5. CASE Probe
  BY <1>5 DEF Probe, kvars
<1>6. CASE Term
  <2>1. UNCHANGED <<mProc, forkedFor>>
    BY <1>6 DEF Term
  <2>2. state' = state \/ state' = [p \in Pid |->
                            IF p \in Addressed(mProc[this]) /\ state[p] = "running"
                            THEN "terminating" ELSE state[p]]
    BY <1>6 DEF Term
  <2>3. state[q] # "free"
    BY <2>2
  <2> QED
    BY <2>1, <2>3
<1>7. CASE KillReap
  BY <1>7 DEF KillReap, Reap
<1> QED
  BY <1>1, <1>2, <1>3, <1>4, <1>5, <1>6, <1>7 DEF Thread

\* So does a step of the kernel: no foreign process gets a named pid.
LEMMA KernelOwns == ~Recycle /\ PInv /\ NamerOwns /\ Kernel => NamerOwns'
  BY DEF Kernel, Exit, Alive, ForeignStart, Available, Named, ForeignExit, Reap,
         NamerOwns, PInv, TypeOK

\* The remaining steps leave mProc and the process table alone.
LEMMA OtherOwns ==
  NamerOwns /\ UNCHANGED <<mProc, kvars>> => NamerOwns'
  BY DEF NamerOwns, kvars

\* NamerOwns makes SIGTERM reach the right process: kill() signals one pid.
LEMMA ThreadSignals == PInv /\ NamerOwns /\ Thread => OwnChildOnly
<1> SUFFICES ASSUME PInv, NamerOwns, Thread, NEW q \in Pid,
                    state[q] = "running", state'[q] = "terminating"
             PROVE  q = mProc[this] /\ forkedFor[q] = this
  BY DEF OwnChildOnly
<1> USE DEF PInv, TypeOK, Method, Point
<1>1. CASE ForkFails
  BY <1>1 DEF ForkFails, kvars
<1>2. ASSUME NEW p \in Pid, ForkChild(p) PROVE FALSE
  BY <1>2 DEF ForkChild, ProcState
<1>3. CASE Peek
  BY <1>3 DEF Peek, Reap, ProcState
<1>4. CASE Wait
  BY <1>4 DEF Wait, Reap, ProcState
<1>5. CASE Probe
  BY <1>5 DEF Probe, kvars
<1>6. CASE Term
  <2>1. this \in Obj /\ mProc[this] \in Pid
    BY <1>6 DEF Term, ForkedPid
  <2>2. Addressed(mProc[this]) = {mProc[this]}
    BY <2>1, PidAssumption DEF Addressed
  <2>3. q = mProc[this]
    BY <1>6, <2>2 DEF Term
  <2> QED
    BY <2>1, <2>3 DEF NamerOwns
<1>7. CASE KillReap
  BY <1>7 DEF KillReap, Reap, ProcState
<1> QED
  BY <1>1, <1>2, <1>3, <1>4, <1>5, <1>6, <1>7 DEF Thread

\* The kernel sends no SIGTERM of its own, and neither do the other steps.
LEMMA OtherSignals ==
  PInv /\ (Kernel \/ UNCHANGED state) => OwnChildOnly
  BY DEF OwnChildOnly, Kernel, Exit, ForeignStart, ForeignExit, Reap, PInv, TypeOK,
         ProcState

\* As long as no pid that an object names is reused, kill() sends SIGTERM to
\* the object's own child only.
THEOREM SignalsCorrect == ASSUME ~Recycle PROVE Spec => SignalsOwnChild
<1>1. PInv /\ NamerOwns /\ [Next]_pvars => NamerOwns'
  BY NextCases, ThreadOwns, KernelOwns, OtherOwns
     DEF Interrupt, StartCall, pvars, kvars
<1>2. PInv /\ NamerOwns /\ [Next]_pvars => OwnChildOnly
  BY NextCases, ThreadSignals, OtherSignals DEF Interrupt, StartCall, pvars, kvars
<1>3. [][OwnChildOnly]_pvars <=> SignalsOwnChild
  BY PTL DEF SignalsOwnChild, OwnChildOnly
<1> QED
  BY InitOwns, Invariance, <1>1, <1>2, <1>3, PTL DEF Spec
=============================================================================
