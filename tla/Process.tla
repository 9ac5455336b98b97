------------------------------ MODULE Process ------------------------------
(***************************************************************************)
(* Class Process (src/process.hpp, src/process.cpp): a command that can be *)
(* forked (run), forked and awaited (runAndWait) and terminated (kill),    *)
(* together with the part of the kernel's process table the class relies   *)
(* on.  One thread of Renzoku calls the methods; the children, the other   *)
(* users of the pid space and SIGINT run concurrently with it.             *)
(*                                                                         *)
(* Every system call of a method is a step of its own, so that a child may *)
(* exit, a pid may be reused and a signal may arrive between any two.      *)
(***************************************************************************)
EXTENDS Integers

CONSTANTS
  Obj,            \* the Process objects
  Pid,            \* the pids fork() may return
  NULL,           \* no object
  Recycle,        \* TRUE: the kernel may reuse a reaped pid that an object still
                  \* names; FALSE: it reuses only pids no mProc holds
  Interruptible   \* TRUE: SIGINT's handler may have been installed without
                  \* SA_RESTART (main.cpp:48-51 never initialises sa_flags)

ASSUME PidAssumption == Pid \cap {0, -1} = {}
ASSUME ObjAssumption == NULL \notin Obj
ASSUME FlagAssumption == Recycle \in BOOLEAN /\ Interruptible \in BOOLEAN

VARIABLES
  mProc,      \* Process::mProc of every object: 0, -1 or a pid
  state,      \* the kernel's view of every pid
  forkedFor,  \* the object whose run() forked the process; NULL: not ours
  at,         \* the next system call of the method being executed
  fn, this,   \* the method being executed, or the last one, and its object
  ret,        \* what the last method returned
  saRestart,  \* the installed SIGINT handler restarts system calls
  eintr,      \* history: some waitpid() has failed with EINTR
  succeeded   \* history: the object's latest child has exited with status 0

kvars == <<state, forkedFor>>
cvars == <<at, fn, this, ret>>
hvars == <<saRestart, eintr, succeeded>>
pvars == <<mProc, state, forkedFor, at, fn, this, ret, saRestart, eintr, succeeded>>

ProcState == {"free", "running", "terminating", "exited", "failed"}
Point     == {"idle", "fork", "peek", "wait", "probe", "term", "reap"}
Method    == {"run", "runAndWait", "kill"}

TypeOK ==
  /\ mProc \in [Obj -> Pid \cup {0, -1}]
  /\ state \in [Pid -> ProcState]
  /\ forkedFor \in [Pid -> Obj \cup {NULL}]
  /\ at \in Point
  /\ fn \in Method \cup {"none"}
  /\ this \in Obj \cup {NULL}
  /\ at # "idle" => fn \in Method /\ this \in Obj
  /\ ret \in BOOLEAN
  /\ saRestart \in BOOLEAN
  /\ eintr \in BOOLEAN
  /\ succeeded \in [Obj -> BOOLEAN]

-----------------------------------------------------------------------------
(* The kernel's process table.                                             *)

Alive(p)  == state[p] \in {"running", "terminating"}
Zombie(p) == state[p] \in {"exited", "failed"}

\* A child of Renzoku that it has not reaped yet: what waitpid(n) can find.
IsChild(n) == n \in Pid /\ forkedFor[n] \in Obj /\ (Alive(n) \/ Zombie(n))

\* The pids fork() may hand out.  mProc is never reset, so a pid stays named by
\* the object it was forked for long after the child has been reaped.
Named(p)     == \E o \in Obj : mProc[o] = p
Available(p) == state[p] = "free" /\ (Recycle \/ ~Named(p))

\* The processes kill(n, sig) reaches: one pid, the caller's group, everything.
Addressed(n) == {p \in Pid : (n \in Pid => p = n) /\ (n = 0 => IsChild(p))}

Exists(n) == \E p \in Addressed(n) : Alive(p) \/ Zombie(p)

Reap(p) == state' = [state EXCEPT ![p] = "free"]

-----------------------------------------------------------------------------
(* The methods.                                                            *)

Init ==
  /\ mProc = [o \in Obj |-> 0]
  /\ state = [p \in Pid |-> "free"]
  /\ forkedFor = [p \in Pid |-> NULL]
  /\ at = "idle" /\ fn = "none" /\ this = NULL /\ ret = TRUE
  /\ saRestart \in IF Interruptible THEN BOOLEAN ELSE {TRUE}
  /\ eintr = FALSE
  /\ succeeded = [o \in Obj |-> FALSE]

Invoke(f, o) ==
  /\ at' = IF f = "kill" THEN "probe" ELSE "fork"
  /\ fn' = f /\ this' = o /\ UNCHANGED ret

Goto(point) == at' = point /\ UNCHANGED <<fn, this, ret>>
Return(b)   == at' = "idle" /\ ret' = b /\ UNCHANGED <<fn, this>>

\* run(): fork() fails; mProc keeps the -1.
ForkFails ==
  /\ at = "fork"
  /\ mProc' = [mProc EXCEPT ![this] = -1]
  /\ succeeded' = [succeeded EXCEPT ![this] = FALSE]
  /\ Return(FALSE)
  /\ UNCHANGED <<kvars, saRestart, eintr>>

\* run(): fork() succeeds.  A failing execvp() is a child that exits with 1.
ForkChild(p) ==
  /\ at = "fork" /\ Available(p)
  /\ mProc' = [mProc EXCEPT ![this] = p]
  /\ state' = [state EXCEPT ![p] = "running"]
  /\ forkedFor' = [forkedFor EXCEPT ![p] = this]
  /\ succeeded' = [succeeded EXCEPT ![this] = FALSE]
  /\ Goto("peek")
  /\ UNCHANGED <<saRestart, eintr>>

\* What follows run()'s return value TRUE in the calling method.
AfterRun == IF fn = "run" THEN Return(TRUE) ELSE Goto("wait")

\* Mutant: run() reaps a failed child and does not look at its status.
PeekIgnoresStatus ==
  /\ at = "peek"
  /\ LET p == mProc[this] IN
       IF IsChild(p) /\ Zombie(p) THEN Reap(p) ELSE UNCHANGED state
  /\ AfterRun
  /\ UNCHANGED <<mProc, forkedFor, hvars>>

\* run(): usleep(10), then waitpid(mProc, WNOHANG).
Peek ==
  /\ at = "peek"
  /\ LET p == mProc[this] IN
       \/ IsChild(p) /\ state[p] = "failed" /\ Reap(p) /\ Return(FALSE)
       \/ IsChild(p) /\ state[p] = "exited" /\ Reap(p) /\ AfterRun
       \/ ~(IsChild(p) /\ Zombie(p)) /\ AfterRun /\ UNCHANGED state
  /\ UNCHANGED <<mProc, forkedFor, hvars>>

\* runAndWait(): waitpid(mProc, 0).  ECHILD is ignored and counts as success.
Wait ==
  /\ at = "wait"
  /\ LET p == mProc[this] IN
       \/ IsChild(p) /\ Zombie(p) /\ Reap(p) /\ Return(state[p] = "exited")
       \/ ~IsChild(p) /\ Return(TRUE) /\ UNCHANGED state
  /\ UNCHANGED <<mProc, forkedFor, hvars>>

\* Mutant: kill() forgets that a failed fork() leaves -1.
NotForked(o) == mProc[o] = 0

\* kill(): no pid to signal.
NeverForked(o) == mProc[o] \in {0, -1}

\* kill(): "mProc <= 1" returns at once, else kill(mProc, 0) decides whether
\* SIGTERM is sent; the existence check may be refused for a foreign process.
Probe ==
  /\ at = "probe"
  /\ LET n == mProc[this] IN
       \/ NeverForked(this) /\ Return(TRUE)
       \/ ~NeverForked(this) /\ Exists(n) /\ Goto("term")
       \/ ~NeverForked(this) /\ ~IsChild(n) /\ Goto("reap")
  /\ UNCHANGED <<mProc, kvars, hvars>>

\* Mutant: kill() only probes the process and never sends SIGTERM.
TermForgotten ==
  /\ at = "term"
  /\ Goto("reap")
  /\ UNCHANGED <<mProc, kvars, hvars>>

\* kill(): kill(mProc, SIGTERM); a process gone since the probe is an error.
Term ==
  /\ at = "term"
  /\ LET n == mProc[this] IN
       IF Exists(n)
       THEN /\ state' = [p \in Pid |-> IF p \in Addressed(n) /\ state[p] = "running"
                                       THEN "terminating" ELSE state[p]]
            /\ Goto("reap")
       ELSE Return(FALSE) /\ UNCHANGED state
  /\ UNCHANGED <<mProc, forkedFor, hvars>>

\* Mutant: kill() calls waitpid() with WNOHANG.
KillReapNoHang ==
  /\ at = "reap"
  /\ LET p == mProc[this] IN
       IF IsChild(p) /\ Zombie(p) THEN Reap(p) ELSE UNCHANGED state
  /\ Return(TRUE)
  /\ UNCHANGED <<mProc, forkedFor, hvars>>

\* kill(): waitpid(mProc, 0); whatever it answers, kill() returns TRUE.
KillReap ==
  /\ at = "reap"
  /\ LET p == mProc[this] IN
       \/ IsChild(p) /\ Zombie(p) /\ Reap(p)
       \/ ~IsChild(p) /\ UNCHANGED state
  /\ Return(TRUE)
  /\ UNCHANGED <<mProc, forkedFor, hvars>>

Thread ==
  \/ ForkFails
  \/ \E p \in Pid : ForkChild(p)
  \/ Peek \/ Wait \/ Probe \/ Term \/ KillReap

-----------------------------------------------------------------------------
(* The environment: children, other processes, SIGINT.                     *)

\* A child exits, by itself or on SIGTERM, with status 0 or not.
Exit(p) ==
  /\ Alive(p) /\ forkedFor[p] \in Obj
  /\ \E s \in {"exited", "failed"} :
       /\ state' = [state EXCEPT ![p] = s]
       /\ succeeded' = IF mProc[forkedFor[p]] = p
                       THEN [succeeded EXCEPT ![forkedFor[p]] = (s = "exited")]
                       ELSE succeeded
  /\ UNCHANGED <<mProc, forkedFor, cvars, saRestart, eintr>>

\* A pid is given to a process of someone else.  Only pids an object names
\* matter: Renzoku never looks at another one before fork() returns it.
ForeignStart(p) ==
  /\ Available(p) /\ Named(p)
  /\ state' = [state EXCEPT ![p] = "running"]
  /\ forkedFor' = [forkedFor EXCEPT ![p] = NULL]
  /\ UNCHANGED <<mProc, cvars, hvars>>

ForeignExit(p) ==
  /\ Alive(p) /\ forkedFor[p] = NULL
  /\ Reap(p)
  /\ UNCHANGED <<mProc, forkedFor, cvars, hvars>>

Kernel == \E p \in Pid : Exit(p) \/ ForeignStart(p) \/ ForeignExit(p)

Blocked == /\ at \in {"wait", "reap"}
           /\ IsChild(mProc[this]) /\ ~Zombie(mProc[this])

\* The handler reinstalls itself with signal(), which sets SA_RESTART: only the
\* first SIGINT can interrupt a waitpid(), whose caller then returns TRUE.
Interrupt ==
  /\ saRestart' = TRUE
  /\ IF Blocked /\ ~saRestart
     THEN Return(TRUE) /\ eintr' = TRUE
     ELSE UNCHANGED <<cvars, eintr>>
  /\ UNCHANGED <<mProc, kvars, succeeded>>

-----------------------------------------------------------------------------
(* The class on its own: any method of any object, in any order.           *)

Call ==
  /\ at = "idle"
  /\ \E f \in Method, o \in Obj : Invoke(f, o)
  /\ UNCHANGED <<mProc, kvars, hvars>>

Next == Call \/ Thread \/ Kernel \/ (~saRestart /\ Interrupt)

Spec == Init /\ [][Next]_pvars

\* The thread is scheduled, a child that was sent SIGTERM exits, and so does a
\* command that runAndWait() waits for.  A program left running need not exit.
ExitAwaited == at = "wait" /\ \E p \in Pid : p = mProc[this] /\ Exit(p)
ExitOnTerm(p) == state[p] = "terminating" /\ Exit(p)

-----------------------------------------------------------------------------
(* Properties.                                                             *)

\* kill() sends SIGTERM to the object's own child and to nothing else: not to
\* the process group (mProc 0), not to every process (mProc -1), and not to a
\* process that has since been given the pid of a child already reaped.
SignalsOwnChild ==
  [][\A p \in Pid : state[p] = "running" /\ state'[p] = "terminating"
                      => p = mProc[this] /\ forkedFor[p] = this]_pvars

\* runAndWait() answers TRUE exactly when the child it forked exited with
\* status 0, although run() may reap that child first, waitpid() then fails
\* with ECHILD, and failures are ignored.  Only EINTR can make it wrong.
WaitVerdict ==
  at = "idle" /\ fn = "runAndWait" /\ ~eintr => (ret <=> succeeded[this])

\* When kill() has returned, even with FALSE because the process was gone when
\* SIGTERM was sent, its pid is no child of Renzoku any more: neither running
\* nor left behind as a zombie.
KillReaps ==
  at = "idle" /\ fn = "kill" /\ ~eintr => ~IsChild(mProc[this])
=============================================================================
