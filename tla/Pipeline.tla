------------------------------ MODULE Pipeline ------------------------------
(***************************************************************************)
(* What Renzoku promises about the processes it runs for its owner: the    *)
(* abstract specification that ProcMan implements.  There is one program   *)
(* and at most one helper (a build or a test); the program is stopped and  *)
(* replaced only after a build that has exited with status 0, or because   *)
(* Renzoku itself ends, and it ends with nothing left.  That is as much as *)
(* is left of the promise when the kernel reuses pids, too.                *)
(*                                                                         *)
(* Objects, pids and system calls do not occur here.                       *)
(***************************************************************************)
CONSTANTS
  Complete,  \* there is a build command and a program
  Mistakes   \* the program may be taken for a test that is halted

VARIABLES
  stage,     \* what Renzoku is doing
  helper,    \* the build or test: "none", "busy" or "done" (not reaped)
  program,   \* the program: "none", "up", "stopping" or "done" (not reaped)
  built,     \* the latest build has exited with status 0
  on         \* nobody has asked Renzoku to end

avars == <<stage, helper, program, built, on>>

Init ==
  /\ stage = "asleep" /\ helper = "none" /\ program = "none"
  /\ built = FALSE /\ on = TRUE

Go(from, to) ==
  /\ stage = from /\ stage' = to /\ helper = "none"
  /\ UNCHANGED <<helper, program, built, on>>

\* A change is built, tested and launched.
Notice  == Go("asleep", "building")
GiveUp  == Go("building", "asleep") /\ ~built
Built   == Go("building", "testing") /\ built
Tested  == Go("testing", "swapping")
Swapped == Go("swapping", "asleep")

\* The life of a build or test; fork() may fail, and then nothing is built.
StartHelper ==
  /\ stage \in {"building", "testing"} /\ helper = "none"
  /\ helper' \in {"none", "busy"}
  /\ built' = (stage = "testing" /\ built)
  /\ UNCHANGED <<stage, program, on>>

HelperExits ==
  /\ helper = "busy" /\ helper' = "done"
  /\ IF stage = "building" THEN built' \in BOOLEAN ELSE UNCHANGED built
  /\ UNCHANGED <<stage, program, on>>

ReapHelper ==
  /\ helper = "done" /\ helper' = "none"
  /\ UNCHANGED <<stage, program, built, on>>

\* The life of the program.
Turns(from, to) ==
  /\ program \in from /\ program' = to
  /\ UNCHANGED <<stage, helper, built, on>>

Launch       == stage = "swapping" /\ built /\ Turns({"none"}, "up")
Stop         == (stage = "closing" \/ (stage = "swapping" /\ built)) /\ Turns({"up"}, "stopping")
ProgramExits == Turns({"up", "stopping"}, "done")
ReapProgram  == stage \in {"swapping", "closing"} /\ Turns({"done"}, "none")

\* The worst a mistake can do: the program is stopped, and waited for, when one
\* build has succeeded and the next one, which may fail, has not yet begun.
Mistake ==
  /\ Mistakes /\ stage = "building" /\ built /\ helper = "none"
  /\ Turns({"up"}, "stopping") \/ Turns({"done"}, "none")

\* The end.
TurnOff == on /\ on' = FALSE /\ UNCHANGED <<stage, helper, program, built>>
Close   == Go("asleep", "closing") /\ ~on
Leave   == Go("closing", "gone") /\ program = "none"

\* Without a build command or a program there is no promise at all, and none
\* after the signal that ends Renzoku has interrupted a waitpid().
Crash     == ~Complete /\ stage' = "crashed" /\ UNCHANGED <<helper, program, built, on>>
Interrupt ==
  /\ on /\ stage \in {"building", "testing", "swapping"}
  /\ stage' = "interrupted" /\ helper' = "none" /\ program' = "none"
  /\ built' = FALSE /\ on' = FALSE

Next ==
  \/ Notice \/ GiveUp \/ Built \/ Tested \/ Swapped
  \/ StartHelper \/ HelperExits \/ ReapHelper
  \/ Launch \/ Stop \/ ProgramExits \/ ReapProgram \/ Mistake
  \/ TurnOff \/ Close \/ Leave \/ Crash \/ Interrupt

Spec == Init /\ [][Next]_avars
=============================================================================
