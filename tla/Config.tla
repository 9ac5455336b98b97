------------------------------- MODULE Config -------------------------------
(***************************************************************************)
(* Config::parseConfig() (src/config.cpp) and the processes it registers   *)
(* with the ProcessManager (src/procman.cpp): the sections of renzoku.conf *)
(* are read one after another, and those of one kind share a structure.    *)
(*                                                                         *)
(* A section is known by its position; the array that Util::parseCommand() *)
(* makes of its command, and the Process made from that, by the same       *)
(* number.  0 is NULL.                                                     *)
(***************************************************************************)
EXTENDS Integers, Sequences, FiniteSets, FiniteSetsExt

CONSTANT MaxSections   \* bound: sections of a configuration

ASSUME SectionsAssumption == MaxSections \in Nat

Kind == {"program", "test", "compile"}

\* A section that parseCommand() reads: whether it has a command that is a
\* scalar, and what it says of "enabled"; "bad" is a value that is no boolean,
\* or a key somewhere in the section that is no scalar.
CommandSection ==
  [key : Kind, command : BOOLEAN, enabled : {"yes", "no", "absent", "bad"}]

\* A watch section.  "badWatch" is one that parseWatcher() throws at: a filter
\* of several asterisks, or a key, a filter, an element of include or exclude,
\* or the value of a key it does not know, that is no scalar.
WatchedSection == [key : {"watch", "badWatch"}]

\* A section that is no map, by its name, and one with another name (or with a
\* key that is no scalar).
OtherSection == [key : {"scalar"}, name : {"watch", "program", "other"}] \cup [key : {"unknown"}]

Section == CommandSection \cup WatchedSection \cup OtherSection

VARIABLES
  at,          \* "find", "missing", "start", "malformed" (YAML::Load() throws),
               \* "aborted" (assert), "parsing", "thrown" (by the section at
               \* pos), "parsed" or "destroyed"
  file,        \* the sections of the file, once it has been loaded
  pos,         \* sections read so far
  conf,        \* mProgram, mTest and mCompile of Config
  mBuildStep, mProgram, mProcesses   \* the manager's processes

\* The file has a section of this name.
Named(name) ==
  \E n \in DOMAIN file :
    \/ file[n].key = name
    \/ file[n].key = "badWatch" /\ name = "watch"
    \/ file[n].key = "scalar" /\ file[n].name = name

procman == <<mBuildStep, mProgram, mProcesses>>
convars == <<at, file, pos, conf, procman>>

CTypeOK ==
  /\ at \in {"find", "missing", "start", "malformed", "aborted", "parsing", "thrown",
            "parsed", "destroyed"}
  /\ file \in Seq(Section) /\ Len(file) <= MaxSections
  /\ pos \in 0..Len(file)
  /\ conf \in [Kind -> [command : 0..pos, enabled : BOOLEAN]]
  /\ mBuildStep \in 0..pos /\ mProgram \in 0..pos
  /\ mProcesses \in Seq(1..pos) /\ Len(mProcesses) <= pos

\* One constructor looks for the file, the other one is given a stream.
CInit ==
  /\ at \in {"find", "start"} /\ file = <<>> /\ pos = 0
  /\ conf = [kind \in Kind |-> [command |-> 0, enabled |-> TRUE]]
  /\ mBuildStep = 0 /\ mProgram = 0 /\ mProcesses = <<>>

\* findConfig()
Find ==
  /\ at = "find" /\ at' \in {"start", "missing"}
  /\ UNCHANGED <<file, pos, conf, procman>>

\* YAML::Load() throws at what is no YAML.  The assertions ask for a map with
\* "watch" and "program" in lower case; the names of the sections are compared
\* without regard to case.
Load ==
  /\ at = "start"
  /\ \/ at' \in {"malformed", "aborted"} /\ UNCHANGED file
     \/ /\ at' = "parsing"
        /\ \E n \in 0..MaxSections : file' \in [1..n -> Section]
        /\ Named("watch")' /\ Named("program")'
  /\ UNCHANGED <<pos, conf, procman>>

Current == file[pos + 1]
Reading(keys) == at = "parsing" /\ pos < Len(file) /\ Current.key \in keys /\ pos' = pos + 1

Continue == at' = "parsing"
Throw    == at' = "thrown" /\ UNCHANGED procman

ScalarSection ==
  /\ Reading({"scalar"})
  /\ at' = "aborted"
  /\ UNCHANGED <<file, conf, procman>>

WatchSection ==
  /\ Reading({"watch"})
  /\ Continue
  /\ UNCHANGED <<file, conf, procman>>

RejectedSection ==
  /\ Reading({"badWatch", "unknown"})
  /\ Throw
  /\ UNCHANGED <<file, conf>>

\* parseCommand(): what the section does not say stays as the section of the
\* same kind before it has left it.
Parsed(c) ==
  [command |-> IF Current.command THEN pos + 1 ELSE c.command,
   enabled |-> IF Current.enabled \in {"yes", "no"} THEN Current.enabled = "yes"
               ELSE c.enabled]

ParseCommand(kind) ==
  /\ Reading({kind})
  /\ conf' = [conf EXCEPT ![kind] = Parsed(@)]
  /\ UNCHANGED file

Runs(kind) == conf'[kind].command # 0 /\ conf'[kind].enabled

ProgramSection ==
  /\ ParseCommand("program")
  /\ IF Current.enabled = "bad" \/ mProgram # 0 THEN Throw
     ELSE /\ Continue
          /\ mProgram' = IF Runs("program") THEN conf'["program"].command ELSE 0
          /\ UNCHANGED <<mBuildStep, mProcesses>>

\* Mutant: a test section is read as if there were no other one.
TestAlone ==
  /\ ParseCommand("test")
  /\ IF Current.enabled = "bad" THEN Throw
     ELSE /\ Continue
          /\ mProcesses' = IF Current.command /\ Current.enabled # "no"
                           THEN Append(mProcesses, conf'["test"].command) ELSE mProcesses
          /\ UNCHANGED <<mBuildStep, mProgram>>

TestSection ==
  /\ ParseCommand("test")
  /\ IF Current.enabled = "bad" THEN Throw
     ELSE /\ Continue
          /\ mProcesses' = IF Runs("test") THEN Append(mProcesses, conf'["test"].command)
                           ELSE mProcesses
          /\ UNCHANGED <<mBuildStep, mProgram>>

\* Mutant: the build step is compared with the program.
CompileChecksProgram ==
  /\ ParseCommand("compile")
  /\ IF Current.enabled = "bad" \/ mProgram # 0 THEN Throw
     ELSE /\ Continue
          /\ mBuildStep' = IF Runs("compile") THEN conf'["compile"].command ELSE 0
          /\ UNCHANGED <<mProgram, mProcesses>>

CompileSection ==
  /\ ParseCommand("compile")
  /\ IF Current.enabled = "bad" \/ mBuildStep # 0 THEN Throw
     ELSE /\ Continue
          /\ mBuildStep' = IF Runs("compile") THEN conf'["compile"].command ELSE 0
          /\ UNCHANGED <<mProgram, mProcesses>>

EndOfFile ==
  /\ at = "parsing" /\ pos = Len(file)
  /\ at' = "parsed"
  /\ UNCHANGED <<file, pos, conf, procman>>

\* ~Config() frees the arrays that conf names; the manager's processes, which
\* are destroyed later, still point to them, and only kill.
Destroy ==
  /\ at = "parsed"
  /\ at' = "destroyed"
  /\ conf' = [kind \in Kind |-> [conf[kind] EXCEPT !.command = 0]]
  /\ UNCHANGED <<file, pos, procman>>

CNext ==
  \/ Find \/ Load \/ EndOfFile \/ Destroy
  \/ ScalarSection \/ WatchSection \/ RejectedSection
  \/ ProgramSection \/ TestSection \/ CompileSection

CSpec == CInit /\ [][CNext]_convars

-----------------------------------------------------------------------------
(* Properties: the sections one after another, with the structure that     *)
(* those of one kind share, do what can be said of the file as a whole.    *)

Of(f, kind, n) == {m \in 1..n : f[m].key = kind}

\* The last command that the first n sections of f give for this kind, or 0.
Command(f, kind, n) == Max({0} \cup {m \in Of(f, kind, n) : f[m].command})

\* Each of them that disables its kind is followed by one that enables it again.
On(f, kind, n) ==
  \A m \in Of(f, kind, n) : f[m].enabled = "no" =>
    \E l \in Of(f, kind, n) : m < l /\ f[l].enabled = "yes"

\* Those that make a Process: what they do not say themselves is what was said
\* last of their kind.
Effective(f, kind, n) ==
  {m \in Of(f, kind, n) : Command(f, kind, m) # 0 /\ On(f, kind, m)}

Wanted(f, kind, n) == {Command(f, kind, m) : m \in Effective(f, kind, n)}

Registers(n) ==
  /\ {mProgram} \ {0} = Wanted(file, "program", n)
  /\ {mBuildStep} \ {0} = Wanted(file, "compile", n)
  /\ Len(mProcesses) = Cardinality(Effective(file, "test", n))
  /\ \A m \in Effective(file, "test", n) :
       mProcesses[Cardinality(Effective(file, "test", m))] = Command(file, "test", m)

\* When the file has been accepted, the manager has exactly the program, the
\* build step and the tests, in their order and as often, that the file asks
\* for: a section that is disabled by an earlier one of its kind, or runs the
\* command of an earlier one, does so because of the last one that spoke.
RegistersSections == at = "parsed" => Registers(Len(file))

Faulty(f, n) ==
  \/ f[n].key \in {"badWatch", "unknown"}
  \/ f[n].key \in Kind /\ f[n].enabled = "bad"

\* A program or a build step has been registered by then, whatever this
\* section says.
Second(f, n) ==
  f[n].key \in {"program", "compile"} /\ Effective(f, f[n].key, n - 1) # {}

\* Of a file that YAML can read, parseConfig() throws at the first section
\* that is faulty or comes after the program or the build step is registered,
\* at no other one, and it accepts no file that has one: neither any number of
\* tests nor disabled sections nor any order of the sections is refused.
RefusesExactly ==
  /\ at = "thrown" => {n \in 1..pos : Faulty(file, n) \/ Second(file, n)} = {pos}
  /\ at = "parsed" => \A n \in 1..Len(file) : ~Faulty(file, n) /\ ~Second(file, n)
=============================================================================
