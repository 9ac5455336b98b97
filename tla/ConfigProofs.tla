---------------------------- MODULE ConfigProofs ----------------------------
(***************************************************************************)
(* What TLAPS proves of Config, for files of any length: what is refused   *)
(* and what is registered, although the sections of one kind share one     *)
(* structure.                                                              *)
(***************************************************************************)
EXTENDS Config, FiniteSetTheorems, SequenceTheorems, TLAPS

USE SectionsAssumption

-----------------------------------------------------------------------------
(* What the first sections of a file say, and how one section more changes *)
(* it.                                                                     *)

\* Section n + 1 is of this kind and gives a command.
Gives(f, kind, n) == f[n + 1].key = kind /\ f[n + 1].command

LEMMA OfStep ==
  ASSUME NEW f, NEW kind, NEW n \in Nat
  PROVE  Of(f, kind, n + 1) =
           IF f[n + 1].key = kind THEN Of(f, kind, n) \cup {n + 1} ELSE Of(f, kind, n)
<1>1. 1..(n + 1) = 1..n \cup {n + 1}
  OBVIOUS
<1> QED
  BY <1>1 DEF Of

\* The greatest of some numbers is the one that no other one exceeds.
LEMMA MaxIs ==
  ASSUME NEW S \in SUBSET Nat, NEW x \in S, \A y \in S : y <= x
  PROVE  Max(S) = x
<1>1. \A y \in S : x >= y
  OBVIOUS
<1>2. \A z \in S : (\A y \in S : z >= y) => z = x
  OBVIOUS
<1> QED
  BY <1>1, <1>2 DEF Max

LEMMA NothingSaid ==
  ASSUME NEW f, NEW kind
  PROVE  Command(f, kind, 0) = 0 /\ On(f, kind, 0) /\ Effective(f, kind, 0) = {}
<1>1. Of(f, kind, 0) = {}
  BY DEF Of
<1>2. Max({0}) = 0
  BY MaxIs
<1>3. {0} \cup {m \in {} : f[m].command} = {0}
  OBVIOUS
<1> QED
  BY <1>1, <1>2, <1>3 DEF Command, On, Effective

\* The command is the last one given.
LEMMA CommandStep ==
  ASSUME NEW f, NEW kind, NEW n \in Nat
  PROVE  Command(f, kind, n + 1) = IF Gives(f, kind, n) THEN n + 1 ELSE Command(f, kind, n)
<1> DEFINE S == {0} \cup {m \in Of(f, kind, n) : f[m].command}
           T == {0} \cup {m \in Of(f, kind, n + 1) : f[m].command}
<1>1. CASE Gives(f, kind, n)
  <2>1. T = S \cup {n + 1}
    <3>1. Of(f, kind, n + 1) = Of(f, kind, n) \cup {n + 1}
      BY <1>1, OfStep DEF Gives
    <3>2. f[n + 1].command
      BY <1>1 DEF Gives
    <3> QED
      BY <3>1, <3>2, Zenon
  <2>2. T \in SUBSET Nat /\ n + 1 \in T /\ \A y \in T : y <= n + 1
    BY <2>1 DEF Of
  <2> HIDE DEF T
  <2>3. Max(T) = n + 1
    BY <2>2, MaxIs
  <2> QED
    BY <1>1, <2>3 DEF Command, T
<1>2. CASE ~Gives(f, kind, n)
  <2>1. T = S
    <3>1. CASE f[n + 1].key # kind
      BY <3>1, OfStep
    <3>2. CASE f[n + 1].key = kind
      <4>1. Of(f, kind, n + 1) = Of(f, kind, n) \cup {n + 1}
        BY <3>2, OfStep
      <4>2. ~f[n + 1].command
        BY <1>2, <3>2 DEF Gives
      <4> QED
        BY <4>1, <4>2, Zenon
    <3> QED
      BY <3>1, <3>2
  <2> QED
    BY <1>2, <2>1 DEF Command
<1> QED
  BY <1>1, <1>2

\* A kind is on as the last section says that says something of it.
LEMMA OnStep ==
  ASSUME NEW f, NEW kind, NEW n \in Nat
  PROVE  On(f, kind, n + 1) <=>
           IF f[n + 1].key = kind /\ f[n + 1].enabled \in {"yes", "no"}
             THEN f[n + 1].enabled = "yes" ELSE On(f, kind, n)
<1>0. \A m \in Of(f, kind, n) : m \in Nat /\ m < n + 1
  BY DEF Of
<1>1. CASE f[n + 1].key # kind
  <2>1. Of(f, kind, n + 1) = Of(f, kind, n)
    BY <1>1, OfStep
  <2> QED
    BY <1>1, <2>1, Zenon DEF On
<1>2. CASE f[n + 1].key = kind /\ f[n + 1].enabled = "yes"
  <2>1. Of(f, kind, n + 1) = Of(f, kind, n) \cup {n + 1}
    BY <1>2, OfStep
  <2>2. ~(f[n + 1].enabled = "no")
    BY <1>2
  <2>3. On(f, kind, n + 1)
    BY <1>0, <1>2, <2>1, <2>2 DEF On
  <2> QED
    BY <1>2, <2>3
<1>3. CASE f[n + 1].key = kind /\ f[n + 1].enabled = "no"
  <2>1. n + 1 \in Of(f, kind, n + 1)
    BY <1>3, OfStep
  <2>2. \A l \in Of(f, kind, n + 1) : ~(n + 1 < l)
    BY DEF Of
  <2> QED
    BY <1>3, <2>1, <2>2 DEF On
<1>4. CASE f[n + 1].key = kind /\ f[n + 1].enabled \notin {"yes", "no"}
  <2>1. Of(f, kind, n + 1) = Of(f, kind, n) \cup {n + 1}
    BY <1>4, OfStep
  <2>2. ~(f[n + 1].enabled = "no") /\ ~(f[n + 1].enabled = "yes")
    BY <1>4
  <2> QED
    BY <1>4, <2>1, <2>2 DEF On
<1> QED
  BY <1>1, <1>2, <1>3, <1>4

\* Section n + 1 makes a Process.
Makes(f, kind, n) ==
  f[n + 1].key = kind /\ Command(f, kind, n + 1) # 0 /\ On(f, kind, n + 1)

LEMMA EffectiveStep ==
  ASSUME NEW f, NEW kind, NEW n \in Nat
  PROVE  Effective(f, kind, n + 1) = IF Makes(f, kind, n) THEN Effective(f, kind, n) \cup {n + 1}
                                     ELSE Effective(f, kind, n)
<1>1. CASE f[n + 1].key # kind
  BY <1>1, OfStep DEF Effective, Makes
<1>2. CASE f[n + 1].key = kind
  <2>1. Of(f, kind, n + 1) = Of(f, kind, n) \cup {n + 1}
    BY <1>2, OfStep
  <2> QED
    BY <1>2, <2>1 DEF Effective, Makes
<1> QED
  BY <1>1, <1>2

LEMMA EffectiveFinite ==
  ASSUME NEW f, NEW kind, NEW n \in Nat
  PROVE  /\ IsFiniteSet(Effective(f, kind, n)) /\ Cardinality(Effective(f, kind, n)) \in Nat
         /\ Effective(f, kind, n) \subseteq 1..n
         /\ \A m \in Effective(f, kind, n) :
              /\ m \in Effective(f, kind, m)
              /\ Cardinality(Effective(f, kind, m)) \in 1..Cardinality(Effective(f, kind, n))
<1>1. \A m \in Nat : Effective(f, kind, m) \subseteq 1..m /\ IsFiniteSet(1..m)
  BY FS_Interval DEF Effective, Of
<1>2. \A m \in Nat : IsFiniteSet(Effective(f, kind, m)) /\ Cardinality(Effective(f, kind, m)) \in Nat
  BY <1>1, FS_Subset, FS_CardinalityType
<1>3. ASSUME NEW m \in Effective(f, kind, n)
      PROVE  /\ m \in Effective(f, kind, m)
             /\ Cardinality(Effective(f, kind, m)) \in 1..Cardinality(Effective(f, kind, n))
  <2>1. m \in 1..n
    BY <1>1
  <2>2. m \in Effective(f, kind, m) /\ Effective(f, kind, m) \subseteq Effective(f, kind, n)
    BY <2>1, <1>3 DEF Effective, Of
  <2>3. Cardinality(Effective(f, kind, m)) <= Cardinality(Effective(f, kind, n))
    BY <1>2, <2>2, FS_Subset
  <2>4. Cardinality(Effective(f, kind, m)) # 0
    BY <1>2, <2>1, <2>2, FS_EmptySet
  <2> QED
    BY <1>2, <2>1, <2>2, <2>3, <2>4
<1> QED
  BY <1>1, <1>2, <1>3

\* What is registered of a kind grows by the command of the section.
LEMMA WantedStep ==
  ASSUME NEW f, NEW kind, NEW n \in Nat
  PROVE  Wanted(f, kind, n + 1) = IF Makes(f, kind, n)
                                  THEN Wanted(f, kind, n) \cup {Command(f, kind, n + 1)}
                                  ELSE Wanted(f, kind, n)
  BY EffectiveStep DEF Wanted

LEMMA WantedNone ==
  ASSUME NEW f, NEW kind, NEW n \in Nat
  PROVE  /\ Effective(f, kind, n) = {} <=> Wanted(f, kind, n) = {}
         /\ 0 \notin Wanted(f, kind, n)
  BY DEF Wanted, Effective

-----------------------------------------------------------------------------
(* The inductive invariant.                                                *)

\* The structure of a kind holds what the sections read so far have said.
Told(kind) ==
  conf[kind].command = Command(file, kind, pos) /\ conf[kind].enabled = On(file, kind, pos)

Refused(f, n) == Faulty(f, n) \/ Second(f, n)

CInv ==
  /\ CTypeOK
  /\ at \in {"find", "start"} => file = <<>>
  /\ at \in {"find", "start", "parsing"} => \A kind \in Kind : Told(kind)
  /\ at \in {"find", "start", "parsing", "parsed"} =>
       Registers(pos) /\ \A n \in 1..pos : ~Refused(file, n)
  /\ at = "parsed" => pos = Len(file)
  /\ at = "thrown" => {n \in 1..pos : Refused(file, n)} = {pos}

\* Before anything is read, nothing is said and nothing is registered,
\* whatever the file will be.
LEMMA NothingRead ==
  ASSUME pos = 0, conf = [kind \in Kind |-> [command |-> 0, enabled |-> TRUE]],
         mBuildStep = 0, mProgram = 0, mProcesses = <<>>
  PROVE  (\A kind \in Kind : Told(kind)) /\ Registers(pos)
<1>1. \A kind \in Kind : Told(kind)
  BY NothingSaid DEF Told
<1>2. \A kind : Effective(file, kind, 0) = {} /\ Wanted(file, kind, 0) = {}
  BY NothingSaid DEF Wanted
<1>3. Len(mProcesses) = 0 /\ Cardinality({}) = 0
  BY FS_EmptySet
<1> QED
  BY <1>1, <1>2, <1>3 DEF Registers

LEMMA CInitInv == CInit => CInv
<1> SUFFICES ASSUME CInit PROVE CInv
  OBVIOUS
<1>1. Registers(pos) /\ \A kind \in Kind : Told(kind)
  BY NothingRead DEF CInit
<1> QED
  BY <1>1 DEF CInit, CInv, CTypeOK

-----------------------------------------------------------------------------
(* The steps.                                                              *)

\* Nothing is said yet, so that what was registered of it is right of any file.
LEMMA LoadInv == CInv /\ Load => CInv'
<1> SUFFICES ASSUME CInv, Load PROVE CInv'
  OBVIOUS
<1>1. /\ at = "start" /\ UNCHANGED <<pos, conf, mBuildStep, mProgram, mProcesses>>
      /\ at' \in {"malformed", "aborted", "parsing"}
      /\ CTypeOK /\ file = <<>> /\ Registers(pos) /\ \A kind \in Kind : Told(kind)
  BY DEF Load, procman, CInv
<1>2. pos = 0
  BY <1>1 DEF CTypeOK
<1>3. file' \in Seq(Section) /\ Len(file') <= MaxSections /\ Len(file') \in Nat
  BY <1>1 DEF Load, CTypeOK
<1>4. CTypeOK'
  BY <1>1, <1>2, <1>3 DEF CTypeOK
<1>5. (\A kind \in Kind : Told(kind))'
  BY <1>1, <1>2, NothingSaid DEF Told
<1>6. \A g, kind : Effective(g, kind, 0) = {} /\ Wanted(g, kind, 0) = {}
  BY NothingSaid DEF Wanted
<1>7. Registers(pos)'
  BY <1>1, <1>2, <1>6 DEF Registers
<1> QED
  BY <1>1, <1>2, <1>4, <1>5, <1>7 DEF CInv

\* parseConfig() reads a section that is there; what has been registered still
\* is one that has been read.
LEMMA TypeStep ==
  ASSUME CTypeOK, at = "parsing", pos' = pos + 1, pos < Len(file), file' = file,
         at' \in {"parsing", "aborted", "thrown"},
         conf' \in [Kind -> [command : 0..pos', enabled : BOOLEAN]],
         mBuildStep' \in 0..pos' /\ mProgram' \in 0..pos',
         mProcesses' \in Seq(1..pos') /\ Len(mProcesses') <= pos'
  PROVE  CTypeOK'
  BY DEF CTypeOK

LEMMA TypeGrows ==
  ASSUME CTypeOK, pos' = pos + 1
  PROVE  /\ conf \in [Kind -> [command : 0..pos', enabled : BOOLEAN]]
         /\ mBuildStep \in 0..pos' /\ mProgram \in 0..pos'
         /\ mProcesses \in Seq(1..pos') /\ Len(mProcesses) <= pos'
<1>1. pos \in Nat /\ Len(file) \in Nat /\ Len(mProcesses) \in Nat
  BY DEF CTypeOK
<1>2. 0..pos \subseteq 0..pos' /\ 1..pos \subseteq 1..pos' /\ pos <= pos'
  BY <1>1
<1>3. \A kind \in Kind : conf[kind] \in [command : 0..pos', enabled : BOOLEAN]
  BY <1>2 DEF CTypeOK
<1>4. mProcesses \in Seq(1..pos')
  BY <1>2, SeqMonotonic DEF CTypeOK
<1> QED
  BY <1>1, <1>2, <1>3, <1>4 DEF CTypeOK

\* What a section that is no command changes: nothing.
LEMMA OtherSections == CInv /\ (ScalarSection \/ WatchSection \/ RejectedSection) => CInv'
<1> SUFFICES ASSUME CInv, ScalarSection \/ WatchSection \/ RejectedSection PROVE CInv'
  OBVIOUS
<1>1. /\ at = "parsing" /\ pos < Len(file) /\ pos' = pos + 1
      /\ UNCHANGED <<file, conf, mBuildStep, mProgram, mProcesses>>
      /\ file[pos + 1].key \in {"scalar", "watch", "badWatch", "unknown"}
      /\ file[pos + 1].key = "scalar" => at' = "aborted"
      /\ file[pos + 1].key = "watch" => at' = "parsing"
      /\ file[pos + 1].key \in {"badWatch", "unknown"} => at' = "thrown"
  BY DEF ScalarSection, WatchSection, RejectedSection, Reading, Current, Continue, Throw, procman
<1>2. CTypeOK /\ pos \in Nat /\ Len(file) \in Nat
  BY DEF CInv, CTypeOK
<1>3. CTypeOK'
  BY <1>1, <1>2, TypeGrows, TypeStep
<1>4. /\ (\A kind \in Kind : Told(kind)) /\ Registers(pos)
      /\ \A n \in 1..pos : ~Refused(file, n)
  BY <1>1 DEF CInv
<1>5. file[pos + 1].key \notin Kind
  BY <1>1 DEF Kind
<1>6. \A kind \in Kind : Told(kind)'
  <2> SUFFICES ASSUME NEW kind \in Kind
               PROVE  /\ conf[kind].command = Command(file, kind, pos + 1)
                      /\ conf[kind].enabled = On(file, kind, pos + 1)
    BY <1>1 DEF Told
  <2>1. /\ Command(file, kind, pos + 1) = Command(file, kind, pos)
        /\ On(file, kind, pos + 1) <=> On(file, kind, pos)
    BY <1>2, <1>5, CommandStep, OnStep DEF Gives
  <2>2. On(file, kind, pos + 1) \in BOOLEAN /\ On(file, kind, pos) \in BOOLEAN
    BY DEF On
  <2> QED
    BY <1>4, <2>1, <2>2 DEF Told
<1>7. \A kind \in Kind : /\ Effective(file, kind, pos + 1) = Effective(file, kind, pos)
                         /\ Wanted(file, kind, pos + 1) = Wanted(file, kind, pos)
  BY <1>2, <1>5, EffectiveStep, WantedStep DEF Makes
<1>8. Registers(pos)'
  BY <1>1, <1>4, <1>7 DEF Registers, Kind
<1>9. Refused(file, pos + 1) <=> file[pos + 1].key \in {"badWatch", "unknown"}
  BY <1>1, <1>5 DEF Refused, Faulty, Second
<1>10. at' = "parsing" => \A n \in 1..pos' : ~Refused(file, n)
  BY <1>1, <1>2, <1>4, <1>9
<1>11. at' = "thrown" => {n \in 1..pos' : Refused(file, n)} = {pos'}
  BY <1>1, <1>2, <1>4, <1>9
<1> QED
  BY <1>1, <1>3, <1>6, <1>8, <1>10, <1>11 DEF CInv

\* parseCommand() leaves in the structure of its kind what was said last.
LEMMA CommandParsed ==
  ASSUME CInv, NEW kind \in Kind, ParseCommand(kind)
  PROVE  /\ at = "parsing" /\ pos \in Nat /\ Len(file) \in Nat /\ pos < Len(file)
         /\ pos' = pos + 1 /\ file' = file
         /\ CTypeOK /\ file[pos + 1].key = kind /\ Current = file[pos + 1]
         /\ Registers(pos) /\ \A n \in 1..pos : ~Refused(file, n)
         /\ conf' \in [Kind -> [command : 0..pos', enabled : BOOLEAN]]
         /\ \A k \in Kind : Told(k)'
         /\ Makes(file, kind, pos) <=> Runs(kind)
<1> DEFINE n == pos + 1
           p == Parsed(conf[kind])
<1>1. /\ at = "parsing" /\ pos \in Nat /\ Len(file) \in Nat /\ pos < Len(file) /\ pos' = n
      /\ file' = file /\ CTypeOK /\ file[n].key = kind /\ Current = file[n]
  BY DEF ParseCommand, Reading, Current, CInv, CTypeOK
<1>2. (\A k \in Kind : Told(k)) /\ Registers(pos) /\ \A m \in 1..pos : ~Refused(file, m)
  BY <1>1 DEF CInv
<1>3. file[n].command \in BOOLEAN
  <2>1. file[n] \in Section
    BY <1>1 DEF CTypeOK
  <2> QED
    BY <1>1, <2>1 DEF Section, CommandSection, WatchedSection, OtherSection, Kind
<1>4. conf' = [conf EXCEPT ![kind] = p]
  BY DEF ParseCommand
<1>5. /\ p.command = IF file[n].command THEN n ELSE conf[kind].command
      /\ p.enabled = IF file[n].enabled \in {"yes", "no"} THEN file[n].enabled = "yes"
                     ELSE conf[kind].enabled
      /\ p \in [command : 0..n, enabled : BOOLEAN]
  <2>1. conf[kind].command \in 0..pos /\ conf[kind].enabled \in BOOLEAN
    BY <1>1 DEF CTypeOK
  <2>2. p = [command |-> IF file[n].command THEN n ELSE conf[kind].command,
             enabled |-> IF file[n].enabled \in {"yes", "no"} THEN file[n].enabled = "yes"
                         ELSE conf[kind].enabled]
    BY <1>1 DEF Parsed
  <2>3. (IF file[n].command THEN n ELSE conf[kind].command) \in 0..n
    BY <1>1, <2>1
  <2>4. (IF file[n].enabled \in {"yes", "no"} THEN file[n].enabled = "yes"
         ELSE conf[kind].enabled) \in BOOLEAN
    BY <2>1
  <2> HIDE DEF p
  <2> QED
    BY <2>2, <2>3, <2>4
<1>6. conf \in [Kind -> [command : 0..n, enabled : BOOLEAN]]
  BY <1>1, TypeGrows
<1> HIDE DEF p
<1>7. /\ conf'[kind] = p
      /\ \A k \in Kind \ {kind} : conf'[k] = conf[k]
      /\ conf' \in [Kind -> [command : 0..n, enabled : BOOLEAN]]
  BY <1>4, <1>5, <1>6
<1>8. p.command = Command(file, kind, n) /\ p.enabled = On(file, kind, n)
  <2>1. p.command = Command(file, kind, n)
    BY <1>1, <1>2, <1>5, CommandStep DEF Told, Gives
  <2>2. p.enabled \in BOOLEAN /\ On(file, kind, n) \in BOOLEAN
    BY <1>5 DEF On
  <2>3. p.enabled <=> On(file, kind, n)
    BY <1>1, <1>2, <1>5, OnStep DEF Told
  <2> QED
    BY <2>1, <2>2, <2>3
<1>9. \A k \in Kind : Told(k)'
  <2> SUFFICES ASSUME NEW k \in Kind PROVE conf'[k].command = Command(file, k, n) /\ conf'[k].enabled = On(file, k, n)
    BY <1>1 DEF Told
  <2>1. CASE k = kind
    BY <1>7, <1>8, <2>1
  <2>2. CASE k # kind
    <3>1. Command(file, k, n) = Command(file, k, pos) /\ (On(file, k, n) <=> On(file, k, pos))
      BY <1>1, <2>2, CommandStep, OnStep DEF Gives
    <3>2. On(file, k, n) \in BOOLEAN /\ On(file, k, pos) \in BOOLEAN
      BY DEF On
    <3> QED
      BY <1>2, <1>7, <2>2, <3>1, <3>2 DEF Told
  <2> QED
    BY <2>1, <2>2
<1>10. Makes(file, kind, pos) <=> Runs(kind)
  BY <1>1, <1>7, <1>8 DEF Makes, Runs
<1> QED
  BY <1>1, <1>2, <1>7, <1>9, <1>10

\* A section that is refused registers nothing; it is the first one with a
\* reason to be refused.
LEMMA CommandThrows ==
  ASSUME CInv, NEW kind \in Kind, ParseCommand(kind), Throw, Refused(file, pos + 1)
  PROVE  CInv'
<1>1. /\ at = "parsing" /\ pos \in Nat /\ pos < Len(file) /\ pos' = pos + 1 /\ file' = file
      /\ CTypeOK /\ \A n \in 1..pos : ~Refused(file, n)
      /\ conf' \in [Kind -> [command : 0..pos', enabled : BOOLEAN]]
  BY CommandParsed
<1>2. at' = "thrown" /\ UNCHANGED <<mBuildStep, mProgram, mProcesses>>
  BY DEF Throw, procman
<1>3. CTypeOK'
  BY <1>1, <1>2, TypeGrows, TypeStep
<1>4. {n \in 1..pos' : Refused(file, n)} = {pos'}
  BY <1>1
<1> QED
  BY <1>1, <1>2, <1>3, <1>4 DEF CInv

\* What a section has to show once it is accepted.
LEMMA CommandAccepted ==
  ASSUME CInv, NEW kind \in Kind, ParseCommand(kind), Continue, ~Refused(file, pos + 1),
         mBuildStep' \in 0..pos' /\ mProgram' \in 0..pos',
         mProcesses' \in Seq(1..pos') /\ Len(mProcesses') <= pos',
         Registers(pos)'
  PROVE  CInv'
<1>1. /\ at = "parsing" /\ pos \in Nat /\ pos < Len(file) /\ pos' = pos + 1 /\ file' = file
      /\ CTypeOK /\ \A n \in 1..pos : ~Refused(file, n)
      /\ conf' \in [Kind -> [command : 0..pos', enabled : BOOLEAN]]
      /\ \A k \in Kind : Told(k)'
  BY CommandParsed
<1>2. at' = "parsing"
  BY DEF Continue
<1>3. CTypeOK'
  BY <1>1, <1>2, TypeStep
<1>4. \A n \in 1..pos' : ~Refused(file, n)
  BY <1>1
<1> QED
  BY <1>1, <1>2, <1>3, <1>4 DEF CInv

\* What a section of one kind registers is no matter of the other kinds.
LEMMA OthersKept ==
  ASSUME NEW kind \in Kind, pos \in Nat, file[pos + 1].key = kind
  PROVE  \A k \in Kind \ {kind} :
           /\ Effective(file, k, pos + 1) = Effective(file, k, pos)
           /\ Wanted(file, k, pos + 1) = Wanted(file, k, pos)
BY EffectiveStep, WantedStep DEF Makes

\* The one command that is wanted after section n + 1 of a kind of which there
\* was none before.
LEMMA OnlyOne ==
  ASSUME CInv, NEW kind \in Kind, ParseCommand(kind), Wanted(file, kind, pos) = {},
         NEW c, c = IF Runs(kind) THEN conf'[kind].command ELSE 0
  PROVE  c \in 0..pos' /\ {c} \ {0} = Wanted(file, kind, pos + 1)
<1>1. /\ pos \in Nat /\ pos' = pos + 1 /\ file' = file
      /\ conf' \in [Kind -> [command : 0..pos', enabled : BOOLEAN]]
      /\ Told(kind)' /\ (Makes(file, kind, pos) <=> Runs(kind))
  BY CommandParsed
<1>2. conf'[kind].command = Command(file, kind, pos + 1) /\ conf'[kind].command \in 0..pos'
  BY <1>1 DEF Told
<1>3. CASE Runs(kind)
  <2>1. Wanted(file, kind, pos + 1) = {c} /\ c # 0
    BY <1>1, <1>2, <1>3, WantedStep DEF Runs
  <2> QED
    BY <1>2, <1>3, <2>1
<1>4. CASE ~Runs(kind)
  <2>1. Wanted(file, kind, pos + 1) = {} /\ c = 0
    BY <1>1, <1>4, WantedStep
  <2> QED
    BY <1>1, <2>1
<1> QED
  BY <1>3, <1>4

\* A program is registered only when there is none.
LEMMA ProgramInv == CInv /\ ProgramSection => CInv'
<1> SUFFICES ASSUME CInv, ProgramSection PROVE CInv'
  OBVIOUS
<1>1. ParseCommand("program") /\ "program" \in Kind
  BY DEF ProgramSection, Kind
<1>2. /\ pos \in Nat /\ pos' = pos + 1 /\ file' = file /\ CTypeOK
      /\ file[pos + 1].key = "program" /\ Current = file[pos + 1] /\ Registers(pos)
  BY <1>1, CommandParsed
<1>3. /\ {mProgram} \ {0} = Wanted(file, "program", pos)
      /\ Effective(file, "program", pos) = {} <=> Wanted(file, "program", pos) = {}
      /\ pos + 1 - 1 = pos
  BY <1>2, WantedNone DEF Registers
<1>4. Refused(file, pos + 1) <=> Current.enabled = "bad" \/ mProgram # 0
  BY <1>1, <1>2, <1>3 DEF Refused, Faulty, Second
<1>5. CASE Current.enabled = "bad" \/ mProgram # 0
  BY <1>1, <1>4, <1>5, CommandThrows DEF ProgramSection
<1>6. CASE ~(Current.enabled = "bad" \/ mProgram # 0)
  <2>1. /\ Continue /\ UNCHANGED <<mBuildStep, mProcesses>>
        /\ mProgram' = IF Runs("program") THEN conf'["program"].command ELSE 0
    BY <1>6 DEF ProgramSection
  <2>2. mProgram' \in 0..pos' /\ {mProgram'} \ {0} = Wanted(file, "program", pos + 1)
    BY <1>1, <1>3, <1>6, <2>1, OnlyOne
  <2>3. /\ Wanted(file, "compile", pos + 1) = Wanted(file, "compile", pos)
        /\ Effective(file, "test", pos + 1) = Effective(file, "test", pos)
    BY <1>1, <1>2, OthersKept DEF Kind
  <2>4. Registers(pos)'
    BY <1>2, <2>1, <2>2, <2>3 DEF Registers
  <2>5. mBuildStep' \in 0..pos' /\ mProcesses' \in Seq(1..pos') /\ Len(mProcesses') <= pos'
    BY <1>2, <2>1, TypeGrows
  <2> QED
    BY <1>1, <1>4, <1>6, <2>1, <2>2, <2>4, <2>5, CommandAccepted
<1> QED
  BY <1>5, <1>6

\* A build step is registered only when there is none.
LEMMA CompileInv == CInv /\ CompileSection => CInv'
<1> SUFFICES ASSUME CInv, CompileSection PROVE CInv'
  OBVIOUS
<1>1. ParseCommand("compile") /\ "compile" \in Kind
  BY DEF CompileSection, Kind
<1>2. /\ pos \in Nat /\ pos' = pos + 1 /\ file' = file /\ CTypeOK
      /\ file[pos + 1].key = "compile" /\ Current = file[pos + 1] /\ Registers(pos)
  BY <1>1, CommandParsed
<1>3. /\ {mBuildStep} \ {0} = Wanted(file, "compile", pos)
      /\ Effective(file, "compile", pos) = {} <=> Wanted(file, "compile", pos) = {}
      /\ pos + 1 - 1 = pos
  BY <1>2, WantedNone DEF Registers
<1>4. Refused(file, pos + 1) <=> Current.enabled = "bad" \/ mBuildStep # 0
  BY <1>1, <1>2, <1>3 DEF Refused, Faulty, Second
<1>5. CASE Current.enabled = "bad" \/ mBuildStep # 0
  BY <1>1, <1>4, <1>5, CommandThrows DEF CompileSection
<1>6. CASE ~(Current.enabled = "bad" \/ mBuildStep # 0)
  <2>1. /\ Continue /\ UNCHANGED <<mProgram, mProcesses>>
        /\ mBuildStep' = IF Runs("compile") THEN conf'["compile"].command ELSE 0
    BY <1>6 DEF CompileSection
  <2>2. mBuildStep' \in 0..pos' /\ {mBuildStep'} \ {0} = Wanted(file, "compile", pos + 1)
    BY <1>1, <1>3, <1>6, <2>1, OnlyOne
  <2>3. /\ Wanted(file, "program", pos + 1) = Wanted(file, "program", pos)
        /\ Effective(file, "test", pos + 1) = Effective(file, "test", pos)
    BY <1>1, <1>2, OthersKept DEF Kind
  <2>4. Registers(pos)'
    BY <1>2, <2>1, <2>2, <2>3 DEF Registers
  <2>5. mProgram' \in 0..pos' /\ mProcesses' \in Seq(1..pos') /\ Len(mProcesses') <= pos'
    BY <1>2, <2>1, TypeGrows
  <2> QED
    BY <1>1, <1>4, <1>6, <2>1, <2>2, <2>4, <2>5, CommandAccepted
<1> QED
  BY <1>5, <1>6

\* Any number of tests is registered, in the order of the file: the place of a
\* test is the number of sections up to its own that make one.
LEMMA TestInv == CInv /\ TestSection => CInv'
<1> SUFFICES ASSUME CInv, TestSection PROVE CInv'
  OBVIOUS
<1> DEFINE n == pos + 1
           E == Effective(file, "test", pos)
<1>1. ParseCommand("test") /\ "test" \in Kind
  BY DEF TestSection, Kind
<1>2. /\ pos \in Nat /\ pos' = n /\ file' = file /\ CTypeOK
      /\ file[n].key = "test" /\ Current = file[n] /\ Registers(pos)
      /\ conf' \in [Kind -> [command : 0..pos', enabled : BOOLEAN]]
      /\ Told("test")' /\ (Makes(file, "test", pos) <=> Runs("test"))
  BY <1>1, CommandParsed
<1>3. Refused(file, n) <=> Current.enabled = "bad"
  BY <1>1, <1>2 DEF Refused, Faulty, Second
<1>4. CASE Current.enabled = "bad"
  BY <1>1, <1>3, <1>4, CommandThrows DEF TestSection
<1>5. CASE Current.enabled # "bad"
  <2> DEFINE c == conf'["test"].command
  <2>1. /\ Continue /\ UNCHANGED <<mBuildStep, mProgram>>
        /\ mProcesses' = IF Runs("test") THEN Append(mProcesses, c) ELSE mProcesses
    BY <1>5 DEF TestSection
  <2>2. c = Command(file, "test", n) /\ c \in 0..n
    BY <1>1, <1>2 DEF Told
  <2> HIDE DEF c
  <2>3. /\ Wanted(file, "program", n) = Wanted(file, "program", pos)
        /\ Wanted(file, "compile", n) = Wanted(file, "compile", pos)
    BY <1>1, <1>2, OthersKept DEF Kind
  <2>4. /\ IsFiniteSet(E) /\ Cardinality(E) \in Nat /\ E \subseteq 1..pos
        /\ \A m \in E : Cardinality(Effective(file, "test", m)) \in 1..Cardinality(E)
        /\ Len(mProcesses) = Cardinality(E)
        /\ \A m \in E : mProcesses[Cardinality(Effective(file, "test", m))] = Command(file, "test", m)
    BY <1>2, EffectiveFinite DEF Registers
  <2>5. /\ mBuildStep' \in 0..pos' /\ mProgram' \in 0..pos'
        /\ mProcesses \in Seq(1..pos') /\ Len(mProcesses) <= pos'
    BY <1>2, <2>1, TypeGrows
  <2>6. CASE Runs("test")
    <3>1. c \in 1..n
      BY <2>2, <2>6 DEF Runs, c
    <3>2. /\ mProcesses' \in Seq(1..pos') /\ Len(mProcesses') = Len(mProcesses) + 1
          /\ mProcesses'[Len(mProcesses) + 1] = c
          /\ \A j \in 1..Len(mProcesses) : mProcesses'[j] = mProcesses[j]
      BY <1>2, <2>1, <2>5, <2>6, <3>1
    <3>3. Len(mProcesses') <= pos'
      BY <1>2, <3>2 DEF CTypeOK
    <3>4. Effective(file, "test", n) = E \cup {n}
      BY <1>2, <2>6, EffectiveStep
    <3>5. Cardinality(Effective(file, "test", n)) = Cardinality(E) + 1
      <4>1. n \notin E
        BY <1>2, <2>4
      <4> QED
        BY <2>4, <3>4, <4>1, FS_AddElement
    <3>6. ASSUME NEW m \in E \cup {n}
          PROVE  mProcesses'[Cardinality(Effective(file, "test", m))] = Command(file, "test", m)
      <4>1. CASE m = n
        BY <2>2, <2>4, <3>2, <3>5, <4>1
      <4>2. CASE m \in E
        BY <2>4, <3>2, <4>2
      <4> QED
        BY <4>1, <4>2
    <3>7. Registers(pos)'
      BY <1>2, <2>1, <2>3, <2>4, <3>2, <3>4, <3>5, <3>6 DEF Registers
    <3> QED
      BY <1>1, <1>3, <1>5, <2>1, <2>5, <3>2, <3>3, <3>7, CommandAccepted
  <2>7. CASE ~Runs("test")
    <3>1. Effective(file, "test", n) = E
      BY <1>2, <2>7, EffectiveStep
    <3>2. Registers(pos)'
      BY <1>2, <2>1, <2>3, <2>7, <3>1 DEF Registers
    <3>3. mProcesses' \in Seq(1..pos') /\ Len(mProcesses') <= pos'
      BY <2>1, <2>5, <2>7
    <3> QED
      BY <1>1, <1>3, <1>5, <2>1, <2>5, <3>2, <3>3, CommandAccepted
  <2> QED
    BY <2>6, <2>7
<1> QED
  BY <1>4, <1>5

\* Once the file has been parsed, nothing depends on the structures any more.
LEMMA DestroyInv == CInv /\ Destroy => CInv'
<1> SUFFICES ASSUME CInv, Destroy PROVE CInv'
  OBVIOUS
<1>1. /\ UNCHANGED <<file, pos, mBuildStep, mProgram, mProcesses>> /\ at' = "destroyed"
      /\ conf' = [kind \in Kind |-> [conf[kind] EXCEPT !.command = 0]] /\ CTypeOK
  BY DEF Destroy, procman, CInv
<1>2. \A kind \in Kind : conf'[kind] \in [command : 0..pos, enabled : BOOLEAN]
  BY <1>1 DEF CTypeOK
<1> QED
  BY <1>1, <1>2 DEF CInv, CTypeOK

\* Every step keeps the invariant.
LEMMA CNextInv == CInv /\ [CNext]_convars => CInv'
<1> SUFFICES ASSUME CInv, [CNext]_convars PROVE CInv'
  OBVIOUS
<1>1. CASE Find \/ EndOfFile \/ UNCHANGED convars
  <2>1. /\ UNCHANGED <<file, pos, conf, mBuildStep, mProgram, mProcesses>>
        /\ \/ at = "find" /\ at' \in {"start", "missing"}
           \/ at = "parsing" /\ pos = Len(file) /\ at' = "parsed"
           \/ at' = at
    BY <1>1 DEF Find, EndOfFile, convars, procman
  <2>2. CTypeOK' /\ (Registers(pos) => Registers(pos)')
    BY <2>1 DEF CInv, CTypeOK, Registers
  <2>3. \A kind \in Kind : Told(kind) => Told(kind)'
    BY <2>1 DEF Told
  <2> QED
    BY <2>1, <2>2, <2>3 DEF CInv
<1>2. CASE Load
  BY <1>2, LoadInv
<1>3. CASE Destroy
  BY <1>3, DestroyInv
<1>4. CASE ScalarSection \/ WatchSection \/ RejectedSection
  BY <1>4, OtherSections
<1>5. CASE ProgramSection \/ TestSection \/ CompileSection
  BY <1>5, ProgramInv, TestInv, CompileInv
<1> QED
  BY <1>1, <1>2, <1>3, <1>4, <1>5 DEF CNext

THEOREM CInvariance == CSpec => []CInv
<1> QED
  BY CInitInv, CNextInv, PTL DEF CSpec

-----------------------------------------------------------------------------
(* What it implies.                                                        *)

\* Type correctness: what the structures and the manager name are sections
\* that have been read.
THEOREM CTypeCorrect == CSpec => []CTypeOK
<1>1. CInv => CTypeOK
  BY DEF CInv
<1> QED
  BY <1>1, CInvariance, PTL

\* parseConfig() throws at the first section that is faulty or a second program
\* or build step, and accepts only a file that has none.
THEOREM RefusesCorrect == CSpec => []RefusesExactly
<1>1. CInv => RefusesExactly
  BY DEF CInv, RefusesExactly, Refused
<1> QED
  BY <1>1, CInvariance, PTL

\* A file that is accepted, however long, registers what it asks for as a
\* whole, once for each section that makes a Process, in the order of the file.
THEOREM RegistersCorrect == CSpec => []RegistersSections
<1>1. CInv => RegistersSections
  BY DEF CInv, RegistersSections
<1> QED
  BY <1>1, CInvariance, PTL

=============================================================================
