-------------------------------- MODULE Util --------------------------------
(***************************************************************************)
(* Util::parseCommand() and Util::strMatch() (src/util.cpp): how a command *)
(* of the configuration is cut into arguments, and which file names a      *)
(* filter stands for.  A behaviour is one call of one of the two.          *)
(*                                                                         *)
(* The code counts characters from 0, a sequence from 1.                   *)
(***************************************************************************)
EXTENDS Integers, Sequences, SequencesExt

CONSTANTS
  Letter,               \* characters without a meaning
  Space, Quote, Star,   \* those with one
  MaxCommand,           \* bound: length of a command
  MaxFilter, MaxName    \* bounds: length of a filter and of a file name

ASSUME CharAssumption ==
  /\ Letter \cap {Space, Quote, Star} = {}
  /\ Space # Quote /\ Quote # Star /\ Star # Space
ASSUME LengthAssumption == {MaxCommand, MaxFilter, MaxName} \subseteq Nat

VARIABLES
  at,          \* "loop" and "parsed" of parseCommand, "match" and "matched"
  command,     \* the argument of parseCommand
  position,    \* where the current argument begins
  tmppos,      \* the character of it that is looked at
  inQuote,
  args,        \* the arguments found so far
  expression,  \* the arguments of strMatch
  str,
  result

parsing  == <<command, position, tmppos, inQuote, args>>
matching == <<expression, str, result>>
uvars    == <<at, parsing, matching>>

Command == BoundedSeq(Letter \cup {Space, Quote}, MaxCommand)
Filter  == BoundedSeq(Letter \cup {Star}, MaxFilter)
File    == BoundedSeq(Letter \cup {Star}, MaxName)

UTypeOK ==
  /\ at \in {"loop", "parsed", "match", "matched"}
  /\ command \in Seq(Letter \cup {Space, Quote})
  /\ position \in 0..Len(command)
  /\ tmppos \in Nat
  /\ at = "loop" /\ position < Len(command) => position + tmppos < Len(command)
  /\ inQuote \in BOOLEAN
  /\ args \in Seq(Seq(Letter \cup {Space, Quote}))
  /\ expression \in Filter /\ str \in File
  /\ result \in BOOLEAN

UInit ==
  /\ position = 0 /\ tmppos = 0 /\ inQuote = FALSE /\ args = <<>>
  /\ result = FALSE
  /\ \/ at = "loop" /\ command \in Command /\ expression = <<>> /\ str = <<>>
     \/ at = "match" /\ command = <<>> /\ expression \in Filter /\ str \in File

-----------------------------------------------------------------------------
(* parseCommand()                                                          *)

Current == command[position + tmppos + 1]

\* Mutant: a quotation does not protect its spaces.
AnySpace == Current = Space

Splits == Current = Space /\ ~inQuote

\* Mutant: the end of the command is noticed one character late.
OnPastEnd(pos, next, found) ==
  /\ position' = pos
  /\ tmppos' = next
  /\ IF pos + next > Len(command)
     THEN at' = "parsed" /\ args' = Append(found, SubSeq(command, pos + 1, Len(command)))
     ELSE at' = at /\ args' = found

\* The end of the loop's body: on to the next character of the argument that
\* begins at pos, or, at the end of the command, its last argument.
OnFrom(pos, next, found) ==
  /\ position' = pos
  /\ tmppos' = next
  /\ IF pos + next >= Len(command)
     THEN at' = "parsed" /\ args' = Append(found, SubSeq(command, pos + 1, Len(command)))
     ELSE at' = at /\ args' = found

Argument == SubSeq(command, position + 1, position + tmppos)

\* Mutant: the space stays in front of the next argument.
SplitKeepsSpace ==
  /\ Splits /\ UNCHANGED inQuote
  /\ OnFrom(position + tmppos, 1, Append(args, Argument))

\* tmppos is reset and then incremented with the others: the first character
\* of the next argument is never looked at.
Split ==
  /\ Splits /\ UNCHANGED inQuote
  /\ OnFrom(position + tmppos + 1, 1, Append(args, Argument))

Extend ==
  /\ ~Splits
  /\ inQuote' = IF Current = Quote THEN ~inQuote ELSE inQuote
  /\ OnFrom(position, tmppos + 1, args)

ParseStep ==
  /\ at = "loop" /\ position < Len(command)
  /\ Split \/ Extend
  /\ UNCHANGED <<command, matching>>

ParseNothing ==
  /\ at = "loop" /\ position >= Len(command)
  /\ at' = "parsed"
  /\ UNCHANGED <<parsing, matching>>

-----------------------------------------------------------------------------
(* strMatch()                                                              *)

\* Mutant: a filter one character longer than the name is tried as well.
MuchLonger(e, s) == Len(e) > Len(s) + 1

Longer(e, s) == Len(e) > Len(s)

\* The last asterisk; the code's -1 is the largest size_t, so that a filter
\* without one has itself as prefix and as suffix.
Asterisk(e) == SelectLastInSeq(e, LAMBDA c : c = Star)
Before(e)   == IF Asterisk(e) = 0 THEN e ELSE SubSeq(e, 1, Asterisk(e) - 1)
After(e)    == SubSeq(e, Asterisk(e) + 1, Len(e))

StrMatch(e, s) ==
  /\ e # <<>> /\ s # <<>>
  /\ ~Longer(e, s)
  /\ IsPrefix(Before(e), s) /\ IsSuffix(After(e), s)

Match ==
  /\ at = "match"
  /\ result' = StrMatch(expression, str)
  /\ at' = "matched"
  /\ UNCHANGED <<parsing, expression, str>>

UNext == ParseStep \/ ParseNothing \/ Match

USpec == UInit /\ [][UNext]_uvars

-----------------------------------------------------------------------------
(* Properties.                                                             *)

\* Joined with single spaces the arguments are the command again: whatever
\* its quotes and spaces, no character is lost, repeated or moved.
ArgumentsJoin ==
  at = "parsed" /\ command # <<>> =>
    LET line[n \in DOMAIN args] ==
          IF n = 1 THEN args[1] ELSE line[n - 1] \o <<Space>> \o args[n]
    IN args # <<>> /\ command = line[Len(args)]

\* The places of an argument that the loop looks at: all but the first
\* character of an argument that follows a space.
Looks(x, first) == {m \in DOMAIN x : first \/ m > 1}
Seen(x, first)  == {m \in Looks(x, first) : x[m] = Quote}
Odd(S)          == Cardinality(S) % 2 = 1

\* A command is cut at every space that is looked at and not in a quotation,
\* and nowhere else: an argument that is followed by another has an even
\* number of the quotes that are looked at, and a space within an argument has
\* an odd number of them before it.
CutAtSpaces ==
  at = "parsed" =>
    \A n \in DOMAIN args :
      LET x == args[n] IN
        /\ n < Len(args) => ~Odd(Seen(x, n = 1))
        /\ \A m \in Looks(x, n = 1) :
             x[m] = Space => Odd({q \in Seen(x, n = 1) : q < m})

\* A filter matches the names that have one or more characters, whatever they
\* are, in the place of its last asterisk, and any other asterisk as it is.
\* One without an asterisk matches the names that begin with it and end with
\* it, and not only its own.
FilterMeaning ==
  at = "matched" =>
    LET stars == {n \in DOMAIN expression : expression[n] = Star} IN
      /\ \A n \in stars : (\A k \in stars : k <= n) =>
           (result <=> \E m \in SubSeqs(str) :
              /\ m # <<>>
              /\ str = SubSeq(expression, 1, n - 1) \o m
                       \o SubSeq(expression, n + 1, Len(expression)))
      /\ stars = {} =>
           (result <=> /\ expression # <<>>
                       /\ \E m \in SubSeqs(str) : str = expression \o m
                       /\ \E m \in SubSeqs(str) : str = m \o expression)
=============================================================================
