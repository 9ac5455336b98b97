----------------------------- MODULE ScanProofs -----------------------------
(***************************************************************************)
(* What TLAPS proves of Scan, for every tree, every choice of links and of *)
(* names that collide, and any number of changes while it is scanned.      *)
(***************************************************************************)
EXTENDS Scan, SequenceTheorems, TLAPS

USE EntryAssumption, TreeAssumption, InitialAssumption, LimitAssumption

-----------------------------------------------------------------------------
(* The inductive invariant.                                                *)

\* What readdir() can return of a directory.
Names(d) == Dots \cup Children(d)

\* Every call has still to visit names of its own directory.
Frames == \A n \in 1..Len(stack) : stack[n].rest \in Seq(Names(stack[n].dir))

\* listDir() lists the root, or an entry of the directory of the last call.
Below == cur \in (IF stack = <<>> THEN {Root} ELSE Children(Top.dir))

\* What listDir() has of the directory it lists.
Listed == unread \subseteq Names(cur) /\ listing \in Seq(Names(cur))

SInv ==
  /\ STypeOK /\ Nested /\ Frames
  /\ at = "start" => cur = Root /\ stack = <<>> /\ watched = {}
  /\ at \in {"list", "read"} => Below
  /\ at = "read" => Listed

-----------------------------------------------------------------------------
(* Sequences.                                                              *)

\* What is left without the last element.
LEMMA WithoutLast ==
  ASSUME NEW S, NEW s \in Seq(S), s # <<>>
  PROVE  LET t == SubSeq(s, 1, Len(s) - 1) IN
         t \in Seq(S) /\ Len(t) = Len(s) - 1 /\ \A n \in 1..Len(s) - 1 : t[n] = s[n]
<1> DEFINE t == SubSeq(s, 1, Len(s) - 1)
<1>1. Len(s) \in Nat \ {0}
  OBVIOUS
<1>2. 1 \in Int /\ Len(s) - 1 \in Int /\ \A n \in 1..Len(s) - 1 : s[n] \in S
  BY <1>1
<1>3. /\ t \in Seq(S)
      /\ Len(t) = IF 1 <= Len(s) - 1 THEN (Len(s) - 1) - 1 + 1 ELSE 0
      /\ \A n \in 1..((Len(s) - 1) - 1 + 1) : t[n] = s[1 + n - 1]
  BY <1>2, SubSeqProperties
<1>4. (Len(s) - 1) - 1 + 1 = Len(s) - 1 /\ \A n \in 1..Len(s) - 1 : 1 + n - 1 = n
  BY <1>1
<1>5. \A n \in 1..Len(s) - 1 : t[n] = s[n]
  BY <1>3, <1>4
<1>6. Len(t) = Len(s) - 1
  <2> DEFINE l == Len(s) - 1
  <2>1. l \in Nat /\ Len(t) = IF 1 <= l THEN l - 1 + 1 ELSE 0
    BY <1>1, <1>3
  <2> HIDE DEF l
  <2>2. Len(t) = l
    BY <2>1
  <2> QED
    BY <2>2 DEF l
<1> QED
  BY <1>3, <1>5, <1>6

-----------------------------------------------------------------------------
(* The steps.                                                              *)

\* The last call of recursiveWatch() and the names it has left.
LEMMA LastCall ==
  ASSUME STypeOK, stack # <<>>
  PROVE  /\ Len(stack) \in Nat \ {0} /\ Top \in Frame
         /\ Top.dir \in Entry \cup {Root} /\ Top.rest \in Seq(Entry \cup Dots)
<1>1. stack \in Seq(Frame) /\ Len(stack) \in Nat \ {0}
  BY DEF STypeOK
<1>2. Top \in Frame
  BY <1>1 DEF Top
<1> QED
  BY <1>1, <1>2 DEF Frame

\* The scan starts at the root.
LEMMA SInitInv == SInit => SInv
<1> SUFFICES ASSUME SInit PROVE SInv
  OBVIOUS
<1>1. stack = <<>> /\ Len(stack) = 0
  BY DEF SInit
<1> QED
  <2>1. STypeOK
    <3>1. stack \in Seq(Frame) /\ listing \in Seq(Entry \cup Dots)
      BY EmptySeq DEF SInit
    <3>2. /\ changes \in 0..MaxChanges /\ at # "visit" /\ unread \subseteq Entry \cup Dots
          /\ exists \subseteq Entry /\ watched \subseteq exists \cup {Root}
      BY DEF SInit
    <3> QED
      BY <3>1, <3>2 DEF SInit, STypeOK
  <2>2. Nested /\ Frames
    BY <1>1 DEF SInit, Nested, Frames
  <2> QED
    BY <2>1, <2>2 DEF SInit, SInv

\* The root is what is listed first.
LEMMA WatchRootInv == SInv /\ WatchRoot => SInv'
<1> SUFFICES ASSUME SInv, WatchRoot PROVE SInv'
  OBVIOUS
<1>1. /\ STypeOK /\ Nested /\ Frames /\ at = "start" /\ cur = Root /\ stack = <<>>
      /\ at' \in {"list", "thrown"}
      /\ UNCHANGED <<cur, st, unread, listing, stack, exists, stable, changes>>
  BY DEF SInv, WatchRoot, tree
<1>2. watched' \subseteq exists' \cup {Root} /\ full' \in BOOLEAN
  BY <1>1 DEF WatchRoot, AddWatch, STypeOK
<1>3. STypeOK'
  BY <1>1, <1>2 DEF STypeOK
<1>4. Nested' /\ Frames' /\ Below'
  BY <1>1 DEF Nested, Frames, Below, Names, Children
<1> QED
  BY <1>1, <1>3, <1>4 DEF SInv

\* The names of a directory are read only where it is listed.
LEMMA OpenDirInv == SInv /\ OpenDir => SInv'
<1> SUFFICES ASSUME SInv, OpenDir PROVE SInv'
  OBVIOUS
<1>0. STypeOK /\ Below /\ at = "list"
  BY DEF SInv, OpenDir
<1>1. /\ UNCHANGED <<cur, stack, watched, full, exists, stable, changes>>
      /\ st' = "dir" /\ listing' = <<>>
      /\ unread' \in {unread, Names(cur) \cap (Dots \cup exists)}
      /\ at' \in {"read", "thrown", "visit"}
  BY DEF OpenDir, tree, Names
<1>2. STypeOK'
  <2>1. at' = "visit" => stack # <<>>
    BY <1>0 DEF OpenDir, IsDir, Below
  <2>2. unread' \subseteq Entry \cup Dots
    BY <1>0, <1>1 DEF STypeOK
  <2>3. listing' \in Seq(Entry \cup Dots)
    BY <1>1
  <2> QED
    BY <1>0, <1>1, <2>1, <2>2, <2>3 DEF STypeOK
<1>4. at' = "read" => Listed'
  <2>1. at' = "read" => unread' = Dots \cup (Children(cur) \cap exists)
    BY DEF OpenDir
  <2> QED
    BY <1>1, <2>1 DEF Listed, Names, Children
<1>5. Nested' /\ Frames' /\ Below'
  BY <1>0, <1>1 DEF SInv, Nested, Frames, Below, Names, Children, Top
<1> QED
  BY <1>1, <1>2, <1>4, <1>5 DEF SInv

\* An entry is listed in its own directory, whatever lstat() has found.
LEMMA ReadEntryInv == SInv /\ (\E x \in unread : ReadEntry(x)) => SInv'
<1> SUFFICES ASSUME SInv, NEW x \in unread, ReadEntry(x) PROVE SInv'
  OBVIOUS
<1>0. STypeOK /\ Below /\ Listed /\ at = "read"
  BY DEF SInv, ReadEntry
<1>1. /\ UNCHANGED <<at, cur, stack, watched, full, exists, stable, changes>>
      /\ unread' \subseteq unread /\ listing' \in {listing, Append(listing, x)}
  BY DEF ReadEntry, tree
<1>2. st' \in {"dir", "other"}
  BY <1>0 DEF ReadEntry, StatOf, STypeOK
<1>3. Listed'
  <2>1. x \in Names(cur) /\ listing \in Seq(Names(cur))
    BY <1>0 DEF Listed
  <2>2. listing' \in Seq(Names(cur))
    BY <1>1, <2>1
  <2> QED
    BY <1>0, <1>1, <2>2 DEF Listed, Names, Children
<1>4. STypeOK'
  <2>1. x \in Entry \cup Dots /\ listing \in Seq(Entry \cup Dots)
    BY <1>0 DEF STypeOK
  <2>2. listing' \in Seq(Entry \cup Dots)
    BY <1>1, <2>1
  <2> QED
    BY <1>0, <1>1, <1>2, <2>2 DEF STypeOK
<1>5. Nested' /\ Frames' /\ Below'
  BY <1>0, <1>1 DEF SInv, Nested, Frames, Below, Names, Children, Top
<1> QED
  BY <1>0, <1>1, <1>3, <1>4, <1>5 DEF SInv

\* A call begins, inside the one that has listed its directory.
LEMMA CloseDirInv == SInv /\ CloseDir => SInv'
<1> SUFFICES ASSUME SInv, CloseDir PROVE SInv'
  OBVIOUS
<1> DEFINE f == [dir |-> cur, rest |-> listing]
<1>0. STypeOK /\ Below /\ Listed /\ Nested /\ Frames /\ at = "read" /\ at' = "visit"
  BY DEF SInv, CloseDir
<1>1. /\ UNCHANGED <<cur, st, unread, listing, watched, full, exists, stable, changes>>
      /\ stack' = Append(stack, f)
  BY DEF CloseDir, tree
<1>2. stack \in Seq(Frame) /\ Len(stack) \in Nat /\ f \in Frame
  BY <1>0 DEF STypeOK, Frame
<1>3. /\ stack' \in Seq(Frame) /\ Len(stack') = Len(stack) + 1
      /\ stack'[Len(stack) + 1] = f
      /\ \A n \in 1..Len(stack) : stack'[n] = stack[n]
  BY <1>1, <1>2
<1>4. STypeOK'
  <2>1. stack' # <<>>
    BY <1>2, <1>3
  <2> QED
    BY <1>0, <1>1, <1>3, <2>1 DEF STypeOK
<1>5. Nested'
  <2>1. stack'[1].dir = Root
    <3>1. CASE stack = <<>>
      BY <1>0, <1>2, <1>3, <3>1 DEF Below
    <3>2. CASE stack # <<>>
      BY <1>0, <1>2, <1>3, <3>2 DEF Nested
    <3> QED
      BY <3>1, <3>2
  <2>2. ASSUME NEW n \in 1..Len(stack)
        PROVE  stack'[n + 1].dir \in Children(stack'[n].dir)
    <3>1. CASE n < Len(stack)
      BY <1>0, <1>2, <1>3, <3>1 DEF Nested
    <3>2. CASE n = Len(stack)
      BY <1>0, <1>2, <1>3, <3>2 DEF Below, Top
    <3> QED
      BY <1>2, <3>1, <3>2
  <2> QED
    BY <1>2, <1>3, <2>1, <2>2 DEF Nested, Children
<1>6. Frames'
  <2> SUFFICES ASSUME NEW n \in 1..(Len(stack) + 1)
               PROVE  stack'[n].rest \in Seq(Names(stack'[n].dir))
    BY <1>3 DEF Frames, Names, Children
  <2>1. CASE n \in 1..Len(stack)
    BY <1>0, <1>3, <2>1 DEF Frames
  <2>2. CASE n = Len(stack) + 1
    BY <1>0, <1>3, <2>2 DEF Listed
  <2> QED
    BY <1>2, <2>1, <2>2
<1> QED
  BY <1>0, <1>4, <1>5, <1>6 DEF SInv

\* Going on to the next name leaves the calls as they are.
LEMMA AdvanceInv ==
  ASSUME SInv, stack # <<>>, Top.rest # <<>>, Advance
  PROVE  /\ stack' \in Seq(Frame) /\ Nested' /\ Frames'
         /\ Len(stack') = Len(stack) /\ Top'.dir = Top.dir /\ Head(Top.rest) \in Names(Top.dir)
<1>0. STypeOK /\ Nested /\ Frames /\ stack \in Seq(Frame)
  BY DEF SInv, STypeOK
<1>1. Len(stack) \in Nat \ {0} /\ Top \in Frame /\ Top.rest \in Seq(Entry \cup Dots)
  BY <1>0, LastCall
<1> DEFINE f == [Top EXCEPT !.rest = Tail(@)]
<1>2. stack' = [stack EXCEPT ![Len(stack)] = f]
  BY DEF Advance, Top
<1>3. f \in Frame /\ f.dir = Top.dir /\ f.rest = Tail(Top.rest)
  BY <1>1, HeadTailProperties DEF Frame
<1>4. /\ stack' \in Seq(Frame) /\ Len(stack') = Len(stack) /\ stack'[Len(stack)] = f
      /\ \A n \in 1..Len(stack) : n # Len(stack) => stack'[n] = stack[n]
  BY <1>0, <1>1, <1>2, <1>3
<1>5. \A n \in 1..Len(stack) : stack'[n].dir = stack[n].dir
  BY <1>1, <1>3, <1>4 DEF Top
<1>6. Nested'
  <2>1. stack'[1].dir = Root
    BY <1>0, <1>1, <1>5 DEF Nested
  <2>2. \A n \in 1..Len(stack) - 1 : stack'[n + 1].dir \in Children(stack'[n].dir)
    BY <1>0, <1>1, <1>5 DEF Nested
  <2> QED
    BY <1>4, <2>1, <2>2 DEF Nested, Children
<1>7. Top.rest \in Seq(Names(Top.dir))
  BY <1>0, <1>1 DEF Frames, Top
<1>8. Tail(Top.rest) \in Seq(Names(Top.dir)) /\ Head(Top.rest) \in Names(Top.dir)
  BY <1>7, HeadTailProperties
<1>9. Frames'
  <2> SUFFICES ASSUME NEW n \in 1..Len(stack)
               PROVE  stack'[n].rest \in Seq(Names(stack'[n].dir))
    BY <1>4 DEF Frames, Names, Children
  <2>1. CASE n = Len(stack)
    <3>1. stack'[n].rest = Tail(Top.rest) /\ stack'[n].dir = Top.dir
      BY <1>3, <1>4, <2>1
    <3> QED
      BY <1>8, <3>1
  <2>2. CASE n # Len(stack)
    BY <1>0, <1>4, <2>2 DEF Frames
  <2> QED
    BY <2>1, <2>2
<1> QED
  BY <1>1, <1>3, <1>4, <1>6, <1>8, <1>9 DEF Top

\* "." and ".." are passed over.
LEMMA SkipInv == SInv /\ Skip => SInv'
<1> SUFFICES ASSUME SInv, Skip PROVE SInv'
  OBVIOUS
<1>1. /\ STypeOK /\ at = "visit" /\ stack # <<>> /\ Top.rest # <<>> /\ Advance
      /\ UNCHANGED <<at, cur, st, unread, listing, watched, full, exists, stable, changes>>
  BY DEF SInv, STypeOK, Skip, tree
<1>2. /\ stack' \in Seq(Frame) /\ Nested' /\ Frames' /\ Len(stack') = Len(stack)
  BY <1>1, AdvanceInv
<1>3. stack' # <<>>
  BY <1>1, <1>2, LastCall
<1>4. STypeOK'
  BY <1>1, <1>2, <1>3 DEF STypeOK
<1> QED
  BY <1>1, <1>2, <1>4 DEF SInv

\* What is visited is in the directory of the call, so never "." or "..".
LEMMA VisitInv == SInv /\ Visit => SInv'
<1> SUFFICES ASSUME SInv, Visit PROVE SInv'
  OBVIOUS
<1> DEFINE x == Head(Top.rest)
<1>1. /\ STypeOK /\ at = "visit" /\ at' = "list" /\ stack # <<>> /\ Top.rest # <<>> /\ Advance
      /\ x \notin Dots /\ cur' = x /\ AddWatch(x)
      /\ UNCHANGED <<st, unread, listing, exists, stable, changes>>
  BY DEF SInv, STypeOK, Visit, tree
<1>2. /\ stack' \in Seq(Frame) /\ Nested' /\ Frames' /\ Len(stack') = Len(stack)
      /\ Top'.dir = Top.dir /\ x \in Names(Top.dir)
  BY <1>1, AdvanceInv
<1>3. stack' # <<>> /\ x \in Children(Top.dir)
  BY <1>1, <1>2, LastCall DEF Names
<1>4. Below'
  BY <1>1, <1>2, <1>3 DEF Below, Children
<1>5. watched' \subseteq exists' \cup {Root} /\ full' \in BOOLEAN
  <2>1. watched' = watched \/ (x \in exists \cup {Root} /\ watched' = watched \cup {x})
    BY <1>1 DEF AddWatch
  <2>2. full' = full \/ full' = (full \/ x \notin watched)
    BY <1>1 DEF AddWatch
  <2> QED
    BY <1>1, <2>1, <2>2 DEF STypeOK
<1>6. STypeOK'
  BY <1>1, <1>2, <1>3, <1>5 DEF STypeOK, Children
<1> QED
  BY <1>1, <1>2, <1>4, <1>6 DEF SInv

\* The last call returns to the one before it.
LEMMA ReturnsInv == SInv /\ ScanReturns => SInv'
<1> SUFFICES ASSUME SInv, ScanReturns PROVE SInv'
  OBVIOUS
<1>1. /\ STypeOK /\ Nested /\ Frames /\ at = "visit" /\ stack # <<>> /\ stack \in Seq(Frame)
      /\ UNCHANGED <<cur, st, unread, listing, watched, full, exists, stable, changes>>
      /\ stack' = SubSeq(stack, 1, Len(stack) - 1)
      /\ at' = IF Len(stack) = 1 THEN "done" ELSE "visit"
  BY DEF SInv, STypeOK, ScanReturns, tree
<1>2. Len(stack) \in Nat \ {0}
  BY <1>1, LastCall
<1>3. /\ stack' \in Seq(Frame) /\ Len(stack') = Len(stack) - 1
      /\ \A n \in 1..Len(stack) - 1 : stack'[n] = stack[n]
  <2>1. stack \in Seq(Frame) /\ stack # <<>> /\ stack' = SubSeq(stack, 1, Len(stack) - 1)
    BY <1>1
  <2> QED
    BY <2>1, WithoutLast
<1>4. STypeOK'
  <2>1. ASSUME at' = "visit" PROVE stack' # <<>>
    <3>1. Len(stack') # 0
      BY <1>1, <1>2, <1>3, <2>1
    <3> QED
      BY <3>1, EmptySeq
  <2> QED
    BY <1>1, <1>3, <2>1 DEF STypeOK
<1>5. Nested'
  <2>1. stack' # <<>> => stack'[1].dir = Root
    BY <1>1, <1>2, <1>3 DEF Nested
  <2>2. \A n \in 1..Len(stack) - 2 : stack'[n + 1].dir \in Children(stack'[n].dir)
    BY <1>1, <1>2, <1>3 DEF Nested
  <2> QED
    BY <1>2, <1>3, <2>1, <2>2 DEF Nested, Children
<1>6. Frames'
  <2> SUFFICES ASSUME NEW n \in 1..Len(stack) - 1
               PROVE  stack'[n].rest \in Seq(Names(stack'[n].dir))
    BY <1>3 DEF Frames, Names, Children
  <2>1. stack'[n] = stack[n] /\ n \in 1..Len(stack)
    BY <1>2, <1>3
  <2> QED
    BY <1>1, <2>1 DEF Frames
<1> QED
  BY <1>1, <1>4, <1>5, <1>6 DEF SInv

\* The user changes what readdir() may still return, of the same directory.
LEMMA UserInv == SInv /\ (\E e \in Entry : Appear(e) \/ Vanish(e)) => SInv'
<1> SUFFICES ASSUME SInv, NEW e \in Entry, Appear(e) \/ Vanish(e) PROVE SInv'
  OBVIOUS
<1>1. /\ STypeOK /\ changes' \in 0..MaxChanges
      /\ UNCHANGED <<at, cur, st, listing, stack, full>>
      /\ stable' \subseteq stable
  BY DEF SInv, STypeOK, Appear, Vanish, Count
<1>2. unread' \subseteq unread \cup (IF at = "read" /\ Parent[e] = cur THEN {e} ELSE {})
  BY DEF Appear, Vanish
<1>3. /\ watched' \subseteq exists' \cup {Root} /\ exists' \subseteq Entry
      /\ stable' \subseteq exists'
  BY <1>1 DEF Appear, Vanish, STypeOK
<1>4. STypeOK'
  BY <1>1, <1>2, <1>3 DEF STypeOK
<1>5. at' = "read" => Listed'
  BY <1>1, <1>2 DEF SInv, Listed, Names, Children
<1>6. Nested' /\ Frames' /\ (at' \in {"list", "read"} => Below')
  BY <1>1 DEF SInv, Nested, Frames, Below, Names, Children, Top
<1>7. at' = "start" => cur' = Root /\ stack' = <<>> /\ watched' = {}
  BY <1>1 DEF SInv, STypeOK, Appear, Vanish
<1> QED
  BY <1>4, <1>5, <1>6, <1>7 DEF SInv

\* Every step keeps the invariant.
LEMMA SNextInv == SInv /\ [SNext]_svars => SInv'
<1> SUFFICES ASSUME SInv, [SNext]_svars PROVE SInv'
  OBVIOUS
<1>1. CASE Scan
  BY <1>1, WatchRootInv, OpenDirInv, ReadEntryInv, CloseDirInv, SkipInv, VisitInv, ReturnsInv DEF Scan
<1>2. CASE Close
  BY <1>2 DEF Close, tree, SInv, STypeOK, Nested, Frames, Names, Children
<1>3. CASE \E e \in Entry : Appear(e) \/ Vanish(e)
  BY <1>3, UserInv
<1>4. CASE UNCHANGED svars
  BY <1>4 DEF svars, scan, tree, SInv, STypeOK, Nested, Frames, Below, Listed,
              Names, Children, Top
<1> QED
  BY <1>1, <1>2, <1>3, <1>4 DEF SNext

-----------------------------------------------------------------------------
(* What is watched.  The directories still to be watched are those the scan *)
(* has still to visit, or below one of them.                                *)

\* A directory that WatchedUnlessShadowed promises to watch.
Sought(d) == d \in stable \cap Clear /\ Kind[d] = "dir"

Occurs(d, names) == \E n \in 1..Len(names) : names[n] = d
Waiting(d)       == \E n \in 1..Len(stack) : Occurs(d, stack[n].rest)

\* The scan will come to d: d is waiting in a call of recursiveWatch(), or
\* listDir() lists its directory and has not lost it.
Due(d) ==
  \/ at = "list" /\ cur = Parent[d]
  \/ at = "read" /\ cur = Parent[d] /\ (d \in unread \/ Occurs(d, listing))
  \/ Waiting(d)

Progress ==
  at \in {"list", "read", "visit", "done"} /\ ~full =>
    \A d \in Entry : Sought(d) /\ Parent[d] \in watched \cup {Root} => d \in watched \/ Due(d)

\* In a directory without shadowed entries st never holds another type.
Unconfused ==
  at = "read" /\ cur # Root /\ (\E d \in Children(cur) : ~Shadowed(d)) => st = "dir"

Rooted ==
  /\ \A e \in exists : Parent[e] \in exists \cup {Root}
  /\ \A e \in stable : Parent[e] \in stable \cup {Root}
  /\ at = "done" => stack = <<>>

WatchInv == SInv /\ Rooted /\ Unconfused /\ Progress

\* Every directory on the way to an entry of Clear is in Clear.
LEMMA ClearPath ==
  ASSUME NEW d \in Clear
  PROVE  d \in Entry /\ ~Shadowed(d) /\ Parent[d] \in Clear \cup {Root}
BY DEF Clear

LEMMA OccursTail ==
  ASSUME NEW S, NEW s \in Seq(S), s # <<>>, NEW d, Occurs(d, s), d # Head(s)
  PROVE  Occurs(d, Tail(s))
<1>1. PICK n \in 1..Len(s) : s[n] = d
  BY DEF Occurs
<1>2. n # 1 /\ Len(s) \in Nat
  BY <1>1
<1>3. n - 1 \in 1..Len(Tail(s)) /\ Tail(s)[n - 1] = d
  BY <1>1, <1>2, HeadTailProperties
<1> QED
  BY <1>3 DEF Occurs

LEMMA OccursAppend ==
  ASSUME NEW S, NEW s \in Seq(S), NEW x \in S, NEW d, Occurs(d, s) \/ d = x
  PROVE  Occurs(d, Append(s, x))
<1>1. /\ Len(s) \in Nat /\ Len(Append(s, x)) = Len(s) + 1 /\ Append(s, x)[Len(s) + 1] = x
      /\ \A n \in 1..Len(s) : Append(s, x)[n] = s[n]
  OBVIOUS
<1>2. CASE d = x
  BY <1>1, <1>2 DEF Occurs
<1>3. CASE Occurs(d, s)
  <2>1. PICK n \in 1..Len(s) : s[n] = d
    BY <1>3 DEF Occurs
  <2>2. n \in 1..Len(Append(s, x)) /\ Append(s, x)[n] = d
    BY <1>1, <2>1
  <2> QED
    BY <2>2 DEF Occurs
<1> QED
  BY <1>2, <1>3

\* Going on to the next name loses none but the one that is visited.
LEMMA AdvanceKeeps ==
  ASSUME STypeOK, stack # <<>>, Top.rest # <<>>, Advance,
         NEW d, Waiting(d), d # Head(Top.rest)
  PROVE  Waiting(d)'
<1>1. /\ stack \in Seq(Frame) /\ Len(stack) \in Nat \ {0}
      /\ Top \in Frame /\ Top.rest \in Seq(Entry \cup Dots)
  BY LastCall DEF STypeOK
<1>2. /\ Len(stack') = Len(stack) /\ stack'[Len(stack)].rest = Tail(Top.rest)
      /\ \A n \in 1..Len(stack) : n # Len(stack) => stack'[n] = stack[n]
  <2> DEFINE f == [Top EXCEPT !.rest = Tail(@)]
  <2>1. stack' = [stack EXCEPT ![Len(stack)] = f]
    BY DEF Advance, Top
  <2>2. f \in Frame /\ f.rest = Tail(Top.rest)
    BY <1>1, HeadTailProperties DEF Frame
  <2> QED
    BY <1>1, <2>1, <2>2
<1>3. PICK n \in 1..Len(stack) : Occurs(d, stack[n].rest)
  BY DEF Waiting
<1>4. Occurs(d, stack'[n].rest)
  <2>1. CASE n = Len(stack)
    <3>1. Occurs(d, Top.rest)
      BY <1>3, <2>1 DEF Top
    <3> QED
      BY <1>1, <1>2, <2>1, <3>1, OccursTail
  <2>2. CASE n # Len(stack)
    BY <1>2, <1>3, <2>2
  <2> QED
    BY <2>1, <2>2
<1> QED
  BY <1>2, <1>4 DEF Waiting, Occurs

\* listDir() takes a directory that is looked for, and whose name no entry
\* shadows, for a directory, in whatever directory it looks it up.
LEMMA StatClear ==
  ASSUME WatchInv, at = "read", NEW d \in Entry, Sought(d), cur = Parent[d]
  PROVE  StatOf(d) = "dir"
<1>1. d \in exists /\ ~Shadowed(d) /\ d \in Children(cur)
  BY ClearPath DEF WatchInv, SInv, STypeOK, Sought, Children
<1>2. CASE Parent[d] = Root
  BY <1>1, <1>2 DEF StatOf, InCwd, Sought
<1>3. CASE Parent[d] # Root
  <2>1. \A f \in InCwd(d) : Kind[f] = "dir"
    BY <1>1, <1>3 DEF InCwd, Shadowed, Children, WatchInv, SInv, STypeOK
  <2>2. st = "dir"
    BY <1>1, <1>3 DEF WatchInv, Unconfused
  <2> QED
    BY <2>1, <2>2 DEF StatOf
<1> QED
  BY <1>2, <1>3

LEMMA WatchInit == SInit => WatchInv
<1> SUFFICES ASSUME SInit PROVE WatchInv
  OBVIOUS
<1>1. Rooted
  BY DEF SInit, Rooted
<1>2. Progress
  BY DEF SInit, Progress, Sought, Due
<1> QED
  BY <1>1, <1>2, SInitInv DEF SInit, Unconfused, WatchInv

\* What is looked for is in the root, which is listed next, as nothing else is
\* watched yet.
LEMMA WatchRootWatch == WatchInv /\ WatchRoot => (Rooted /\ Unconfused /\ Progress)'
<1> SUFFICES ASSUME WatchInv, WatchRoot PROVE (Rooted /\ Unconfused /\ Progress)'
  OBVIOUS
<1>1. /\ at = "start" /\ at' \in {"list", "thrown"} /\ cur = Root /\ watched = {}
      /\ UNCHANGED <<cur, st, unread, listing, stack, exists, stable>> /\ Rooted
  BY DEF WatchRoot, tree, WatchInv, SInv
<1>2. watched' \subseteq {Root}
  BY <1>1 DEF WatchRoot, AddWatch
<1>3. Progress'
  BY <1>1, <1>2 DEF Progress, Due, Sought
<1> QED
  BY <1>1, <1>3 DEF Rooted, Unconfused

\* The directory of something looked for exists, and so it is opened.
LEMMA OpenDirWatch == WatchInv /\ OpenDir => (Rooted /\ Unconfused /\ Progress)'
<1> SUFFICES ASSUME WatchInv, OpenDir PROVE (Rooted /\ Unconfused /\ Progress)'
  OBVIOUS
<1>1. /\ at = "list" /\ UNCHANGED <<cur, stack, watched, full, exists, stable>> /\ st' = "dir"
      /\ at' \in {"read", "thrown", "visit"} /\ STypeOK /\ Rooted /\ Progress
  BY DEF OpenDir, tree, WatchInv, SInv
<1>2. Rooted' /\ Unconfused'
  BY <1>1 DEF Rooted, Unconfused
<1>3. ASSUME NEW d \in Entry, Sought(d), Parent[d] \in watched \cup {Root}, ~full,
             at' # "thrown", d \notin watched
      PROVE  Due(d)'
  <2>1. CASE cur = Parent[d]
    <3>1. d \in exists /\ IsDir(cur)
      BY <1>1, <1>3, <2>1 DEF STypeOK, Sought, Rooted, IsDir
    <3>2. at' = "read" /\ d \in unread'
      BY <1>3, <2>1, <3>1 DEF OpenDir, Children, IsDir
    <3> QED
      BY <1>1, <2>1, <3>2 DEF Due
  <2>2. CASE cur # Parent[d]
    BY <1>1, <1>3, <2>2 DEF Progress, Due, Waiting
  <2> QED
    BY <2>1, <2>2
<1>4. Progress'
  BY <1>1, <1>3 DEF Progress, Sought
<1> QED
  BY <1>2, <1>4

\* No name looked for is left out of the list.
LEMMA ReadEntryWatch ==
  WatchInv /\ (\E x \in unread : ReadEntry(x)) => (Rooted /\ Unconfused /\ Progress)'
<1> SUFFICES ASSUME WatchInv, NEW x \in unread, ReadEntry(x)
             PROVE  (Rooted /\ Unconfused /\ Progress)'
  OBVIOUS
<1>1. /\ at = "read" /\ UNCHANGED <<at, cur, stack, watched, full, exists, stable>>
      /\ unread' = unread \ {x} /\ st' = StatOf(x)
      /\ listing' = IF st' = "dir" THEN Append(listing, x) ELSE listing
      /\ STypeOK /\ Rooted /\ Progress /\ Listed /\ Unconfused
  BY DEF ReadEntry, tree, WatchInv, SInv
<1>2. Rooted'
  BY <1>1 DEF Rooted
<1>3. Unconfused'
  <2> SUFFICES ASSUME cur # Root, NEW d \in Children(cur), ~Shadowed(d) PROVE StatOf(x) = "dir"
    BY <1>1 DEF Unconfused, Children
  <2>1. st = "dir" /\ x \in Dots \cup Children(cur)
    BY <1>1 DEF Unconfused, Listed, Names
  <2>2. CASE x \in Children(cur)
    <3>1. \A f \in InCwd(x) : Kind[f] = "dir"
      BY <1>1, <2>2 DEF InCwd, Shadowed, Children, STypeOK
    <3> QED
      BY <2>1, <3>1 DEF StatOf
  <2> QED
    BY <2>1, <2>2 DEF StatOf
<1>4. ASSUME NEW d \in Entry, Sought(d), cur = Parent[d], d \in unread \/ Occurs(d, listing)
      PROVE  (d \in unread \/ Occurs(d, listing))'
  <2>1. x \in Entry \cup Dots /\ listing \in Seq(Entry \cup Dots)
    BY <1>1 DEF STypeOK
  <2>2. CASE d = x
    <3>1. listing' = Append(listing, x)
      BY <1>1, <1>4, <2>2, StatClear
    <3>2. Occurs(d, Append(listing, x))
      BY <2>1, <2>2, OccursAppend
    <3> QED
      BY <3>1, <3>2 DEF Occurs
  <2>3. CASE d # x
    <3>1. Occurs(d, listing) => Occurs(d, Append(listing, x))
      BY <2>1, OccursAppend
    <3> QED
      BY <1>1, <1>4, <2>3, <3>1 DEF Occurs
  <2> QED
    BY <2>2, <2>3
<1>5. Progress'
  BY <1>1, <1>4 DEF Progress, Sought, Due, Waiting
<1> QED
  BY <1>2, <1>3, <1>5

\* The list becomes what the new call has to visit.
LEMMA CloseDirWatch == WatchInv /\ CloseDir => (Rooted /\ Unconfused /\ Progress)'
<1> SUFFICES ASSUME WatchInv, CloseDir PROVE (Rooted /\ Unconfused /\ Progress)'
  OBVIOUS
<1> DEFINE f == [dir |-> cur, rest |-> listing]
<1>1. /\ at = "read" /\ at' = "visit" /\ unread = {} /\ stack' = Append(stack, f)
      /\ UNCHANGED <<cur, watched, full, exists, stable>>
      /\ STypeOK /\ Rooted /\ Progress
  BY DEF CloseDir, tree, WatchInv, SInv
<1>2. /\ Len(stack) \in Nat /\ Len(stack') = Len(stack) + 1
      /\ stack'[Len(stack) + 1].rest = listing
      /\ \A n \in 1..Len(stack) : stack'[n] = stack[n]
  <2>1. stack \in Seq(Frame) /\ f \in Frame
    BY <1>1 DEF STypeOK, Frame
  <2> QED
    BY <1>1, <2>1
<1>3. ASSUME NEW d, Waiting(d) \/ Occurs(d, listing) PROVE Waiting(d)'
  <2>1. CASE Occurs(d, listing)
    BY <1>2, <2>1 DEF Waiting, Occurs
  <2>2. CASE Waiting(d)
    <3>1. PICK n \in 1..Len(stack) : Occurs(d, stack[n].rest)
      BY <2>2 DEF Waiting
    <3>2. n \in 1..Len(stack') /\ Occurs(d, stack'[n].rest)
      BY <1>2, <3>1
    <3> QED
      BY <3>2 DEF Waiting, Occurs
  <2> QED
    BY <1>3, <2>1, <2>2
<1>4. Progress'
  BY <1>1, <1>3 DEF Progress, Sought, Due
<1> QED
  BY <1>1, <1>4 DEF Rooted, Unconfused

\* "." and ".." are nothing one looks for.
LEMMA SkipWatch == WatchInv /\ Skip => (Rooted /\ Unconfused /\ Progress)'
<1> SUFFICES ASSUME WatchInv, Skip PROVE (Rooted /\ Unconfused /\ Progress)'
  OBVIOUS
<1>1. /\ at = "visit" /\ UNCHANGED <<at, cur, watched, full, exists, stable>>
      /\ STypeOK /\ Rooted /\ Progress /\ stack # <<>> /\ Top.rest # <<>> /\ Advance
      /\ Head(Top.rest) \in Dots
  BY DEF Skip, tree, WatchInv, SInv, STypeOK
<1>2. \A d \in Entry : Waiting(d) => Waiting(d)'
  BY <1>1, AdvanceKeeps
<1>3. Progress'
  BY <1>1, <1>2 DEF Progress, Sought, Due
<1> QED
  BY <1>1, <1>3 DEF Rooted, Unconfused

\* What is visited is watched, unless inotify refuses, and its entries are
\* what is listed next.
LEMMA VisitWatch == WatchInv /\ Visit => (Rooted /\ Unconfused /\ Progress)'
<1> SUFFICES ASSUME WatchInv, Visit PROVE (Rooted /\ Unconfused /\ Progress)'
  OBVIOUS
<1> DEFINE x == Head(Top.rest)
<1>1. /\ at = "visit" /\ at' = "list" /\ cur' = x /\ UNCHANGED <<exists, stable>>
      /\ STypeOK /\ Rooted /\ Progress /\ stack # <<>> /\ Top.rest # <<>> /\ Advance
      /\ AddWatch(x)
  BY DEF Visit, tree, WatchInv, SInv, STypeOK
<1>2. (full => full') /\ watched' \in {watched, watched \cup {x}}
  <2>1. watched' \in {watched, watched \cup {x}}
    BY <1>1 DEF AddWatch
  <2>2. full' = full \/ full' = (full \/ x \notin watched)
    BY <1>1 DEF AddWatch
  <2>3. full => full'
    BY <2>2, Zenon
  <2> QED
    BY <2>1, <2>3
<1>3. ASSUME NEW d \in Entry, Sought(d), Parent[d] \in watched' \cup {Root}, ~full'
      PROVE  d \in watched' \/ Due(d)'
  <2>1. CASE Parent[d] = x
    BY <1>1, <2>1 DEF Due
  <2>2. CASE Parent[d] # x /\ d = x
    <3>1. x \in exists
      BY <1>1, <1>3, <2>2 DEF Sought, STypeOK
    <3> QED
      BY <1>1, <1>3, <2>2, <3>1 DEF AddWatch
  <2>3. CASE Parent[d] # x /\ d # x
    <3>1. d \in watched \/ Waiting(d)
      BY <1>1, <1>2, <1>3, <2>3 DEF Progress, Due
    <3>2. Waiting(d) => Waiting(d)'
      BY <1>1, <2>3, AdvanceKeeps
    <3> QED
      BY <1>2, <3>1, <3>2 DEF Due
  <2> QED
    BY <2>1, <2>2, <2>3
<1>4. Progress'
  BY <1>1, <1>3 DEF Progress, Sought
<1> QED
  BY <1>1, <1>4 DEF Rooted, Unconfused

\* A call that returns has nothing left to visit.
LEMMA ReturnsWatch == WatchInv /\ ScanReturns => (Rooted /\ Unconfused /\ Progress)'
<1> SUFFICES ASSUME WatchInv, ScanReturns PROVE (Rooted /\ Unconfused /\ Progress)'
  OBVIOUS
<1>1. /\ at = "visit" /\ at' = (IF Len(stack) = 1 THEN "done" ELSE "visit") /\ Top.rest = <<>>
      /\ stack' = SubSeq(stack, 1, Len(stack) - 1)
      /\ UNCHANGED <<cur, watched, full, exists, stable>>
      /\ STypeOK /\ Rooted /\ Progress /\ stack # <<>> /\ stack \in Seq(Frame)
  BY DEF ScanReturns, tree, WatchInv, SInv, STypeOK
<1>2. Len(stack) \in Nat \ {0}
  BY <1>1
<1>3. /\ stack' \in Seq(Frame) /\ Len(stack') = Len(stack) - 1
      /\ \A n \in 1..Len(stack) - 1 : stack'[n] = stack[n]
  BY <1>1, WithoutLast
<1>4. ASSUME NEW d, Waiting(d) PROVE Waiting(d)'
  <2>1. PICK n \in 1..Len(stack) : Occurs(d, stack[n].rest)
    BY <1>4 DEF Waiting
  <2>2. n # Len(stack)
    BY <1>1, <2>1 DEF Occurs, Top
  <2>3. n \in 1..Len(stack') /\ Occurs(d, stack'[n].rest)
    BY <1>2, <1>3, <2>1, <2>2
  <2> QED
    BY <2>3 DEF Waiting, Occurs
<1>5. at' = "done" => stack' = <<>>
  BY <1>1, <1>2, <1>3
<1>6. Rooted'
  BY <1>1, <1>5 DEF Rooted
<1>7. Progress'
  BY <1>1, <1>4 DEF Progress, Sought, Due
<1> QED
  BY <1>1, <1>6, <1>7 DEF Unconfused

\* What the user creates was not there all the time; a directory has to be
\* empty before it goes.
LEMMA UserWatch ==
  WatchInv /\ (\E e \in Entry : Appear(e) \/ Vanish(e)) => (Rooted /\ Unconfused /\ Progress)'
<1> SUFFICES ASSUME WatchInv, NEW e \in Entry, Appear(e) \/ Vanish(e)
             PROVE  (Rooted /\ Unconfused /\ Progress)'
  OBVIOUS
<1>1. /\ UNCHANGED <<at, cur, st, listing, stack, full>> /\ stable' \subseteq stable \ {e}
      /\ unread \ {e} \subseteq unread' /\ watched \ {e} \subseteq watched' /\ watched' \subseteq watched
      /\ STypeOK /\ Rooted /\ Progress /\ Unconfused
  BY DEF Appear, Vanish, WatchInv, SInv, STypeOK
<1>2. Rooted'
  BY <1>1 DEF Rooted, Appear, Vanish, Children, STypeOK
<1>3. Progress'
  <2> SUFFICES ASSUME at \in {"list", "read", "visit", "done"}, ~full, NEW d \in Entry, Sought(d)',
                      Parent[d] \in watched' \cup {Root}, d \notin watched'
               PROVE  Due(d)'
    BY <1>1 DEF Progress
  <2>1. Sought(d) /\ d # e /\ d \notin watched /\ Parent[d] \in watched \cup {Root}
    BY <1>1 DEF Sought
  <2>2. Due(d)
    BY <1>1, <2>1 DEF Progress
  <2> QED
    BY <1>1, <2>1, <2>2 DEF Due, Waiting
<1> QED
  BY <1>1, <1>2, <1>3 DEF Unconfused

LEMMA WatchStep == WatchInv /\ [SNext]_svars => WatchInv'
<1> SUFFICES ASSUME WatchInv, [SNext]_svars PROVE (Rooted /\ Unconfused /\ Progress)'
  BY SNextInv DEF WatchInv
<1>1. CASE Scan
  BY <1>1, WatchRootWatch, OpenDirWatch, ReadEntryWatch, CloseDirWatch, SkipWatch, VisitWatch, ReturnsWatch
     DEF Scan
<1>2. CASE Close
  BY <1>2 DEF Close, tree, WatchInv, Rooted, Unconfused, Progress
<1>3. CASE \E e \in Entry : Appear(e) \/ Vanish(e)
  BY <1>3, UserWatch
<1>4. CASE UNCHANGED svars
  BY <1>4 DEF svars, scan, tree, WatchInv, Rooted, Unconfused, Progress, Sought, Due, Waiting
<1> QED
  BY <1>1, <1>2, <1>3, <1>4 DEF SNext

\* When the scan is over nothing is due any more.  If a directory had been
\* missed, so had the one it is in, and so on without end.
LEMMA NoneMissed == WatchInv => WatchedUnlessShadowed
<1> SUFFICES ASSUME WatchInv, at = "done", ~full PROVE \A d \in Entry : Sought(d) => d \in watched
  BY DEF WatchedUnlessShadowed, Sought, WatchInv, SInv, STypeOK
<1> DEFINE Missed == {d \in Entry : Sought(d) /\ d \notin watched}
<1>1. Rooted /\ Progress /\ STypeOK
  BY DEF WatchInv, SInv
<1>2. \A d \in Entry : ~Due(d)
  BY <1>1 DEF Rooted, Due, Waiting
<1>3. ASSUME NEW d \in Missed PROVE Parent[d] \in Missed
  <2>1. Parent[d] \notin watched \cup {Root}
    BY <1>1, <1>2 DEF Progress
  <2>2. Parent[d] \in Entry /\ Kind[Parent[d]] = "dir" /\ Parent[d] \in stable
    BY <1>1, <2>1 DEF Rooted, Sought
  <2>3. Parent[d] \in Clear
    BY <2>1, ClearPath DEF Sought
  <2> QED
    BY <2>1, <2>2, <2>3 DEF Sought
<1>4. Missed = {}
  BY <1>3, AcyclicAssumption
<1> QED
  BY <1>4

-----------------------------------------------------------------------------
(* What is not watched: no file or link gets into a list, and from there into *)
(* a call of recursiveWatch(), while a file or link at the top has its name.  *)

Mistakable(e) == ~\E f \in stable \cap Children(Root) : Name[f] = Name[e] /\ Kind[f] # "dir"

Confused ==
  \A e \in Entry : Kind[e] # "dir" /\ (e \in watched \/ Waiting(e) \/ Occurs(e, listing))
                   => Mistakable(e)

LEMMA AppendOccurs ==
  ASSUME NEW S, NEW s \in Seq(S), NEW x \in S, NEW d, Occurs(d, Append(s, x))
  PROVE  Occurs(d, s) \/ d = x
<1>1. /\ Len(s) \in Nat /\ Len(Append(s, x)) = Len(s) + 1 /\ Append(s, x)[Len(s) + 1] = x
      /\ \A n \in 1..Len(s) : Append(s, x)[n] = s[n]
  OBVIOUS
<1>2. PICK n \in 1..(Len(s) + 1) : Append(s, x)[n] = d
  BY <1>1 DEF Occurs
<1>3. n \in 1..Len(s) \/ n = Len(s) + 1
  BY <1>1
<1> QED
  BY <1>1, <1>2, <1>3 DEF Occurs

\* Going on to the next name adds none.
LEMMA AdvanceAdds ==
  ASSUME STypeOK, stack # <<>>, Top.rest # <<>>, Advance, NEW d, Waiting(d)'
  PROVE  Waiting(d)
<1>1. /\ stack \in Seq(Frame) /\ Len(stack) \in Nat \ {0}
      /\ Top \in Frame /\ Top.rest \in Seq(Entry \cup Dots)
  BY LastCall DEF STypeOK
<1>2. /\ Len(stack') = Len(stack) /\ stack'[Len(stack)].rest = Tail(Top.rest)
      /\ \A n \in 1..Len(stack) : n # Len(stack) => stack'[n] = stack[n]
  <2> DEFINE f == [Top EXCEPT !.rest = Tail(@)]
  <2>1. stack' = [stack EXCEPT ![Len(stack)] = f]
    BY DEF Advance, Top
  <2>2. f \in Frame /\ f.rest = Tail(Top.rest)
    BY <1>1, HeadTailProperties DEF Frame
  <2> QED
    BY <1>1, <2>1, <2>2
<1>3. PICK n \in 1..Len(stack) : Occurs(d, stack'[n].rest)
  BY <1>2 DEF Waiting, Occurs
<1>4. Occurs(d, stack[n].rest)
  <2>1. CASE n = Len(stack)
    <3>1. PICK i \in 1..Len(Tail(Top.rest)) : Tail(Top.rest)[i] = d
      BY <1>2, <1>3, <2>1 DEF Occurs
    <3>2. i + 1 \in 1..Len(Top.rest) /\ Top.rest[i + 1] = d
      BY <1>1, <3>1, HeadTailProperties
    <3> QED
      BY <2>1, <3>2 DEF Occurs, Top
  <2>2. CASE n # Len(stack)
    BY <1>2, <1>3, <2>2
  <2> QED
    BY <2>1, <2>2
<1> QED
  BY <1>4 DEF Waiting

\* What is visited next was waiting.
LEMMA HeadWaits ==
  ASSUME STypeOK, stack # <<>>, Top.rest # <<>>
  PROVE  Waiting(Head(Top.rest))
<1>1. Len(stack) \in Nat \ {0} /\ Top.rest \in Seq(Entry \cup Dots)
  BY LastCall
<1>2. 1 \in 1..Len(Top.rest) /\ Top.rest[1] = Head(Top.rest)
  BY <1>1
<1> QED
  BY <1>1, <1>2 DEF Waiting, Occurs, Top

\* lstat() finds a file or link that is at the top, and no other entry there
\* has its name.
LEMMA StatFile ==
  ASSUME STypeOK, NEW x \in Entry, ~Mistakable(x)
  PROVE  StatOf(x) = "other"
<1>1. PICK f \in stable : f \in Children(Root) /\ Name[f] = Name[x] /\ Kind[f] # "dir"
  BY DEF Mistakable
<1>2. f \in InCwd(x)
  BY <1>1 DEF InCwd, Children, STypeOK
<1>3. \A e \in InCwd(x) : e = f
  BY <1>1 DEF InCwd, Children, STypeOK
<1>4. x \notin Dots
  OBVIOUS
<1> QED
  BY <1>1, <1>2, <1>3, <1>4 DEF StatOf

LEMMA ConfusedStep == SInv /\ Confused /\ [SNext]_svars => Confused'
<1> SUFFICES ASSUME SInv, Confused, [SNext]_svars,
                    NEW e \in Entry, Kind[e] # "dir", ~Mistakable(e)'
             PROVE  ~(e \in watched \/ Waiting(e) \/ Occurs(e, listing))'
  BY DEF Confused, Mistakable, Children
<1>1. stable' \subseteq stable /\ STypeOK
  BY DEF SInv, SNext, Scan, WatchRoot, OpenDir, ReadEntry, CloseDir, Skip, Visit, ScanReturns,
         Close, Appear, Vanish, svars, tree
<1>2. ~Mistakable(e)
  BY <1>1 DEF Mistakable, Children
<1>3. e \notin watched /\ ~Waiting(e) /\ ~Occurs(e, listing)
  BY <1>2 DEF Confused
<1>4. CASE WatchRoot
  <2>1. stack' = stack /\ listing' = listing /\ watched' \subseteq watched \cup {Root}
    BY <1>4 DEF WatchRoot, AddWatch
  <2> QED
    BY <1>3, <2>1 DEF Waiting, Occurs
<1>5. CASE OpenDir
  <2>1. stack' = stack /\ listing' = <<>> /\ watched' = watched
    BY <1>5 DEF OpenDir
  <2> QED
    BY <1>3, <2>1 DEF Waiting, Occurs
<1>6. ASSUME NEW x \in unread, ReadEntry(x)
      PROVE  ~(e \in watched \/ Waiting(e) \/ Occurs(e, listing))'
  <2>1. /\ stack' = stack /\ watched' = watched /\ listing \in Seq(Entry \cup Dots)
        /\ listing' = IF StatOf(x) = "dir" THEN Append(listing, x) ELSE listing
        /\ x \in Entry \cup Dots
    BY <1>1, <1>6 DEF ReadEntry, STypeOK
  <2>2. x = e => StatOf(x) = "other"
    BY <1>1, <1>2, StatFile
  <2>3. Occurs(e, listing') => Occurs(e, listing)
    BY <2>1, <2>2, AppendOccurs
  <2> QED
    BY <1>3, <2>1, <2>3 DEF Waiting, Occurs
<1>7. CASE CloseDir
  <2> DEFINE f == [dir |-> cur, rest |-> listing]
  <2>1. /\ stack' = Append(stack, f) /\ listing' = listing /\ watched' = watched
        /\ stack \in Seq(Frame) /\ f \in Frame
    BY <1>1, <1>7 DEF CloseDir, STypeOK, Frame
  <2>2. /\ Len(stack) \in Nat /\ Len(stack') = Len(stack) + 1
        /\ stack'[Len(stack) + 1].rest = listing
        /\ \A n \in 1..Len(stack) : stack'[n] = stack[n]
    BY <2>1
  <2>3. ASSUME NEW n \in 1..(Len(stack) + 1) PROVE ~Occurs(e, stack'[n].rest)
    <3>1. CASE n \in 1..Len(stack)
      BY <1>3, <2>2, <3>1 DEF Waiting
    <3>2. CASE n = Len(stack) + 1
      BY <1>3, <2>2, <3>2
    <3> QED
      BY <2>2, <3>1, <3>2
  <2> QED
    BY <1>3, <2>1, <2>2, <2>3 DEF Waiting, Occurs
<1>8. CASE Skip
  <2>1. stack # <<>> /\ Top.rest # <<>> /\ Advance /\ listing' = listing /\ watched' = watched
    BY <1>1, <1>8 DEF Skip, STypeOK
  <2> QED
    BY <1>1, <1>3, <2>1, AdvanceAdds DEF Occurs
<1>9. CASE Visit
  <2>1. /\ stack # <<>> /\ Top.rest # <<>> /\ Advance /\ listing' = listing
        /\ watched' \subseteq watched \cup {Head(Top.rest)}
    BY <1>1, <1>9 DEF Visit, STypeOK, AddWatch
  <2>2. e # Head(Top.rest)
    BY <1>1, <1>3, <2>1, HeadWaits
  <2> QED
    BY <1>1, <1>3, <2>1, <2>2, AdvanceAdds DEF Occurs
<1>10. CASE ScanReturns
  <2>1. /\ stack' = SubSeq(stack, 1, Len(stack) - 1) /\ listing' = listing /\ watched' = watched
        /\ stack # <<>> /\ stack \in Seq(Frame) /\ Len(stack) \in Nat
    BY <1>1, <1>10 DEF ScanReturns, STypeOK
  <2>2. Len(stack') = Len(stack) - 1 /\ \A n \in 1..Len(stack) - 1 : stack'[n] = stack[n]
    BY <2>1, WithoutLast
  <2>3. ASSUME NEW n \in 1..Len(stack') PROVE ~Occurs(e, stack'[n].rest)
    <3>1. n \in 1..Len(stack) /\ stack'[n] = stack[n]
      BY <2>1, <2>2
    <3> QED
      BY <1>3, <3>1 DEF Waiting
  <2> QED
    BY <1>3, <2>1, <2>3 DEF Waiting, Occurs
<1>11. CASE Close \/ (\E u \in Entry : Appear(u) \/ Vanish(u)) \/ UNCHANGED svars
  <2>1. stack' = stack /\ listing' = listing /\ watched' \subseteq watched
    BY <1>11 DEF Close, Appear, Vanish, svars, scan
  <2> QED
    BY <1>3, <2>1 DEF Waiting, Occurs
<1> QED
  BY <1>4, <1>5, <1>6, <1>7, <1>8, <1>9, <1>10, <1>11 DEF SNext, Scan

LEMMA ConfusedInit == SInit => Confused
  BY DEF SInit, Confused, Waiting, Occurs

-----------------------------------------------------------------------------
(* The theorems.                                                           *)

\* The invariant of the recursion.
THEOREM SInvariance == SSpec => []SInv
<1> QED
  BY SInitInv, SNextInv, PTL DEF SSpec

\* Type correctness of the scan: among the rest, nothing that is gone is
\* watched, and recursiveWatch() never runs without a call.
THEOREM STypeCorrect == SSpec => []STypeOK
<1>1. SInv => STypeOK
  BY DEF SInv
<1> QED
  BY <1>1, SInvariance, PTL

\* The recursion of recursiveWatch() follows the tree, whatever the links and
\* the names in it are, so that it is never deeper than the tree.
THEOREM NestedCorrect == SSpec => []Nested
<1>1. SInv => Nested
  BY DEF SInv
<1> QED
  BY <1>1, SInvariance, PTL

\* recursiveWatch() is never called for a directory that it is still visiting.
THEOREM NoCycle ==
  SSpec => [](\A m, n \in 1..Len(stack) : m # n => stack[m].dir # stack[n].dir)
<1>1. ASSUME STypeOK, Nested, NEW m \in 1..Len(stack), NEW n \in 1..Len(stack), m < n
      PROVE  stack[m].dir # stack[n].dir
  <2> SUFFICES ASSUME stack[m].dir = stack[n].dir PROVE FALSE
    OBVIOUS
  <2> DEFINE Between == {stack[i].dir : i \in (m + 1)..n}
  <2>0. Len(stack) \in Nat
    BY <1>1 DEF STypeOK
  <2>1. ASSUME NEW i \in 1..Len(stack), i > 1
        PROVE  stack[i].dir \in Entry /\ Parent[stack[i].dir] = stack[i - 1].dir
    <3>1. i - 1 \in 1..Len(stack) - 1 /\ (i - 1) + 1 = i
      BY <2>0, <2>1
    <3> QED
      BY <1>1, <3>1 DEF Nested, Children
  <2>2. n \in (m + 1)..n /\ stack[n].dir \in Between
    BY <1>1, <2>0
  <2>3. Between \subseteq Entry
    BY <1>1, <2>0, <2>1
  <2>4. ASSUME NEW i \in (m + 1)..n PROVE Parent[stack[i].dir] \in Between
    <3>0. i \in 1..Len(stack) /\ i > 1
      BY <1>1, <2>0
    <3>1. Parent[stack[i].dir] = stack[i - 1].dir
      BY <2>1, <3>0
    <3>2. CASE i = m + 1
      BY <2>2, <3>1, <3>2
    <3>3. CASE i # m + 1
      <4>1. i - 1 \in (m + 1)..n
        BY <1>1, <2>0, <3>3
      <4> QED
        BY <3>1, <4>1
    <3> QED
      BY <3>2, <3>3
  <2>5. \A e \in Between : Parent[e] \in Between
    BY <2>4
  <2> HIDE DEF Between
  <2> QED
    BY <2>2, <2>3, <2>5, AcyclicAssumption
<1>2. SInv => \A m, n \in 1..Len(stack) : m # n => stack[m].dir # stack[n].dir
  <2> SUFFICES ASSUME SInv, NEW m \in 1..Len(stack), NEW n \in 1..Len(stack), m # n
               PROVE  stack[m].dir # stack[n].dir
    OBVIOUS
  <2>1. STypeOK /\ Nested /\ Len(stack) \in Nat
    BY DEF SInv, STypeOK
  <2>2. m < n \/ n < m
    BY <2>1
  <2> QED
    BY <1>1, <2>1, <2>2
<1> QED
  BY <1>2, SInvariance, PTL

\* No file or link is watched while one at the top has its name all the time:
\* for every tree, every order of readdir() and all that the user changes.
THEOREM FilesUnwatchedCorrect == SSpec => []FilesUnwatched
<1>1. SInv /\ Confused => FilesUnwatched
  BY DEF SInv, STypeOK, Confused, Mistakable, FilesUnwatched
<1>2. SSpec => [](SInv /\ Confused)
  BY SInitInv, SNextInv, ConfusedInit, ConfusedStep, PTL DEF SSpec
<1> QED
  BY <1>1, <1>2, PTL

\* A directory that exists all the time, and on whose path no name is shadowed,
\* is watched when the scan is done, if inotify has refused no watch: for every
\* tree, with any links and colliding names in it, whatever else the user
\* creates and removes meanwhile.
THEOREM WatchedCorrect == SSpec => []WatchedUnlessShadowed
<1>1. SSpec => []WatchInv
  BY WatchInit, WatchStep, PTL DEF SSpec
<1> QED
  BY <1>1, NoneMissed, PTL
=============================================================================
