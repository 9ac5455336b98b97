--------------------------- MODULE WatcherProofs ---------------------------
(***************************************************************************)
(* What TLAPS proves of Watcher, for any files, filters and sizes: a       *)
(* change goes without a relaunch for one of three reasons only.           *)
(***************************************************************************)
EXTENDS Watcher, SequenceTheorems, TLAPS

USE MatchesAssumption, CooldownAssumption, SizesAssumption

\* The initial values have their types.
LEMMA WInitType == WInit => WTypeOK
  BY DEF WInit, WTypeOK, Where, Reason

\* A step of the environment keeps the types.
LEMMA EnvironmentType ==
  WTypeOK /\ ((\E f \in File : Save(f)) \/ Tick \/ StopProgram) => WTypeOK'
<1> USE DEF WTypeOK, Where, Reason
<1>1. ASSUME WTypeOK, NEW f \in File, Save(f) PROVE WTypeOK'
  <2>1. queue' \in Seq(File) /\ Len(queue') <= QueueMax /\ excuses' \subseteq Reason
    <3>1. CASE Merged(f)
      BY <1>1, <3>1 DEF Save
    <3>2. CASE ~Merged(f) /\ Len(queue) < QueueMax
      <4>1. queue' = Append(queue, f) /\ excuses' = excuses
        BY <1>1, <3>2 DEF Save
      <4>2. Len(queue') = Len(queue) + 1 /\ queue' \in Seq(File)
        BY <1>1, <4>1
      <4> QED
        BY <1>1, <3>2, <4>1, <4>2
    <3>3. CASE ~Merged(f) /\ Len(queue) >= QueueMax
      <4>1. queue' = queue /\ excuses' = excuses \cup {"overflow"}
        BY <1>1, <3>3 DEF Save
      <4> QED
        BY <1>1, <4>1
    <3>4. Len(queue) \in Nat
      BY <1>1
    <3> QED
      BY <3>1, <3>2, <3>3, <3>4
  <2>2. version' \in 0..saves' /\ version' >= version /\ saves' \in 0..MaxSaves
    BY <1>1 DEF Save
  <2> QED
    BY <1>1, <2>1, <2>2 DEF Save
<1>2. WTypeOK /\ Tick => WTypeOK'
  BY DEF Tick
<1>3. WTypeOK /\ StopProgram => WTypeOK'
  BY DEF StopProgram
<1> QED
  BY <1>1, <1>2, <1>3

\* A step of the thread keeps the types.
LEMMA ListenerType == WTypeOK /\ Listener => WTypeOK'
<1> SUFFICES ASSUME WTypeOK, Listener PROVE WTypeOK'
  OBVIOUS
<1> USE DEF WTypeOK, Where, Reason, Goto, outside, HasMatch
<1>0. UNCHANGED outside
  BY DEF Listener
<1>1. CASE MainLoop
  BY <1>0, <1>1 DEF MainLoop
<1>2. CASE Read
  BY <1>0, <1>2 DEF Read
<1>3. CASE SelectReturns
  BY <1>0, <1>3 DEF SelectReturns
<1>4. CASE Refuse
  BY <1>0, <1>4 DEF Refuse
<1>5. CASE Accept
  BY <1>0, <1>5 DEF Accept
<1>6. CASE RebuildSucceeds
  BY <1>0, <1>6 DEF RebuildSucceeds
<1>7. CASE BuildAgain
  BY <1>0, <1>7 DEF BuildAgain
<1>8. CASE BuildSucceeds
  BY <1>0, <1>8 DEF BuildSucceeds
<1>9. CASE BuildFails
  BY <1>0, <1>9 DEF BuildFails
<1>10. CASE Relaunch
  <2>1. excuses' \subseteq Reason
    BY <1>10 DEF Relaunch
  <2> QED
    BY <1>0, <1>10, <2>1 DEF Relaunch
<1>11. CASE NextEvent
  BY <1>0, <1>11 DEF NextEvent
<1>12. CASE ListenReturns
  BY <1>0, <1>12 DEF ListenReturns
<1> QED
  BY <1>1, <1>2, <1>3, <1>4, <1>5, <1>6, <1>7, <1>8, <1>9, <1>10, <1>11, <1>12
     DEF Listener

\* Every variable always has its type; a build is always for a match that is
\* still in the buffer.
THEOREM WTypeCorrect == WSpec => []WTypeOK
<1>1. WTypeOK /\ UNCHANGED wvars => WTypeOK'
  BY DEF WTypeOK, wvars
<1>2. WTypeOK /\ [WNext]_wvars => WTypeOK'
  BY <1>1, EnvironmentType, ListenerType DEF WNext
<1> QED
  BY WInitType, <1>2, PTL DEF WSpec

-----------------------------------------------------------------------------
(* Why every change is accounted for.                                      *)

\* Some event from the given place of a sequence on is matched by a filter.
MatchFrom(events, n) == \E m \in n..Len(events) : Matches[events[m]] > 0

\* The newest version is running, or will be looked at, or has an excuse.
Covered ==
  \/ running = version
  \/ excuses # {}
  \/ MatchFrom(queue, 1)
  \/ MatchFrom(buffer, 2)
  \/ HasMatch
  \/ at \in {"rebuild", "halt"}
  \/ at \in {"build", "relaunch"} /\ seen = version

\* No change has been made yet.
LEMMA InitCovered == WInit => Covered
  BY DEF WInit, Covered

\* A save of a matched file leaves an event in the queue or an excuse.
LEMMA SaveCovered ==
  ASSUME WTypeOK, Covered, NEW f \in File, Save(f)
  PROVE  Covered'
<1> USE DEF WTypeOK, MatchFrom
<1>1. CASE Matches[f] = 0
  <2>1. UNCHANGED <<version, running, seen, at, buffer, k>>
    BY <1>1 DEF Save
  <2>2. excuses # {} => excuses' # {}
    BY DEF Save
  <2>3. MatchFrom(queue, 1) => MatchFrom(queue, 1)'
    <3>1. /\ Len(Append(queue, f)) = Len(queue) + 1 /\ Len(queue) \in Nat
          /\ \A m \in 1..Len(queue) : Append(queue, f)[m] = queue[m]
      BY AppendProperties
    <3>2. queue' = queue \/ queue' = Append(queue, f)
      BY DEF Save
    <3>3. ASSUME NEW m \in 1..Len(queue), Matches[queue[m]] > 0
          PROVE  MatchFrom(queue, 1)'
      <4>1. CASE queue' = queue
        BY <3>3, <4>1
      <4>2. CASE queue' = Append(queue, f)
        <5>1. m \in 1..Len(Append(queue, f)) /\ Append(queue, f)[m] = queue[m]
          BY <3>1
        <5> QED
          BY <3>3, <4>2, <5>1
      <4> QED
        BY <3>2, <4>1, <4>2
    <3> QED
      BY <3>3
  <2> QED
    BY <2>1, <2>2, <2>3 DEF Covered, HasMatch
<1>2. CASE Matches[f] > 0
  <2>1. CASE Merged(f)
    <3>1. MatchFrom(queue, 1)'
      BY <1>2, <2>1 DEF Save, Merged
    <3> QED
      BY <3>1 DEF Covered
  <2>2. CASE ~Merged(f) /\ Len(queue) < QueueMax
    <3>1. queue' = Append(queue, f)
      BY <2>2 DEF Save
    <3>2. Len(queue') = Len(queue) + 1 /\ queue'[Len(queue')] = f /\ Len(queue) \in Nat
      BY <3>1
    <3>3. MatchFrom(queue, 1)'
      BY <1>2, <3>2
    <3> QED
      BY <3>3 DEF Covered
  <2>3. CASE ~Merged(f) /\ ~(Len(queue) < QueueMax)
    BY <2>3 DEF Save, Covered
  <2> QED
    BY <2>1, <2>2, <2>3
<1> QED
  BY <1>1, <1>2

\* Splitting a sequence in two keeps every element.
LEMMA Split ==
  ASSUME NEW s \in Seq(File), NEW n \in 1..Len(s)
  PROVE  /\ SubSeq(s, 1, n) # <<>> /\ Head(SubSeq(s, 1, n)) = s[1]
         /\ Len(SubSeq(s, 1, n)) = n
         /\ \A m \in 1..n : SubSeq(s, 1, n)[m] = s[m]
         /\ Len(SubSeq(s, n + 1, Len(s))) = Len(s) - n
         /\ \A m \in 1..Len(s) - n : SubSeq(s, n + 1, Len(s))[m] = s[m + n]
<1>0. Len(s) \in Nat /\ \A m \in 1..Len(s) : s[m] \in File
  BY ElementOfSeq
<1>1. /\ SubSeq(s, 1, n) \in Seq(File) /\ Len(SubSeq(s, 1, n)) = n
      /\ \A m \in 1..n : SubSeq(s, 1, n)[m] = s[m]
  BY <1>0, SubSeqProperties
<1>2. /\ Len(SubSeq(s, n + 1, Len(s))) = Len(s) - n
      /\ \A m \in 1..Len(s) - n : SubSeq(s, n + 1, Len(s))[m] = s[m + n]
  <2>1. n \in Nat /\ n <= Len(s)
    BY <1>0
  <2>2. Len(SubSeq(s, n + 1, Len(s))) = Len(s) - n
    BY <1>0, <2>1
  <2>3. ASSUME NEW m \in 1..Len(s) - n PROVE SubSeq(s, n + 1, Len(s))[m] = s[m + n]
    BY <1>0, <2>1
  <2> QED
    BY <2>2, <2>3
<1>3. SubSeq(s, 1, n) # <<>> /\ Head(SubSeq(s, 1, n)) = SubSeq(s, 1, n)[1]
  <2>1. ASSUME NEW t \in Seq(File), Len(t) = n PROVE t # <<>> /\ Head(t) = t[1]
    BY <1>0, <2>1
  <2> QED
    BY <1>1, <2>1
<1>4. SubSeq(s, 1, n)[1] = s[1]
  BY <1>0, <1>1
<1> QED
  BY <1>1, <1>2, <1>3, <1>4, Zenon

\* read() moves the oldest events of the queue to the buffer and loses none.
LEMMA ReadCovered ==
  ASSUME WTypeOK, Covered, Read, UNCHANGED outside
  PROVE  Covered'
<1> USE DEF WTypeOK, MatchFrom
<1>0. Len(queue) \in Nat
  OBVIOUS
<1>1. PICK n \in 1..Len(queue) :
        buffer' = SubSeq(queue, 1, n) /\ queue' = SubSeq(queue, n + 1, Len(queue))
  <2> DEFINE n == IF Len(queue) < BufferMax THEN Len(queue) ELSE BufferMax
  <2>1. Len(queue) \in Nat \ {0}
    BY DEF Read
  <2>2. n \in 1..Len(queue)
    BY <2>1
  <2>3. buffer' = SubSeq(queue, 1, n) /\ queue' = SubSeq(queue, n + 1, Len(queue))
    BY DEF Read
  <2> QED
    BY <2>2, <2>3
<1>2. CASE MatchFrom(queue, 1)
  <2>1. PICK m \in 1..Len(queue) : Matches[queue[m]] > 0
    BY <1>2
  <2>2. CASE m = 1
    <3>1. buffer' # <<>> /\ Head(buffer') = queue[1]
      BY <1>1, Split
    <3> QED
      BY <2>1, <2>2, <3>1 DEF Read, Goto, Covered, HasMatch
  <2>3. CASE m \in 2..n
    <3>1. Len(buffer') = n /\ buffer'[m] = queue[m]
      BY <1>1, <2>3, Split
    <3> QED
      BY <2>1, <2>3, <3>1 DEF Covered
  <2>4. CASE m > n
    <3>1. PICK j \in 1..Len(queue) - n : m = j + n
      <4>1. m - n \in 1..Len(queue) - n /\ m = (m - n) + n
        BY <1>0, <2>4
      <4> QED
        BY <4>1
    <3>2. Len(queue') = Len(queue) - n /\ queue'[j] = queue[m]
      BY <1>1, <3>1, Split
    <3>3. MatchFrom(queue, 1)'
      BY <2>1, <3>1, <3>2
    <3> QED
      BY <3>3 DEF Covered
  <2> QED
    BY <1>0, <2>2, <2>3, <2>4
<1>3. CASE ~MatchFrom(queue, 1)
  <2>1. buffer = <<>> /\ at = "select" /\ UNCHANGED <<running, version, excuses>>
    BY DEF Read, outside
  <2>2. running = version \/ excuses # {}
    BY <1>3, <2>1 DEF Covered, HasMatch
  <2> QED
    BY <2>1, <2>2 DEF Covered
<1> QED
  BY <1>2, <1>3

\* Going on to the next event loses none: the first one has no match left.
LEMMA NextCovered ==
  ASSUME WTypeOK, Covered, NextEvent, UNCHANGED outside
  PROVE  Covered'
<1> USE DEF WTypeOK
<1>1. /\ buffer # <<>> /\ ~HasMatch /\ at = "buffer" /\ k' = 0 /\ buffer' = Tail(buffer)
      /\ UNCHANGED <<at, queue, seen, running, version, excuses>>
  BY DEF NextEvent, HasMatch, outside
<1>2. ASSUME MatchFrom(buffer, 2) PROVE HasMatch' \/ MatchFrom(buffer, 2)'
  <2>1. Len(buffer) \in Nat
    OBVIOUS
  <2>2. \E t \in Seq(File) :
          /\ t = Tail(buffer) /\ Len(t) = Len(buffer) - 1
          /\ \A n \in 1..Len(t) : t[n] = buffer[n + 1]
    <3>1. /\ Tail(buffer) \in Seq(File) /\ Len(Tail(buffer)) = Len(buffer) - 1
          /\ \A n \in 1..Len(Tail(buffer)) : Tail(buffer)[n] = buffer[n + 1]
      BY <1>1, HeadTailProperties
    <3> QED
      BY <3>1, Zenon
  <2>3. PICK t \in Seq(File) :
          /\ t = Tail(buffer) /\ Len(t) = Len(buffer) - 1
          /\ \A n \in 1..Len(t) : t[n] = buffer[n + 1]
    BY <2>2
  <2>4. PICK m \in 2..Len(buffer) : Matches[buffer[m]] > 0
    BY <1>2 DEF MatchFrom
  <2>5. m - 1 \in 1..Len(t) /\ t[m - 1] = buffer[m] /\ buffer' = t
    BY <1>1, <2>3, <2>1, <2>4
  <2>6. CASE m = 2
    <3>1. t # <<>> /\ Head(t) = t[1]
      BY <2>5
    <3>2. Matches[Head(buffer')] > 0 /\ buffer' # <<>>
      BY <2>4, <2>5, <2>6, <3>1
    <3> QED
      BY <1>1, <3>2 DEF HasMatch
  <2>7. CASE m # 2
    <3>1. m - 1 \in 2..Len(t)
      BY <2>2, <2>5, <2>7
    <3> QED
      BY <2>4, <2>5, <3>1 DEF MatchFrom
  <2> QED
    BY <2>6, <2>7
<1>3. MatchFrom(queue, 1) => MatchFrom(queue, 1)'
  BY <1>1 DEF MatchFrom
<1> QED
  BY <1>1, <1>2, <1>3 DEF Covered

\* The remaining steps of the thread leave queue and buffer alone.
LEMMA ListenerCovered == WTypeOK /\ Covered /\ Listener => Covered'
<1> SUFFICES ASSUME WTypeOK, Covered, Listener PROVE Covered'
  OBVIOUS
<1>0. UNCHANGED outside
  BY DEF Listener
<1>1. CASE Read \/ NextEvent
  BY <1>0, <1>1, ReadCovered, NextCovered
<1>2. CASE ~(Read \/ NextEvent)
  <2>1. UNCHANGED <<queue, buffer, version>>
    BY <1>0, <1>2 DEF Listener, MainLoop, SelectReturns, Refuse, Accept,
       RebuildSucceeds, BuildAgain, BuildSucceeds, BuildFails, Relaunch,
       ListenReturns, outside
  <2>2. /\ MatchFrom(queue, 1) => MatchFrom(queue, 1)'
        /\ MatchFrom(buffer, 2) => MatchFrom(buffer, 2)'
    BY <2>1 DEF MatchFrom
  <2> USE <2>1, <2>2 DEF Covered, HasMatch, Goto, WTypeOK
  <2>3. CASE MainLoop \/ SelectReturns \/ ListenReturns
    BY <2>3 DEF MainLoop, SelectReturns, ListenReturns
  <2>4. CASE Refuse \/ BuildFails
    BY <2>4 DEF Refuse, BuildFails
  <2>5. CASE Accept \/ RebuildSucceeds
    BY <2>5 DEF Accept, RebuildSucceeds
  <2>6. CASE BuildAgain \/ BuildSucceeds
    BY <2>6 DEF BuildAgain, BuildSucceeds
  <2>7. CASE Relaunch
    <3>1. CASE seen = version
      BY <2>7, <3>1 DEF Relaunch
    <3>2. CASE seen # version
      BY <2>7, <3>2 DEF Relaunch
    <3> QED
      BY <3>1, <3>2
  <2> QED
    BY <1>2, <2>3, <2>4, <2>5, <2>6, <2>7 DEF Listener
<1> QED
  BY <1>1, <1>2

\* A change goes without a relaunch only because the cooldown refused a match,
\* a build failed or inotify's queue was full, whenever the save happened.
THEOREM AccountedCorrect == WSpec => []Accounted
<1>1. WTypeOK /\ Covered /\ (Tick \/ StopProgram \/ UNCHANGED wvars) => Covered'
  BY DEF Covered, MatchFrom, HasMatch, Tick, StopProgram, wvars
<1>2. WTypeOK /\ Covered /\ [WNext]_wvars => Covered'
  BY <1>1, SaveCovered, ListenerCovered DEF WNext
<1>3. WTypeOK /\ Covered => Accounted
  <2> SUFFICES ASSUME WTypeOK, Covered, at \in {"main", "select"}, queue = <<>>,
                      running # version
               PROVE  excuses # {}
    BY DEF Accounted
  <2>1. buffer = <<>>
    BY DEF WTypeOK
  <2>2. ~MatchFrom(queue, 1) /\ ~MatchFrom(buffer, 2)
    BY <2>1 DEF MatchFrom
  <2> QED
    BY <2>1, <2>2 DEF Covered, HasMatch
<1> QED
  BY WTypeCorrect, InitCovered, <1>2, <1>3, PTL DEF WSpec

-----------------------------------------------------------------------------
(* Why one call of listen() ends.                                          *)

\* A smaller number decides when those before it are equal.
LEMMA Smaller ==
  ASSUME NEW a \in Nat, NEW b \in Nat, NEW c \in Nat, NEW d \in Nat,
         NEW p \in Nat, NEW q \in Nat, NEW r \in Nat, NEW s \in Nat,
         \/ a < p
         \/ a = p /\ b < q
         \/ a = p /\ b = q /\ c < r
         \/ a = p /\ b = q /\ c = r /\ d < s
  PROVE  Less(<<a, b, c, d>>, <<p, q, r, s>>)
<1> DEFINE l == <<a, b, c, d>>
           m == <<p, q, r, s>>
<1>1. /\ l[1] = a /\ l[2] = b /\ l[3] = c /\ l[4] = d
      /\ m[1] = p /\ m[2] = q /\ m[3] = r /\ m[4] = s
  OBVIOUS
<1> SUFFICES Less(l, m)
  OBVIOUS
<1> HIDE DEF l, m
<1>2. ASSUME NEW i \in 1..4, l[i] < m[i],
             \A j \in 1..4 : j < i => l[j] = m[j]
      PROVE  Less(l, m)
  <2>1. \A j \in 1..(i - 1) : l[j] = m[j]
    BY <1>2
  <2> QED
    BY <1>2, <2>1 DEF Less
<1>3. CASE a < p
  BY <1>1, <1>3, <1>2 DEF Less
<1>4. CASE a = p /\ b < q
  <2>1. \A j \in 1..4 : j < 2 => l[j] = m[j]
    BY <1>1, <1>4
  <2> QED
    BY <1>1, <1>2, <1>4, <2>1
<1>5. CASE a = p /\ b = q /\ c < r
  <2>1. \A j \in 1..4 : j < 3 => l[j] = m[j]
    BY <1>1, <1>5
  <2> QED
    BY <1>1, <1>2, <1>5, <2>1
<1>6. CASE a = p /\ b = q /\ c = r /\ d < s
  <2>1. \A j \in 1..4 : j < 4 => l[j] = m[j]
    BY <1>1, <1>6
  <2> QED
    BY <1>1, <1>2, <1>6, <2>1
<1> QED
  BY <1>3, <1>4, <1>5, <1>6

\* No more filters are tried for an event than match it.
LEMMA UntriedType ==
  ASSUME NEW events \in Seq(File), NEW tried \in Nat,
         events # <<>> => tried <= Matches[Head(events)]
  PROVE  (IF events = <<>> THEN 0 ELSE Matches[Head(events)] - tried) \in Nat
<1>1. CASE events = <<>>
  BY <1>1
<1>2. CASE events # <<>>
  <2>1. Head(events) \in File
    BY <1>2
  <2> QED
    BY <1>2, <2>1
<1> QED
  BY <1>1, <1>2

\* The ranks of the places.
LEMMA Ranks ==
  /\ Stage["main"] = 1 /\ Stage["select"] = 3 /\ Stage["done"] = 0
  /\ \A w \in {"buffer", "rebuild", "halt", "build", "relaunch"} : Stage[w] = 2
  /\ Statement["buffer"] = 4 /\ Statement["rebuild"] = 3 /\ Statement["halt"] = 2
  /\ Statement["build"] = 1 /\ Statement["relaunch"] = 0
  /\ \A w \in Where : Stage[w] \in Nat /\ Statement[w] \in Nat
  BY DEF Stage, Statement, Where

\* The four numbers are natural numbers, so that they cannot fall for ever.
LEMMA LeftType == WTypeOK => Left \in Nat \X Nat \X Nat \X Nat
<1> SUFFICES ASSUME WTypeOK PROVE Left \in Nat \X Nat \X Nat \X Nat
  OBVIOUS
<1>1. Stage[at] \in Nat /\ Statement[at] \in Nat
  BY Ranks DEF WTypeOK
<1>2. Len(buffer) \in Nat /\ Untried \in Nat
  BY UntriedType DEF WTypeOK, Untried
<1> QED
  BY <1>1, <1>2 DEF Left

\* Every step of the thread brings listen() nearer to its end.
LEMMA ListenerNearer ==
  ASSUME WTypeOK, WTypeOK', Listener
  PROVE  (at = "main" /\ gRunning) \/ Less(Left', Left)
<1>0. /\ Len(buffer) \in Nat /\ Untried \in Nat /\ Untried' \in Nat
      /\ k \in Nat /\ (buffer # <<>> => Matches[Head(buffer)] \in Nat)
      /\ Len(buffer') \in Nat
      /\ {Stage[at], Stage[at'], Statement[at], Statement[at']} \subseteq Nat
  <2>0. /\ Len(buffer') \in Nat
        /\ {Stage[at], Stage[at'], Statement[at], Statement[at']} \subseteq Nat
    <3>1. at \in Where /\ at' \in Where /\ buffer' \in Seq(File)
      BY DEF WTypeOK
    <3> QED
      BY <3>1, Ranks
  <2>1. Len(buffer) \in Nat /\ k \in Nat /\ (buffer # <<>> => Head(buffer) \in File)
    <3>1. buffer \in Seq(File) /\ k \in Nat
      BY DEF WTypeOK
    <3>2. ASSUME NEW s \in Seq(File), s # <<>> PROVE Head(s) \in File
      BY <3>2
    <3> QED
      BY <3>1, <3>2
  <2>2. Untried \in Nat /\ Untried' \in Nat
    <3>1. buffer \in Seq(File) /\ k \in Nat /\ (buffer # <<>> => k <= Matches[Head(buffer)])
      BY DEF WTypeOK
    <3>2. /\ buffer' \in Seq(File) /\ k' \in Nat
          /\ (buffer' # <<>> => k' <= Matches[Head(buffer')])
      BY DEF WTypeOK
    <3>3. Untried \in Nat
      BY <3>1, UntriedType DEF Untried
    <3>4. Untried' \in Nat
      BY <3>2, UntriedType DEF Untried
    <3> QED
      BY <3>3, <3>4
  <2> QED
    BY <2>0, <2>1, <2>2
<1>1. ASSUME \/ Stage[at'] < Stage[at]
             \/ Stage[at'] = Stage[at] /\ Len(buffer') < Len(buffer)
             \/ Stage[at'] = Stage[at] /\ buffer' = buffer /\ Untried' < Untried
             \/ Stage[at'] = Stage[at] /\ buffer' = buffer /\ Untried' = Untried
                  /\ Statement[at'] < Statement[at]
      PROVE  Less(Left', Left)
  BY <1>0, <1>1, Smaller DEF Left
<1> USE DEF Goto
<1>2. CASE MainLoop \/ Read \/ SelectReturns \/ ListenReturns
  <2>1. (at = "main" /\ gRunning) \/ Stage[at'] < Stage[at]
    <3>1. \/ at = "main" /\ gRunning
          \/ at = "main" /\ at' = "done"
          \/ at = "select" /\ at' \in {"buffer", "main"}
          \/ at = "buffer" /\ at' = "main"
      BY <1>2 DEF MainLoop, Read, SelectReturns, ListenReturns
    <3> QED
      BY <3>1, Ranks
  <2> QED
    BY <1>1, <2>1
<1>3. CASE Refuse \/ BuildFails \/ Relaunch
  <2>1. buffer # <<>> /\ buffer' = buffer /\ k' = k + 1
    BY <1>3 DEF Refuse, HasMatch, BuildFails, Relaunch, WTypeOK
  <2>2. Untried' < Untried
    BY <1>0, <2>1 DEF Untried
  <2>3. Stage[at'] = Stage[at]
    <3>1. at \in {"buffer", "rebuild", "build", "relaunch"} /\ at' = "buffer"
      BY <1>3 DEF Refuse, HasMatch, BuildFails, Relaunch
    <3> QED
      BY <3>1, Ranks
  <2> QED
    BY <1>1, <2>1, <2>2, <2>3
<1>4. CASE Accept \/ RebuildSucceeds \/ BuildAgain \/ BuildSucceeds
  <2>1. UNCHANGED <<buffer, k>>
    BY <1>4 DEF Accept, RebuildSucceeds, BuildAgain, BuildSucceeds
  <2>2. Untried' = Untried
    BY <2>1 DEF Untried
  <2>3. Stage[at'] = Stage[at] /\ Statement[at'] < Statement[at]
    <3>1. \/ at = "buffer" /\ at' = "rebuild"
          \/ at = "rebuild" /\ at' = "halt"
          \/ at = "halt" /\ at' = "build"
          \/ at = "build" /\ at' = "relaunch"
      BY <1>4 DEF Accept, HasMatch, RebuildSucceeds, BuildAgain, BuildSucceeds
    <3> QED
      BY <3>1, Ranks
  <2> QED
    BY <1>1, <2>1, <2>2, <2>3
<1>5. CASE NextEvent
  <2>1. Len(buffer') = Len(buffer) - 1 /\ at' = at
    <3>1. buffer \in Seq(File) /\ buffer # <<>>
      BY <1>5 DEF NextEvent, WTypeOK
    <3>2. ASSUME NEW s \in Seq(File), s # <<>> PROVE Len(Tail(s)) = Len(s) - 1
      BY <3>2
    <3> QED
      BY <1>5, <3>1, <3>2 DEF NextEvent
  <2> QED
    BY <1>0, <1>1, <2>1
<1> QED
  BY <1>2, <1>3, <1>4, <1>5 DEF Listener

\* One call of listen() ends, however many events, filters and failing builds
\* there are and whatever is saved meanwhile.
THEOREM ListenBoundedCorrect == WSpec => ListenBounded
<1>1. WTypeOK /\ WTypeOK' /\ [WNext]_wvars =>
        [IF Listener THEN (at = "main" /\ gRunning) \/ Less(Left', Left)
                     ELSE Left' = Left]_wvars
  <2>1. (\E f \in File : Save(f)) \/ Tick \/ StopProgram => Left' = Left
    BY DEF Save, Tick, StopProgram, Left, Untried
  <2> QED
    BY <2>1, ListenerNearer DEF WNext
<1> QED
  BY <1>1, WTypeCorrect, PTL DEF WSpec, ListenBounded
=============================================================================
