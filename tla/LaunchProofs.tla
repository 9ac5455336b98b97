---------------------------- MODULE LaunchProofs ----------------------------
(***************************************************************************)
(* What TLAPS proves of Launch and of the algorithms of Util, for commands,*)
(* filters and names of any length and any alphabet: how parseCommand()    *)
(* cuts, what strMatch() matches, that the child's loops stay within their *)
(* arrays, and what becomes of every message.                              *)
(***************************************************************************)
EXTENDS Launch, SequenceTheorems, FiniteSetTheorems, WellFoundedInduction, TLAPS

USE CharAssumption, LengthAssumption, LaunchAssumption

\* What a command is made of.
Char == Letter \cup {Space, Quote}

-----------------------------------------------------------------------------
(* Pieces of a text.                                                       *)

\* A piece may be anywhere in the text, and empty.
LEMMA Piece ==
  ASSUME NEW S, NEW s \in Seq(S), NEW a \in Nat, NEW b \in Nat, a <= b, b <= Len(s)
  PROVE  /\ SubSeq(s, a + 1, b) \in Seq(S) /\ Len(SubSeq(s, a + 1, b)) = b - a
         /\ \A n \in 1..b - a : SubSeq(s, a + 1, b)[n] = s[a + n]
<1>1. SubSeq(s, a + 1, b) \in Seq(S)
  OBVIOUS
<1>2. Len(SubSeq(s, a + 1, b)) = b - a
  OBVIOUS
<1>3. ASSUME NEW n \in 1..b - a PROVE SubSeq(s, a + 1, b)[n] = s[a + n]
  OBVIOUS
<1> QED
  BY <1>1, <1>2, <1>3

\* A piece with one more character.
LEMMA OneLonger ==
  ASSUME NEW S, NEW s \in Seq(S), NEW a \in Nat, NEW b \in Nat, a <= b, b < Len(s)
  PROVE  SubSeq(s, a + 1, b + 1) = Append(SubSeq(s, a + 1, b), s[b + 1])
<1> DEFINE l == SubSeq(s, a + 1, b + 1)
           r == Append(SubSeq(s, a + 1, b), s[b + 1])
<1>1. l \in Seq(S) /\ Len(l) = b + 1 - a /\ \A n \in 1..b + 1 - a : l[n] = s[a + n]
  BY Piece
<1>2. /\ r \in Seq(S) /\ Len(r) = b - a + 1
      /\ \A n \in 1..b - a : r[n] = s[a + n]
      /\ r[b - a + 1] = s[b + 1]
  <2> DEFINE t == SubSeq(s, a + 1, b)
  <2>1. t \in Seq(S) /\ Len(t) = b - a /\ \A n \in 1..b - a : t[n] = s[a + n]
    BY Piece
  <2>2. s[b + 1] \in S
    OBVIOUS
  <2> HIDE DEF t
  <2>3. ASSUME NEW e \in S PROVE /\ Append(t, e) \in Seq(S) /\ Len(Append(t, e)) = b - a + 1
                                /\ \A n \in 1..b - a : Append(t, e)[n] = s[a + n]
                                /\ Append(t, e)[b - a + 1] = e
    BY <2>1
  <2> QED
    BY <2>2, <2>3 DEF t
<1> HIDE DEF l, r
<1>3. Len(l) = Len(r) /\ \A n \in 1..Len(l) : l[n] = r[n]
  BY <1>1, <1>2
<1>4. l = r
  BY <1>1, <1>2, <1>3, SeqEqual
<1> QED
  BY <1>4 DEF l, r

\* A sequence with one more element, place by place.
LEMMA Appended ==
  ASSUME NEW S, NEW a \in Seq(S), NEW x \in S
  PROVE  /\ Append(a, x) \in Seq(S) /\ Append(a, x) # <<>>
         /\ Len(a) \in Nat /\ Len(Append(a, x)) = Len(a) + 1
         /\ DOMAIN Append(a, x) = 1..Len(a) + 1
         /\ Append(a, x)[Len(a) + 1] = x
         /\ \A n \in 1..Len(a) : Append(a, x)[n] = a[n]
OBVIOUS

-----------------------------------------------------------------------------
(* Joining arguments.                                                      *)

Joins(f, a) ==
  f = [n \in DOMAIN a |-> IF n = 1 THEN a[1] ELSE f[n - 1] \o <<Space>> \o a[n]]

\* Joined with spaces the arguments a are the text s, in one way and no other.
Says(a, s) == (\E f : Joins(f, a)) /\ \A f : Joins(f, a) => f[Len(a)] = s

\* One argument is the text it is.
LEMMA SaysOne ==
  ASSUME NEW S, NEW x \in Seq(S) PROVE Says(Append(<<>>, x), x)
<1>1. Append(<<>>, x) = <<x>> /\ Len(<<x>>) = 1 /\ DOMAIN <<x>> = 1..1 /\ <<x>>[1] = x
  OBVIOUS
<1>2. Joins([n \in 1..1 |-> x], <<x>>)
  BY <1>1 DEF Joins
<1>3. ASSUME NEW f, Joins(f, <<x>>) PROVE f[1] = x
  BY <1>1, <1>3 DEF Joins
<1> QED
  BY <1>1, <1>2, <1>3 DEF Says

\* One more argument comes behind a space.
LEMMA SaysMore ==
  ASSUME NEW S, NEW a \in Seq(Seq(S)), a # <<>>, NEW s \in Seq(S), Says(a, s), NEW x \in Seq(S)
  PROVE  Says(Append(a, x), s \o <<Space>> \o x)
<1> DEFINE b == Append(a, x)
           m == Len(a) + 1
<1>1. /\ Len(a) \in Nat \ {0} /\ DOMAIN a = 1..Len(a) /\ Len(b) = m /\ DOMAIN b = 1..m
      /\ b[m] = x /\ \A n \in 1..Len(a) : b[n] = a[n]
  OBVIOUS
<1>0. m # 1 /\ m \in 1..m /\ m - 1 \in 1..m /\ m - 1 # m /\ m - 1 = Len(a)
  <2>1. ASSUME NEW l \in Nat \ {0}
        PROVE  /\ l + 1 # 1 /\ l + 1 \in 1..l + 1 /\ (l + 1) - 1 \in 1..l + 1
               /\ (l + 1) - 1 # l + 1 /\ (l + 1) - 1 = l
    OBVIOUS
  <2> QED
    BY <1>1, <2>1, Zenon
<1> HIDE DEF b
<1>2. \E g : Joins(g, b)
  <2>1. PICK f : Joins(f, a)
    BY DEF Says
  <2> DEFINE g == [n \in 1..m |-> IF n = m THEN f[Len(a)] \o <<Space>> \o x ELSE f[n]]
             h == [n \in 1..m |-> IF n = 1 THEN b[1] ELSE g[n - 1] \o <<Space>> \o b[n]]
  <2>2. ASSUME NEW n \in 1..m PROVE g[n] = h[n]
    <3>1. CASE n = m
      <4>2. g[m] = f[Len(a)] \o <<Space>> \o x
        BY <1>0, Zenon
      <4>4. g[m - 1] = f[m - 1]
        BY <1>0, Zenon
      <4>3. h[m] = g[m - 1] \o <<Space>> \o b[m]
        BY <1>0, Zenon
      <4>5. b[m] = x /\ m - 1 = Len(a)
        BY <1>1
      <4> HIDE DEF g, h, m
      <4> QED
        BY <3>1, <4>2, <4>3, <4>4, <4>5
    <3>2. CASE n # m
      <4>1. n \in 1..Len(a) /\ g[n] = f[n] /\ b[n] = a[n]
        BY <1>1, <3>2
      <4>2. f[n] = IF n = 1 THEN a[1] ELSE f[n - 1] \o <<Space>> \o a[n]
        BY <1>1, <2>1, <4>1 DEF Joins
      <4>3. n # 1 => g[n - 1] = f[n - 1]
        BY <1>1, <4>1
      <4>4. h[n] = IF n = 1 THEN b[1] ELSE g[n - 1] \o <<Space>> \o b[n]
        BY <1>1
      <4>5. b[1] = a[1]
        BY <1>1
      <4> HIDE DEF g, h
      <4> QED
        BY <4>1, <4>2, <4>3, <4>4, <4>5
    <3> QED
      BY <3>1, <3>2
  <2>3. g = h
    BY <2>2, Zenon
  <2> HIDE DEF g
  <2>5. Joins(g, b)
    BY <1>1, <2>3 DEF Joins
  <2> QED
    BY <2>5
<1>3. ASSUME NEW g, Joins(g, b) PROVE g[m] = s \o <<Space>> \o x
  <2> DEFINE f == [n \in 1..Len(a) |-> g[n]]
             h == [n \in DOMAIN a |-> IF n = 1 THEN a[1] ELSE f[n - 1] \o <<Space>> \o a[n]]
  <2>1. \A n \in 1..m : g[n] = IF n = 1 THEN b[1] ELSE g[n - 1] \o <<Space>> \o b[n]
    BY <1>1, <1>3 DEF Joins
  <2>2. ASSUME NEW n \in 1..Len(a) PROVE f[n] = h[n]
    <3>1. f[n] = g[n] /\ (n # 1 => f[n - 1] = g[n - 1]) /\ b[n] = a[n] /\ b[1] = a[1]
      BY <1>1
    <3>2. h[n] = IF n = 1 THEN a[1] ELSE f[n - 1] \o <<Space>> \o a[n]
      BY <1>1
    <3>3. n \in 1..m
      BY <1>1
    <3>6. g[n] = IF n = 1 THEN b[1] ELSE g[n - 1] \o <<Space>> \o b[n]
      BY <2>1, <3>3, Zenon
    <3> HIDE DEF f, h
    <3>4. CASE n = 1
      BY <3>1, <3>2, <3>6, <3>4
    <3>5. CASE n # 1
      BY <3>1, <3>2, <3>6, <3>5
    <3> QED
      BY <3>4, <3>5
  <2>3. f = h
    BY <1>1, <2>2
  <2> HIDE DEF f
  <2>4. Joins(f, a)
    BY <2>3 DEF Joins
  <2>5. f[Len(a)] = s
    BY <2>4 DEF Says
  <2>6. g[Len(a)] = s
    BY <1>1, <2>5 DEF f
  <2>7. m # 1 /\ m \in 1..m /\ m - 1 = Len(a)
    BY <1>1
  <2> QED
    BY <1>1, <2>1, <2>6, <2>7
<1>4. \A f : Joins(f, b) => f[Len(b)] = s \o <<Space>> \o x
  BY <1>1, <1>3
<1>5. Says(b, s \o <<Space>> \o x)
  BY <1>2, <1>4 DEF Says
<1> QED
  BY <1>5 DEF b

-----------------------------------------------------------------------------
(* What is known of the arguments found so far, when the next one begins   *)
(* behind character p of the command c.                                    *)

\* The character before it is the space that ended the last one.
Cuts(c, p, a) ==
  IF p = 0 THEN a = <<>>
  ELSE a # <<>> /\ c[p] = Space /\ Says(a, SubSeq(c, 1, p - 1))

\* f[n] is where argument n + 1 begins.
Offsets(f, a) ==
  /\ f \in [0..Len(a) -> Nat] /\ f[0] = 0
  /\ \A n \in 1..Len(a) : f[n] = f[n - 1] + Len(a[n]) + 1
  /\ \A m, n \in 0..Len(a) : m <= n => f[m] + (n - m) <= f[n]

Measured(a, l) == \E f : Offsets(f, a) /\ f[Len(a)] = l

\* One more argument.
LEMMA CutsMore ==
  ASSUME NEW c \in Seq(Char), NEW p \in Nat, NEW q \in Nat, p <= q, q <= Len(c),
         NEW a \in Seq(Seq(Char)), Cuts(c, p, a)
  PROVE  Says(Append(a, SubSeq(c, p + 1, q)), SubSeq(c, 1, q))
<1> DEFINE x == SubSeq(c, p + 1, q)
           s == SubSeq(c, 1, p - 1)
           t == SubSeq(c, 1, q)
<1>1. x \in Seq(Char) /\ Len(x) = q - p /\ \A n \in 1..q - p : x[n] = c[p + n]
  BY Piece
<1>2. t \in Seq(Char) /\ Len(t) = q /\ \A n \in 1..q : t[n] = c[n]
  <2>1. ASSUME NEW n \in 1..q PROVE t[n] = c[n]
    OBVIOUS
  <2>2. t \in Seq(Char) /\ Len(t) = q
    OBVIOUS
  <2> QED
    BY <2>1, <2>2
<1>3. CASE p = 0
  <2>1. a = <<>> /\ x = t
    BY <1>3 DEF Cuts
  <2> HIDE DEF x, t
  <2>2. Says(Append(<<>>, t), t)
    BY <1>2, SaysOne
  <2> QED
    BY <2>1, <2>2 DEF x, t
<1>4. CASE p # 0
  <2>1. a # <<>> /\ c[p] = Space /\ Says(a, s)
    BY <1>4 DEF Cuts
  <2>2. s \in Seq(Char) /\ Len(s) = p - 1 /\ \A n \in 1..p - 1 : s[n] = c[n]
    <3>1. ASSUME NEW n \in 1..p - 1 PROVE s[n] = c[n]
      BY <1>4
    <3>2. s \in Seq(Char) /\ Len(s) = p - 1
      BY <1>4
    <3> QED
      BY <3>1, <3>2
  <2> HIDE DEF x, s, t
  <2>3. Space \in Char /\ <<Space>> \in Seq(Char) /\ Len(<<Space>>) = 1 /\ <<Space>>[1] = Space
    BY DEF Char
  <2>4. s \o <<Space>> \o x = t
    <3> DEFINE u == s \o <<Space>>
               v == u \o x
    <3>1. /\ u \in Seq(Char) /\ Len(u) = p /\ \A n \in 1..p : u[n] = c[n]
      <4>1. u \in Seq(Char) /\ Len(u) = (p - 1) + 1
        BY <2>2, <2>3
      <4>2. ASSUME NEW n \in 1..p - 1 PROVE u[n] = c[n]
        BY <1>4, <2>2, <2>3
      <4>3. u[p] = c[p]
        BY <1>4, <2>1, <2>2, <2>3
      <4> HIDE DEF u
      <4> QED
        BY <1>4, <4>1, <4>2, <4>3
    <3> HIDE DEF u
    <3>2. v \in Seq(Char) /\ Len(v) = q
      <4>1. v \in Seq(Char) /\ Len(v) = Len(u) + Len(x)
        BY <1>1, <3>1, ConcatProperties
      <4> HIDE DEF v
      <4> QED
        BY <1>1, <3>1, <4>1
    <3>6. v = u \o x
      OBVIOUS
    <3> HIDE DEF v
    <3>3. ASSUME NEW n \in 1..q PROVE v[n] = c[n]
      <4>1. CASE n <= p
        BY <1>1, <3>1, <3>6, <4>1
      <4>2. CASE n > p
        <5>3. n - p \in 1..q - p /\ n \in 1..Len(u) + Len(x) /\ ~(n <= Len(u)) /\ Len(u) = p
          BY <1>1, <3>1, <4>2
        <5>4. (u \o x)[n] = x[n - Len(u)]
          BY <1>1, <3>1, <5>3, ConcatProperties
        <5>1. n - p \in 1..q - p /\ v[n] = x[n - p]
          BY <3>6, <5>3, <5>4
        <5>2. x[n - p] = c[p + (n - p)] /\ p + (n - p) = n
          BY <1>1, <5>1
        <5> QED
          BY <5>1, <5>2
      <4> QED
        BY <4>1, <4>2
    <3>4. \A n \in 1..Len(v) : v[n] = t[n]
      BY <1>2, <3>2, <3>3
    <3>5. v = t
      BY <1>2, <3>2, <3>4, SeqEqual
    <3> QED
      BY <3>5 DEF u, v
  <2>5. Says(Append(a, x), s \o <<Space>> \o x)
    BY <1>1, <2>1, <2>2, <2>3, SaysMore
  <2> QED
    BY <2>4, <2>5 DEF x, t
<1> QED
  BY <1>3, <1>4

LEMMA MeasuredNone == Measured(<<>>, 0)
<1> DEFINE f == [n \in 0..0 |-> 0]
<1>1. Offsets(f, <<>>) /\ f[Len(<<>>)] = 0
  BY DEF Offsets
<1> QED
  BY <1>1 DEF Measured

\* One more argument moves the end by its length and a space.
LEMMA MeasuredMore ==
  ASSUME NEW S, NEW a \in Seq(Seq(S)), NEW l, Measured(a, l), NEW x \in Seq(S)
  PROVE  Measured(Append(a, x), l + Len(x) + 1)
<1> DEFINE b == Append(a, x)
<1>1. PICK f : Offsets(f, a) /\ f[Len(a)] = l
  BY DEF Measured
<1>2. PICK k \in Nat : k = Len(a)
  OBVIOUS
<1>3. PICK d \in Nat : d = Len(x)
  OBVIOUS
<1>4. Len(b) = k + 1 /\ b[k + 1] = x /\ \A n \in 1..k : b[n] = a[n]
  BY <1>2
<1> HIDE DEF b
<1>5. /\ f \in [0..k -> Nat] /\ f[0] = 0 /\ f[k] = l /\ l \in Nat
      /\ \A n \in 1..k : f[n] = f[n - 1] + Len(a[n]) + 1
      /\ \A m, n \in 0..k : m <= n => f[m] + (n - m) <= f[n]
  BY <1>1, <1>2 DEF Offsets
<1>12. PICK e \in Nat : e = l + d + 1
  BY <1>5
<1>6. PICK g \in [0..k + 1 -> Nat] : g[k + 1] = e /\ \A n \in 0..k : g[n] = f[n]
  <2> DEFINE h == [n \in 0..k + 1 |-> IF n = k + 1 THEN e ELSE f[n]]
  <2>1. f \in [0..k -> Nat]
    BY <1>5
  <2>2. ASSUME NEW n \in 0..k + 1 PROVE h[n] \in Nat
    <3>1. CASE n = k + 1
      BY <3>1
    <3>2. CASE n # k + 1
      BY <2>1, <3>2
    <3> QED
      BY <3>1, <3>2
  <2>3. h \in [0..k + 1 -> Nat]
    BY <2>2
  <2>4. ASSUME NEW n \in 0..k PROVE h[n] = f[n]
    OBVIOUS
  <2>5. h[k + 1] = e
    OBVIOUS
  <2> QED
    BY <2>3, <2>4, <2>5
<1>7. ASSUME NEW n \in 1..k + 1 PROVE g[n] = g[n - 1] + Len(b[n]) + 1
  <2>1. CASE n = k + 1
    <3>1. n - 1 = k /\ k \in 0..k
      BY <2>1
    <3>2. g[n - 1] = l
      BY <1>5, <1>6, <3>1
    <3>3. Len(b[n]) = d
      BY <1>3, <1>4, <2>1
    <3> QED
      BY <1>6, <1>12, <2>1, <3>2, <3>3
  <2>2. CASE n # k + 1
    <3>1. n \in 1..k /\ n \in 0..k /\ n - 1 \in 0..k
      BY <2>2
    <3> QED
      BY <1>4, <1>5, <1>6, <3>1
  <2> QED
    BY <2>1, <2>2
<1>8. ASSUME NEW m \in 0..k + 1, NEW n \in 0..k + 1, m <= n PROVE g[m] + (n - m) <= g[n]
  <2>1. CASE n = k + 1 /\ m # n
    <3>1. m \in 0..k /\ k \in 0..k /\ m <= k
      BY <2>1
    <3>2. f[m] + (k - m) <= l /\ g[m] = f[m] /\ f[m] \in Nat
      BY <1>5, <1>6, <3>1
    <3>3. g[n] = e
      BY <1>6, <2>1
    <3>4. ASSUME NEW u \in Nat, u + (k - m) <= l PROVE u + (n - m) <= e
      <4>1. l \in Nat
        BY <1>5
      <4> QED
        BY <1>8, <1>12, <2>1, <3>4, <4>1
    <3> QED
      BY <3>2, <3>3, <3>4
  <2>2. CASE n = m
    BY <1>6, <2>2
  <2>3. CASE n # k + 1
    <3>1. m \in 0..k /\ n \in 0..k
      BY <1>8, <2>3
    <3> QED
      BY <1>5, <1>6, <1>8, <3>1
  <2> QED
    BY <2>1, <2>2, <2>3
<1>9. g[0] = 0
  BY <1>5, <1>6
<1>10. Offsets(g, b)
  BY <1>4, <1>6, <1>7, <1>8, <1>9 DEF Offsets
<1>11. Measured(b, l + d + 1)
  BY <1>4, <1>6, <1>10, <1>12 DEF Measured
<1> QED
  BY <1>3, <1>11 DEF b

-----------------------------------------------------------------------------
(* Quotes and spaces.                                                      *)

\* The spaces of an argument that the loop looks at are in quotations.
Shielded(x, first) ==
  \A m \in Looks(x, first) : x[m] = Space => Odd({q \in Seen(x, first) : q < m})

\* One more character changes the parity of the quotes if it is one and is
\* looked at; the argument follows no space if k is 0.
LEMMA SeenMore ==
  ASSUME NEW s \in Seq(Char), NEW e \in Char, NEW k
  PROVE  Odd(Seen(Append(s, e), k = 0)) <=>
           (Odd(Seen(s, k = 0)) <=> ~(e = Quote /\ (k = 0 \/ s # <<>>)))
<1> DEFINE t == Append(s, e)
           l == Len(s) + 1
           S == Seen(s, k = 0)
           T == Seen(t, k = 0)
           new == e = Quote /\ (k = 0 \/ s # <<>>)
<1>1. /\ Len(s) \in Nat /\ DOMAIN s = 1..Len(s) /\ DOMAIN t = 1..l /\ t[l] = e
      /\ \A n \in 1..Len(s) : t[n] = s[n]
      /\ s # <<>> <=> l > 1
  OBVIOUS
<1>2. l \notin 1..Len(s) /\ 1..l = (1..Len(s)) \cup {l}
  BY <1>1
<1> HIDE DEF t, l
<1>3. IsFiniteSet(S) /\ l \notin S
  <2>1. S \subseteq 1..Len(s) /\ IsFiniteSet(1..Len(s))
    BY <1>1, FS_Interval DEF Seen, Looks
  <2> QED
    BY <1>2, <2>1, FS_Subset
<1>4. CASE new
  <2>1. T = S \cup {l}
    BY <1>1, <1>2, <1>4 DEF Seen, Looks
  <2>2. Cardinality(S) \in Nat /\ Cardinality(T) = Cardinality(S) + 1
    BY <1>3, <2>1, FS_AddElement, FS_CardinalityType
  <2>3. ASSUME NEW n \in Nat PROVE (n + 1) % 2 = 1 <=> ~(n % 2 = 1)
    OBVIOUS
  <2>4. Odd(T) <=> ~Odd(S)
    <3> HIDE DEF S, T
    <3> QED
      BY <2>2, <2>3 DEF Odd
  <2> HIDE DEF S, T
  <2> QED
    BY <1>4, <2>4 DEF t, S, T
<1>5. CASE ~new
  <2>1. T = S
    BY <1>1, <1>2, <1>5 DEF Seen, Looks
  <2> HIDE DEF S, T
  <2> QED
    BY <1>5, <2>1 DEF t, S, T
<1> QED
  BY <1>4, <1>5

\* One more character: a space only in a quotation, or where nobody looks.
LEMMA ShieldedMore ==
  ASSUME NEW s \in Seq(Char), NEW e \in Char, NEW k, Shielded(s, k = 0),
         e = Space => Odd(Seen(s, k = 0)) \/ (k # 0 /\ s = <<>>)
  PROVE  Shielded(Append(s, e), k = 0)
<1> DEFINE t == Append(s, e)
           l == Len(s) + 1
<1>1. /\ Len(s) \in Nat /\ DOMAIN s = 1..Len(s) /\ DOMAIN t = 1..l /\ t[l] = e
      /\ \A n \in 1..Len(s) : t[n] = s[n]
      /\ s = <<>> => l = 1
  OBVIOUS
<1>2. l \notin 1..Len(s) /\ 1..l = (1..Len(s)) \cup {l}
      /\ \A n \in 1..Len(s) : n < l /\ ~(l < n)
  BY <1>1
<1> HIDE DEF t, l
<1>3. ASSUME NEW m \in Looks(t, k = 0), t[m] = Space
      PROVE  Odd({q \in Seen(t, k = 0) : q < m})
  <2>1. CASE m = l
    <3>1. e = Space /\ ~(k # 0 /\ s = <<>>)
      BY <1>1, <1>3, <2>1 DEF Looks
    <3>2. {q \in Seen(t, k = 0) : q < m} = Seen(s, k = 0)
      BY <1>1, <1>2, <2>1 DEF Looks, Seen
    <3> QED
      BY <3>1, <3>2
  <2>2. CASE m # l
    <3>1. m \in 1..Len(s) /\ m \in Looks(s, k = 0) /\ s[m] = Space
      BY <1>1, <1>2, <1>3, <2>2 DEF Looks
    <3>2. {q \in Seen(t, k = 0) : q < m} = {q \in Seen(s, k = 0) : q < m}
      BY <1>1, <1>2, <3>1 DEF Looks, Seen
    <3> QED
      BY <3>1, <3>2 DEF Shielded
  <2> QED
    BY <2>1, <2>2
<1> QED
  BY <1>3 DEF Shielded, t

\* Nobody looks at the first character behind a space.
LEMMA Unseen ==
  ASSUME NEW x \in Seq(Char), NEW k, x = <<>> \/ (k # 0 /\ Len(x) = 1)
  PROVE  ~Odd(Seen(x, k = 0)) /\ Shielded(x, k = 0)
<1>1. Looks(x, k = 0) = {}
  BY DEF Looks
<1>2. Seen(x, k = 0) = {}
  BY <1>1 DEF Seen
<1>3. ~Odd({})
  BY FS_EmptySet DEF Odd
<1> QED
  BY <1>1, <1>2, <1>3 DEF Shielded

\* What parseCommand() knows about the t characters of the argument behind p:
\* q says whether it is in a quotation.
Looked(c, p, t, q) ==
  LET x == SubSeq(c, p + 1, p + t)
  IN (q <=> Odd(Seen(x, p = 0))) /\ Shielded(x, p = 0)

\* The arguments found so far are cut at spaces outside a quotation.
Good(a) ==
  \A n \in 1..Len(a) : ~Odd(Seen(a[n], n = 1)) /\ Shielded(a[n], n = 1)

\* What CutAtSpaces says of the arguments of a command.
Fine(a) ==
  \A n \in DOMAIN a :
    LET x == a[n] IN
      /\ n < Len(a) => ~Odd(Seen(x, n = 1))
      /\ \A m \in Looks(x, n = 1) :
           x[m] = Space => Odd({q \in Seen(x, n = 1) : q < m})

LEMMA LookedNone ==
  ASSUME NEW c \in Seq(Char), NEW p \in Nat, p <= Len(c) PROVE Looked(c, p, 0, FALSE)
<1>1. SubSeq(c, p + 1, p + 0) = <<>> /\ <<>> \in Seq(Char)
  OBVIOUS
<1> QED
  BY <1>1, Unseen DEF Looked

\* The first argument and no other begins where the command does.
LEMMA FirstArgument ==
  ASSUME NEW c, NEW p \in Nat, NEW a \in Seq(Seq(Char)), Cuts(c, p, a)
  PROVE  Len(a) + 1 = 1 <=> p = 0
BY DEF Cuts

\* An argument that ends outside a quotation is as good as those before it.
LEMMA GoodMore ==
  ASSUME NEW c \in Seq(Char), NEW p \in Nat, NEW q \in Nat, p <= q, q <= Len(c),
         NEW a \in Seq(Seq(Char)), Cuts(c, p, a), Good(a), Looked(c, p, q - p, FALSE)
  PROVE  Good(Append(a, SubSeq(c, p + 1, q)))
<1> DEFINE x == SubSeq(c, p + 1, q)
           b == Append(a, x)
           l == Len(a) + 1
<1>1. x \in Seq(Char)
  BY Piece
<1>2. /\ Len(a) \in Nat /\ Len(b) = l /\ b[l] = x /\ \A n \in 1..Len(a) : b[n] = a[n]
      /\ \A n \in 1..l : n # l => n \in 1..Len(a)
  <2> HIDE DEF x
  <2>1. /\ Len(a) \in Nat /\ Len(b) = l /\ b[l] = x
        /\ \A n \in 1..Len(a) : b[n] = a[n]
    BY <1>1, Appended
  <2> QED
    BY <2>1
<1>3. p + (q - p) = q
  OBVIOUS
<1>4. ~Odd(Seen(x, p = 0)) /\ Shielded(x, p = 0)
  BY <1>3 DEF Looked
<1> HIDE DEF x, b
<1>5. Seen(x, l = 1) = Seen(x, p = 0) /\ Looks(x, l = 1) = Looks(x, p = 0)
  <2>1. l = 1 <=> p = 0
    BY FirstArgument
  <2> QED
    BY <2>1 DEF Seen, Looks
<1>6. ~Odd(Seen(x, l = 1)) /\ Shielded(x, l = 1)
  BY <1>4, <1>5 DEF Shielded
<1>7. ASSUME NEW n \in 1..l PROVE ~Odd(Seen(b[n], n = 1)) /\ Shielded(b[n], n = 1)
  <2>1. CASE n = l
    BY <1>2, <1>6, <2>1
  <2>2. CASE n # l
    BY <1>2, <2>2 DEF Good
  <2> QED
    BY <2>1, <2>2
<1> QED
  BY <1>2, <1>7 DEF Good, b, x

\* The last argument may end in a quotation.
LEMMA FineLast ==
  ASSUME NEW c \in Seq(Char), NEW p \in Nat, p <= Len(c), NEW r \in BOOLEAN,
         NEW a \in Seq(Seq(Char)), Cuts(c, p, a), Good(a), Looked(c, p, Len(c) - p, r)
  PROVE  Fine(Append(a, SubSeq(c, p + 1, Len(c))))
<1> DEFINE x == SubSeq(c, p + 1, Len(c))
           b == Append(a, x)
           l == Len(a) + 1
<1>1. x \in Seq(Char)
  BY Piece
<1>2. /\ Len(a) \in Nat /\ Len(b) = l /\ b[l] = x /\ \A n \in 1..Len(a) : b[n] = a[n]
      /\ DOMAIN b = 1..l /\ \A n \in 1..l : n # l => n \in 1..Len(a)
  <2> HIDE DEF x
  <2>1. /\ Len(a) \in Nat /\ Len(b) = l /\ b[l] = x /\ DOMAIN b = 1..l
        /\ \A n \in 1..Len(a) : b[n] = a[n]
    BY <1>1, Appended
  <2> QED
    BY <2>1
<1>3. p + (Len(c) - p) = Len(c)
  OBVIOUS
<1>4. Shielded(x, p = 0)
  BY <1>3 DEF Looked
<1> HIDE DEF x, b
<1>5. Seen(x, l = 1) = Seen(x, p = 0) /\ Looks(x, l = 1) = Looks(x, p = 0)
  <2>1. l = 1 <=> p = 0
    BY FirstArgument
  <2> QED
    BY <2>1 DEF Seen, Looks
<1>6. Shielded(x, l = 1)
  BY <1>4, <1>5 DEF Shielded
<1>7. ASSUME NEW n \in 1..l
      PROVE  (n < l => ~Odd(Seen(b[n], n = 1))) /\ Shielded(b[n], n = 1)
  <2>1. CASE n = l
    BY <1>2, <1>6, <2>1
  <2>2. CASE n # l
    BY <1>2, <2>2 DEF Good
  <2> QED
    BY <2>1, <2>2
<1> QED
  BY <1>2, <1>7 DEF Fine, Shielded, b, x

\* One more character that does not end the argument is looked at.
LEMMA LookedMore ==
  ASSUME NEW c \in Seq(Char), NEW p \in Nat, NEW t \in Nat, p + t < Len(c), p = 0 \/ t > 0,
         NEW q \in BOOLEAN, Looked(c, p, t, q), ~(c[p + t + 1] = Space /\ ~q)
  PROVE  Looked(c, p, t + 1, IF c[p + t + 1] = Quote THEN ~q ELSE q)
<1> DEFINE e == c[p + t + 1]
           x == SubSeq(c, p + 1, p + t)
<1>1. e \in Char
  OBVIOUS
<1>2. x \in Seq(Char) /\ Len(x) = t /\ SubSeq(c, p + 1, p + (t + 1)) = Append(x, e)
  <2>1. p + (t + 1) = p + t + 1 /\ p + t \in Nat /\ p <= p + t /\ (p + t) - p = t
    OBVIOUS
  <2>2. x \in Seq(Char) /\ Len(x) = (p + t) - p
    BY <2>1, Piece
  <2>3. SubSeq(c, p + 1, p + t + 1) = Append(x, e)
    BY <2>1, OneLonger
  <2> QED
    BY <2>1, <2>2, <2>3
<1>3. (q <=> Odd(Seen(x, p = 0))) /\ Shielded(x, p = 0)
  BY DEF Looked
<1>4. p = 0 \/ x # <<>>
  BY <1>2
<1> HIDE DEF x
<1>5. Odd(Seen(Append(x, e), p = 0)) <=> (Odd(Seen(x, p = 0)) <=> e # Quote)
  <2>1. Odd(Seen(Append(x, e), p = 0)) <=>
           (Odd(Seen(x, p = 0)) <=> ~(e = Quote /\ (p = 0 \/ x # <<>>)))
    BY <1>1, <1>2, SeenMore
  <2> QED
    BY <1>4, <2>1, Zenon
<1>6. Shielded(Append(x, e), p = 0)
  <2>1. e = Space => Odd(Seen(x, p = 0))
    BY <1>3
  <2> QED
    BY <1>1, <1>2, <1>3, <2>1, ShieldedMore
<1>7. (IF e = Quote THEN ~q ELSE q) <=> Odd(Seen(Append(x, e), p = 0))
  <2> HIDE DEF e
  <2> QED
    BY <1>3, <1>5, Zenon
<1> QED
  BY <1>2, <1>6, <1>7 DEF Looked

\* Behind a space that has ended an argument the quotation is over, and the
\* first character is passed over.
LEMMA LookedSplit ==
  ASSUME NEW c \in Seq(Char), NEW b \in Nat, b > 0, b <= Len(c)
  PROVE  /\ Looked(c, b, 0, FALSE)
         /\ b < Len(c) => Looked(c, b, 1, FALSE)
<1>1. Looked(c, b, 0, FALSE)
  BY LookedNone
<1>2. ASSUME b < Len(c) PROVE Looked(c, b, 1, FALSE)
  <2> DEFINE x == SubSeq(c, b + 1, b + 1)
  <2>1. x \in Seq(Char) /\ Len(x) = 1
    <3>1. b <= b + 1 /\ b + 1 <= Len(c) /\ b + 1 \in Nat /\ (b + 1) - b = 1
      BY <1>2
    <3> QED
      BY <3>1, Piece
  <2> HIDE DEF x
  <2>2. ~Odd(Seen(x, b = 0)) /\ Shielded(x, b = 0)
    <3>1. b # 0
      OBVIOUS
    <3> QED
      BY <2>1, <3>1, Unseen, Zenon
  <2> QED
    BY <2>2 DEF Looked, x
<1> QED
  BY <1>1, <1>2

-----------------------------------------------------------------------------
(* The loop of parseCommand().                                             *)

\* Before its end: p, t, q and a are its position, tmppos, inQuote and args.
Loop(c, p, t, q, a) ==
  /\ IF c = <<>> THEN p = 0 /\ t = 0 ELSE p + t < Len(c)
  /\ p = 0 \/ t > 0
  /\ Cuts(c, p, a) /\ Measured(a, p) /\ Good(a) /\ Looked(c, p, t, q)

\* Behind its end.
Parsed(c, a) ==
  /\ IF c = <<>> THEN a = <<>> ELSE a # <<>> /\ Says(a, c) /\ Measured(a, Len(c) + 1)
  /\ Fine(a)

UInv ==
  /\ UTypeOK
  /\ at = "loop" => Loop(command, position, tmppos, inQuote, args)
  /\ at = "parsed" => Parsed(command, args)
  /\ at = "matched" => result = StrMatch(expression, str)

\* The argument that a space has ended.
LEMMA ParseSplit ==
  ASSUME NEW c \in Seq(Char), NEW p \in Nat, NEW t \in Nat, NEW a \in Seq(Seq(Char)),
         Loop(c, p, t, FALSE, a), p + t < Len(c), c[p + t + 1] = Space
  PROVE  LET x == SubSeq(c, p + 1, p + t)
         IN /\ x \in Seq(Char)
            /\ Cuts(c, p + t + 1, Append(a, x)) /\ Measured(Append(a, x), p + t + 1)
            /\ Good(Append(a, x))
<1> DEFINE x == SubSeq(c, p + 1, p + t)
<1>0. PICK q \in Nat : q = p + t
  OBVIOUS
<1>1. p <= q /\ q <= Len(c) /\ q - p = t
  BY <1>0
<1>2. x \in Seq(Char) /\ Len(x) = t
  BY <1>0, <1>1, Piece
<1>3. Says(Append(a, x), SubSeq(c, 1, q))
  BY <1>0, <1>1, CutsMore DEF Loop
<1>4. Good(Append(a, x))
  BY <1>0, <1>1, GoodMore DEF Loop
<1>5. Measured(Append(a, x), p + t + 1)
  BY <1>2, MeasuredMore DEF Loop
<1>6. Append(a, x) # <<>>
  <2>1. ASSUME NEW e \in Seq(Char) PROVE Append(a, e) # <<>>
    BY AppendProperties
  <2> QED
    BY <1>2, <2>1, Zenon
<1>7. p + t + 1 # 0 /\ (p + t + 1) - 1 = q
  BY <1>0
<1>8. Cuts(c, p + t + 1, Append(a, x))
  BY <1>3, <1>6, <1>7 DEF Cuts
<1> QED
  BY <1>2, <1>4, <1>5, <1>8

\* The last argument.
LEMMA ParseEnd ==
  ASSUME NEW c \in Seq(Char), c # <<>>, NEW p \in 0..Len(c), NEW q \in BOOLEAN,
         NEW a \in Seq(Seq(Char)), Cuts(c, p, a), Measured(a, p), Good(a),
         Looked(c, p, Len(c) - p, q)
  PROVE  LET x == SubSeq(c, p + 1, Len(c))
         IN x \in Seq(Char) /\ Parsed(c, Append(a, x))
<1> DEFINE x == SubSeq(c, p + 1, Len(c))
           b == Append(a, x)
<1>0. PICK l \in Nat : l = Len(c)
  OBVIOUS
<1>1. p \in Nat /\ p <= l /\ l <= Len(c) /\ l - p \in Nat
  BY <1>0
<1>2. x \in Seq(Char) /\ Len(x) = l - p
  BY <1>0, <1>1, Piece
<1>3. SubSeq(c, 1, l) = c
  BY <1>0
<1>4. Says(b, c)
  BY <1>0, <1>1, <1>3, CutsMore
<1>5. Measured(b, l + 1)
  <2>1. Measured(b, p + Len(x) + 1)
    BY <1>2, MeasuredMore
  <2>2. ASSUME NEW d, d = l - p PROVE p + d + 1 = l + 1
    BY <1>1, <2>2
  <2> QED
    BY <1>2, <2>1, <2>2
<1>6. b # <<>> /\ b \in Seq(Seq(Char))
  <2>1. ASSUME NEW e \in Seq(Char)
        PROVE  Append(a, e) # <<>> /\ Append(a, e) \in Seq(Seq(Char))
    BY Appended
  <2> QED
    BY <1>2, <2>1, Zenon
<1>7. Fine(b)
  BY <1>0, <1>1, FineLast
<1> QED
  BY <1>0, <1>2, <1>4, <1>5, <1>6, <1>7 DEF Parsed

LEMMA CommandText == ASSUME NEW c \in Command PROVE c \in Seq(Char)
<1>1. MaxCommand \in Nat
  OBVIOUS
<1>2. PICK m \in 0..MaxCommand : c \in [1..m -> Char]
  BY DEF Command, BoundedSeq, SeqOf, Char
<1> QED
  BY <1>1, <1>2

\* The invariant holds at the start of a call.
LEMMA UStarts == UInit => UInv
<1> SUFFICES ASSUME UInit PROVE UInv
  OBVIOUS
<1>1. position = 0 /\ tmppos = 0 /\ inQuote = FALSE /\ args = <<>> /\ result = FALSE
  BY DEF UInit
<1>2. command \in Seq(Char) /\ at \in {"loop", "match"}
  <2>1. <<>> \in Seq(Char)
    OBVIOUS
  <2> QED
    BY <2>1, CommandText DEF UInit
<1>3. <<>> \in Filter /\ <<>> \in File
  <2>1. <<>> \in [1..0 -> Letter \cup {Star}] /\ <<>> \in [1..0 -> Letter]
    OBVIOUS
  <2>2. 0 \in 0..MaxFilter /\ 0 \in 0..MaxName
    OBVIOUS
  <2> QED
    BY <2>1, <2>2 DEF Filter, File, BoundedSeq, SeqOf
<1>4. expression \in Filter /\ str \in File
  BY <1>3 DEF UInit
<1>5. Len(command) \in Nat /\ (command # <<>> => 0 < Len(command))
  BY <1>2
<1>6. UTypeOK
  <2>4. inQuote \in BOOLEAN /\ result \in BOOLEAN
    BY <1>1
  <2>5. position = 0 /\ tmppos = 0
    BY <1>1
  <2>1. position \in 0..Len(command) /\ tmppos \in Nat
    BY <1>5, <2>5
  <2>2. position < Len(command) => position + tmppos < Len(command)
    BY <1>5, <2>5
  <2>3. args \in Seq(Seq(Char))
    BY <1>1
  <2> QED
    BY <1>2, <1>4, <2>1, <2>2, <2>3, <2>4 DEF UTypeOK, Char
<1>7. Cuts(command, 0, <<>>) /\ Measured(<<>>, 0) /\ Good(<<>>) /\ Looked(command, 0, 0, FALSE)
  <2>1. Looked(command, 0, 0, FALSE)
    <3>1. 0 \in Nat /\ 0 <= Len(command)
      BY <1>5
    <3> QED
      BY <1>2, <3>1, LookedNone, Zenon
  <2>2. Good(<<>>)
    BY DEF Good
  <2> QED
    BY <2>1, <2>2, MeasuredNone, Zenon DEF Cuts
<1>8. Loop(command, position, tmppos, inQuote, args)
  <2>2. IF command = <<>> THEN 0 = 0 /\ 0 = 0 ELSE 0 + 0 < Len(command)
    BY <1>5
  <2>1. Loop(command, 0, 0, FALSE, <<>>)
    BY <1>7, <2>2, Zenon DEF Loop
  <2> QED
    BY <1>1, <2>1
<1> QED
  BY <1>2, <1>6, <1>8 DEF UInv

\* The types that the invariant contains, in the words of the lemmas.
LEMMA TextLoop ==
  ASSUME UInv
  PROVE  /\ command \in Seq(Char) /\ Len(command) \in Nat /\ position \in 0..Len(command)
         /\ position \in Nat /\ tmppos \in Nat /\ args \in Seq(Seq(Char)) /\ inQuote \in BOOLEAN
<1>1. command \in Seq(Char) /\ args \in Seq(Seq(Char))
  BY DEF UInv, UTypeOK, Char
<1> QED
  BY <1>1 DEF UInv, UTypeOK

\* The end of the loop's body.
LEMMA OnFromKeeps ==
  ASSUME UInv, at = "loop", position < Len(command), UNCHANGED <<command, matching>>,
         inQuote' \in BOOLEAN,
         NEW p \in 0..Len(command), NEW t \in Nat, t > 0, NEW a \in Seq(Seq(Char)), OnFrom(p, t, a),
         Cuts(command, p, a), Measured(a, p), Good(a),
         p + t <= Len(command) => Looked(command, p, t, inQuote'),
         p + t > Len(command) => Looked(command, p, Len(command) - p, inQuote')
  PROVE  UInv'
<1> DEFINE c == command
           x == SubSeq(c, p + 1, Len(c))
<1>1. c \in Seq(Char) /\ Len(c) \in Nat /\ c # <<>>
  <2>1. c \in Seq(Char) /\ Len(c) \in Nat /\ position \in Nat
    BY TextLoop
  <2> QED
    BY <2>1
<1>2. c' = c /\ expression' = expression /\ str' = str /\ result' = result /\ position' = p /\ tmppos' = t
  BY DEF OnFrom, matching
<1>3. expression \in Filter /\ str \in File /\ result \in BOOLEAN
  BY DEF UInv, UTypeOK
<1>4. CASE p + t >= Len(c)
  <2>1. at' = "parsed" /\ args' = Append(a, x)
    BY <1>4 DEF OnFrom
  <2>2. Looked(c, p, Len(c) - p, inQuote')
    <3>1. p + t <= Len(c) => t = Len(c) - p
      BY <1>1, <1>4
    <3>2. p + t <= Len(c) \/ p + t > Len(c)
      BY <1>1
    <3> QED
      BY <3>1, <3>2
  <2>3. x \in Seq(Char) /\ Parsed(c, Append(a, x))
    BY <1>1, <2>2, ParseEnd
  <2> HIDE DEF x
  <2>4. args' \in Seq(Seq(Char))
    BY <2>1, <2>3
  <2>5. UTypeOK'
    BY <1>1, <1>2, <1>3, <2>1, <2>4 DEF UTypeOK, Char
  <2> QED
    BY <1>2, <2>1, <2>3, <2>5 DEF UInv
<1>5. CASE ~(p + t >= Len(c))
  <2>1. at' = "loop" /\ args' = a
    BY <1>5 DEF OnFrom
  <2>2. p + t < Len(c)
    BY <1>1, <1>5
  <2>3. Loop(c, p, t, inQuote', a)
    BY <1>1, <2>2 DEF Loop
  <2>4. UTypeOK'
    BY <1>1, <1>2, <1>3, <2>1, <2>2 DEF UTypeOK, Char
  <2> QED
    BY <1>2, <2>1, <2>3, <2>4 DEF UInv
<1> QED
  BY <1>4, <1>5

\* A space outside a quotation.
LEMMA SplitKeeps ==
  ASSUME UInv, at = "loop", position < Len(command), Split, UNCHANGED <<command, matching>>
  PROVE  UInv'
<1> DEFINE c == command
           x == SubSeq(c, position + 1, position + tmppos)
           b == Append(args, x)
           p == position + tmppos + 1
<1>1. /\ c \in Seq(Char) /\ Len(c) \in Nat /\ position \in Nat /\ tmppos \in Nat
      /\ args \in Seq(Seq(Char)) /\ inQuote \in BOOLEAN
  BY TextLoop
<1>2. Loop(c, position, tmppos, inQuote, args) /\ c # <<>>
  BY <1>1 DEF UInv
<1>3. /\ position + tmppos < Len(c) /\ c[p] = Space /\ inQuote = FALSE /\ inQuote' = FALSE
      /\ OnFrom(p, 1, b)
  BY <1>1, <1>2 DEF Loop, Split, Splits, Current, Argument
<1>4. Loop(c, position, tmppos, FALSE, args)
  BY <1>2, <1>3
<1>5. x \in Seq(Char) /\ Cuts(c, p, b) /\ Measured(b, p) /\ Good(b)
  BY <1>1, <1>3, <1>4, ParseSplit
<1>7. b \in Seq(Seq(Char))
  <2> HIDE DEF x
  <2> QED
    BY <1>1, <1>5
<1>8. p \in 0..Len(c)
  BY <1>1, <1>3
<1>12. p > 0
  BY <1>1
<1> HIDE DEF b, p
<1>6. Looked(c, p, 0, FALSE) /\ (p < Len(c) => Looked(c, p, 1, FALSE))
  <2>1. p \in Nat /\ p <= Len(c)
    BY <1>1, <1>8
  <2> QED
    BY <1>1, <1>12, <2>1, LookedSplit
<1>11. inQuote' = FALSE /\ inQuote' \in BOOLEAN
  BY <1>3
<1>9. p + 1 <= Len(c) => Looked(c, p, 1, inQuote')
  <2>1. p + 1 <= Len(c) => p < Len(c)
    BY <1>1, <1>8
  <2> QED
    BY <1>6, <1>11, <2>1
<1>10. p + 1 > Len(c) => Looked(c, p, Len(c) - p, inQuote')
  <2>1. p + 1 > Len(c) => Len(c) - p = 0
    BY <1>1, <1>8
  <2> QED
    BY <1>3, <1>6, <2>1
<1> QED
  BY <1>3, <1>5, <1>7, <1>8, <1>9, <1>10, <1>11, OnFromKeeps

\* Any other character.
LEMMA ExtendKeeps ==
  ASSUME UInv, at = "loop", position < Len(command), Extend, UNCHANGED <<command, matching>>
  PROVE  UInv'
<1> DEFINE c == command
           t == tmppos + 1
<1>1. /\ c \in Seq(Char) /\ Len(c) \in Nat /\ position \in Nat /\ tmppos \in Nat
      /\ position \in 0..Len(c) /\ args \in Seq(Seq(Char)) /\ inQuote \in BOOLEAN
  BY TextLoop
<1>2. Loop(c, position, tmppos, inQuote, args) /\ c # <<>>
  BY <1>1 DEF UInv
<1>3. /\ position + tmppos < Len(c) /\ ~(c[position + tmppos + 1] = Space /\ ~inQuote)
      /\ inQuote' = IF c[position + tmppos + 1] = Quote THEN ~inQuote ELSE inQuote
      /\ OnFrom(position, t, args)
  BY <1>1, <1>2 DEF Loop, Extend, Splits, Current
<1>4. Looked(c, position, t, inQuote')
  BY <1>1, <1>2, <1>3, LookedMore DEF Loop
<1>5. inQuote' \in BOOLEAN
  BY <1>1, <1>3
<1>6. t \in Nat /\ t > 0 /\ ~(position + t > Len(c))
  BY <1>1, <1>3
<1> QED
  BY <1>1, <1>2, <1>3, <1>4, <1>5, <1>6, OnFromKeeps DEF Loop

LEMMA UKeeps == UInv /\ [UNext]_uvars => UInv'
<1> SUFFICES ASSUME UInv, [UNext]_uvars PROVE UInv'
  OBVIOUS
<1>1. CASE ParseStep
  BY <1>1, SplitKeeps, ExtendKeeps DEF ParseStep
<1>2. CASE ParseNothing
  <2>1. /\ at = "loop" /\ position >= Len(command) /\ at' = "parsed"
        /\ UNCHANGED <<command, position, tmppos, inQuote, args, expression, str, result>>
    BY <1>2 DEF ParseNothing, parsing, matching
  <2>2. command = <<>> /\ Cuts(command, position, args) /\ Good(args) /\ position = 0
    BY <2>1, TextLoop DEF UInv, Loop
  <2>3. args = <<>> /\ Fine(args)
    <3>1. args = <<>>
      BY <2>2 DEF Cuts
    <3> QED
      BY <3>1 DEF Fine
  <2>4. UTypeOK'
    BY <2>1 DEF UInv, UTypeOK
  <2>5. Parsed(command, args)'
    BY <2>1, <2>2, <2>3 DEF Parsed
  <2> QED
    BY <2>1, <2>4, <2>5 DEF UInv
<1>3. CASE Match
  <2>1. UTypeOK' /\ at' = "matched"
    BY <1>3 DEF Match, parsing, UInv, UTypeOK, StrMatch
  <2>2. (result = StrMatch(expression, str))'
    BY <1>3 DEF Match, StrMatch
  <2> QED
    BY <2>1, <2>2 DEF UInv
<1>4. CASE UNCHANGED uvars
  BY <1>4 DEF uvars, parsing, matching, UInv, UTypeOK, Loop, Parsed
<1> QED
  BY <1>1, <1>2, <1>3, <1>4 DEF UNext

\* The invariant of Util holds in Launch, which leaves the text alone.
LEMMA Reading == LSpec => []UInv
<1>1. LInit => UInv
  BY UStarts DEF LInit
<1>2. LNext => [UNext]_uvars
  BY DEF LNext, Earlier, Fork, ForkFailed, Forked, Peek, Failure, End, Born, CountArgument,
         Counted, CountBeyond, JoinArgument, Joined, Exec, NotRun, Exit, ProgramExits,
         Parent, Child, Quiet
<1>3. UInv /\ [LNext]_lvars => UInv'
  BY <1>2, UKeeps DEF lvars
<1> QED
  BY <1>1, <1>3, PTL DEF LSpec

\* Joined with single spaces the arguments that parseCommand() has cut are the
\* command again, for commands of any length.
THEOREM JoinCorrect == LSpec => []ArgumentsJoin
<1>1. UInv => ArgumentsJoin
  <2> SUFFICES ASSUME UInv, at = "parsed", command # <<>>
               PROVE  LET line[n \in DOMAIN args] ==
                            IF n = 1 THEN args[1] ELSE line[n - 1] \o <<Space>> \o args[n]
                      IN args # <<>> /\ command = line[Len(args)]
    BY DEF ArgumentsJoin
  <2> DEFINE line[n \in DOMAIN args] ==
               IF n = 1 THEN args[1] ELSE line[n - 1] \o <<Space>> \o args[n]
  <2>1. args # <<>> /\ Says(args, command)
    BY DEF UInv, Parsed
  <2>2. \E f : f = [n \in DOMAIN args |->
                     IF n = 1 THEN args[1] ELSE f[n - 1] \o <<Space>> \o args[n]]
    BY <2>1 DEF Says, Joins
  <2>3. line = [n \in DOMAIN args |->
                 IF n = 1 THEN args[1] ELSE line[n - 1] \o <<Space>> \o args[n]]
    BY <2>2
  <2> HIDE DEF line
  <2>4. command = line[Len(args)]
    BY <2>1, <2>3 DEF Says, Joins
  <2> QED
    BY <2>1, <2>4 DEF line
<1> QED
  BY <1>1, Reading, PTL

\* For commands of any length: parseCommand() cuts at exactly the spaces that it
\* looks at outside the quotations that it sees.
THEOREM CutCorrect == LSpec => []CutAtSpaces
<1>1. UInv => CutAtSpaces
  BY DEF UInv, Parsed, Fine, CutAtSpaces
<1> QED
  BY <1>1, Reading, PTL

-----------------------------------------------------------------------------
(* strMatch()                                                              *)

LEMMA SubSeqOf ==
  ASSUME NEW s, NEW u \in 0..Len(s), NEW v \in 0..Len(s)
  PROVE  SubSeq(s, u + 1, v) \in SubSeqs(s)
BY DEF SubSeqs

LEMMA SubSeqBounds ==
  ASSUME NEW s, NEW m \in SubSeqs(s)
  PROVE  \E u, v \in 0..Len(s) : m = SubSeq(s, u + 1, v)
BY DEF SubSeqs

\* A prefix and a suffix, place by place.
LEMMA PrefixMeans ==
  ASSUME NEW S, NEW x \in Seq(S), NEW s \in Seq(S)
  PROVE  IsPrefix(x, s) <=> Len(x) <= Len(s) /\ \A k \in 1..Len(x) : x[k] = s[k]
<1>1. SubSeq(x, 1, Len(x)) = x
  OBVIOUS
<1>2. ASSUME Len(x) <= Len(s)
      PROVE  SubSeq(s, 1, Len(x)) = x <=> \A k \in 1..Len(x) : x[k] = s[k]
  <2> DEFINE y == SubSeq(s, 1, Len(x))
  <2>1. y \in Seq(S) /\ Len(y) = Len(x)
    BY <1>2
  <2>2. ASSUME NEW k \in 1..Len(x) PROVE y[k] = s[k]
    BY <1>2
  <2> HIDE DEF y
  <2>3. ASSUME \A k \in 1..Len(x) : x[k] = s[k] PROVE y = x
    <3>1. \A k \in 1..Len(y) : y[k] = x[k]
      BY <2>1, <2>2, <2>3
    <3> QED
      BY <2>1, <3>1, SeqEqual
  <2> QED
    BY <2>2, <2>3 DEF y
<1> QED
  BY <1>1, <1>2 DEF IsPrefix

LEMMA SuffixMeans ==
  ASSUME NEW S, NEW x \in Seq(S), NEW s \in Seq(S)
  PROVE  IsSuffix(x, s) <=>
           Len(x) <= Len(s) /\ \A k \in 1..Len(x) : x[k] = s[Len(s) - Len(x) + k]
<1>1. ASSUME NEW u \in Seq(S)
      PROVE  /\ Reverse(u) \in Seq(S) /\ Len(Reverse(u)) = Len(u)
             /\ \A k \in 1..Len(u) : Reverse(u)[k] = u[Len(u) - k + 1]
  <2>1. ASSUME NEW k \in 1..Len(u) PROVE u[Len(u) - k + 1] \in S
    OBVIOUS
  <2>2. Reverse(u) \in [1..Len(u) -> S]
    BY <2>1 DEF Reverse
  <2>3. Reverse(u) \in Seq(S) /\ Len(Reverse(u)) = Len(u)
    BY <2>2
  <2> QED
    BY <2>3 DEF Reverse
<1>2. IsSuffix(x, s) <=>
        Len(x) <= Len(s) /\ \A k \in 1..Len(x) : Reverse(x)[k] = Reverse(s)[k]
  BY <1>1, PrefixMeans DEF IsSuffix
<1>3. PICK l \in Nat, h \in Nat : l = Len(x) /\ h = Len(s)
  OBVIOUS
<1>4. ASSUME l <= h
      PROVE  (\A k \in 1..l : Reverse(x)[k] = Reverse(s)[k]) <=>
             (\A k \in 1..l : x[k] = s[h - l + k])
  <2>1. ASSUME NEW k \in 1..l PROVE Reverse(x)[k] = x[l - k + 1] /\ Reverse(s)[k] = s[h - k + 1]
    <3>1. k \in 1..Len(x) /\ k \in 1..Len(s)
      BY <1>3, <1>4
    <3> QED
      BY <1>1, <1>3, <3>1
  <2>2. ASSUME NEW k \in 1..l
        PROVE  l - k + 1 \in 1..l /\ l - (l - k + 1) + 1 = k
               /\ h - (l - k + 1) + 1 = h - l + k /\ h - l + (l - k + 1) = h - k + 1
    OBVIOUS
  <2>3. ASSUME \A k \in 1..l : Reverse(x)[k] = Reverse(s)[k], NEW k \in 1..l
        PROVE  x[k] = s[h - l + k]
    <3>1. Reverse(x)[l - k + 1] = Reverse(s)[l - k + 1]
      BY <2>2, <2>3
    <3>2. Reverse(x)[l - k + 1] = x[l - (l - k + 1) + 1] /\ Reverse(s)[l - k + 1] = s[h - (l - k + 1) + 1]
      BY <2>1, <2>2
    <3> QED
      BY <2>2, <3>1, <3>2
  <2>4. ASSUME \A k \in 1..l : x[k] = s[h - l + k], NEW k \in 1..l
        PROVE  Reverse(x)[k] = Reverse(s)[k]
    <3>1. x[l - k + 1] = s[h - l + (l - k + 1)]
      BY <2>2, <2>4
    <3> QED
      BY <2>1, <2>2, <3>1
  <2> QED
    BY <2>3, <2>4
<1> QED
  BY <1>2, <1>3, <1>4

\* A text in two pieces.
LEMMA TwoPieces ==
  ASSUME NEW S, NEW x \in Seq(S), NEW y \in Seq(S),
         NEW a \in Nat, NEW b \in Nat, a = Len(x), b = Len(y)
  PROVE  /\ x \o y \in Seq(S) /\ Len(x \o y) = a + b
         /\ \A k \in 1..a : (x \o y)[k] = x[k]
         /\ \A k \in 1..b : (x \o y)[a + k] = y[k]
<1>1. x \o y \in Seq(S) /\ Len(x \o y) = a + b
  OBVIOUS
<1>2. ASSUME NEW k \in 1..a PROVE (x \o y)[k] = x[k]
  OBVIOUS
<1>3. ASSUME NEW k \in 1..b PROVE (x \o y)[a + k] = y[k]
  OBVIOUS
<1> QED
  BY <1>1, <1>2, <1>3

\* A text in two pieces that have its characters.
InTwo(x, y, s) ==
  /\ Len(s) = Len(x) + Len(y)
  /\ \A k \in 1..Len(x) : x[k] = s[k]
  /\ \A k \in 1..Len(y) : y[k] = s[Len(x) + k]

LEMMA TwoParts ==
  ASSUME NEW S, NEW x \in Seq(S), NEW y \in Seq(S), NEW s \in Seq(S), InTwo(x, y, s)
  PROVE  s = x \o y
<1> DEFINE t == x \o y
<1>0. PICK a \in Nat, b \in Nat : a = Len(x) /\ b = Len(y)
  OBVIOUS
<1>4. Len(s) = a + b
  BY <1>0 DEF InTwo
<1>5. (\A k \in 1..a : x[k] = s[k]) /\ \A k \in 1..b : y[k] = s[a + k]
  BY <1>0 DEF InTwo
<1>1. /\ t \in Seq(S) /\ Len(t) = a + b
      /\ \A k \in 1..a : t[k] = x[k]
      /\ \A k \in 1..b : t[a + k] = y[k]
  BY <1>0, TwoPieces
<1> HIDE DEF t
<1>2. ASSUME NEW k \in 1..Len(s) PROVE s[k] = t[k]
  <2>1. CASE k \in 1..a
    BY <1>1, <1>5, <2>1
  <2>2. CASE k \in a + 1..a + b
    <3>1. k - a \in 1..b /\ a + (k - a) = k
      BY <2>2
    <3>2. y[k - a] = s[a + (k - a)] /\ t[a + (k - a)] = y[k - a]
      BY <1>1, <1>5, <3>1
    <3> QED
      BY <3>1, <3>2
  <2> QED
    BY <1>4, <2>1, <2>2
<1>3. s = t
  BY <1>1, <1>2, <1>4, SeqEqual
<1> QED
  BY <1>3 DEF t

\* The text s is x, then y, then z.
InThree(x, y, z, s) ==
  /\ Len(s) = Len(x) + Len(y) + Len(z)
  /\ \A k \in 1..Len(x) : x[k] = s[k]
  /\ \A k \in 1..Len(y) : y[k] = s[Len(x) + k]
  /\ \A k \in 1..Len(z) : z[k] = s[Len(x) + Len(y) + k]

\* A text in three pieces, place by place.
LEMMA Pieces ==
  ASSUME NEW S, NEW x \in Seq(S), NEW y \in Seq(S), NEW z \in Seq(S), NEW s \in Seq(S)
  PROVE  s = x \o y \o z <=> InThree(x, y, z, s)
<1>0. PICK a \in Nat, b \in Nat, d \in Nat : a = Len(x) /\ b = Len(y) /\ d = Len(z)
  OBVIOUS
<1> DEFINE u == x \o y
           t == u \o z
<1>1. /\ u \in Seq(S) /\ Len(u) = a + b
      /\ \A k \in 1..a : u[k] = x[k]
      /\ \A k \in 1..b : u[a + k] = y[k]
  BY <1>0, TwoPieces
<1> HIDE DEF u
<1>2. /\ t \in Seq(S) /\ Len(t) = a + b + d
      /\ \A k \in 1..a + b : t[k] = u[k]
      /\ \A k \in 1..d : t[a + b + k] = z[k]
  <2>1. PICK w \in Nat : w = a + b
    OBVIOUS
  <2>2. u \in Seq(S) /\ w = Len(u)
    BY <1>1, <2>1
  <2>3. /\ t \in Seq(S) /\ Len(t) = w + d
        /\ \A k \in 1..w : t[k] = u[k]
        /\ \A k \in 1..d : t[w + k] = z[k]
    BY <1>0, <2>2, TwoPieces
  <2> HIDE DEF t
  <2> QED
    BY <2>1, <2>3
<1> HIDE DEF t
<1>3. /\ \A k \in 1..a : t[k] = x[k]
      /\ \A k \in 1..b : t[a + k] = y[k]
  <2>1. ASSUME NEW k \in 1..a PROVE k \in 1..a + b
    OBVIOUS
  <2>2. ASSUME NEW k \in 1..b PROVE a + k \in 1..a + b
    OBVIOUS
  <2> QED
    BY <1>1, <1>2, <2>1, <2>2
<1>4. ASSUME Len(s) = a + b + d, \A k \in 1..a : x[k] = s[k],
             \A k \in 1..b : y[k] = s[a + k], \A k \in 1..d : z[k] = s[a + b + k]
      PROVE  s = t
  <2>1. ASSUME NEW k \in 1..Len(s) PROVE s[k] = t[k]
    <3>1. CASE k \in 1..a
      BY <1>3, <1>4, <3>1
    <3>2. CASE k \in a + 1..a + b
      <4>1. k - a \in 1..b /\ a + (k - a) = k
        BY <3>2
      <4>2. y[k - a] = s[a + (k - a)] /\ t[a + (k - a)] = y[k - a]
        BY <1>3, <1>4, <4>1
      <4> QED
        BY <4>1, <4>2
    <3>3. CASE k \in a + b + 1..a + b + d
      <4>1. k - (a + b) \in 1..d /\ a + b + (k - (a + b)) = k
        BY <3>3
      <4>2. z[k - (a + b)] = s[a + b + (k - (a + b))] /\ t[a + b + (k - (a + b))] = z[k - (a + b)]
        BY <1>2, <1>4, <4>1
      <4> QED
        BY <4>1, <4>2
    <3> QED
      BY <1>4, <3>1, <3>2, <3>3
  <2> QED
    BY <1>2, <1>4, <2>1, SeqEqual
<1>5. ASSUME s = t
      PROVE  /\ Len(s) = a + b + d
             /\ \A k \in 1..a : x[k] = s[k]
             /\ \A k \in 1..b : y[k] = s[a + k]
             /\ \A k \in 1..d : z[k] = s[a + b + k]
  BY <1>2, <1>3, <1>5
<1>6. s = t <=> /\ Len(s) = a + b + d
                /\ \A k \in 1..a : x[k] = s[k]
                /\ \A k \in 1..b : y[k] = s[a + k]
                /\ \A k \in 1..d : z[k] = s[a + b + k]
  BY <1>4, <1>5
<1>7. s = t <=> InThree(x, y, z, s)
  BY <1>0, <1>6 DEF InThree
<1> QED
  BY <1>7 DEF t, u

\* The asterisks of a filter, and the last of them.
Stars(e) == {n \in DOMAIN e : e[n] = Star}

LastStar(e, n) == n \in Stars(e) /\ \A k \in Stars(e) : k <= n

LEMMA AsteriskOf ==
  ASSUME NEW e \in Seq(Letter \cup {Star})
  PROVE  /\ \A n \in 1..Len(e) : LastStar(e, n) => Asterisk(e) = n
         /\ Stars(e) = {} => Asterisk(e) = 0
<1> DEFINE I == Stars(e)
<1>3. I = {k \in 1..Len(e) : e[k] = Star}
  BY DEF Stars
<1>1. Asterisk(e) = IF I # {} THEN Max(I) ELSE 0
  BY <1>3 DEF Asterisk, SelectLastInSeq
<1>2. ASSUME NEW n \in 1..Len(e), LastStar(e, n) PROVE Max(I) = n
  <2>1. n \in I /\ (\A k \in I : k <= n) /\ I \subseteq 1..Len(e) /\ Len(e) \in Nat
    BY <1>2, <1>3 DEF LastStar
  <2> HIDE DEF I
  <2>2. ASSUME NEW m \in I, \A k \in I : m >= k PROVE m = n
    BY <2>1, <2>2
  <2>3. \A k \in I : n >= k
    BY <2>1
  <2> QED
    BY <2>1, <2>2, <2>3 DEF Max
<1>4. ASSUME NEW n \in 1..Len(e), LastStar(e, n) PROVE I # {}
  BY <1>4 DEF LastStar
<1> QED
  BY <1>1, <1>2, <1>4

\* A filter with its asterisk at n, where M is the length of the name.
LEMMA StarMatch ==
  ASSUME NEW e \in Seq(Letter \cup {Star}), NEW s \in Seq(Letter \cup {Star}),
         NEW n \in 1..Len(e), LastStar(e, n)
  PROVE  StrMatch(e, s) <=>
           \E m \in SubSeqs(s) :
             m # <<>> /\ s = SubSeq(e, 1, n - 1) \o m \o SubSeq(e, n + 1, Len(e))
<1> DEFINE S == Letter \cup {Star}
           B == SubSeq(e, 1, n - 1)
           A == SubSeq(e, n + 1, Len(e))
<1>1. PICK L \in Nat, M \in Nat, a \in Nat, d \in Nat :
        L = Len(e) /\ M = Len(s) /\ a = n - 1 /\ d = L - n
  OBVIOUS
<1>2. s \in Seq(S)
  OBVIOUS
<1>12. e # <<>>
  OBVIOUS
<1>3. B \in Seq(S) /\ Len(B) = a
  <2>1. 0 \in Nat /\ 0 <= a /\ a <= Len(e) /\ 0 + 1 = 1 /\ a = n - 1 /\ a - 0 = a
    BY <1>1
  <2>2. SubSeq(e, 0 + 1, a) \in Seq(S) /\ Len(SubSeq(e, 0 + 1, a)) = a - 0
    BY <2>1, Piece
  <2> QED
    BY <2>1, <2>2
<1>4. A \in Seq(S) /\ Len(A) = d
  <2>1. n \in Nat /\ n <= L /\ L <= Len(e)
    BY <1>1
  <2> QED
    BY <1>1, <2>1, Piece
<1>5. Before(e) = B /\ After(e) = A
  <2>1. Asterisk(e) = n /\ n # 0
    BY AsteriskOf
  <2> QED
    BY <2>1 DEF Before, After
<1> HIDE DEF B, A, S
<1>6. IsPrefix(B, s) <=> a <= M /\ \A k \in 1..a : B[k] = s[k]
  <2>2. B \in Seq(S)
    BY <1>3
  <2>1. IsPrefix(B, s) <=> Len(B) <= Len(s) /\ \A k \in 1..Len(B) : B[k] = s[k]
    BY <1>2, <2>2, PrefixMeans, SMTT(60)
  <2> QED
    BY <1>1, <1>3, <2>1
<1>7. IsSuffix(A, s) <=> d <= M /\ \A k \in 1..d : A[k] = s[M - d + k]
  <2>1. IsSuffix(A, s) <=>
          Len(A) <= Len(s) /\ \A k \in 1..Len(A) : A[k] = s[Len(s) - Len(A) + k]
    BY <1>2, <1>4, SuffixMeans
  <2> QED
    BY <1>1, <1>4, <2>1
<1>8. L = a + 1 + d
  BY <1>1
<1>9. StrMatch(e, s) <=>
        L <= M /\ (\A k \in 1..a : B[k] = s[k]) /\ (\A k \in 1..d : A[k] = s[M - d + k])
  <2>1. L <= M => s # <<>>
    BY <1>1, <1>8
  <2>2. L <= M => a <= M /\ d <= M
    BY <1>8
  <2>3. Longer(e, s) <=> ~(L <= M)
    BY <1>1 DEF Longer
  <2> QED
    BY <1>5, <1>6, <1>7, <1>12, <2>1, <2>2, <2>3 DEF StrMatch
<1>10. ASSUME StrMatch(e, s) PROVE \E m \in SubSeqs(s) : m # <<>> /\ s = B \o m \o A
  <2> DEFINE m == SubSeq(s, a + 1, M - d)
  <2>1. L <= M
    BY <1>9, <1>10
  <2>2. /\ M - d \in Nat /\ a <= M - d /\ M - d <= M /\ a \in 0..M /\ M - d \in 0..M
        /\ (M - d) - a > 0 /\ (M - d) - a \in Nat /\ a + ((M - d) - a) = M - d
        /\ a + ((M - d) - a) + d = M
    BY <1>8, <2>1
  <2>3. m \in SubSeqs(s)
    <3>1. a \in 0..Len(s) /\ M - d \in 0..Len(s)
      BY <1>1, <2>2
    <3> QED
      BY <3>1, SubSeqOf, Zenon
  <2>4. m \in Seq(S) /\ Len(m) = (M - d) - a /\ \A k \in 1..(M - d) - a : m[k] = s[a + k]
    BY <1>1, <1>2, <2>2, Piece
  <2> HIDE DEF m
  <2>5. m # <<>> /\ m \in Seq(S)
    BY <2>2, <2>4
  <2>6. PICK b \in Nat : b = (M - d) - a
    BY <2>2
  <2>7. Len(s) = a + b + d /\ a + b = M - d
    BY <1>1, <2>2, <2>6
  <2>8. \A k \in 1..d : A[k] = s[a + b + k]
    BY <1>9, <1>10, <2>7
  <2>9. \A k \in 1..a : B[k] = s[k]
    BY <1>9, <1>10
  <2>10. b = Len(m) /\ \A k \in 1..b : m[k] = s[a + k]
    BY <2>4, <2>6
  <2>12. a = Len(B) /\ d = Len(A) /\ b = Len(m)
    BY <1>3, <1>4, <2>10
  <2>13. B \in Seq(S) /\ A \in Seq(S) /\ m \in Seq(S)
    BY <1>3, <1>4, <2>5
  <2>14. /\ Len(s) = a + b + d
         /\ \A k \in 1..a : B[k] = s[k]
         /\ \A k \in 1..b : m[k] = s[a + k]
         /\ \A k \in 1..d : A[k] = s[a + b + k]
    BY <2>7, <2>8, <2>9, <2>10
  <2>15. InThree(B, m, A, s)
    BY <2>12, <2>14 DEF InThree
  <2>11. s = B \o m \o A
    BY <1>2, <2>13, <2>15, Pieces
  <2> QED
    BY <2>3, <2>5, <2>11
<1>11. ASSUME NEW m \in SubSeqs(s), m # <<>>, s = B \o m \o A PROVE StrMatch(e, s)
  <2>1. m \in Seq(S)
    <3>1. PICK u \in 0..Len(s), v \in 0..Len(s) : m = SubSeq(s, u + 1, v)
      BY SubSeqBounds
    <3> QED
      BY <1>2, <3>1
  <2>2. PICK b \in Nat : b = Len(m)
    BY <2>1
  <2>3. b # 0 /\ m \in Seq(S)
    BY <1>11, <2>1, <2>2
  <2>4. /\ Len(s) = a + b + d
        /\ \A k \in 1..a : B[k] = s[k]
        /\ \A k \in 1..d : A[k] = s[a + b + k]
    <3>1. a = Len(B) /\ b = Len(m) /\ d = Len(A)
      BY <1>3, <1>4, <2>2
    <3>2. B \in Seq(S) /\ A \in Seq(S) /\ m \in Seq(S)
      BY <1>3, <1>4, <2>3
    <3>3. s = B \o m \o A
      BY <1>11
    <3>4. InThree(B, m, A, s)
      BY <1>2, <3>2, <3>3, Pieces
    <3> QED
      BY <3>1, <3>4 DEF InThree
  <2>5. L <= M /\ M - d = a + b
    <3>1. M = a + b + d
      BY <1>1, <2>4
    <3> QED
      BY <1>8, <2>3, <3>1
  <2> QED
    BY <1>9, <2>4, <2>5
<1> QED
  BY <1>10, <1>11 DEF B, A

\* A text that begins with x, and one that ends with it.
LEMMA BeginsWith ==
  ASSUME NEW S, NEW x \in Seq(S), NEW s \in Seq(S)
  PROVE  IsPrefix(x, s) <=> \E m \in SubSeqs(s) : s = x \o m
<1>1. PICK a \in Nat, M \in Nat : a = Len(x) /\ M = Len(s)
  OBVIOUS
<1>2. IsPrefix(x, s) <=> a <= M /\ \A k \in 1..a : x[k] = s[k]
  BY <1>1, PrefixMeans
<1>3. ASSUME IsPrefix(x, s) PROVE \E m \in SubSeqs(s) : s = x \o m
  <2> DEFINE m == SubSeq(s, a + 1, M)
  <2>1. m \in SubSeqs(s)
    BY <1>1, <1>2, <1>3, SubSeqOf
  <2>2. m \in Seq(S) /\ Len(m) = M - a /\ \A k \in 1..M - a : m[k] = s[a + k]
    BY <1>1, <1>2, <1>3, Piece
  <2> HIDE DEF m
  <2>3. PICK b \in Nat : b = M - a
    BY <1>2, <1>3
  <2>4. s = x \o m
    <3>1. InTwo(x, m, s)
      BY <1>1, <1>2, <1>3, <2>2, <2>3 DEF InTwo
    <3> QED
      BY <2>2, <3>1, TwoParts, Zenon
  <2> QED
    BY <2>1, <2>4
<1>4. ASSUME NEW m \in SubSeqs(s), s = x \o m PROVE IsPrefix(x, s)
  <2>1. PICK u \in 0..Len(s), v \in 0..Len(s) : m = SubSeq(s, u + 1, v)
    BY SubSeqBounds
  <2>2. m \in Seq(S)
    BY <2>1
  <2>3. PICK b \in Nat : b = Len(m)
    BY <2>2
  <2>4. Len(s) = a + b /\ \A k \in 1..a : s[k] = x[k]
    BY <1>1, <1>4, <2>2, <2>3, TwoPieces
  <2> QED
    BY <1>1, <1>2, <2>4
<1> QED
  BY <1>3, <1>4

LEMMA EndsWith ==
  ASSUME NEW S, NEW x \in Seq(S), NEW s \in Seq(S)
  PROVE  IsSuffix(x, s) <=> \E m \in SubSeqs(s) : s = m \o x
<1>1. PICK a \in Nat, M \in Nat : a = Len(x) /\ M = Len(s)
  OBVIOUS
<1>2. IsSuffix(x, s) <=> a <= M /\ \A k \in 1..a : x[k] = s[M - a + k]
  BY <1>1, SuffixMeans
<1>3. ASSUME IsSuffix(x, s) PROVE \E m \in SubSeqs(s) : s = m \o x
  <2>3. PICK b \in Nat : b = M - a
    BY <1>2, <1>3
  <2> DEFINE m == SubSeq(s, 0 + 1, b)
  <2>5. b <= M /\ 0 \in 0..Len(s) /\ b \in 0..Len(s) /\ 0 \in Nat /\ 0 <= b /\ b - 0 = b
    BY <1>1, <2>3
  <2>1. m \in SubSeqs(s)
    BY <2>5, SubSeqOf, Zenon
  <2>2. m \in Seq(S) /\ Len(m) = b /\ \A k \in 1..b : m[k] = s[k]
    <3>1. m \in Seq(S) /\ Len(m) = b - 0 /\ \A k \in 1..b - 0 : m[k] = s[0 + k]
      BY <1>1, <2>5, Piece
    <3> QED
      BY <3>1
  <2> HIDE DEF m
  <2>6. Len(s) = b + a /\ \A k \in 1..a : x[k] = s[b + k]
    BY <1>1, <1>2, <1>3, <2>3
  <2>4. s = m \o x
    <3>1. InTwo(m, x, s)
      BY <1>1, <2>2, <2>6 DEF InTwo
    <3> QED
      BY <2>2, <3>1, TwoParts, Zenon
  <2> QED
    BY <2>1, <2>4
<1>4. ASSUME NEW m \in SubSeqs(s), s = m \o x PROVE IsSuffix(x, s)
  <2>1. PICK u \in 0..Len(s), v \in 0..Len(s) : m = SubSeq(s, u + 1, v)
    BY SubSeqBounds
  <2>2. m \in Seq(S)
    BY <2>1
  <2>3. PICK b \in Nat : b = Len(m)
    BY <2>2
  <2>4. Len(s) = b + a /\ \A k \in 1..a : s[b + k] = x[k]
    BY <1>1, <1>4, <2>2, <2>3, TwoPieces
  <2>5. M - a = b /\ a <= M
    BY <1>1, <2>4
  <2> QED
    BY <1>2, <2>4, <2>5
<1> QED
  BY <1>3, <1>4

\* A filter without an asterisk is looked for at both ends of the name.
LEMMA PlainMatch ==
  ASSUME NEW e \in Seq(Letter \cup {Star}), NEW s \in Seq(Letter \cup {Star}), Stars(e) = {}
  PROVE  StrMatch(e, s) <=> /\ e # <<>>
                            /\ \E m \in SubSeqs(s) : s = e \o m
                            /\ \E m \in SubSeqs(s) : s = m \o e
<1>1. Before(e) = e /\ After(e) = e
  <2>1. Asterisk(e) = 0
    BY AsteriskOf
  <2>2. SubSeq(e, 0 + 1, Len(e)) = e
    OBVIOUS
  <2> QED
    BY <2>1, <2>2 DEF Before, After
<1>2. IsPrefix(e, s) => Len(e) <= Len(s)
  BY PrefixMeans
<1>3. Len(e) <= Len(s) /\ e # <<>> => s # <<>> /\ ~Longer(e, s)
  BY DEF Longer
<1>4. IsPrefix(e, s) <=> \E m \in SubSeqs(s) : s = e \o m
  BY BeginsWith
<1>5. IsSuffix(e, s) <=> \E m \in SubSeqs(s) : s = m \o e
  BY EndsWith
<1> QED
  BY <1>1, <1>2, <1>3, <1>4, <1>5 DEF StrMatch

LEMMA FilterText ==
  ASSUME UInv
  PROVE  expression \in Seq(Letter \cup {Star}) /\ str \in Seq(Letter \cup {Star})
<1>1. expression \in Filter /\ str \in File /\ MaxFilter \in Nat /\ MaxName \in Nat
  BY DEF UInv, UTypeOK
<1>2. PICK m \in 0..MaxFilter : expression \in [1..m -> Letter \cup {Star}]
  BY <1>1 DEF Filter, BoundedSeq, SeqOf
<1>3. PICK n \in 0..MaxName : str \in [1..n -> Letter \cup {Star}]
  BY <1>1 DEF File, BoundedSeq, SeqOf
<1> QED
  BY <1>1, <1>2, <1>3

\* For all filters and names: strMatch() takes the last asterisk for one or more
\* characters and any other for itself, and a filter without one for what the
\* name begins and ends with.
THEOREM FilterCorrect == LSpec => []FilterMeaning
<1>1. UInv => FilterMeaning
  <2> SUFFICES ASSUME UInv, at = "matched" PROVE FilterMeaning
    BY DEF FilterMeaning
  <2> DEFINE stars == {n \in DOMAIN expression : expression[n] = Star}
  <2>1. /\ expression \in Seq(Letter \cup {Star}) /\ str \in Seq(Letter \cup {Star})
        /\ result = StrMatch(expression, str)
    BY FilterText DEF UInv
  <2>2. stars \subseteq 1..Len(expression) /\ stars = Stars(expression)
    BY <2>1 DEF Stars
  <2> HIDE DEF stars
  <2>3. ASSUME NEW n \in stars, \A k \in stars : k <= n
        PROVE  result <=> \E m \in SubSeqs(str) :
                 /\ m # <<>>
                 /\ str = SubSeq(expression, 1, n - 1) \o m
                          \o SubSeq(expression, n + 1, Len(expression))
    <3>1. LastStar(expression, n) /\ n \in 1..Len(expression)
      BY <2>2, <2>3 DEF LastStar
    <3> QED
      BY <2>1, <3>1, StarMatch
  <2>4. ASSUME stars = {}
        PROVE  result <=> /\ expression # <<>>
                          /\ \E m \in SubSeqs(str) : str = expression \o m
                          /\ \E m \in SubSeqs(str) : str = m \o expression
    BY <2>1, <2>2, <2>4, PlainMatch
  <2> QED
    BY <2>3, <2>4 DEF FilterMeaning, stars
<1> QED
  BY <1>1, Reading, PTL

-----------------------------------------------------------------------------
(* The child's two loops over its arguments.                               *)

Started == child \notin {"none", "born"}

\* Where the two processes are.
Ready ==
  /\ logger \in {"terminal", "pipe", "file"}
  /\ parent \in ParentPoint /\ child \in ChildPoint
  /\ parent # "log" => at = "parsed" /\ Len(command) <= MaxLaunch
  /\ parent \in {"log", "run", "noFork", "errno"} => child = "none"
  /\ parent \in {"forked", "peek", "failure", "true"} => child # "none"

\* What has been counted is the distance of two arguments in the command, and
\* so is what has been copied.
Fits ==
  /\ ~Started => i = 0 /\ size = 0 /\ filled = 0
  /\ Started /\ args = <<>> => i = 1 /\ size = 0 /\ filled = 0 /\ child # "join"
  /\ Started /\ args # <<>> =>
       /\ i \in 1..Len(args)
       /\ \A f : Offsets(f, args) =>
            /\ child = "count" => size = f[i] - f[1] /\ filled = 0
            /\ child # "count" => size = f[Len(args)] - f[1] /\ filled = f[i] - f[1]

LEMMA ReadyStarts == LInit => Ready /\ Fits
BY DEF LInit, Ready, Fits, Started, ParentPoint, ChildPoint

LEMMA ReadyKeeps == Ready /\ [LNext]_lvars => Ready'
<1> SUFFICES ASSUME Ready, [LNext]_lvars PROVE Ready'
  OBVIOUS
<1> USE DEF Ready, ParentPoint, ChildPoint
<1>1. CASE UNext /\ UNCHANGED <<logger, parent, child, local, buffer, shown>>
  <2>1. parent = "log" => Ready'
    BY <1>1
  <2>2. at # "parsed"
    BY <1>1 DEF UNext, ParseStep, ParseNothing, Match
  <2> QED
    BY <2>1, <2>2
<1>2. CASE Earlier
  BY <1>2 DEF Earlier, Parent, uvars, parsing
<1>3. CASE Fork
  BY <1>3 DEF Fork, Parent, uvars, parsing
<1>4. CASE ForkFailed
  BY <1>4 DEF ForkFailed, Parent, uvars, parsing
<1>5. CASE Forked
  BY <1>5 DEF Forked, Parent, uvars, parsing
<1>6. CASE Peek
  BY <1>6 DEF Peek, Parent, uvars, parsing
<1>7. CASE Failure
  BY <1>7 DEF Failure, Parent, uvars, parsing
<1>8. CASE End
  BY <1>8 DEF End, Parent, uvars, parsing
<1>9. CASE Born
  BY <1>9 DEF Born, Child, uvars, parsing
<1>10. CASE CountArgument
  BY <1>10 DEF CountArgument, Child, uvars, parsing
<1>11. CASE Counted
  BY <1>11 DEF Counted, Child, uvars, parsing
<1>12. CASE CountBeyond
  BY <1>12 DEF CountBeyond, Child, uvars, parsing
<1>13. CASE JoinArgument
  BY <1>13 DEF JoinArgument, Child, uvars, parsing
<1>14. CASE Joined
  BY <1>14 DEF Joined, Child, uvars, parsing
<1>15. CASE Exec
  BY <1>15 DEF Exec, Child, uvars, parsing
<1>16. CASE NotRun \/ Exit
  BY <1>16 DEF NotRun, Exit, Child, uvars, parsing
<1>17. CASE ProgramExits
  BY <1>17 DEF ProgramExits, Child, uvars, parsing
<1>18. CASE UNCHANGED lvars
  BY <1>18 DEF lvars, uvars, parsing
<1> QED
  BY <1>1, <1>2, <1>3, <1>4, <1>5, <1>6, <1>7, <1>8, <1>9, <1>10, <1>11, <1>12, <1>13,
     <1>14, <1>15, <1>16, <1>17, <1>18 DEF LNext

\* A loop over the arguments goes on.
LEMMA NextArgument ==
  ASSUME NEW a \in Seq(Seq(Char)), NEW f, Offsets(f, a), NEW n \in 1..Len(a), n < Len(a)
  PROVE  /\ f[n + 1] - f[1] = (f[n] - f[1]) + Len(a[n + 1]) + 1
         /\ f[n] \in Nat /\ f[1] \in Nat /\ f[Len(a)] \in Nat
<1>1. /\ n + 1 \in 1..Len(a) /\ (n + 1) - 1 = n /\ n \in 0..Len(a) /\ 1 \in 0..Len(a)
      /\ Len(a) \in 0..Len(a) /\ n + 1 \in 0..Len(a)
  OBVIOUS
<1>2. f[n] \in Nat /\ f[1] \in Nat /\ f[Len(a)] \in Nat /\ f[n + 1] \in Nat
  BY <1>1 DEF Offsets
<1>3. f[n + 1] = f[n] + Len(a[n + 1]) + 1
  BY <1>1 DEF Offsets
<1>4. Len(a[n + 1]) \in Nat
  BY <1>1
<1>5. PICK u \in Nat, v \in Nat, w \in Nat, d \in Nat :
        u = f[1] /\ v = f[n] /\ w = f[n + 1] /\ d = Len(a[n + 1])
  BY <1>2, <1>4
<1>6. w = v + d + 1
  BY <1>3, <1>5
<1>7. w - u = (v - u) + d + 1
  BY <1>6
<1> QED
  BY <1>2, <1>5, <1>7

\* Every step of either loop keeps the distances.
LEMMA FitsKeeps == UInv /\ Ready /\ Fits /\ [LNext]_lvars => Fits'
<1> SUFFICES ASSUME UInv, Ready, Fits, [LNext]_lvars PROVE Fits'
  OBVIOUS
<1>0. args \in Seq(Seq(Char)) /\ Len(args) \in Nat /\ (args # <<>> => 1 \in 1..Len(args))
  <2>1. args \in Seq(Seq(Char))
    BY TextLoop
  <2> QED
    BY <2>1
<1>a. ASSUME UNCHANGED <<args, i, size, filled>>, Started' = Started, child # "join" => child' # "join",
             (child' = "count") = (child = "count")
      PROVE  Fits'
  BY <1>a DEF Fits, Started
<1>1. CASE UNext /\ UNCHANGED <<logger, parent, child, local, buffer, shown>>
  <2>1. at # "parsed"
    BY <1>1 DEF UNext, ParseStep, ParseNothing, Match
  <2>2. ~Started /\ ~Started' /\ UNCHANGED <<i, size, filled>>
    BY <1>1, <2>1 DEF Ready, Started, local
  <2> QED
    BY <2>2 DEF Fits
<1>2. CASE Earlier
  BY <1>2, <1>a DEF Earlier, Parent, uvars, parsing, local, Started
<1>3. CASE Fork
  <2>1. ~Started /\ ~Started' /\ UNCHANGED <<i, size, filled>>
    BY <1>3 DEF Fork, Parent, local, Ready, Started
  <2> QED
    BY <2>1 DEF Fits
<1>4. CASE ForkFailed
  BY <1>4, <1>a DEF ForkFailed, Parent, uvars, parsing, local, Started
<1>5. CASE Forked
  BY <1>5, <1>a DEF Forked, Parent, uvars, parsing, local, Started
<1>6. CASE Peek
  BY <1>6, <1>a DEF Peek, Parent, uvars, parsing, local, Started
<1>7. CASE Failure
  BY <1>7, <1>a DEF Failure, Parent, uvars, parsing, local, Started
<1>8. CASE End
  BY <1>8, <1>a DEF End, Parent, uvars, parsing, local, Started
<1>9. CASE Born
  <2>1. /\ i' = 1 /\ size' = 0 /\ filled' = 0 /\ Started' /\ child' = "count" /\ args' = args
    BY <1>9 DEF Born, Child, uvars, parsing, Fits, Started
  <2>2. ASSUME args # <<>>, NEW f, Offsets(f, args) PROVE 0 = f[1] - f[1]
    <3>1. 1 \in 0..Len(args)
      BY <1>0, <2>2
    <3>2. f[1] \in Nat
      BY <2>2, <3>1 DEF Offsets
    <3> QED
      BY <3>2
  <2> QED
    BY <1>0, <2>1, <2>2 DEF Fits
<1>10. CASE CountArgument
  <2>1. /\ child = "count" /\ child' = "count" /\ i < Len(args) /\ i' = i + 1 /\ args' = args
        /\ size' = size + Len(args[i + 1]) + 1 /\ filled' = filled /\ Started /\ Started'
    BY <1>10 DEF CountArgument, uvars, parsing, Started
  <2>2. args # <<>>
    BY <2>1 DEF Fits
  <2>3. i \in 1..Len(args) /\ i + 1 \in 1..Len(args)
    BY <1>0, <2>1, <2>2 DEF Fits
  <2>4. ASSUME NEW f, Offsets(f, args) PROVE size' = f[i + 1] - f[1] /\ filled' = 0
    <3>1. size = f[i] - f[1] /\ filled = 0
      BY <2>1, <2>2, <2>4 DEF Fits
    <3>2. f[i + 1] - f[1] = (f[i] - f[1]) + Len(args[i + 1]) + 1
      BY <1>0, <2>1, <2>3, <2>4, NextArgument
    <3> QED
      BY <2>1, <3>1, <3>2
  <2> QED
    BY <2>1, <2>2, <2>3, <2>4 DEF Fits
<1>11. CASE Counted
  <2>1. /\ child = "count" /\ child' = "join" /\ i = Len(args) /\ i' = 1 /\ args' = args
        /\ size' = size /\ filled' = filled /\ Started /\ Started'
    BY <1>11 DEF Counted, Child, uvars, parsing, Started
  <2>2. args # <<>>
    BY <2>1 DEF Fits
  <2>3. ASSUME NEW f, Offsets(f, args)
        PROVE  size' = f[Len(args)] - f[1] /\ filled' = f[1] - f[1]
    <3>1. size = f[i] - f[1] /\ filled = 0
      BY <2>1, <2>2, <2>3 DEF Fits
    <3>2. 1 \in 0..Len(args)
      BY <1>0, <2>2
    <3>3. f[1] \in Nat
      BY <2>3, <3>2 DEF Offsets
    <3> QED
      BY <2>1, <3>1, <3>3
  <2> QED
    BY <1>0, <2>1, <2>2, <2>3 DEF Fits
<1>12. CASE CountBeyond
  <2>1. /\ child = "count" /\ child' \in {"failed", "exec"} /\ i > Len(args)
        /\ UNCHANGED <<args, i, size, filled>> /\ Started /\ Started'
    BY <1>12 DEF CountBeyond, Child, uvars, parsing, local, Started
  <2>2. args = <<>>
    BY <1>0, <2>1 DEF Fits
  <2> QED
    BY <2>1, <2>2 DEF Fits
<1>13. CASE JoinArgument
  <2>1. /\ child = "join" /\ child' = "join" /\ i < Len(args) /\ i' = i + 1 /\ args' = args
        /\ filled' = filled + Len(args[i + 1]) + 1 /\ size' = size /\ Started /\ Started'
    BY <1>13 DEF JoinArgument, uvars, parsing, Started
  <2>2. args # <<>>
    BY <2>1 DEF Fits
  <2>3. i \in 1..Len(args) /\ i + 1 \in 1..Len(args)
    BY <1>0, <2>1, <2>2 DEF Fits
  <2>4. ASSUME NEW f, Offsets(f, args)
        PROVE  size' = f[Len(args)] - f[1] /\ filled' = f[i + 1] - f[1]
    <3>1. size = f[Len(args)] - f[1] /\ filled = f[i] - f[1]
      BY <2>1, <2>2, <2>4 DEF Fits
    <3>2. f[i + 1] - f[1] = (f[i] - f[1]) + Len(args[i + 1]) + 1
      BY <1>0, <2>1, <2>3, <2>4, NextArgument
    <3> QED
      BY <2>1, <3>1, <3>2
  <2> QED
    BY <2>1, <2>2, <2>3, <2>4 DEF Fits
<1>14. CASE Joined
  BY <1>14, <1>a DEF Joined, Child, uvars, parsing, local, Started
<1>15. CASE Exec
  BY <1>15, <1>a DEF Exec, Child, uvars, parsing, local, Started
<1>16. CASE NotRun \/ Exit
  BY <1>16, <1>a DEF NotRun, Exit, Child, uvars, parsing, local, Started
<1>17. CASE ProgramExits
  BY <1>17, <1>a DEF ProgramExits, Child, uvars, parsing, local, Started
<1>18. CASE UNCHANGED lvars
  BY <1>18, <1>a DEF lvars, uvars, parsing, local, Started
<1> QED
  BY <1>1, <1>2, <1>3, <1>4, <1>5, <1>6, <1>7, <1>8, <1>9, <1>10, <1>11, <1>12, <1>13,
     <1>14, <1>15, <1>16, <1>17, <1>18 DEF LNext

\* The invariant of the two loops holds.
LEMMA Launching == LSpec => [](UInv /\ Ready /\ Fits)
<1>1. LInit => Ready /\ Fits
  BY ReadyStarts
<1>2. UInv /\ Ready /\ Fits /\ [LNext]_lvars => Ready' /\ Fits'
  BY ReadyKeeps, FitsKeeps
<1> QED
  BY <1>1, <1>2, Reading, PTL DEF LSpec

\* What the arguments take is what the command has.
LEMMA Room ==
  ASSUME UInv, Ready, Fits
  PROVE  /\ i \in 0..2 * MaxLaunch + 1 /\ size \in 0..MaxLaunch /\ filled \in 0..MaxLaunch
         /\ Started /\ args # <<>> => i <= Len(args) /\ (child # "count" => filled <= size)
<1>0. args \in Seq(Seq(Char)) /\ command \in Seq(Char)
  BY TextLoop
<1>1. CASE Started /\ args # <<>>
  <2>1. at = "parsed" /\ Len(command) <= MaxLaunch
    BY <1>1 DEF Ready, Started
  <2>2. command # <<>> /\ Measured(args, Len(command) + 1)
    BY <1>1, <2>1 DEF UInv, Parsed
  <2>3. PICK f : Offsets(f, args) /\ f[Len(args)] = Len(command) + 1
    BY <2>2 DEF Measured
  <2>4. PICK k \in Nat, l \in Nat : k = Len(args) /\ l = Len(command)
    BY <1>0
  <2>5. i \in 1..k /\ k # 0 /\ 1 \in 0..k /\ i \in 0..k /\ k \in 0..k /\ 0 \in 0..k
    BY <1>0, <1>1, <2>4 DEF Fits
  <2>6. f[0] = 0 /\ f[1] \in Nat /\ f[i] \in Nat /\ f[k] = l + 1
    BY <2>3, <2>4, <2>5 DEF Offsets
  <2>7. f[0] + (1 - 0) <= f[1] /\ f[1] + (i - 1) <= f[i] /\ f[i] + (k - i) <= f[k]
    <3>1. \A m, n \in 0..k : m <= n => f[m] + (n - m) <= f[n]
      BY <2>3, <2>4 DEF Offsets
    <3> QED
      BY <2>5, <3>1
  <2>8. /\ child = "count" => size = f[i] - f[1] /\ filled = 0
        /\ child # "count" => size = f[k] - f[1] /\ filled = f[i] - f[1]
    BY <1>1, <2>3, <2>4 DEF Fits
  <2>9. l <= MaxLaunch
    BY <2>1, <2>4
  <2>10. ASSUME NEW u \in Nat, NEW v \in Nat, 0 + (1 - 0) <= u, u + (i - 1) <= v, v + (k - i) <= l + 1
         PROVE  /\ i \in 0..2 * MaxLaunch + 1 /\ v - u \in 0..MaxLaunch
                /\ (l + 1) - u \in 0..MaxLaunch /\ v - u <= (l + 1) - u
    BY <2>5, <2>9, <2>10
  <2>11. /\ i \in 0..2 * MaxLaunch + 1 /\ f[i] - f[1] \in 0..MaxLaunch
         /\ f[k] - f[1] \in 0..MaxLaunch /\ f[i] - f[1] <= f[k] - f[1]
    BY <2>6, <2>7, <2>10
  <2>12. 0 \in 0..MaxLaunch /\ i <= k
    BY <2>5
  <2> QED
    BY <2>4, <2>8, <2>11, <2>12
<1>2. CASE ~(Started /\ args # <<>>)
  BY <1>2 DEF Fits
<1> QED
  BY <1>1, <1>2

\* The child of run() reads no argument behind the last and writes no more
\* characters than it has counted, for all commands but the empty one.
THEOREM FitCorrect == LSpec => []ArgumentsFit
<1>1. UInv /\ Ready /\ Fits => ArgumentsFit
  BY Room DEF ArgumentsFit, Started
<1> QED
  BY <1>1, Launching, PTL

-----------------------------------------------------------------------------
(* Texts of messages.                                                      *)

Has(s, m) == \E n \in 1..Len(s) : s[n] = m

\* Every b of s has an a before it.
Prec(s, a, b) == \A n \in 1..Len(s) : s[n] = b => \E k \in 1..n - 1 : s[k] = a

\* A message of a text is in one of its pieces.
LEMMA HasConcat ==
  ASSUME NEW s \in Seq(Message), NEW t \in Seq(Message), NEW m
  PROVE  Has(s \o t, m) <=> Has(s, m) \/ Has(t, m)
<1>1. PICK a \in Nat, b \in Nat : a = Len(s) /\ b = Len(t)
  OBVIOUS
<1> DEFINE u == s \o t
<1>2. /\ Len(u) = a + b /\ \A n \in 1..a : u[n] = s[n]
      /\ \A n \in 1..b : u[a + n] = t[n]
  BY <1>1, TwoPieces
<1> HIDE DEF u
<1>3. ASSUME Has(u, m) PROVE Has(s, m) \/ Has(t, m)
  <2>1. PICK n \in 1..a + b : u[n] = m
    BY <1>2, <1>3 DEF Has
  <2>2. CASE n \in 1..a
    BY <1>1, <1>2, <2>1, <2>2 DEF Has
  <2>3. CASE n \notin 1..a
    <3>1. n - a \in 1..b /\ a + (n - a) = n
      BY <2>1, <2>3
    <3>2. t[n - a] = m
      BY <1>2, <2>1, <3>1
    <3> QED
      BY <1>1, <3>1, <3>2 DEF Has
  <2> QED
    BY <2>2, <2>3
<1>4. ASSUME Has(s, m) PROVE Has(u, m)
  <2>1. PICK n \in 1..a : s[n] = m
    BY <1>1, <1>4 DEF Has
  <2>2. n \in 1..a + b /\ u[n] = m
    BY <1>2, <2>1
  <2> QED
    BY <1>2, <2>2 DEF Has
<1>5. ASSUME Has(t, m) PROVE Has(u, m)
  <2>1. PICK n \in 1..b : t[n] = m
    BY <1>1, <1>5 DEF Has
  <2>2. a + n \in 1..a + b /\ u[a + n] = m
    BY <1>2, <2>1
  <2> QED
    BY <1>2, <2>2 DEF Has
<1>6. Has(u, m) <=> Has(s, m) \/ Has(t, m)
  BY <1>3, <1>4, <1>5
<1> QED
  BY <1>6 DEF u

LEMMA HasOne ==
  ASSUME NEW e \in Message, NEW m
  PROVE  <<e>> \in Seq(Message) /\ (Has(<<e>>, m) <=> m = e)
<1>1. <<e>> \in Seq(Message) /\ Len(<<e>>) = 1 /\ <<e>>[1] = e
  OBVIOUS
<1> QED
  BY <1>1 DEF Has

LEMMA HasNone == ASSUME NEW m PROVE ~Has(<<>>, m)
BY DEF Has

\* The order holds of a text if it holds of its pieces, or if the first
\* piece has already what must come before.
LEMMA PrecConcat ==
  ASSUME NEW s \in Seq(Message), NEW t \in Seq(Message), NEW x, NEW y,
         Prec(s, x, y), Has(s, x) \/ Prec(t, x, y)
  PROVE  Prec(s \o t, x, y)
<1>1. PICK a \in Nat, b \in Nat : a = Len(s) /\ b = Len(t)
  OBVIOUS
<1> DEFINE u == s \o t
<1>2. /\ Len(u) = a + b /\ \A n \in 1..a : u[n] = s[n]
      /\ \A n \in 1..b : u[a + n] = t[n]
  BY <1>1, TwoPieces
<1> HIDE DEF u
<1>3. ASSUME NEW n \in 1..a + b, u[n] = y PROVE \E k \in 1..n - 1 : u[k] = x
  <2>1. CASE n \in 1..a
    <3>1. PICK k \in 1..n - 1 : s[k] = x
      BY <1>1, <1>2, <1>3, <2>1 DEF Prec
    <3> QED
      BY <1>2, <2>1, <3>1
  <2>2. CASE n \notin 1..a
    <3>1. n - a \in 1..b /\ a + (n - a) = n
      BY <1>3, <2>2
    <3>2. t[n - a] = y
      BY <1>2, <1>3, <3>1
    <3>3. CASE Has(s, x)
      <4>1. PICK k \in 1..a : s[k] = x
        BY <1>1, <3>3 DEF Has
      <4>2. k \in 1..n - 1 /\ u[k] = x
        BY <1>2, <3>1, <4>1
      <4> QED
        BY <4>2
    <3>4. CASE Prec(t, x, y)
      <4>1. PICK k \in 1..n - a - 1 : t[k] = x
        BY <1>1, <3>1, <3>2, <3>4 DEF Prec
      <4>2. a + k \in 1..n - 1 /\ k \in 1..b
        BY <3>1, <4>1
      <4>3. u[a + k] = x
        BY <1>2, <4>1, <4>2
      <4> QED
        BY <4>2, <4>3
    <3> QED
      BY <3>3, <3>4
  <2> QED
    BY <2>1, <2>2
<1>4. Prec(u, x, y)
  BY <1>2, <1>3 DEF Prec
<1> QED
  BY <1>4 DEF u

LEMMA PrecNone == ASSUME NEW s, NEW x, NEW y, ~Has(s, y) PROVE Prec(s, x, y)
BY DEF Has, Prec

\* The first place of a message.
LEMMA FirstPlace ==
  ASSUME shown \in Seq(Message), NEW m
  PROVE  /\ Has(shown, m) => /\ First(m) \in 1..Len(shown) /\ shown[First(m)] = m
                             /\ \A n \in 1..Len(shown) : shown[n] = m => First(m) <= n
         /\ ~Has(shown, m) => First(m) = 0
<1> DEFINE I == {n \in 1..Len(shown) : shown[n] = m}
<1>1. First(m) = IF I # {} THEN Min(I) ELSE 0
  BY DEF First, SelectInSeq
<1>2. ASSUME I # {} PROVE Min(I) \in I /\ \A n \in I : Min(I) <= n
  <2>1. I \subseteq Nat
    OBVIOUS
  <2>2. PICK x \in I : \A y \in I : <<y, x>> \notin OpToRel(<, Nat)
    BY <1>2, <2>1, NatLessThanWellFounded, WFMin
  <2> HIDE DEF I
  <2>4. \A y \in I : ~(y < x)
    BY <2>1, <2>2, Zenon DEF OpToRel
  <2>3. \A y \in I : x <= y
    BY <2>1, <2>4
  <2> QED
    BY <2>3 DEF Min
<1>3. Has(shown, m) <=> I # {}
  BY DEF Has
<1> QED
  BY <1>1, <1>2, <1>3

\* Which of two messages appears first.
LEMMA FirstBefore ==
  ASSUME shown \in Seq(Message), NEW x, NEW y, Prec(shown, x, y), Has(shown, y)
  PROVE  First(x) > 0 /\ First(y) > 0 /\ First(x) < First(y)
<1>1. First(y) \in 1..Len(shown) /\ shown[First(y)] = y
  BY FirstPlace
<1>2. PICK k \in 1..First(y) - 1 : shown[k] = x
  BY <1>1 DEF Prec
<1>3. k \in 1..Len(shown) /\ k < First(y)
  BY <1>1, <1>2
<1>4. Has(shown, x)
  BY <1>2, <1>3 DEF Has
<1>5. First(x) \in 1..Len(shown) /\ First(x) <= k
  BY <1>2, <1>3, <1>4, FirstPlace
<1> QED
  BY <1>1, <1>3, <1>5

-----------------------------------------------------------------------------
(* What a step does to the logs.                                           *)

LogTypeOK ==
  /\ buffer \in [{"parent", "child"} -> Seq(Message)]
  /\ shown \in Seq(Message)

\* What the parent has said and has not been lost.
Told(m) == Has(shown, m) \/ Has(buffer["parent"], m)

\* In what the parent has said, with all that has been shown before it is
\* flushed, every y has an x before it.
Ordered(x, y) ==
  Prec(shown, x, y) /\ (Has(shown, x) \/ Prec(buffer["parent"], x, y))

LEMMA LogTexts ==
  ASSUME LogTypeOK
  PROVE  shown \in Seq(Message) /\ buffer["parent"] \in Seq(Message) /\ buffer["child"] \in Seq(Message)
BY DEF LogTypeOK

LEMMA HasMore ==
  ASSUME NEW s \in Seq(Message), NEW t \in Seq(Message), NEW e \in Message
  PROVE  /\ s \o t \o <<e>> \in Seq(Message) /\ Append(s, e) \in Seq(Message)
         /\ \A m : Has(s \o t \o <<e>>, m) <=> Has(s, m) \/ Has(t, m) \/ m = e
         /\ \A m : Has(Append(s, e), m) <=> Has(s, m) \/ m = e
<1>1. s \o t \in Seq(Message) /\ <<e>> \in Seq(Message)
  BY ConcatProperties, HasOne
<1>2. (s \o t) \o <<e>> \in Seq(Message)
  BY <1>1, ConcatProperties
<1>3. Append(s, e) = s \o <<e>> /\ Append(s, e) \in Seq(Message)
  BY AppendIsConcat, AppendProperties
<1>4. ASSUME NEW m PROVE Has((s \o t) \o <<e>>, m) <=> Has(s, m) \/ Has(t, m) \/ m = e
  <2>1. Has((s \o t) \o <<e>>, m) <=> Has(s \o t, m) \/ Has(<<e>>, m)
    BY <1>1, HasConcat
  <2>2. Has(s \o t, m) <=> Has(s, m) \/ Has(t, m)
    BY HasConcat
  <2>3. Has(<<e>>, m) <=> m = e
    BY HasOne
  <2> QED
    BY <2>1, <2>2, <2>3
<1>5. ASSUME NEW m PROVE Has(Append(s, e), m) <=> Has(s, m) \/ m = e
  <2>1. Has(s \o <<e>>, m) <=> Has(s, m) \/ Has(<<e>>, m)
    BY <1>1, HasConcat
  <2>2. Has(<<e>>, m) <=> m = e
    BY HasOne
  <2> QED
    BY <1>3, <2>1, <2>2
<1> QED
  BY <1>2, <1>3, <1>4, <1>5

LEMMA PrecMore ==
  ASSUME NEW s \in Seq(Message), NEW e \in Message, NEW x, NEW y,
         Prec(s, x, y), e = y => Has(s, x)
  PROVE  Prec(s \o <<e>>, x, y)
<1>1. <<e>> \in Seq(Message) /\ (Has(<<e>>, y) <=> y = e)
  BY HasOne
<1>2. Has(s, x) \/ Prec(<<e>>, x, y)
  BY <1>1, PrecNone
<1> QED
  BY <1>1, <1>2, PrecConcat

\* A message of the parent, flushed at once or kept.
LEMMA ParentSays ==
  ASSUME LogTypeOK, NEW m \in Message, Say("parent", m)
  PROVE  /\ LogTypeOK' /\ buffer'["child"] = buffer["child"]
         /\ \A x : Told(x)' <=> Told(x) \/ x = m
         /\ \A x : Has(shown, x) => Has(shown', x)
         /\ Immediate(m) => Has(shown', m)
         /\ logger = "terminal" /\ buffer["parent"] = <<>> =>
              shown' = Append(shown, m) /\ buffer'["parent"] = <<>>
         /\ \A x, y : Ordered(x, y) /\ (y = m => Told(x)) => Ordered(x, y)'
<1> DEFINE s == shown
           t == buffer["parent"]
<1>0. s \in Seq(Message) /\ t \in Seq(Message)
  BY LogTexts
<1>1. CASE shown' = shown \o buffer["parent"] \o <<m>> /\ Flush("parent")
  <2>1. buffer' = [buffer EXCEPT !["parent"] = <<>>] /\ shown' = s \o t \o <<m>>
    BY <1>1 DEF Flush
  <2>2. buffer'["child"] = buffer["child"] /\ buffer'["parent"] = <<>>
    BY <2>1 DEF LogTypeOK
  <2>3. shown' \in Seq(Message) /\ \A x : Has(shown', x) <=> Has(s, x) \/ Has(t, x) \/ x = m
    BY <1>0, <2>1, HasMore
  <2>4. LogTypeOK'
    <3>1. <<>> \in Seq(Message)
      OBVIOUS
    <3> QED
      BY <2>1, <2>3, <3>1 DEF LogTypeOK
  <2>5. \A x : Told(x)' <=> Told(x) \/ x = m
    BY <2>2, <2>3, HasNone DEF Told
  <2>6. ASSUME t = <<>> PROVE shown' = Append(shown, m)
    <3>1. s \o t = s /\ Append(s, m) = s \o <<m>>
      BY <1>0, <2>6, ConcatEmptySeq, AppendIsConcat
    <3> QED
      BY <2>1, <3>1
  <2>7. ASSUME NEW x, NEW y, Ordered(x, y), y = m => Told(x) PROVE Ordered(x, y)'
    <3>1. s \o t \in Seq(Message) /\ (Has(s \o t, x) <=> Has(s, x) \/ Has(t, x))
      BY <1>0, HasConcat, ConcatProperties
    <3>2. Prec(s \o t, x, y)
      BY <1>0, <2>7, PrecConcat DEF Ordered
    <3>3. Prec((s \o t) \o <<m>>, x, y)
      BY <2>7, <3>1, <3>2, PrecMore DEF Told
    <3>4. Prec(<<>>, x, y)
      BY HasNone, PrecNone
    <3> QED
      BY <2>1, <2>2, <3>3, <3>4 DEF Ordered
  <2> QED
    BY <2>2, <2>3, <2>4, <2>5, <2>6, <2>7
<1>2. CASE /\ ~Immediate(m) /\ buffer' = [buffer EXCEPT !["parent"] = Append(@, m)]
           /\ UNCHANGED shown
  <2>1. buffer'["child"] = buffer["child"] /\ buffer'["parent"] = Append(t, m) /\ shown' = s
    BY <1>2 DEF LogTypeOK
  <2>2. Append(t, m) \in Seq(Message) /\ \A x : Has(Append(t, m), x) <=> Has(t, x) \/ x = m
    BY <1>0, HasMore
  <2>3. LogTypeOK'
    BY <1>2, <2>2 DEF LogTypeOK
  <2>4. \A x : Told(x)' <=> Told(x) \/ x = m
    BY <2>1, <2>2 DEF Told
  <2>5. ASSUME NEW x, NEW y, Ordered(x, y), y = m => Told(x) PROVE Ordered(x, y)'
    <3>1. CASE Has(s, x)
      BY <2>1, <2>5, <3>1 DEF Ordered
    <3>2. CASE ~Has(s, x)
      <4>1. Prec(t, x, y) /\ (y = m => Has(t, x))
        BY <2>5, <3>2 DEF Ordered, Told
      <4>2. Append(t, m) = t \o <<m>>
        BY <1>0, AppendIsConcat
      <4>3. Prec(Append(t, m), x, y)
        BY <1>0, <4>1, <4>2, PrecMore
      <4> QED
        BY <2>1, <2>5, <4>3 DEF Ordered
    <3> QED
      BY <3>1, <3>2
  <2>6. logger # "terminal"
    BY <1>2 DEF Immediate
  <2> QED
    BY <1>2, <2>1, <2>3, <2>4, <2>5, <2>6
<1> QED
  BY <1>1, <1>2 DEF Say

\* What the child shows goes between what has been shown and what the parent
\* has not.
LEMMA Inserted ==
  ASSUME LogTypeOK, NEW t \in Seq(Message), shown' = shown \o t,
         buffer'["parent"] = buffer["parent"], NEW x, NEW y, Ordered(x, y), ~Has(t, y)
  PROVE  Ordered(x, y)'
<1>0. shown \in Seq(Message)
  BY LogTexts
<1>1. Prec(t, x, y)
  BY PrecNone
<1>2. Prec(shown \o t, x, y)
  BY <1>0, <1>1, PrecConcat DEF Ordered
<1>3. Has(shown, x) => Has(shown \o t, x)
  BY <1>0, HasConcat
<1> QED
  BY <1>2, <1>3 DEF Ordered

\* A message of the child takes with it what its buffer has copied.
LEMMA ChildSays ==
  ASSUME LogTypeOK, NEW m \in Message, Say("child", m)
  PROVE  /\ LogTypeOK' /\ buffer'["parent"] = buffer["parent"]
         /\ \A x : Has(shown', x) => Has(shown, x) \/ Has(buffer["child"], x) \/ x = m
         /\ \A x : Has(buffer'["child"], x) => Has(buffer["child"], x) \/ x = m
         /\ \A x : Has(shown, x) => Has(shown', x)
         /\ Immediate(m) => Has(shown', m)
         /\ logger = "terminal" /\ buffer["child"] = <<>> =>
              shown' = Append(shown, m) /\ buffer'["child"] = <<>>
         /\ \A x, y : Ordered(x, y) /\ ~Has(buffer["child"], y) /\ y # m => Ordered(x, y)'
<1> DEFINE s == shown
           t == buffer["child"]
<1>0. s \in Seq(Message) /\ t \in Seq(Message)
  BY LogTexts
<1>1. CASE shown' = shown \o buffer["child"] \o <<m>> /\ Flush("child")
  <2>1. buffer' = [buffer EXCEPT !["child"] = <<>>] /\ shown' = s \o t \o <<m>>
    BY <1>1 DEF Flush
  <2>2. buffer'["parent"] = buffer["parent"] /\ buffer'["child"] = <<>>
    BY <2>1 DEF LogTypeOK
  <2>3. shown' \in Seq(Message) /\ \A x : Has(shown', x) <=> Has(s, x) \/ Has(t, x) \/ x = m
    BY <1>0, <2>1, HasMore
  <2>4. LogTypeOK'
    <3>1. <<>> \in Seq(Message)
      OBVIOUS
    <3> QED
      BY <2>1, <2>3, <3>1 DEF LogTypeOK
  <2>6. ASSUME t = <<>> PROVE shown' = Append(shown, m)
    <3>1. s \o t = s /\ Append(s, m) = s \o <<m>>
      BY <1>0, <2>6, ConcatEmptySeq, AppendIsConcat
    <3> QED
      BY <2>1, <3>1
  <2>7. ASSUME NEW x, NEW y, Ordered(x, y), ~Has(t, y), y # m PROVE Ordered(x, y)'
    <3>1. s \o t \in Seq(Message) /\ Prec(s \o t, x, y)
      BY <1>0, <2>7, ConcatProperties, PrecNone, PrecConcat DEF Ordered
    <3>2. Prec((s \o t) \o <<m>>, x, y)
      BY <2>7, <3>1, PrecMore
    <3> QED
      BY <2>1, <2>2, <2>3, <2>7, <3>2 DEF Ordered
  <2> QED
    BY <2>2, <2>3, <2>4, <2>6, <2>7, HasNone
<1>2. CASE /\ ~Immediate(m) /\ buffer' = [buffer EXCEPT !["child"] = Append(@, m)]
           /\ UNCHANGED shown
  <2>1. buffer'["parent"] = buffer["parent"] /\ buffer'["child"] = Append(t, m) /\ shown' = s
    BY <1>2 DEF LogTypeOK
  <2>2. Append(t, m) \in Seq(Message) /\ \A x : Has(Append(t, m), x) <=> Has(t, x) \/ x = m
    BY <1>0, HasMore
  <2>3. LogTypeOK'
    BY <1>2, <2>2 DEF LogTypeOK
  <2>5. \A x, y : Ordered(x, y) => Ordered(x, y)'
    BY <2>1 DEF Ordered
  <2>6. logger # "terminal"
    BY <1>2 DEF Immediate
  <2> QED
    BY <1>2, <2>1, <2>2, <2>3, <2>5, <2>6
<1> QED
  BY <1>1, <1>2 DEF Say

-----------------------------------------------------------------------------
(* The steps, as the logs see them.                                        *)

ParentStep(m) ==
  /\ \/ parent = "log" /\ parent' = "run" /\ m = "before"
     \/ parent = "noFork" /\ parent' = "errno" /\ m = "forkFailed"
     \/ parent = "errno" /\ parent' = "false" /\ m = "fork"
     \/ parent = "forked" /\ parent' = "peek" /\ m = "pid"
     \/ parent = "failure" /\ parent' = "false" /\ m = "runFailed"
  /\ child' = child /\ Say("parent", m)

ChildStep(m) ==
  /\ \/ child = "born" /\ child' = "count" /\ m = "inChild"
     \/ child = "join" /\ child' = "exec" /\ m = "running"
     \/ child = "noExec" /\ child' = "exit" /\ m = "notRun"
  /\ parent' = parent /\ Say("child", m)

ForkStep ==
  /\ parent = "run" /\ parent' = "forked" /\ child' = "born" /\ UNCHANGED shown
  /\ buffer' = [buffer EXCEPT !["child"] = buffer["parent"]]

QuietStep ==
  /\ \/ parent = "run" /\ parent' = "noFork" /\ child' = child
     \/ parent = "peek" /\ parent' \in {"failure", "true"} /\ child' = child
     \/ child = "count" /\ child' \in {"join", "failed", "exec"} /\ parent' = parent
     \/ child = "exec" /\ child' = "noExec" /\ parent' = parent
     \/ child = "program" /\ child' \in {"exited", "failed"} /\ parent' = parent
     \/ child' = child /\ parent' = parent
  /\ UNCHANGED <<buffer, shown>>

ExecStep ==
  child = "exec" /\ child' = "program" /\ parent' = parent /\ Flush("child") /\ UNCHANGED shown

ExitStep ==
  child = "exit" /\ child' = "failed" /\ parent' = parent /\ FlushStdio("child")

EndStep ==
  /\ parent \in {"true", "false"} /\ parent' = "ended" /\ child' = child
  /\ shown' = shown \o buffer["parent"] /\ Flush("parent")

\* Every step of Launch is one of these.
LEMMA Steps ==
  ASSUME [LNext]_lvars
  PROVE  /\ logger' = logger
         /\ \/ \E m \in Message : ParentStep(m) \/ ChildStep(m)
            \/ ForkStep \/ QuietStep \/ ExecStep \/ ExitStep \/ EndStep
<1> USE DEF Message, Plain, Severe
<1>1. CASE UNext /\ UNCHANGED <<logger, parent, child, local, buffer, shown>>
  BY <1>1 DEF QuietStep
<1>2. CASE Earlier
  <2>1. ParentStep("before") /\ logger' = logger
    BY <1>2 DEF Earlier, Parent, ParentStep
  <2> QED
    BY <2>1
<1>3. CASE Fork
  BY <1>3 DEF Fork, Parent, ForkStep, QuietStep
<1>4. CASE ForkFailed
  <2>1. (ParentStep("forkFailed") \/ ParentStep("fork")) /\ logger' = logger
    BY <1>4 DEF ForkFailed, Parent, ParentStep
  <2> QED
    BY <2>1
<1>5. CASE Forked
  <2>1. ParentStep("pid") /\ logger' = logger
    BY <1>5 DEF Forked, Parent, ParentStep
  <2> QED
    BY <2>1
<1>6. CASE Peek
  BY <1>6 DEF Peek, Parent, QuietStep
<1>7. CASE Failure
  <2>1. ParentStep("runFailed") /\ logger' = logger
    BY <1>7 DEF Failure, Parent, ParentStep
  <2> QED
    BY <2>1
<1>8. CASE End
  BY <1>8 DEF End, Parent, EndStep
<1>9. CASE Born
  <2>1. ChildStep("inChild") /\ logger' = logger
    BY <1>9 DEF Born, Child, ChildStep
  <2> QED
    BY <2>1
<1>10. CASE CountArgument
  BY <1>10 DEF CountArgument, Quiet, QuietStep
<1>11. CASE Counted
  BY <1>11 DEF Counted, Child, Quiet, QuietStep
<1>12. CASE CountBeyond
  BY <1>12 DEF CountBeyond, Child, Quiet, QuietStep
<1>13. CASE JoinArgument
  BY <1>13 DEF JoinArgument, Quiet, QuietStep
<1>14. CASE Joined
  <2>1. ChildStep("running") /\ logger' = logger
    BY <1>14 DEF Joined, Child, ChildStep
  <2> QED
    BY <2>1
<1>15. CASE Exec
  BY <1>15 DEF Exec, Child, ExecStep, QuietStep
<1>16. CASE NotRun
  <2>1. ChildStep("notRun") /\ logger' = logger
    BY <1>16 DEF NotRun, Child, ChildStep
  <2> QED
    BY <2>1
<1>19. CASE Exit
  BY <1>19 DEF Exit, Child, ExitStep
<1>17. CASE ProgramExits
  BY <1>17 DEF ProgramExits, Child, Quiet, QuietStep
<1>18. CASE UNCHANGED lvars
  BY <1>18 DEF lvars, QuietStep
<1> QED
  BY <1>1, <1>2, <1>3, <1>4, <1>5, <1>6, <1>7, <1>8, <1>9, <1>10, <1>11, <1>12, <1>13,
     <1>14, <1>15, <1>16, <1>17, <1>18, <1>19 DEF LNext

-----------------------------------------------------------------------------
(* The invariant of the logs.                                              *)

\* Whoever says m has said it.
Passed(m) ==
  /\ m = "before" => parent # "log"
  /\ m = "forkFailed" => child = "none" /\ parent \in {"errno", "false", "ended"}
  /\ m = "fork" => child = "none" /\ parent \in {"false", "ended"}
  /\ m = "pid" => parent \in {"peek", "failure", "true", "false", "ended"}
  /\ m = "runFailed" => parent \in {"false", "ended"}
  /\ m = "inChild" => Started
  /\ m = "running" => Started /\ child \notin {"count", "join"}
  /\ m = "notRun" => child \in {"exit", "failed"}

\* What the buffer of a child can have.
Copied == {"before", "inChild", "running", "notRun"}

\* Nothing is in a log that has not been said, and on a terminal nothing twice.
OnlySaid ==
  /\ \A m \in Message : Told(m) \/ Has(buffer["child"], m) => Passed(m)
  /\ \A m \in Message : Has(buffer["child"], m) => m \in Copied
  /\ parent = "ended" => buffer["parent"] = <<>>
  /\ logger = "terminal" =>
       buffer["parent"] = <<>> /\ buffer["child"] = <<>> /\ IsInjective(shown)

\* What has been said has been told, and in its order.
AllTold ==
  /\ parent # "log" => Told("before")
  /\ child = "none" /\ parent \in {"errno", "false", "ended"} => Told("forkFailed")
  /\ child = "none" /\ parent \in {"false", "ended"} => Told("fork")
  /\ child # "none" /\ parent \in {"peek", "failure", "true", "false", "ended"} => Told("pid")
  /\ Ordered("before", "pid") /\ Ordered("before", "forkFailed")
  /\ Ordered("forkFailed", "fork") /\ Ordered("pid", "runFailed")

\* A failure has been shown.
Reported ==
  logger # "file" =>
    /\ child = "exit" => Has(shown, "notRun")
    /\ parent = "errno" => Has(shown, "forkFailed")
    /\ parent = "false" => Has(shown, "forkFailed") \/ Has(shown, "runFailed")

LogInv == LogTypeOK /\ OnlySaid /\ AllTold /\ Reported

\* Nobody comes back to where a message is said.
LEMMA PassedKeeps ==
  ASSUME Ready, [LNext]_lvars, NEW m, Passed(m) PROVE Passed(m)'
BY Steps DEF Ready, Passed, Started, ParentStep, ChildStep, ForkStep, QuietStep, ExecStep,
             ExitStep, EndStep

LEMMA LogStarts == LInit => LogInv
<1> SUFFICES ASSUME LInit PROVE LogInv
  OBVIOUS
<1>1. shown = <<>> /\ buffer["parent"] = <<>> /\ buffer["child"] = <<>> /\ parent = "log" /\ child = "none"
  BY DEF LInit
<1>2. LogTypeOK
  <2>1. <<>> \in Seq(Message)
    OBVIOUS
  <2> QED
    BY <2>1 DEF LInit, LogTypeOK
<1>3. \A x, y : Ordered(x, y) /\ ~Told(x) /\ ~Has(buffer["child"], x)
  BY <1>1, HasNone, PrecNone DEF Ordered, Told
<1>4. IsInjective(shown)
  BY <1>1 DEF IsInjective
<1> QED
  BY <1>1, <1>2, <1>3, <1>4 DEF LogInv, OnlySaid, AllTold, Reported

\* A message that has not been there leaves a text injective.
LEMMA InjectiveMore ==
  ASSUME NEW s \in Seq(Message), NEW m \in Message, IsInjective(s), ~Has(s, m)
  PROVE  IsInjective(Append(s, m))
<1> DEFINE t == Append(s, m)
           l == Len(s) + 1
<1>1. /\ Len(s) \in Nat /\ DOMAIN s = 1..Len(s) /\ DOMAIN t = 1..l /\ t[l] = m
      /\ \A n \in 1..Len(s) : t[n] = s[n]
      /\ \A n \in 1..l : n # l => n \in 1..Len(s)
  OBVIOUS
<1> HIDE DEF t, l
<1>2. ASSUME NEW a \in 1..l, NEW b \in 1..l, t[a] = t[b] PROVE a = b
  <2>1. CASE a = l /\ b # l
    BY <1>1, <1>2, <2>1 DEF Has
  <2>2. CASE a # l /\ b = l
    BY <1>1, <1>2, <2>2 DEF Has
  <2>3. CASE a # l /\ b # l
    BY <1>1, <1>2, <2>3 DEF IsInjective
  <2> QED
    BY <2>1, <2>2, <2>3
<1>3. IsInjective(t)
  BY <1>1, <1>2 DEF IsInjective
<1> QED
  BY <1>3 DEF t

\* The other steps flush a buffer, copy one or leave them alone.
LEMMA OtherStep ==
  ASSUME LogTypeOK, Ready, OnlySaid,
         ForkStep \/ QuietStep \/ ExecStep \/ ExitStep \/ EndStep
  PROVE  /\ LogTypeOK'
         /\ \A x : Told(x)' => Told(x) \/ Has(buffer["child"], x)
         /\ \A x : Told(x) => Told(x)'
         /\ \A x : Has(shown, x) => Has(shown', x)
         /\ \A x : Has(buffer'["child"], x) => Has(buffer["child"], x) \/ (Told(x) /\ parent = "run")
         /\ parent' = "ended" => buffer'["parent"] = <<>>
         /\ logger = "terminal" => shown' = shown /\ buffer'["parent"] = <<>> /\ buffer'["child"] = <<>>
         /\ \A x, y : Ordered(x, y) /\ ~Has(buffer["child"], y) => Ordered(x, y)'
<1> DEFINE s == shown
           p == buffer["parent"]
           c == buffer["child"]
<1>0. /\ s \in Seq(Message) /\ p \in Seq(Message) /\ c \in Seq(Message) /\ <<>> \in Seq(Message)
      /\ s \o p \in Seq(Message) /\ s \o c \in Seq(Message)
  <2>1. s \in Seq(Message) /\ p \in Seq(Message) /\ c \in Seq(Message)
    BY LogTexts
  <2>2. <<>> \in Seq(Message)
    OBVIOUS
  <2> QED
    BY <2>1, <2>2, ConcatProperties
<1>1. \A x : /\ ~Has(<<>>, x)
             /\ Has(s \o p, x) <=> Has(s, x) \/ Has(p, x)
             /\ Has(s \o c, x) <=> Has(s, x) \/ Has(c, x)
  BY <1>0, HasConcat, HasNone
<1>2. logger = "terminal" => p = <<>> /\ c = <<>> /\ s \o p = s /\ s \o c = s
  BY <1>0, ConcatEmptySeq DEF OnlySaid
<1>3. parent = "ended" => p = <<>>
  BY DEF OnlySaid
<1>4. CASE ForkStep
  <2>1. shown' = s /\ buffer'["parent"] = p /\ buffer'["child"] = p
    BY <1>4 DEF ForkStep, LogTypeOK
  <2>2. LogTypeOK'
    BY <1>0, <1>4 DEF ForkStep, LogTypeOK
  <2>3. parent = "run" /\ parent' # "ended"
    BY <1>4 DEF ForkStep
  <2> QED
    BY <1>2, <2>1, <2>2, <2>3 DEF Told, Ordered
<1>5. CASE QuietStep
  <2>1. shown' = s /\ buffer' = buffer /\ (parent' = "ended" => parent = "ended")
    BY <1>5 DEF QuietStep
  <2> QED
    BY <1>2, <1>3, <2>1 DEF Told, Ordered, LogTypeOK
<1>6. CASE ExecStep
  <2>1. shown' = s /\ buffer'["parent"] = p /\ buffer'["child"] = <<>> /\ parent' = parent
    BY <1>6 DEF ExecStep, Flush, LogTypeOK
  <2>2. LogTypeOK'
    BY <1>0, <1>6 DEF ExecStep, Flush, LogTypeOK
  <2> QED
    BY <1>1, <1>2, <1>3, <2>1, <2>2 DEF Told, Ordered
<1>7. CASE ExitStep
  <2>1. /\ shown' = IF logger = "file" THEN s ELSE s \o c
        /\ buffer'["parent"] = p /\ buffer'["child"] = <<>> /\ parent' = parent
    BY <1>7 DEF ExitStep, FlushStdio, Flush, LogTypeOK
  <2>2. LogTypeOK'
    BY <1>0, <1>7 DEF ExitStep, FlushStdio, Flush, LogTypeOK
  <2>3. ASSUME NEW x, NEW y, Ordered(x, y), ~Has(c, y) PROVE Ordered(x, y)'
    <3>1. CASE logger = "file"
      BY <2>1, <2>3, <3>1 DEF Ordered
    <3>2. CASE logger # "file"
      BY <1>0, <2>1, <2>3, <3>2, Inserted
    <3> QED
      BY <3>1, <3>2
  <2>4. \A x : (Told(x)' => Told(x) \/ Has(c, x)) /\ (Told(x) => Told(x)') /\ (Has(s, x) => Has(shown', x))
    BY <1>1, <2>1 DEF Told
  <2> QED
    BY <1>1, <1>2, <1>3, <2>1, <2>2, <2>3, <2>4
<1>8. CASE EndStep
  <2>1. shown' = s \o p /\ buffer'["parent"] = <<>> /\ buffer'["child"] = c
    BY <1>8 DEF EndStep, Flush, LogTypeOK
  <2>2. LogTypeOK'
    BY <1>0, <1>8 DEF EndStep, Flush, LogTypeOK
  <2>3. ASSUME NEW x, NEW y, Ordered(x, y) PROVE Ordered(x, y)'
    <3>1. Prec(s \o p, x, y)
      BY <1>0, <2>3, PrecConcat DEF Ordered
    <3>2. Prec(<<>>, x, y)
      BY <1>1, PrecNone
    <3> QED
      BY <2>1, <3>1, <3>2 DEF Ordered
  <2>4. \A x : (Told(x)' <=> Told(x)) /\ (Has(s, x) => Has(shown', x))
    BY <1>1, <2>1 DEF Told
  <2> QED
    BY <1>1, <1>2, <2>1, <2>2, <2>3, <2>4
<1> QED
  BY <1>4, <1>5, <1>6, <1>7, <1>8

\* What a step of the parent says is new, and so is what one of the child says.
LEMMA NotYet ==
  ASSUME NEW m \in Message, ParentStep(m) \/ ChildStep(m)
  PROVE  ~Passed(m)
BY DEF ParentStep, ChildStep, Passed, Started

\* A message is said once, in one of the two processes.
LEMMA OnlySaidKeeps ==
  ASSUME Ready, LogInv, [LNext]_lvars PROVE LogTypeOK' /\ OnlySaid'
<1>0. LogTypeOK /\ OnlySaid /\ logger' = logger
  BY Steps DEF LogInv
<1>1. \A m : Passed(m) => Passed(m)'
  BY PassedKeeps
<1>2. ASSUME NEW m \in Message, ParentStep(m) PROVE LogTypeOK' /\ OnlySaid'
  <2>1. Say("parent", m)
    BY <1>2 DEF ParentStep
  <2>2. /\ LogTypeOK' /\ buffer'["child"] = buffer["child"]
        /\ \A x : Told(x)' <=> Told(x) \/ x = m
        /\ logger = "terminal" /\ buffer["parent"] = <<>> =>
             shown' = Append(shown, m) /\ buffer'["parent"] = <<>>
    BY <1>0, <2>1, ParentSays
  <2>3. Passed(m)' /\ parent' # "ended"
    BY <1>2 DEF ParentStep, Passed, Started, Ready
  <2>4. ~Has(shown, m)
    BY <1>0, <1>2, NotYet DEF OnlySaid, Told
  <2>5. logger = "terminal" => IsInjective(Append(shown, m))
    BY <1>0, <2>4, InjectiveMore DEF OnlySaid, LogTypeOK
  <2> QED
    BY <1>0, <1>1, <2>2, <2>3, <2>5 DEF OnlySaid
<1>3. ASSUME NEW m \in Message, ChildStep(m) PROVE LogTypeOK' /\ OnlySaid'
  <2>1. Say("child", m)
    BY <1>3 DEF ChildStep
  <2>2. /\ LogTypeOK' /\ buffer'["parent"] = buffer["parent"]
        /\ \A x : Has(shown', x) => Has(shown, x) \/ Has(buffer["child"], x) \/ x = m
        /\ \A x : Has(buffer'["child"], x) => Has(buffer["child"], x) \/ x = m
        /\ logger = "terminal" /\ buffer["child"] = <<>> =>
             shown' = Append(shown, m) /\ buffer'["child"] = <<>>
    BY <1>0, <2>1, ChildSays
  <2>3. Passed(m)' /\ m \in Copied /\ parent' = parent
    BY <1>3 DEF ChildStep, Passed, Started, Copied
  <2>4. ~Has(shown, m)
    BY <1>0, <1>3, NotYet DEF OnlySaid, Told
  <2>5. logger = "terminal" => IsInjective(Append(shown, m))
    BY <1>0, <2>4, InjectiveMore DEF OnlySaid, LogTypeOK
  <2>6. \A x : Told(x)' => Told(x) \/ Has(buffer["child"], x) \/ x = m
    BY <2>2 DEF Told
  <2> QED
    BY <1>0, <1>1, <2>2, <2>3, <2>5, <2>6 DEF OnlySaid
<1>4. CASE ForkStep \/ QuietStep \/ ExecStep \/ ExitStep \/ EndStep
  <2>1. /\ LogTypeOK'
        /\ \A x : Told(x)' => Told(x) \/ Has(buffer["child"], x)
        /\ \A x : Has(buffer'["child"], x) => Has(buffer["child"], x) \/ (Told(x) /\ parent = "run")
        /\ parent' = "ended" => buffer'["parent"] = <<>>
        /\ logger = "terminal" => shown' = shown /\ buffer'["parent"] = <<>> /\ buffer'["child"] = <<>>
    BY <1>0, <1>4, OtherStep
  <2>2. ASSUME NEW m \in Message, Told(m), parent = "run" PROVE m \in Copied
    <3>1. Passed(m) /\ child = "none"
      BY <1>0, <2>2 DEF OnlySaid, Ready
    <3> QED
      BY <2>2, <3>1 DEF Passed, Copied, Started, Message, Plain, Severe
  <2> QED
    BY <1>0, <1>1, <2>1, <2>2 DEF OnlySaid
<1> QED
  BY <1>2, <1>3, <1>4, Steps

\* What a child shows does not come between two messages of the parent that
\* belong together.
LEMMA AllToldKeeps ==
  ASSUME Ready, LogInv, [LNext]_lvars PROVE AllTold'
<1>0. LogTypeOK /\ OnlySaid /\ AllTold
  BY DEF LogInv
<1>2. ASSUME NEW m \in Message, ParentStep(m) PROVE AllTold'
  <2>1. Say("parent", m)
    BY <1>2 DEF ParentStep
  <2>2. /\ \A x : Told(x)' <=> Told(x) \/ x = m
        /\ \A x, y : Ordered(x, y) /\ (y = m => Told(x)) => Ordered(x, y)'
    BY <1>0, <2>1, ParentSays
  <2>3. /\ m = "pid" => Told("before")
        /\ m = "forkFailed" => Told("before")
        /\ m = "fork" => Told("forkFailed")
        /\ m = "runFailed" => Told("pid")
    BY <1>0, <1>2 DEF ParentStep, AllTold, Ready
  <2>4. /\ Ordered("before", "pid")' /\ Ordered("before", "forkFailed")'
        /\ Ordered("forkFailed", "fork")' /\ Ordered("pid", "runFailed")'
    BY <1>0, <2>2, <2>3 DEF AllTold
  <2>5. /\ parent' # "log" => Told("before")'
        /\ child' = "none" /\ parent' \in {"errno", "false", "ended"} => Told("forkFailed")'
        /\ child' = "none" /\ parent' \in {"false", "ended"} => Told("fork")'
        /\ child' # "none" /\ parent' \in {"peek", "failure", "true", "false", "ended"} => Told("pid")'
    BY <1>0, <1>2, <2>2 DEF ParentStep, AllTold, Ready
  <2> QED
    BY <2>4, <2>5 DEF AllTold
<1>3. ASSUME NEW m \in Message, ChildStep(m) PROVE AllTold'
  <2>1. Say("child", m)
    BY <1>3 DEF ChildStep
  <2>2. /\ buffer'["parent"] = buffer["parent"]
        /\ \A x : Has(shown, x) => Has(shown', x)
        /\ \A x, y : Ordered(x, y) /\ ~Has(buffer["child"], y) /\ y # m => Ordered(x, y)'
    BY <1>0, <2>1, ChildSays
  <2>3. \A y \in {"pid", "forkFailed", "fork", "runFailed"} : ~Has(buffer["child"], y) /\ y # m
    BY <1>0, <1>3 DEF ChildStep, OnlySaid, Copied, Message, Plain, Severe
  <2>4. /\ Ordered("before", "pid")' /\ Ordered("before", "forkFailed")'
        /\ Ordered("forkFailed", "fork")' /\ Ordered("pid", "runFailed")'
    BY <1>0, <2>2, <2>3 DEF AllTold
  <2>5. \A x : Told(x) => Told(x)'
    BY <2>2 DEF Told
  <2>6. parent' = parent /\ child # "none" /\ child' # "none"
    BY <1>3 DEF ChildStep
  <2> QED
    BY <1>0, <2>4, <2>5, <2>6 DEF AllTold
<1>4. CASE ForkStep \/ QuietStep \/ ExecStep \/ ExitStep \/ EndStep
  <2>1. /\ \A x : Told(x) => Told(x)'
        /\ \A x, y : Ordered(x, y) /\ ~Has(buffer["child"], y) => Ordered(x, y)'
    BY <1>0, <1>4, OtherStep
  <2>3. \A y \in {"pid", "forkFailed", "fork", "runFailed"} : ~Has(buffer["child"], y)
    BY <1>0 DEF OnlySaid, Copied, Message, Plain, Severe
  <2>4. /\ Ordered("before", "pid")' /\ Ordered("before", "forkFailed")'
        /\ Ordered("forkFailed", "fork")' /\ Ordered("pid", "runFailed")'
    BY <1>0, <2>1, <2>3 DEF AllTold
  <2>5. /\ parent' # "log" => parent # "log"
        /\ child' = "none" /\ parent' \in {"errno", "false", "ended"}
             => child = "none" /\ parent \in {"errno", "false", "ended"}
        /\ child' = "none" /\ parent' \in {"false", "ended"}
             => child = "none" /\ parent \in {"false", "ended"}
        /\ child' # "none" /\ parent' \in {"peek", "failure", "true", "false", "ended"}
             => child # "none" /\ parent \in {"peek", "failure", "true", "false", "ended"}
    BY <1>4 DEF ForkStep, QuietStep, ExecStep, ExitStep, EndStep, Ready
  <2> QED
    BY <1>0, <2>1, <2>4, <2>5 DEF AllTold
<1> QED
  BY <1>2, <1>3, <1>4, Steps

\* A severe message does not wait in a buffer, but for the one of a file.
LEMMA ReportedKeeps ==
  ASSUME Ready, LogInv, [LNext]_lvars PROVE Reported'
<1>0. LogTypeOK /\ OnlySaid /\ Reported /\ logger' = logger
  BY Steps DEF LogInv
<1>1. ASSUME NEW m \in Severe, logger # "file" PROVE Immediate(m)
  BY <1>1 DEF Immediate, Ready
<1>2. ASSUME NEW m \in Message, ParentStep(m) PROVE Reported'
  <2>1. Say("parent", m)
    BY <1>2 DEF ParentStep
  <2>2. (\A x : Has(shown, x) => Has(shown', x)) /\ (Immediate(m) => Has(shown', m))
    BY <1>0, <2>1, ParentSays
  <2> QED
    BY <1>0, <1>1, <1>2, <2>2 DEF ParentStep, Reported, Severe
<1>3. ASSUME NEW m \in Message, ChildStep(m) PROVE Reported'
  <2>1. Say("child", m)
    BY <1>3 DEF ChildStep
  <2>2. (\A x : Has(shown, x) => Has(shown', x)) /\ (Immediate(m) => Has(shown', m))
    BY <1>0, <2>1, ChildSays
  <2> QED
    BY <1>0, <1>1, <1>3, <2>2 DEF ChildStep, Reported, Severe
<1>4. CASE ForkStep \/ QuietStep \/ ExecStep \/ ExitStep \/ EndStep
  <2>1. \A x : Has(shown, x) => Has(shown', x)
    BY <1>0, <1>4, OtherStep
  <2>2. /\ child' = "exit" => child = "exit"
        /\ parent' = "errno" => parent = "errno"
        /\ parent' = "false" => parent = "false"
    BY <1>4 DEF ForkStep, QuietStep, ExecStep, ExitStep, EndStep
  <2> QED
    BY <1>0, <2>1, <2>2 DEF Reported
<1> QED
  BY <1>2, <1>3, <1>4, Steps

\* The invariant of the logs holds.
LEMMA Logging == LSpec => [](Ready /\ LogInv)
<1>1. LInit => Ready /\ LogInv
  BY ReadyStarts, LogStarts
<1>2. Ready /\ LogInv /\ [LNext]_lvars => Ready' /\ LogInv'
  BY ReadyKeeps, OnlySaidKeeps, AllToldKeeps, ReportedKeeps DEF LogInv
<1> QED
  BY <1>1, <1>2, PTL DEF LSpec

\* On a terminal no message is shown twice, although fork() copies the buffer.
THEOREM OnceCorrect == LSpec => []TerminalOnce
<1>1. LogInv => TerminalOnce
  BY DEF LogInv, OnlySaid, TerminalOnce
<1> QED
  BY <1>1, Logging, PTL

\* Unless it goes to a file, the failure of execvp() or of run() has been shown
\* when the next step is taken.
THEOREM ReportCorrect == LSpec => []FailureReported
<1>1. Ready /\ LogInv => FailureReported
  <2> SUFFICES ASSUME Ready, LogInv PROVE FailureReported
    OBVIOUS
  <2>1. \A m : Has(shown, m) => First(m) > 0
    <3> SUFFICES ASSUME NEW m, Has(shown, m) PROVE First(m) > 0
      OBVIOUS
    <3>1. First(m) \in 1..Len(shown) /\ shown \in Seq(Message)
      BY FirstPlace DEF LogInv, LogTypeOK
    <3> QED
      BY <3>1
  <2> QED
    BY <2>1 DEF LogInv, Reported, FailureReported
<1> QED
  BY <1>1, Logging, PTL

\* When Renzoku has ended it has shown what it has said, in its order, wherever
\* buffers were flushed and whatever the child has shown of its copy.
THEOREM LossCorrect == LSpec => []NothingLost
<1>1. Ready /\ LogInv => NothingLost
  <2> SUFFICES ASSUME Ready, LogInv, parent = "ended" PROVE NothingLost
    BY DEF NothingLost
  <2>1. shown \in Seq(Message) /\ OnlySaid /\ AllTold /\ buffer["parent"] = <<>>
    BY DEF LogInv, LogTypeOK, OnlySaid
  <2>2. \A m : Told(m) <=> Has(shown, m)
    BY <2>1, HasNone DEF Told
  <2>3. /\ Prec(shown, "before", "pid") /\ Prec(shown, "before", "forkFailed")
        /\ Prec(shown, "forkFailed", "fork") /\ Prec(shown, "pid", "runFailed")
    BY <2>1 DEF AllTold, Ordered
  <2>4. ASSUME NEW m PROVE First(m) > 0 <=> Has(shown, m)
    <3>1. CASE Has(shown, m)
      <4>1. First(m) \in 1..Len(shown)
        BY <2>1, <3>1, FirstPlace
      <4> QED
        BY <3>1, <4>1
    <3>2. CASE ~Has(shown, m)
      <4>1. First(m) = 0
        BY <2>1, <3>2, FirstPlace
      <4> QED
        BY <3>2, <4>1
    <3> QED
      BY <3>1, <3>2
  <2>5. ASSUME NEW x, NEW y, Prec(shown, x, y), Has(shown, y) PROVE First(x) < First(y)
    BY <2>1, <2>5, FirstBefore
  <2>6. Has(shown, "before") /\ (child = "none" => Has(shown, "forkFailed") /\ Has(shown, "fork"))
        /\ (child # "none" => Has(shown, "pid"))
    BY <2>1, <2>2 DEF AllTold
  <2>7. Has(shown, "forkFailed") => child = "none"
    BY <2>1, <2>2 DEF OnlySaid, Passed, Message, Plain, Severe
  <2>8. Has(shown, "forkFailed") =>
          First("before") < First("forkFailed") /\ First("forkFailed") < First("fork")
    BY <2>3, <2>5, <2>6, <2>7
  <2>9. /\ Has(shown, "pid") => First("before") < First("pid")
        /\ Has(shown, "runFailed") => First("pid") < First("runFailed")
    BY <2>3, <2>5
  <2> QED
    BY <2>4, <2>6, <2>8, <2>9 DEF NothingLost
<1> QED
  BY <1>1, Logging, PTL

\* Every variable has its type; in particular what the child counts and copies
\* is bounded by the length of the command.
THEOREM LTypeCorrect == LSpec => []LTypeOK
<1>1. UInv /\ Ready /\ Fits /\ LogInv => LTypeOK
  <2> SUFFICES ASSUME UInv, Ready, Fits, LogInv PROVE LTypeOK
    OBVIOUS
  <2>1. i \in 0..2 * MaxLaunch + 1 /\ size \in 0..MaxLaunch /\ filled \in 0..MaxLaunch
    BY Room
  <2>2. \A n \in 0..MaxLaunch : n \in 0..2 * MaxLaunch + 1
    OBVIOUS
  <2> QED
    BY <2>1, <2>2 DEF LTypeOK, UInv, Ready, LogInv, LogTypeOK
<1> QED
  BY <1>1, Launching, Logging, PTL
=============================================================================
