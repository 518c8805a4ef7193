--------------------------- MODULE PlaybackProofs ---------------------------
(***************************************************************************)
(* Proofs about Ticks and Playback, for any song, tempo, sample rate,      *)
(* block size and sequence of commands: blocks leave no tick out, an event *)
(* of a block lies within it, and a note does not sound on after its end   *)
(* or after a Stop.                                                        *)
(*                                                                         *)
(* The last needs to know what a block does with its events: where         *)
(* FlattenSeq puts them (Sequences), in which order they are handled (The  *)
(* events of a block), and which events the notes of a clip give (Clips).  *)
(***************************************************************************)
EXTENDS Playback, SequenceTheorems, WellFoundedInduction, TLAPS

LEMMA Division ==
  ASSUME NEW a \in Nat, NEW d \in Nat \ {0}
  PROVE  /\ a \div d \in Nat
         /\ d * (a \div d) <= a
         /\ a < d * (a \div d + 1)
  BY SMT

\* A quotient below a bound.
LEMMA Below ==
  ASSUME NEW a \in Nat, NEW d \in Nat \ {0}, NEW k \in Nat, a < d * k
  PROVE  a \div d < k
<1> DEFINE q == a \div d
<1>1. q \in Nat /\ d * q <= a
  BY Division
<1>2. SUFFICES ASSUME q >= k PROVE FALSE
  BY <1>1
<1> HIDE DEF q
<1>3. d * k <= d * q
  BY <1>1, <1>2, SMT
<1>4. d * q \in Nat /\ d * k \in Nat
  BY <1>1
<1> QED
  BY <1>1, <1>3, <1>4

\* Rounding up covers, by less than one.
LEMMA RoundedUp ==
  ASSUME NEW b \in Nat, NEW d \in Nat \ {0}
  PROVE  LET u == (b + d - 1) \div d IN
         /\ u \in Nat
         /\ b <= d * u
         /\ d * u <= b + d - 1
<1> DEFINE u == (b + d - 1) \div d
<1>1. b + d - 1 \in Nat
  OBVIOUS
<1>2. u \in Nat /\ d * u <= b + d - 1 /\ b + d - 1 < d * (u + 1)
  BY <1>1, Division
<1> HIDE DEF u
<1>3. d * (u + 1) = d * u + d /\ d * u \in Nat
  BY <1>2, SMT
<1>4. u \in Nat /\ b <= d * u /\ d * u <= b + d - 1
  BY <1>2, <1>3
<1> QED
  BY <1>4 DEF u

LEMMA TickIsNat ==
  ASSUME NEW p \in Nat, NEW s \in Rates PROVE TickAt(p, s) \in Nat
<1>1. p * s.den \in Nat /\ s.num \in Nat \ {0}
  BY DEF Rates
<1> QED BY <1>1, Division DEF TickAt

LEMMA TicksAreNat ==
  ASSUME NEW n \in Nat, NEW s \in Rates PROVE TicksIn(n, s) \in Nat \ {0}
<1>1. n * s.den \in Nat /\ s.num \in Nat \ {0}
  BY DEF Rates
<1> DEFINE u == (n * s.den + s.num - 1) \div s.num
<1>2. u \in Nat
  BY <1>1, RoundedUp
<1>3. TicksIn(n, s) = IF u > 1 THEN u ELSE 1
  BY DEF TicksIn
<1> HIDE DEF u
<1> QED BY <1>2, <1>3

\* Rounded-down positions and rounded-up lengths leave no tick between two
\* blocks (graph.rs range_start, range_end).
THEOREM BlocksMeet ==
  ASSUME NEW p \in Nat, NEW n \in Nat, NEW s \in Rates
  PROVE  TickAt(p + n, s) <= TickAt(p, s) + TicksIn(n, s)
<1> DEFINE d == s.num
           a == p * s.den
           b == n * s.den
           q == a \div d
           u == (b + d - 1) \div d
<1>1. d \in Nat \ {0} /\ a \in Nat /\ b \in Nat /\ (p + n) * s.den = a + b
  BY SMT DEF Rates
<1>2. q \in Nat /\ a < d * (q + 1)
  BY <1>1, Division
<1>3. u \in Nat /\ b <= d * u
  BY <1>1, RoundedUp
<1>4. TickAt(p, s) = q /\ TickAt(p + n, s) = (a + b) \div d /\ u <= TicksIn(n, s)
  <2>1. TicksIn(n, s) = IF u > 1 THEN u ELSE 1
    BY DEF TicksIn
  <2> QED
    BY <1>1, <1>3, <2>1 DEF TickAt
<1>5. TicksIn(n, s) \in Nat
  BY <1>3 DEF TicksIn
<1> HIDE DEF d, a, b, q, u
<1>6. a + b < d * (q + u + 1)
  <2>1. d * (q + u + 1) = d * (q + 1) + d * u /\ d * (q + 1) \in Nat /\ d * u \in Nat
    BY <1>1, <1>2, <1>3, SMT
  <2> QED
    BY <1>1, <1>2, <1>3, <2>1
<1>7. (a + b) \div d < q + u + 1
  BY <1>1, <1>2, <1>3, <1>6, Below
<1>8. (a + b) \div d \in Nat
  BY <1>1, Division
<1> QED
  BY <1>2, <1>3, <1>4, <1>5, <1>7, <1>8

\* An event whose tick is in the range of a block lies within its frames,
\* where the instruments see it (clip.rs sample_offset).
THEOREM EventFits ==
  ASSUME NEW n \in Nat \ {0}, NEW s \in Rates, NEW from \in Nat, NEW t \in Nat,
         from <= t, t < from + TicksIn(n, s)
  PROVE  OffsetOf(t, from, s) \in 0..(n - 1)
<1> DEFINE d == s.num
           b == n * s.den
           u == (b + d - 1) \div d
           k == t - from
<1>1. d \in Nat \ {0} /\ s.den \in Nat \ {0} /\ b \in Nat \ {0} /\ k \in Nat
  BY SMT DEF Rates
<1>2. u \in Nat /\ d * u <= b + d - 1
  BY <1>1, RoundedUp
<1>3. k = 0 \/ k + 1 <= u
  BY <1>1, <1>2 DEF TicksIn
<1>4. OffsetOf(t, from, s) = (k * d) \div s.den /\ b = s.den * n
  BY <1>1, SMT DEF OffsetOf
<1> HIDE DEF d, b, u, k
<1>5. k * d < b
  <2>1. CASE k = 0
    BY <1>1, <2>1
  <2>2. CASE k + 1 <= u
    <3>1. d * (k + 1) <= d * u /\ d * (k + 1) = k * d + d
      BY <1>1, <1>2, <2>2, SMT
    <3>2. k * d \in Nat /\ d * u \in Nat
      BY <1>1, <1>2
    <3> QED
      BY <1>1, <1>2, <3>1, <3>2
  <2> QED
    BY <1>3, <2>1, <2>2
<1>6. k * d \in Nat
  BY <1>1
<1>7. (k * d) \div s.den < n
  BY <1>1, <1>4, <1>5, <1>6, Below
<1>8. (k * d) \div s.den \in Nat
  BY <1>1, <1>6, Division
<1> QED
  BY <1>4, <1>7, <1>8
-----------------------------------------------------------------------------
(* Sequences *)

\* Induction over the naturals, for the set of those that have a property.
LEMMA Induction ==
  ASSUME NEW S, 0 \in S, \A n \in Nat : n \in S => n + 1 \in S
  PROVE  Nat \subseteq S
<1> SUFFICES ASSUME NEW T, T = Nat \ S, T # {} PROVE FALSE
  OBVIOUS
<1>1. PICK m \in T : \A k \in T : ~(<<k, m>> \in OpToRel(<, Nat))
  BY NatLessThanWellFounded, WFMin
<1>2. m \in Nat /\ m # 0
  OBVIOUS
<1>3. m - 1 \in Nat /\ m - 1 \notin S
  BY <1>2
<1>4. <<m - 1, m>> \in OpToRel(<, Nat)
  BY <1>2, <1>3 DEF OpToRel
<1> QED BY <1>1, <1>3, <1>4

\* Where the parts of a flattened sequence start
Starts(ss, start) ==
  /\ start \in [1..(Len(ss) + 1) -> Nat]
  /\ start[1] = 0
  /\ \A i \in 1..Len(ss) : start[i + 1] = start[i] + Len(ss[i])

\* The recursion that FlattenSeq is defined by
Joins(ss, f, n) == \A i \in 1..n : f[i] = IF i = 1 THEN ss[i] ELSE f[i - 1] \o ss[i]

LEMMA JoinsExist ==
  ASSUME NEW S, NEW ss \in Seq(Seq(S))
  PROVE  \E f \in [1..Len(ss) -> Seq(S)] : Joins(ss, f, Len(ss))
<1> DEFINE N == {n \in Nat : n <= Len(ss) => \E f \in [1..n -> Seq(S)] : Joins(ss, f, n)}
<1>0. Len(ss) \in Nat /\ \A i \in 1..Len(ss) : ss[i] \in Seq(S)
  BY LenProperties, ElementOfSeq
<1>1. 0 \in N
  <2> DEFINE f == [i \in 1..0 |-> <<>>]
  <2>1. f \in [1..0 -> Seq(S)] /\ Joins(ss, f, 0)
    BY DEF Joins
  <2> QED BY <2>1
<1>2. ASSUME NEW n \in Nat, n \in N PROVE n + 1 \in N
  <2> SUFFICES ASSUME n + 1 <= Len(ss) PROVE \E f \in [1..(n + 1) -> Seq(S)] : Joins(ss, f, n + 1)
    OBVIOUS
  <2>1. PICK f \in [1..n -> Seq(S)] : Joins(ss, f, n)
    BY <1>0, <1>2
  <2> DEFINE last == IF n = 0 THEN ss[1] ELSE f[n] \o ss[n + 1]
             g == [i \in 1..(n + 1) |-> IF i = n + 1 THEN last ELSE f[i]]
  <2>2. last \in Seq(S)
    <3>1. CASE n = 0
      BY <1>0, <3>1
    <3>2. CASE n # 0
      BY <1>0, <3>2, ConcatProperties
    <3> QED BY <3>1, <3>2
  <2>3. g \in [1..(n + 1) -> Seq(S)]
    BY <2>2
  <2>4. Joins(ss, g, n + 1)
    <3> SUFFICES ASSUME NEW i \in 1..(n + 1)
                 PROVE  g[i] = IF i = 1 THEN ss[i] ELSE g[i - 1] \o ss[i]
      BY DEF Joins
    <3>1. CASE i = n + 1
      <4>1. g[i] = last /\ (n # 0 => g[n] = f[n])
        BY <3>1
      <4> QED BY <3>1, <4>1
    <3>2. CASE i # n + 1
      <4>1. i \in 1..n /\ g[i] = f[i] /\ (i # 1 => g[i - 1] = f[i - 1])
        BY <3>2
      <4> QED BY <2>1, <4>1 DEF Joins
    <3> QED BY <3>1, <3>2
  <2> QED BY <2>3, <2>4
<1>3. Nat \subseteq N
  BY <1>1, <1>2, Induction
<1> QED BY <1>0, <1>3

LEMMA FlattenJoins ==
  ASSUME NEW S, NEW ss \in Seq(Seq(S)), Len(ss) # 0
  PROVE  \E f : Joins(ss, f, Len(ss)) /\ FlattenSeq(ss) = f[Len(ss)]
<1> DEFINE flatten[i \in 1..Len(ss)] == IF i = 1 THEN ss[i] ELSE flatten[i-1] \o ss[i]
<1>1. FlattenSeq(ss) = flatten[Len(ss)]
  BY DEF FlattenSeq
<1>2. flatten = CHOOSE f : f = [i \in 1..Len(ss) |-> IF i = 1 THEN ss[i] ELSE f[i - 1] \o ss[i]]
  BY DEF flatten
<1>3. PICK g \in [1..Len(ss) -> Seq(S)] : Joins(ss, g, Len(ss))
  BY JoinsExist
<1>4. g = [i \in 1..Len(ss) |-> IF i = 1 THEN ss[i] ELSE g[i - 1] \o ss[i]]
  BY <1>3 DEF Joins
<1> HIDE DEF flatten
<1>5. flatten = [i \in 1..Len(ss) |-> IF i = 1 THEN ss[i] ELSE flatten[i - 1] \o ss[i]]
  BY <1>2, <1>4
<1>6. Joins(ss, flatten, Len(ss))
  BY <1>5 DEF Joins
<1> QED BY <1>1, <1>6

\* The sequence a has the first n parts, each at its start.
JoinedAt(ss, a, start, n) ==
  /\ Len(a) = start[n] + Len(ss[n])
  /\ \A i \in 1..n : start[i] \in Nat /\ start[i] + Len(ss[i]) <= Len(a)
  /\ \A i \in 1..n : \A l \in 1..Len(ss[i]) : a[start[i] + l] = ss[i][l]

\* c is a with b behind it.
Extends(c, a, b) ==
  /\ Len(c) = Len(a) + Len(b)
  /\ \A i \in 1..Len(a) : c[i] = a[i]
  /\ \A l \in 1..Len(b) : c[Len(a) + l] = b[l]

LEMMA ConcatExtends ==
  ASSUME NEW S, NEW a \in Seq(S), NEW b \in Seq(S)
  PROVE  a \o b \in Seq(S) /\ Extends(a \o b, a, b)
<1>1. Len(a) \in Nat /\ Len(b) \in Nat
  BY LenProperties
<1>2. /\ a \o b \in Seq(S)
      /\ Len(a \o b) = Len(a) + Len(b)
      /\ \A i \in 1..(Len(a) + Len(b)) : (a \o b)[i] = IF i <= Len(a) THEN a[i] ELSE b[i - Len(a)]
  BY ConcatProperties
<1>3. \A i \in 1..Len(a) : i \in 1..(Len(a) + Len(b)) /\ i <= Len(a)
  BY <1>1
<1>4. \A l \in 1..Len(b) : /\ Len(a) + l \in 1..(Len(a) + Len(b))
                           /\ ~(Len(a) + l <= Len(a)) /\ (Len(a) + l) - Len(a) = l
  BY <1>1
<1> QED BY <1>1, <1>2, <1>3, <1>4 DEF Extends

LEMMA JoinedStep ==
  ASSUME NEW ss, NEW start, NEW a, NEW c, NEW n \in Nat \ {0}, NEW m, m = n + 1,
         \A i \in 1..m : Len(ss[i]) \in Nat, Len(a) \in Nat, start[m] = Len(a),
         Extends(c, a, ss[m]), JoinedAt(ss, a, start, n)
  PROVE  JoinedAt(ss, c, start, m)
<1>1. m \in 1..m /\ Len(ss[m]) \in Nat /\ Len(c) = start[m] + Len(ss[m])
  BY DEF Extends
<1>2. ASSUME NEW i \in 1..m
      PROVE  /\ start[i] \in Nat /\ start[i] + Len(ss[i]) <= Len(c)
             /\ \A l \in 1..Len(ss[i]) : c[start[i] + l] = ss[i][l]
  <2>1. CASE i = m
    <3>1. start[i] = Len(a) /\ ss[i] = ss[m]
      BY <2>1
    <3>2. \A l \in 1..Len(ss[m]) : c[Len(a) + l] = ss[m][l]
      BY DEF Extends
    <3>3. start[i] \in Nat /\ start[i] + Len(ss[i]) <= Len(c)
      BY <1>1, <3>1
    <3> QED BY <3>1, <3>2, <3>3
  <2>2. CASE i # m
    <3>1. i \in 1..n
      BY <2>2
    <3>2. start[i] \in Nat /\ Len(ss[i]) \in Nat /\ start[i] + Len(ss[i]) <= Len(a)
      BY <3>1 DEF JoinedAt
    <3>3. \A l \in 1..Len(ss[i]) : a[start[i] + l] = ss[i][l]
      BY <3>1 DEF JoinedAt
    <3>4. \A l \in 1..Len(ss[i]) : start[i] + l \in 1..Len(a)
      BY <3>2
    <3>5. start[i] + Len(ss[i]) <= Len(c)
      BY <1>1, <3>2
    <3> QED BY <3>2, <3>3, <3>4, <3>5 DEF Extends
  <2> QED BY <2>1, <2>2
<1> QED BY <1>1, <1>2 DEF JoinedAt

\* FlattenSeq puts its parts one behind the other.
LEMMA Flattened ==
  ASSUME NEW S, NEW ss \in Seq(Seq(S))
  PROVE  \E start : /\ Starts(ss, start)
                    /\ FlattenSeq(ss) \in Seq(S)
                    /\ Len(FlattenSeq(ss)) = start[Len(ss) + 1]
                    /\ \A i \in 1..Len(ss) : \A l \in 1..Len(ss[i]) :
                         FlattenSeq(ss)[start[i] + l] = ss[i][l]
<1>0. Len(ss) \in Nat /\ \A i \in 1..Len(ss) : ss[i] \in Seq(S) /\ Len(ss[i]) \in Nat
  BY LenProperties, ElementOfSeq
<1>1. CASE Len(ss) = 0
  <2> DEFINE start == [i \in 1..1 |-> 0]
  <2>1. ss = <<>> /\ FlattenSeq(ss) = <<>>
    BY <1>1, EmptySeq DEF FlattenSeq
  <2>2. Starts(ss, start) /\ Len(FlattenSeq(ss)) = start[Len(ss) + 1]
    BY <1>1, <2>1 DEF Starts
  <2>3. FlattenSeq(ss) \in Seq(S)
    BY <2>1, EmptySeq
  <2>4. \A i \in 1..Len(ss) : FALSE
    BY <1>1
  <2> HIDE DEF start
  <2> QED BY <2>2, <2>3, <2>4
<1>2. CASE Len(ss) # 0
  <2>1. PICK f : Joins(ss, f, Len(ss)) /\ FlattenSeq(ss) = f[Len(ss)]
    BY <1>2, FlattenJoins
  <2> DEFINE start == [i \in 1..(Len(ss) + 1) |-> IF i = 1 THEN 0 ELSE Len(f[i - 1])]
             N == {n \in Nat : n + 1 \in 1..Len(ss) =>
                     f[n + 1] \in Seq(S) /\ JoinedAt(ss, f[n + 1], start, n + 1)}
  <2>2. f[1] = ss[1]
    BY <1>0, <1>2, <2>1 DEF Joins
  <2>3. ASSUME NEW n \in 2..Len(ss) PROVE f[n] = f[n - 1] \o ss[n]
    <3>1. n \in 1..Len(ss) /\ n # 1
      OBVIOUS
    <3> QED BY <2>1, <3>1 DEF Joins
  <2>4. start[1] = 0 /\ \A n \in 2..(Len(ss) + 1) : start[n] = Len(f[n - 1])
    BY <1>0
  <2>5. start = [i \in 1..(Len(ss) + 1) |-> start[i]]
    OBVIOUS
  <2> HIDE DEF start
  <2>6. 0 \in N
    <3>1. 1 \in 1..Len(ss) /\ Len(f[1]) = start[1] + Len(ss[1])
      BY <1>0, <1>2, <2>2, <2>4
    <3> QED BY <1>0, <2>2, <2>4, <3>1 DEF JoinedAt
  <2>7. ASSUME NEW n \in Nat, n \in N PROVE n + 1 \in N
    <3> SUFFICES ASSUME NEW m, m = (n + 1) + 1, m \in 1..Len(ss)
                 PROVE  f[m] \in Seq(S) /\ JoinedAt(ss, f[m], start, m)
      OBVIOUS
    <3>1. PICK k : k = n + 1
      OBVIOUS
    <3>2. k \in 1..Len(ss) /\ m \in 2..Len(ss) /\ m \in 2..(Len(ss) + 1) /\ m - 1 = k /\ m = k + 1
      BY <1>0, <3>1
    <3>3. f[k] \in Seq(S) /\ JoinedAt(ss, f[k], start, k)
      BY <2>7, <3>1, <3>2
    <3>4. f[m] = f[k] \o ss[m] /\ start[m] = Len(f[k])
      BY <2>3, <2>4, <3>2
    <3>5. f[m] \in Seq(S) /\ Extends(f[m], f[k], ss[m])
      BY <1>0, <3>3, <3>4, ConcatExtends
    <3>6. \A i \in 1..m : Len(ss[i]) \in Nat
      BY <1>0
    <3>7. k \in Nat \ {0} /\ Len(f[k]) \in Nat
      BY <3>2, <3>3, LenProperties
    <3>8. JoinedAt(ss, f[m], start, m)
      BY <3>2, <3>3, <3>4, <3>5, <3>6, <3>7, JoinedStep
    <3> QED BY <3>5, <3>8
  <2>8. Nat \subseteq N
    BY <2>6, <2>7, Induction
  <2>9. \A n \in 1..Len(ss) : f[n] \in Seq(S) /\ Len(f[n]) \in Nat /\ JoinedAt(ss, f[n], start, n)
    <3> TAKE n \in 1..Len(ss)
    <3>1. PICK k \in Nat : n = k + 1
      <4>1. n - 1 \in Nat /\ n = (n - 1) + 1
        BY <1>0
      <4> QED BY <4>1
    <3>2. f[n] \in Seq(S) /\ JoinedAt(ss, f[n], start, n)
      BY <2>8, <3>1
    <3> QED BY <3>2, LenProperties
  <2>10. Starts(ss, start)
    <3>1. \A i \in 1..(Len(ss) + 1) : i = 1 \/ (i \in 2..(Len(ss) + 1) /\ i - 1 \in 1..Len(ss))
      BY <1>0
    <3>2. \A i \in 1..(Len(ss) + 1) : start[i] \in Nat
      <4> TAKE i \in 1..(Len(ss) + 1)
      <4>1. CASE i = 1
        BY <2>4, <4>1
      <4>2. CASE i # 1
        BY <2>4, <2>9, <3>1, <4>2
      <4> QED BY <4>1, <4>2
    <3>3. ASSUME NEW i \in 1..Len(ss) PROVE start[i + 1] = start[i] + Len(ss[i])
      <4>1. i + 1 \in 2..(Len(ss) + 1) /\ (i + 1) - 1 = i
        BY <1>0
      <4> QED BY <2>4, <2>9, <4>1 DEF JoinedAt
    <3> QED BY <2>4, <2>5, <3>2, <3>3 DEF Starts
  <2>11. Len(ss) \in 1..Len(ss) /\ Len(ss) + 1 \in 2..(Len(ss) + 1) /\ (Len(ss) + 1) - 1 = Len(ss)
    BY <1>0, <1>2
  <2>12. JoinedAt(ss, f[Len(ss)], start, Len(ss)) /\ f[Len(ss)] \in Seq(S) /\ start[Len(ss) + 1] = Len(f[Len(ss)])
    BY <2>4, <2>9, <2>11
  <2> QED BY <2>1, <2>10, <2>12 DEF JoinedAt
<1> QED BY <1>1, <1>2

\* Each element of a flattened sequence is an element of one part.
LEMMA PartOf ==
  ASSUME NEW ss, NEW start, Len(ss) \in Nat, Starts(ss, start),
         \A i \in 1..Len(ss) : Len(ss[i]) \in Nat,
         NEW k \in 1..start[Len(ss) + 1]
  PROVE  \E i \in 1..Len(ss) : \E l \in 1..Len(ss[i]) : k = start[i] + l
<1> DEFINE N == {n \in Nat : n <= Len(ss) /\ k <= start[n + 1] =>
                   \E i \in 1..n : \E l \in 1..Len(ss[i]) : k = start[i] + l}
<1>1. 0 \in N
  BY DEF Starts
<1>2. ASSUME NEW n \in Nat, n \in N PROVE n + 1 \in N
  <2> SUFFICES ASSUME NEW m, m = n + 1, m <= Len(ss), k <= start[m + 1]
               PROVE  \E i \in 1..m : \E l \in 1..Len(ss[i]) : k = start[i] + l
    OBVIOUS
  <2>1. start[m] \in Nat /\ start[m + 1] = start[m] + Len(ss[m]) /\ k \in Nat /\ m \in 1..Len(ss)
    BY DEF Starts
  <2>2. CASE k <= start[m]
    <3>1. \E i \in 1..n : \E l \in 1..Len(ss[i]) : k = start[i] + l
      BY <1>2, <2>2
    <3>2. \A i \in 1..n : i \in 1..m
      OBVIOUS
    <3> QED BY <3>1, <3>2
  <2>3. CASE k > start[m]
    <3>1. Len(ss[m]) \in Nat
      BY <2>1
    <3>2. k - start[m] \in 1..Len(ss[m]) /\ k = start[m] + (k - start[m])
      BY <2>1, <2>3, <3>1
    <3>3. m \in 1..m
      BY <2>1
    <3> QED BY <3>2, <3>3
  <2> QED BY <2>1, <2>2, <2>3
<1>3. Nat \subseteq N
  BY <1>1, <1>2, Induction
<1>4. Len(ss) \in N
  BY <1>3
<1>5. k \in Nat /\ start[Len(ss) + 1] \in Nat
  BY DEF Starts
<1> QED BY <1>4, <1>5

\* Where each element of a flattened sequence comes from: its part and its
\* place there.  The order is that of the parts, and no element is left out.
Places(ss, part, place) ==
  LET fs == FlattenSeq(ss) IN
  /\ part \in [1..Len(fs) -> 1..Len(ss)]
  /\ \A k \in 1..Len(fs) : place[k] \in 1..Len(ss[part[k]])
  /\ \A k \in 1..Len(fs) : fs[k] = ss[part[k]][place[k]]
  /\ \A k, l \in 1..Len(fs) :
       k < l => part[k] < part[l] \/ (part[k] = part[l] /\ place[k] < place[l])
  /\ \A i \in 1..Len(ss) : \A l \in 1..Len(ss[i]) :
       \E k \in 1..Len(fs) : part[k] = i /\ place[k] = l

LEMMA StartsGrow ==
  ASSUME NEW ss, NEW start, Len(ss) \in Nat, Starts(ss, start),
         \A i \in 1..Len(ss) : Len(ss[i]) \in Nat,
         NEW i \in 1..(Len(ss) + 1), NEW j \in 1..(Len(ss) + 1), i <= j
  PROVE  start[i] <= start[j]
<1> DEFINE N == {n \in Nat : i + n <= Len(ss) + 1 => start[i] <= start[i + n]}
<1>1. \A k \in 1..(Len(ss) + 1) : start[k] \in Nat
  BY DEF Starts
<1>2. 0 \in N
  BY <1>1
<1>3. ASSUME NEW n \in Nat, n \in N PROVE n + 1 \in N
  <2> SUFFICES ASSUME i + (n + 1) <= Len(ss) + 1 PROVE start[i] <= start[i + (n + 1)]
    OBVIOUS
  <2>1. i + n \in 1..Len(ss) /\ i + n \in 1..(Len(ss) + 1) /\ i + (n + 1) \in 1..(Len(ss) + 1)
    OBVIOUS
  <2>2. start[(i + n) + 1] = start[i + n] + Len(ss[i + n])
    BY <2>1 DEF Starts
  <2>3. (i + n) + 1 = i + (n + 1) /\ start[i] <= start[i + n] /\ Len(ss[i + n]) \in Nat
    BY <1>3, <2>1
  <2> QED BY <1>1, <2>1, <2>2, <2>3
<1>4. Nat \subseteq N
  BY <1>2, <1>3, Induction
<1>5. j - i \in Nat /\ i + (j - i) = j
  OBVIOUS
<1>6. j - i \in N
  BY <1>4, <1>5
<1> QED BY <1>5, <1>6

LEMMA PartsApart ==
  ASSUME NEW ss, NEW start, Len(ss) \in Nat, Starts(ss, start),
         \A i \in 1..Len(ss) : Len(ss[i]) \in Nat,
         NEW i \in 1..Len(ss), NEW a \in 1..Len(ss[i]),
         NEW j \in 1..Len(ss), NEW b \in 1..Len(ss[j]), i < j
  PROVE  start[i] + a < start[j] + b
<1>1. i + 1 \in 1..(Len(ss) + 1) /\ j \in 1..(Len(ss) + 1) /\ i + 1 <= j
  OBVIOUS
<1>2. start[i + 1] <= start[j]
  BY <1>1, StartsGrow
<1>3. start[i + 1] = start[i] + Len(ss[i]) /\ start[i] \in Nat /\ start[j] \in Nat
  <2>1. i \in 1..(Len(ss) + 1)
    OBVIOUS
  <2> QED BY <1>1, <2>1 DEF Starts
<1>4. Len(ss[i]) \in Nat /\ Len(ss[j]) \in Nat
  OBVIOUS
<1> QED BY <1>2, <1>3, <1>4

LEMMA Placed ==
  ASSUME NEW S, NEW ss \in Seq(Seq(S))
  PROVE  /\ FlattenSeq(ss) \in Seq(S)
         /\ \E part, place : Places(ss, part, place)
<1>1. PICK start : /\ Starts(ss, start)
                   /\ FlattenSeq(ss) \in Seq(S)
                   /\ Len(FlattenSeq(ss)) = start[Len(ss) + 1]
                   /\ \A i \in 1..Len(ss) : \A l \in 1..Len(ss[i]) :
                        FlattenSeq(ss)[start[i] + l] = ss[i][l]
  BY Flattened, Z3
<1>0. Starts(ss, start)
  BY <1>1
<1>2. Len(ss) \in Nat /\ \A i \in 1..Len(ss) : Len(ss[i]) \in Nat
  BY LenProperties, ElementOfSeq
<1> DEFINE n == start[Len(ss) + 1]
           Comes(k, i, l) == k = start[i] + l
           Part(k) == CHOOSE i \in 1..Len(ss) : \E l \in 1..Len(ss[i]) : Comes(k, i, l)
           part == [k \in 1..n |-> Part(k)]
           place == [k \in 1..n |-> k - start[part[k]]]
<1>3. \A i \in 1..Len(ss) : start[i] \in Nat
  <2>1. \A i \in 1..Len(ss) : i \in 1..(Len(ss) + 1)
    BY <1>2
  <2> QED BY <1>0, <2>1 DEF Starts
<1>4. n \in Nat
  <2>1. Len(ss) + 1 \in 1..(Len(ss) + 1)
    BY <1>2
  <2> QED BY <1>0, <2>1 DEF Starts
<1>5. ASSUME NEW k \in 1..n
      PROVE  part[k] \in 1..Len(ss) /\ place[k] \in 1..Len(ss[part[k]]) /\ k = start[part[k]] + place[k]
  <2>1. \E i \in 1..Len(ss) : \E l \in 1..Len(ss[i]) : Comes(k, i, l)
    BY <1>0, <1>2, PartOf
  <2>2. part[k] \in 1..Len(ss) /\ \E l \in 1..Len(ss[part[k]]) : Comes(k, part[k], l)
    BY <2>1
  <2>3. place[k] = k - start[part[k]]
    <3> HIDE DEF part
    <3> QED OBVIOUS
  <2> HIDE DEF part, place
  <2>4. PICK l \in 1..Len(ss[part[k]]) : k = start[part[k]] + l
    BY <2>2
  <2>5. k - start[part[k]] = l
    BY <1>3, <2>2, <2>4, <1>2
  <2> QED BY <2>2, <2>3, <2>4, <2>5
<1> HIDE DEF Part
<1>6. part \in [1..n -> 1..Len(ss)]
  <2>1. \A k \in 1..n : Part(k) \in 1..Len(ss)
    BY <1>5
  <2> QED BY <2>1
<1> HIDE DEF part, place, n
<1>7. \A k \in 1..n : FlattenSeq(ss)[k] = ss[part[k]][place[k]]
  <2>1. \A i \in 1..Len(ss) : \A l \in 1..Len(ss[i]) : FlattenSeq(ss)[start[i] + l] = ss[i][l]
    BY <1>1
  <2> QED BY <1>5, <2>1
<1>8. ASSUME NEW k \in 1..n, NEW l \in 1..n, k < l
      PROVE  part[k] < part[l] \/ (part[k] = part[l] /\ place[k] < place[l])
  <2>1. /\ part[k] \in 1..Len(ss) /\ place[k] \in 1..Len(ss[part[k]]) /\ k = start[part[k]] + place[k]
        /\ part[l] \in 1..Len(ss) /\ place[l] \in 1..Len(ss[part[l]]) /\ l = start[part[l]] + place[l]
    BY <1>5
  <2>2. CASE part[l] < part[k]
    <3>1. start[part[l]] + place[l] < start[part[k]] + place[k]
      BY <1>0, <1>2, <2>1, <2>2, PartsApart
    <3>2. l < k
      BY <2>1, <3>1
    <3> QED BY <1>4, <1>8, <3>2
  <2>3. CASE part[l] = part[k]
    <3> DEFINE x == start[part[k]]
               a == place[k]
               b == place[l]
    <3>1. x \in Nat
      BY <1>3, <2>1
    <3>2. a \in Nat /\ b \in Nat
      BY <1>2, <2>1
    <3>3. k = x + a /\ l = x + b
      BY <2>1, <2>3
    <3> HIDE DEF x, a, b
    <3>4. a < b
      BY <1>8, <3>1, <3>2, <3>3
    <3> QED BY <2>3, <3>4 DEF a, b
  <2> QED BY <1>2, <2>1, <2>2, <2>3
<1>9. ASSUME NEW i \in 1..Len(ss), NEW l \in 1..Len(ss[i])
      PROVE  \E k \in 1..n : part[k] = i /\ place[k] = l
  <2> DEFINE k == start[i] + l
  <2>1. i + 1 \in 1..(Len(ss) + 1) /\ Len(ss) + 1 \in 1..(Len(ss) + 1) /\ i + 1 <= Len(ss) + 1
    BY <1>2
  <2>2. start[i + 1] = start[i] + Len(ss[i])
    BY <1>0 DEF Starts
  <2>3. start[i + 1] <= n
    BY <1>0, <1>2, <2>1, StartsGrow DEF n
  <2>4. k \in 1..n
    BY <1>2, <1>3, <1>4, <2>2, <2>3
  <2>5. /\ part[k] \in 1..Len(ss) /\ place[k] \in 1..Len(ss[part[k]])
        /\ start[i] + l = start[part[k]] + place[k]
    BY <1>5, <2>4
  <2> HIDE DEF k
  <2>6. start[part[k]] + place[k] \in Nat /\ start[i] + l \in Nat
    BY <1>2, <1>3, <2>5
  <2>7. ~(i < part[k])
    <3> SUFFICES ASSUME i < part[k] PROVE FALSE
      OBVIOUS
    <3>1. start[i] + l < start[part[k]] + place[k]
      BY <1>0, <1>2, <2>5, PartsApart
    <3> QED BY <2>5, <2>6, <3>1
  <2>8. ~(part[k] < i)
    <3> SUFFICES ASSUME part[k] < i PROVE FALSE
      OBVIOUS
    <3>1. start[part[k]] + place[k] < start[i] + l
      BY <1>0, <1>2, <2>5, PartsApart
    <3> QED BY <2>5, <2>6, <3>1
  <2>9. part[k] = i
    BY <1>2, <2>5, <2>7, <2>8
  <2>10. place[k] = l
    BY <1>2, <1>3, <2>5, <2>9
  <2> QED BY <2>4, <2>9, <2>10
<1>10. Len(FlattenSeq(ss)) = n
  BY <1>1 DEF n
<1>11. \A k \in 1..n : place[k] \in 1..Len(ss[part[k]])
  BY <1>5
<1>12. Places(ss, part, place)
  BY <1>6, <1>7, <1>8, <1>9, <1>10, <1>11 DEF Places
<1> QED BY <1>1, <1>12
-----------------------------------------------------------------------------
(* The events of a block *)

Events == {On(p) : p \in Pitches} \cup {Off(p) : p \in Pitches} \cup {AllOff}

TurnsOn(e, p) == e.event.kind = "on" /\ e.event.pitch = p

Silences(e, p) == \/ e.event.kind = "off" /\ e.event.pitch = p
                  \/ e.event.kind = "alloff"

\* The pitches that are on after the events of es in s, if those of base were
\* before: the last event about such a pitch turned it on.
OnAfter(es, base, s) ==
  {p \in base \cup {es[i].event.pitch : i \in s} :
     \/ \E i \in s : TurnsOn(es[i], p) /\ \A j \in s : j > i => ~Silences(es[j], p)
     \/ p \in base /\ \A j \in s : ~Silences(es[j], p)}

LEMMA HasMax ==
  ASSUME NEW n \in Nat, NEW s \in SUBSET (1..n), s # {}
  PROVE  Max(s) \in s /\ \A y \in s : Max(s) >= y
<1> DEFINE N == {m \in Nat : \A t \in SUBSET (1..m) : t # {} => \E x \in t : \A y \in t : x >= y}
<1>1. 0 \in N
  <2>1. \A t \in SUBSET (1..0) : t = {}
    OBVIOUS
  <2> QED BY <2>1
<1>2. ASSUME NEW m \in Nat, m \in N PROVE m + 1 \in N
  <2> SUFFICES ASSUME NEW t \in SUBSET (1..(m + 1)), t # {}
               PROVE  \E x \in t : \A y \in t : x >= y
    OBVIOUS
  <2>1. CASE m + 1 \in t
    <3>1. \A y \in t : m + 1 >= y
      OBVIOUS
    <3> QED BY <2>1, <3>1
  <2>2. CASE m + 1 \notin t
    <3>1. t \in SUBSET (1..m)
      BY <2>2
    <3> QED BY <1>2, <3>1
  <2> QED BY <2>1, <2>2
<1>3. Nat \subseteq N
  BY <1>1, <1>2, Induction
<1>4. \E x \in s : \A y \in s : x >= y
  BY <1>3
<1> QED BY <1>4 DEF Max

LEMMA OnAfterStep ==
  ASSUME NEW E, \A e \in E : e.event \in Events, NEW es \in Seq(E), NEW base,
         NEW s \in SUBSET (1..Len(es)), NEW m \in s, \A y \in s : m >= y
  PROVE  OnAfter(es, base, s) = Handle(OnAfter(es, base, s \ {m}), es[m])
<1>1. \A i \in s : es[i].event.kind \in {"on", "off", "alloff"} /\ i \in Nat
  <2>1. \A e \in Events : e.kind \in {"on", "off", "alloff"}
    BY DEF Events, On, Off, AllOff
  <2> QED BY <2>1, ElementOfSeq, LenProperties
<1>2. \A i \in s \ {m} : m > i /\ ~(i > m)
  BY <1>1
<1>3. CASE es[m].event.kind = "on"
  BY <1>1, <1>2, <1>3 DEF OnAfter, TurnsOn, Silences, Handle
<1>4. CASE es[m].event.kind = "off"
  BY <1>1, <1>2, <1>4 DEF OnAfter, TurnsOn, Silences, Handle
<1>5. CASE es[m].event.kind = "alloff"
  BY <1>1, <1>2, <1>5 DEF OnAfter, TurnsOn, Silences, Handle
<1> QED BY <1>1, <1>3, <1>4, <1>5

\* Handling events one by one leaves on what OnAfter says.
LEMMA Folded ==
  ASSUME NEW E, \A e \in E : e.event \in Events, NEW es \in Seq(E), NEW base
  PROVE  FoldLeft(Handle, base, es) = OnAfter(es, base, 1..Len(es))
<1> DEFINE D == 1..Len(es)
           iter[s \in SUBSET D] ==
             IF s = {} THEN base ELSE Handle(iter[s \ {Max(s)}], es[Max(s)])
           on == [s \in SUBSET D |-> OnAfter(es, base, s)]
<1>0. Len(es) \in Nat /\ DOMAIN es = D
  BY LenProperties
<1>1. FoldLeft(Handle, base, es) = iter[D]
  BY <1>0 DEF FoldLeft, MapThenFoldSet
<1>2. iter = CHOOSE f : f = [s \in SUBSET D |->
        IF s = {} THEN base ELSE Handle(f[s \ {Max(s)}], es[Max(s)])]
  BY DEF iter
<1>3. OnAfter(es, base, {}) = base
  BY DEF OnAfter
<1>4. ASSUME NEW s \in SUBSET D, s # {}
      PROVE  OnAfter(es, base, s) = Handle(OnAfter(es, base, s \ {Max(s)}), es[Max(s)])
  <2>1. Max(s) \in s /\ \A y \in s : Max(s) >= y
    BY <1>0, <1>4, HasMax
  <2> QED BY <2>1, OnAfterStep
<1>5. on = [s \in SUBSET D |->
        IF s = {} THEN base ELSE Handle(on[s \ {Max(s)}], es[Max(s)])]
  BY <1>3, <1>4
<1> HIDE DEF iter
<1>6. iter = [s \in SUBSET D |->
        IF s = {} THEN base ELSE Handle(iter[s \ {Max(s)}], es[Max(s)])]
  BY <1>2, <1>5
<1> DEFINE N == {n \in Nat : n <= Len(es) => iter[1..n] = OnAfter(es, base, 1..n)}
<1>7. 0 \in N
  <2>1. 1..0 = {}
    OBVIOUS
  <2> QED BY <1>3, <1>6, <2>1
<1>8. ASSUME NEW n \in Nat, n \in N PROVE n + 1 \in N
  <2> SUFFICES ASSUME NEW m, m = n + 1, m <= Len(es)
               PROVE  iter[1..m] = OnAfter(es, base, 1..m)
    OBVIOUS
  <2>1. (1..m) \in SUBSET D /\ (1..n) \in SUBSET D /\ m \in 1..m /\ 1..m # {}
    <3>1. \A i \in 1..m : i \in D
      BY <1>0
    <3>2. m \in 1..m /\ \A i \in 1..n : i \in 1..m
      OBVIOUS
    <3> QED BY <3>1, <3>2
  <2>2. Max(1..m) \in 1..m /\ \A y \in 1..m : Max(1..m) >= y
    BY <1>0, <2>1, HasMax
  <2>3. Max(1..m) = m
    BY <2>1, <2>2
  <2>4. (1..m) \ {m} = 1..n
    OBVIOUS
  <2>5. iter[1..m] = Handle(iter[1..n], es[m])
    BY <1>6, <2>1, <2>3, <2>4
  <2>6. iter[1..n] = OnAfter(es, base, 1..n)
    BY <1>8
  <2> QED BY <1>4, <2>1, <2>3, <2>4, <2>5, <2>6
<1>9. Nat \subseteq N
  BY <1>7, <1>8, Induction
<1> QED BY <1>0, <1>1, <1>9

\* The events of frame f - 1
OfFrame(events, f) ==
  FlattenSeq([i \in DOMAIN events |-> When(events[i].at = f - 1, events[i])])

\* index says which of the events the ones of a frame are.
Indexes(events, f, index) ==
  /\ index \in [1..Len(OfFrame(events, f)) -> 1..Len(events)]
  /\ \A k \in 1..Len(OfFrame(events, f)) :
       OfFrame(events, f)[k] = events[index[k]] /\ events[index[k]].at = f - 1
  /\ \A k, l \in 1..Len(OfFrame(events, f)) : k < l => index[k] < index[l]
  /\ \A i \in 1..Len(events) : events[i].at = f - 1 =>
       \E k \in 1..Len(OfFrame(events, f)) : index[k] = i

LEMMA FrameOrdered ==
  ASSUME NEW E, NEW events \in Seq(E), NEW f
  PROVE  OfFrame(events, f) \in Seq(E) /\ \E index : Indexes(events, f, index)
<1> DEFINE ss == [i \in DOMAIN events |-> When(events[i].at = f - 1, events[i])]
           fs == OfFrame(events, f)
<1>1. Len(events) \in Nat /\ DOMAIN events = 1..Len(events) /\ \A i \in 1..Len(events) : events[i] \in E
  BY LenProperties, ElementOfSeq
<1>2. \A i \in 1..Len(events) :
        ss[i] = IF events[i].at = f - 1 THEN <<events[i]>> ELSE <<>>
  BY <1>1 DEF When
<1>3. ss \in Seq(Seq(E)) /\ Len(ss) = Len(events)
  <2>1. \A e \in E : <<e>> \in Seq(E) /\ <<>> \in Seq(E)
    OBVIOUS
  <2>2. ss = [i \in 1..Len(events) |-> ss[i]]
    BY <1>1
  <2> HIDE DEF ss
  <2>3. \A i \in 1..Len(events) : ss[i] \in Seq(E)
    BY <1>1, <1>2, <2>1
  <2> QED BY <1>1, <2>2, <2>3
<1>4. fs = FlattenSeq(ss)
  BY DEF OfFrame
<1> HIDE DEF ss, fs
<1>5. fs \in Seq(E) /\ \E part, place : Places(ss, part, place)
  BY <1>3, <1>4, Placed
<1>6. PICK index, place : Places(ss, index, place)
  BY <1>5
<1>7. \A i \in 1..Len(events) : \A l \in 1..Len(ss[i]) :
        l = 1 /\ events[i].at = f - 1 /\ ss[i][l] = events[i]
  <2> TAKE i \in 1..Len(events)
  <2>1. CASE events[i].at = f - 1
    <3>1. ss[i] = <<events[i]>> /\ Len(<<events[i]>>) = 1 /\ <<events[i]>>[1] = events[i]
      BY <1>2, <2>1
    <3>2. \A l \in 1..1 : l = 1
      OBVIOUS
    <3> QED BY <2>1, <3>1, <3>2
  <2>2. CASE events[i].at # f - 1
    <3>1. ss[i] = <<>>
      BY <1>2, <2>2
    <3>2. Len(<<>>) = 0 /\ \A l \in 1..0 : FALSE
      OBVIOUS
    <3> QED BY <3>1, <3>2
  <2> QED BY <2>1, <2>2
<1>8. \A i \in 1..Len(events) : events[i].at = f - 1 => 1 \in 1..Len(ss[i])
  <2> TAKE i \in 1..Len(events)
  <2> SUFFICES ASSUME events[i].at = f - 1 PROVE 1 \in 1..Len(ss[i])
    OBVIOUS
  <2>1. ss[i] = <<events[i]>>
    BY <1>2
  <2>2. Len(<<events[i]>>) = 1 /\ 1 \in 1..1
    OBVIOUS
  <2> QED BY <2>1, <2>2
<1>9. index \in [1..Len(fs) -> 1..Len(events)]
  BY <1>3, <1>4, <1>6 DEF Places
<1>10. \A k \in 1..Len(fs) : place[k] \in 1..Len(ss[index[k]]) /\ fs[k] = ss[index[k]][place[k]]
  BY <1>4, <1>6 DEF Places
<1>11. \A k \in 1..Len(fs) : place[k] = 1 /\ fs[k] = events[index[k]] /\ events[index[k]].at = f - 1
  BY <1>7, <1>9, <1>10
<1>12. \A k, l \in 1..Len(fs) : k < l => index[k] < index[l]
  <2>1. \A k, l \in 1..Len(fs) :
          k < l => index[k] < index[l] \/ (index[k] = index[l] /\ place[k] < place[l])
    BY <1>4, <1>6 DEF Places
  <2>2. ~(1 < 1)
    OBVIOUS
  <2> QED BY <1>11, <2>1, <2>2
<1>13. \A i \in 1..Len(events) : events[i].at = f - 1 => \E k \in 1..Len(fs) : index[k] = i
  <2>1. \A i \in 1..Len(events) : \A l \in 1..Len(ss[i]) : \E k \in 1..Len(fs) : index[k] = i
    BY <1>3, <1>4, <1>6 DEF Places
  <2> QED BY <1>8, <2>1
<1>14. Indexes(events, f, index)
  BY <1>9, <1>11, <1>12, <1>13 DEF Indexes, fs
<1> QED BY <1>5, <1>14 DEF fs

\* The order in which an instrument handles events
Earlier(events, i, j) ==
  \/ events[i].at < events[j].at
  \/ events[i].at = events[j].at /\ i < j

\* index says which event is handled when: those within the frames, each, and
\* in their order.
Handles(events, frames, index) ==
  LET es == InOrder(events, frames) IN
  /\ index \in [1..Len(es) -> 1..Len(events)]
  /\ \A k \in 1..Len(es) : es[k] = events[index[k]]
  /\ \A i \in 1..Len(events) :
       events[i].at \in 0..(frames - 1) => \E k \in 1..Len(es) : index[k] = i
  /\ \A k, l \in 1..Len(es) : Earlier(events, index[k], index[l]) => k < l

LEMMA Ordered ==
  ASSUME NEW E, NEW events \in Seq(E), NEW frames \in Nat
  PROVE  InOrder(events, frames) \in Seq(E) /\ \E index : Handles(events, frames, index)
<1> DEFINE es == InOrder(events, frames)
           ss == [f \in 1..frames |-> OfFrame(events, f)]
           Of(f) == CHOOSE index : Indexes(events, f, index)
<1>1. \A f \in 1..frames : OfFrame(events, f) \in Seq(E) /\ \E index : Indexes(events, f, index)
  BY FrameOrdered
<1>2. \A f \in 1..frames : Indexes(events, f, Of(f))
  BY <1>1
<1>3. ss \in Seq(Seq(E)) /\ Len(ss) = frames
  BY <1>1
<1>4. es = FlattenSeq(ss)
  BY DEF InOrder, OfFrame
<1>5. \A f \in 1..frames : ss[f] = OfFrame(events, f)
  OBVIOUS
<1> HIDE DEF ss, es, Of
<1>6. es \in Seq(E) /\ \E part, place : Places(ss, part, place)
  BY <1>3, <1>4, Placed
<1>7. PICK part, place : Places(ss, part, place)
  BY <1>6
<1>8. part \in [1..Len(es) -> 1..frames]
  BY <1>3, <1>4, <1>7 DEF Places
<1>9. \A k \in 1..Len(es) : place[k] \in 1..Len(ss[part[k]]) /\ es[k] = ss[part[k]][place[k]]
  BY <1>4, <1>7 DEF Places
<1> DEFINE index == [k \in 1..Len(es) |-> Of(part[k])[place[k]]]
<1>10. \A k \in 1..Len(es) : /\ index[k] \in 1..Len(events)
                             /\ es[k] = events[index[k]]
                             /\ events[index[k]].at = part[k] - 1
  <2> TAKE k \in 1..Len(es)
  <2>1. part[k] \in 1..frames /\ place[k] \in 1..Len(OfFrame(events, part[k]))
    BY <1>5, <1>8, <1>9
  <2>2. es[k] = OfFrame(events, part[k])[place[k]]
    BY <1>5, <1>9, <2>1
  <2>3. Indexes(events, part[k], Of(part[k]))
    BY <1>2, <2>1
  <2>4. /\ Of(part[k])[place[k]] \in 1..Len(events)
        /\ OfFrame(events, part[k])[place[k]] = events[Of(part[k])[place[k]]]
        /\ events[Of(part[k])[place[k]]].at = part[k] - 1
    BY <2>1, <2>3 DEF Indexes
  <2> QED BY <2>2, <2>4
<1>11. ASSUME NEW k \in 1..Len(es), NEW l \in 1..Len(es), k < l
       PROVE  part[k] < part[l] \/ (part[k] = part[l] /\ index[k] < index[l])
  <2>1. part[k] < part[l] \/ (part[k] = part[l] /\ place[k] < place[l])
    BY <1>4, <1>7, <1>11 DEF Places
  <2>2. ASSUME part[k] = part[l], place[k] < place[l] PROVE index[k] < index[l]
    <3>1. part[k] \in 1..frames /\ place[k] \in 1..Len(OfFrame(events, part[k]))
                                /\ place[l] \in 1..Len(OfFrame(events, part[k]))
      BY <1>5, <1>8, <1>9, <2>2
    <3>2. Indexes(events, part[k], Of(part[k]))
      BY <1>2, <3>1
    <3>3. Of(part[k])[place[k]] < Of(part[k])[place[l]]
      BY <2>2, <3>1, <3>2 DEF Indexes
    <3> QED BY <2>2, <3>3
  <2> QED BY <2>1, <2>2
<1>12. ASSUME NEW i \in 1..Len(events), events[i].at \in 0..(frames - 1)
       PROVE  \E k \in 1..Len(es) : index[k] = i
  <2>1. PICK f \in 1..frames : events[i].at = f - 1
    <3>1. events[i].at + 1 \in 1..frames /\ events[i].at = (events[i].at + 1) - 1
      BY <1>12
    <3> QED BY <3>1
  <2>2. PICK l \in 1..Len(OfFrame(events, f)) : Of(f)[l] = i
    BY <1>2, <2>1 DEF Indexes
  <2>3. PICK k \in 1..Len(es) : part[k] = f /\ place[k] = l
    BY <1>3, <1>4, <1>5, <1>7 DEF Places
  <2> QED BY <2>2, <2>3
<1>13. index \in [1..Len(es) -> 1..Len(events)]
  BY <1>10
<1> HIDE DEF index
<1>14. ASSUME NEW k \in 1..Len(es), NEW l \in 1..Len(es), Earlier(events, index[k], index[l])
       PROVE  k < l
  <2>0. part[k] \in Nat /\ part[l] \in Nat
    BY <1>8
  <2>1. /\ part[k] \in Nat /\ part[l] \in Nat
        /\ events[index[k]].at = part[k] - 1 /\ events[index[l]].at = part[l] - 1
        /\ index[k] \in Nat /\ index[l] \in Nat
    BY <1>10, <2>0
  <2>2. part[k] < part[l] \/ (part[k] = part[l] /\ index[k] < index[l])
    BY <1>14, <2>1 DEF Earlier
  <2>3. ~(l < k) /\ l # k
    BY <1>11, <2>1, <2>2
  <2>4. k \in Nat /\ l \in Nat
    OBVIOUS
  <2> QED BY <2>3, <2>4
<1>15. Handles(events, frames, index)
  BY <1>10, <1>12, <1>13, <1>14 DEF Handles, es
<1> QED BY <1>6, <1>15 DEF es
-----------------------------------------------------------------------------
(* Clips *)

\* The events of a block of n frames
Occurrences(n) == [at : 0..(n - 1), event : Events]

\* Event k turns p on, and an event that comes later turns it off.
FollowedByOff(es, k, p) ==
  \E l \in 1..Len(es) : k < l /\ es[k].at <= es[l].at /\ es[l].event = Off(p)

LEMMA FollowedLifts ==
  ASSUME NEW ss, NEW part, NEW place, Places(ss, part, place), Len(FlattenSeq(ss)) \in Nat,
         Len(ss) \in Nat, \A i \in 1..Len(ss) : Len(ss[i]) \in Nat,
         NEW k \in 1..Len(FlattenSeq(ss)), NEW p,
         FollowedByOff(ss[part[k]], place[k], p)
  PROVE  FollowedByOff(FlattenSeq(ss), k, p)
<1> DEFINE fs == FlattenSeq(ss)
<1> HIDE DEF fs
<1>1. PICK m \in 1..Len(ss[part[k]]) :
        place[k] < m /\ ss[part[k]][place[k]].at <= ss[part[k]][m].at /\ ss[part[k]][m].event = Off(p)
  BY DEF FollowedByOff
<1>2. part[k] \in 1..Len(ss) /\ place[k] \in 1..Len(ss[part[k]]) /\ fs[k] = ss[part[k]][place[k]]
  BY DEF Places, fs
<1>3. PICK l \in 1..Len(fs) : part[l] = part[k] /\ place[l] = m
  BY <1>1, <1>2 DEF Places, fs
<1>4. fs[l] = ss[part[k]][m]
  BY <1>3 DEF Places, fs
<1>5. k < l
  <2>1. place[k] \in Nat /\ m \in Nat /\ part[k] \in Nat
    BY <1>2
  <2>2. k # l
    BY <1>1, <1>3, <2>1
  <2>3. ~(l < k)
    <3> SUFFICES ASSUME l < k PROVE FALSE
      OBVIOUS
    <3>1. part[l] < part[k] \/ (part[l] = part[k] /\ place[l] < place[k])
      BY DEF Places, fs
    <3> QED BY <1>1, <1>3, <2>1, <3>1
  <2>4. k \in Nat /\ l \in Nat
    BY DEF fs
  <2> QED BY <2>2, <2>3, <2>4
<1>6. fs[k].at <= fs[l].at /\ fs[l].event = Off(p)
  BY <1>1, <1>2, <1>4
<1> QED BY <1>5, <1>6 DEF FollowedByOff, fs

LEMMA DivGrows ==
  ASSUME NEW a \in Nat, NEW b \in Nat, NEW d \in Nat \ {0}, a <= b
  PROVE  a \div d <= b \div d
<1> DEFINE q == b \div d
<1>1. q \in Nat /\ b < d * (q + 1) /\ a \div d \in Nat
  BY Division
<1> HIDE DEF q
<1>2. a < d * (q + 1)
  <2>1. d * (q + 1) \in Nat
    BY <1>1
  <2> QED BY <1>1, <2>1
<1>3. a \div d < q + 1
  BY <1>1, <1>2, Below
<1> QED BY <1>1, <1>3 DEF q

LEMMA OffsetGrows ==
  ASSUME NEW s \in Rates, NEW from \in Nat, NEW t \in Nat, NEW u \in Nat, from <= t, t <= u
  PROVE  OffsetOf(t, from, s) <= OffsetOf(u, from, s)
<1>1. t - from \in Nat /\ u - from \in Nat /\ t - from <= u - from /\ s.num \in Nat /\ s.den \in Nat \ {0}
  BY DEF Rates
<1>2. (t - from) * s.num \in Nat /\ (u - from) * s.num \in Nat
  BY <1>1
<1>3. (t - from) * s.num <= (u - from) * s.num
  <2> DEFINE x == t - from
             y == u - from
  <2> HIDE DEF x, y
  <2> SUFFICES ASSUME x \in Nat, y \in Nat, x <= y PROVE x * s.num <= y * s.num
    BY <1>1 DEF x, y
  <2> QED BY <1>1, SMT
<1> QED BY <1>1, <1>2, <1>3, DivGrows DEF OffsetOf

\* What the events of a block of a clip do for its notes: an "on" is that of a
\* note that starts before the end of the block, and if the note ends there
\* too, its "off" follows; the "off" of a note that ends in the block is there,
\* unless the clip is passed over.
Serves(es, c, from, to) ==
  /\ \A k \in 1..Len(es) : es[k].event.kind = "on" =>
       \E j \in 1..Len(c.notes) :
         /\ es[k].event.pitch = c.notes[j].pitch
         /\ NoteOn(c, c.notes[j]) < to
         /\ NoteOff(c, c.notes[j]) < to => FollowedByOff(es, k, c.notes[j].pitch)
  /\ \A j \in 1..Len(c.notes) :
       /\ from <= NoteOff(c, c.notes[j]) /\ NoteOff(c, c.notes[j]) < to
       /\ from < ClipEnd(c)
       => \E l \in 1..Len(es) : es[l].event = Off(c.notes[j].pitch)

\* What EventsInRange puts out for one note
OfNote(c, n, from, to) ==
  LET on == NoteOn(c, n)
      off == NoteOff(c, n) IN
  When(on >= from /\ on < to, At(OffsetOf(on, from, spt), On(n.pitch)))
  \o When(off >= from /\ off < to, At(OffsetOf(off, from, spt), Off(n.pitch)))

ServesNote(es, c, n, from, to) ==
  /\ \A k \in 1..Len(es) : es[k].event.kind = "on" =>
       /\ es[k].event.pitch = n.pitch
       /\ NoteOn(c, n) < to
       /\ NoteOff(c, n) < to => FollowedByOff(es, k, n.pitch)
  /\ from <= NoteOff(c, n) /\ NoteOff(c, n) < to =>
       \E l \in 1..Len(es) : es[l].event = Off(n.pitch)

LEMMA NoteTimes ==
  ASSUME NEW c \in Clips, NEW n \in Notes
  PROVE  /\ NoteOn(c, n) \in Int /\ NoteOff(c, n) \in Int /\ ClipEnd(c) \in Int
         /\ c.start \in Int /\ c.start <= NoteOff(c, n) /\ NoteOn(c, n) <= NoteOff(c, n)
<1>1. c.start \in Int /\ c.length \in Int
  BY DEF Clips
<1>2. n.start \in Nat /\ n.length \in Nat
  BY DEF Notes
<1>3. NoteOn(c, n) = c.start + n.start /\ NoteOff(c, n) = (c.start + n.start) + n.length
  BY DEF NoteOn, NoteOff
<1>4. ClipEnd(c) = c.start + c.length
  BY DEF ClipEnd
<1> QED BY <1>1, <1>2, <1>3, <1>4

LEMMA NoteServed ==
  ASSUME spt \in Rates, NEW c \in Clips, NEW n \in Notes, NEW from \in Nat, NEW frames \in Nat \ {0},
         NEW to, to = from + TicksIn(frames, spt)
  PROVE  /\ OfNote(c, n, from, to) \in Seq(Occurrences(frames))
         /\ ServesNote(OfNote(c, n, from, to), c, n, from, to)
<1> DEFINE on == NoteOn(c, n)
           off == NoteOff(c, n)
           es == OfNote(c, n, from, to)
           x == At(OffsetOf(on, from, spt), On(n.pitch))
           y == At(OffsetOf(off, from, spt), Off(n.pitch))
           S == Occurrences(frames)
<1>1. on \in Int /\ off \in Int /\ on <= off /\ n.pitch \in Pitches
  BY NoteTimes DEF Notes
<1>2. to \in Nat
  BY TicksAreNat
<1>3. es = When(on >= from /\ on < to, x) \o When(off >= from /\ off < to, y)
  BY DEF OfNote
<1>4. ASSUME on >= from, on < to PROVE x \in S
  <2>1. on \in Nat
    BY <1>1, <1>4
  <2>2. OffsetOf(on, from, spt) \in 0..(frames - 1)
    BY <1>4, <2>1, EventFits
  <2> QED BY <1>1, <2>2 DEF Occurrences, At, On, Events
<1>5. ASSUME off >= from, off < to PROVE y \in S
  <2>1. off \in Nat
    BY <1>1, <1>5
  <2>2. OffsetOf(off, from, spt) \in 0..(frames - 1)
    BY <1>5, <2>1, EventFits
  <2> QED BY <1>1, <2>2 DEF Occurrences, At, Off, Events
<1>6. /\ x.event = On(n.pitch) /\ y.event = Off(n.pitch)
      /\ x.event.kind = "on" /\ y.event.kind = "off" /\ x.event.pitch = n.pitch
      /\ x.at = OffsetOf(on, from, spt) /\ y.at = OffsetOf(off, from, spt)
  BY DEF At, On, Off
<1>7. ASSUME on >= from, on < to, off >= from PROVE x.at <= y.at
  <2>1. on \in Nat /\ off \in Nat
    BY <1>1, <1>7
  <2> QED BY <1>1, <1>6, <1>7, <2>1, OffsetGrows
<1> HIDE DEF x, y, S, es, on, off
<1>8. CASE ~(on >= from /\ on < to) /\ ~(off >= from /\ off < to)
  <2>1. es = <<>>
    BY <1>3, <1>8 DEF When
  <2>2. \A k \in 1..Len(<<>>) : FALSE
    OBVIOUS
  <2>3. es \in Seq(S)
    BY <2>1
  <2> QED BY <1>8, <2>1, <2>2, <2>3 DEF S, es, on, off, ServesNote
<1>9. CASE on >= from /\ on < to /\ ~(off >= from /\ off < to)
  <2>1. es = <<x>>
    <3>1. When(on >= from /\ on < to, x) = <<x>> /\ When(off >= from /\ off < to, y) = <<>>
      BY <1>9 DEF When
    <3>2. <<x>> \o <<>> = <<x>>
      OBVIOUS
    <3> QED BY <1>3, <3>1, <3>2
  <2>2. Len(es) = 1 /\ es[1] = x /\ \A k \in 1..1 : k = 1
    BY <2>1
  <2>3. es \in Seq(S)
    BY <1>4, <1>9, <2>1
  <2>4. ~(off < to)
    BY <1>1, <1>2, <1>9
  <2> QED BY <1>6, <1>9, <2>2, <2>3, <2>4 DEF S, es, on, off, ServesNote
<1>10. CASE ~(on >= from /\ on < to) /\ off >= from /\ off < to
  <2>1. es = <<y>>
    <3>1. When(on >= from /\ on < to, x) = <<>> /\ When(off >= from /\ off < to, y) = <<y>>
      BY <1>10 DEF When
    <3>2. <<>> \o <<y>> = <<y>>
      OBVIOUS
    <3> QED BY <1>3, <3>1, <3>2
  <2>2. Len(es) = 1 /\ es[1] = y /\ 1 \in 1..1 /\ \A k \in 1..1 : k = 1
    BY <2>1
  <2>3. es \in Seq(S)
    BY <1>5, <1>10, <2>1
  <2> QED BY <1>6, <2>2, <2>3 DEF S, es, on, off, ServesNote
<1>11. CASE on >= from /\ on < to /\ off >= from /\ off < to
  <2>1. es = <<x>> \o <<y>>
    <3>1. When(on >= from /\ on < to, x) = <<x>> /\ When(off >= from /\ off < to, y) = <<y>>
      BY <1>11 DEF When
    <3> QED BY <1>3, <3>1
  <2>2. <<x>> \in Seq(S) /\ <<y>> \in Seq(S) /\ Len(<<x>>) = 1 /\ Len(<<y>>) = 1
        /\ <<x>>[1] = x /\ <<y>>[1] = y
    BY <1>4, <1>5, <1>11
  <2>3. es \in Seq(S) /\ Extends(es, <<x>>, <<y>>)
    BY <2>1, <2>2, ConcatExtends
  <2>4. 1 \in 1..1 /\ 2 \in 1..2 /\ 1 < 2 /\ 1 + 1 = 2 /\ \A k \in 1..2 : k = 1 \/ k = 2
    OBVIOUS
  <2>5. Len(es) = 2 /\ es[1] = x /\ es[2] = y
    BY <2>2, <2>3, <2>4 DEF Extends
  <2>6. FollowedByOff(es, 1, n.pitch)
    BY <1>6, <1>7, <1>11, <2>4, <2>5 DEF FollowedByOff
  <2> QED BY <1>6, <1>11, <2>3, <2>4, <2>5, <2>6 DEF S, es, on, off, ServesNote
<1> QED BY <1>8, <1>9, <1>10, <1>11

LEMMA ClipServed ==
  ASSUME spt \in Rates, NEW c \in Clips, NEW from \in Nat, NEW frames \in Nat \ {0},
         NEW to, to = from + TicksIn(frames, spt)
  PROVE  /\ EventsInRange(c, from, to) \in Seq(Occurrences(frames))
         /\ Serves(EventsInRange(c, from, to), c, from, to)
<1> DEFINE es == EventsInRange(c, from, to)
           ss == [j \in DOMAIN c.notes |-> OfNote(c, c.notes[j], from, to)]
           S == Occurrences(frames)
<1>1. c.notes \in Seq(Notes) /\ Len(c.notes) \in Nat /\ c.start \in Int /\ ClipEnd(c) \in Int
  BY LenProperties DEF Clips, ClipEnd
<1>2. DOMAIN c.notes = 1..Len(c.notes) /\ \A j \in 1..Len(c.notes) : c.notes[j] \in Notes
  BY <1>1, LenProperties, ElementOfSeq
<1>3. \A j \in 1..Len(c.notes) : c.start <= NoteOff(c, c.notes[j]) /\ NoteOff(c, c.notes[j]) \in Int
  BY <1>2, NoteTimes
<1>4. \A j \in 1..Len(c.notes) : ss[j] = OfNote(c, c.notes[j], from, to)
  BY <1>2
<1>5. \A j \in 1..Len(c.notes) : ss[j] \in Seq(S) /\ ServesNote(ss[j], c, c.notes[j], from, to)
  BY <1>2, <1>4, NoteServed
<1>6. CASE to <= c.start \/ from >= ClipEnd(c)
  <2>1. es = <<>>
    BY <1>6 DEF EventsInRange
  <2>2. \A k \in 1..Len(<<>>) : FALSE
    OBVIOUS
  <2>3. to \in Nat
    BY TicksAreNat
  <2>4. \A j \in 1..Len(c.notes) : ~(/\ from <= NoteOff(c, c.notes[j]) /\ NoteOff(c, c.notes[j]) < to
                                     /\ from < ClipEnd(c))
    <3> SUFFICES ASSUME NEW j \in 1..Len(c.notes),
                        from <= NoteOff(c, c.notes[j]), NoteOff(c, c.notes[j]) < to, from < ClipEnd(c)
                 PROVE  FALSE
      OBVIOUS
    <3>1. to <= c.start
      BY <1>1, <1>6
    <3>2. c.start <= NoteOff(c, c.notes[j]) /\ NoteOff(c, c.notes[j]) \in Int
      BY <1>3
    <3> QED BY <1>1, <2>3, <3>1, <3>2
  <2>5. <<>> \in Seq(S)
    OBVIOUS
  <2> HIDE DEF es
  <2> QED BY <2>1, <2>2, <2>4, <2>5 DEF Serves, es
<1>7. CASE ~(to <= c.start \/ from >= ClipEnd(c))
  <2>1. es = FlattenSeq(ss)
    BY <1>7, Zenon DEF EventsInRange, OfNote
  <2>2. ss \in Seq(Seq(S)) /\ Len(ss) = Len(c.notes)
    <3>1. ss = [j \in 1..Len(c.notes) |-> ss[j]]
      BY <1>2
    <3> HIDE DEF ss
    <3>2. \A j \in 1..Len(c.notes) : ss[j] \in Seq(S)
      BY <1>5
    <3> HIDE DEF S
    <3>3. ss \in [1..Len(c.notes) -> Seq(S)]
      BY <3>1, <3>2
    <3> QED BY <1>1, <3>3
  <2> HIDE DEF es, ss, S
  <2>3. es \in Seq(S) /\ \E part, place : Places(ss, part, place)
    BY <2>1, <2>2, Placed
  <2>4. PICK part, place : Places(ss, part, place)
    BY <2>3
  <2>5. Len(es) \in Nat /\ \A j \in 1..Len(c.notes) : Len(ss[j]) \in Nat
    BY <1>5, <2>3, LenProperties
  <2>6. ASSUME NEW k \in 1..Len(es), es[k].event.kind = "on"
        PROVE  \E j \in 1..Len(c.notes) :
                 /\ es[k].event.pitch = c.notes[j].pitch
                 /\ NoteOn(c, c.notes[j]) < to
                 /\ NoteOff(c, c.notes[j]) < to => FollowedByOff(es, k, c.notes[j].pitch)
    <3>1. part[k] \in 1..Len(c.notes)
      BY <2>1, <2>2, <2>4 DEF Places
    <3>2. place[k] \in 1..Len(ss[part[k]]) /\ es[k] = ss[part[k]][place[k]]
      BY <2>1, <2>4 DEF Places
    <3>3. /\ es[k].event.pitch = c.notes[part[k]].pitch
          /\ NoteOn(c, c.notes[part[k]]) < to
          /\ NoteOff(c, c.notes[part[k]]) < to =>
               FollowedByOff(ss[part[k]], place[k], c.notes[part[k]].pitch)
      BY <1>5, <2>6, <3>1, <3>2 DEF ServesNote
    <3>4. FollowedByOff(ss[part[k]], place[k], c.notes[part[k]].pitch) =>
            FollowedByOff(es, k, c.notes[part[k]].pitch)
      BY <1>1, <2>1, <2>2, <2>4, <2>5, FollowedLifts
    <3> QED BY <3>1, <3>3, <3>4
  <2>7. ASSUME NEW j \in 1..Len(c.notes),
               from <= NoteOff(c, c.notes[j]), NoteOff(c, c.notes[j]) < to
        PROVE  \E l \in 1..Len(es) : es[l].event = Off(c.notes[j].pitch)
    <3>1. PICK m \in 1..Len(ss[j]) : ss[j][m].event = Off(c.notes[j].pitch)
      BY <1>5, <2>7 DEF ServesNote
    <3>2. PICK l \in 1..Len(es) : part[l] = j /\ place[l] = m
      BY <2>1, <2>2, <2>4 DEF Places
    <3>3. es[l] = ss[j][m]
      BY <2>1, <2>4, <3>2 DEF Places
    <3> QED BY <3>1, <3>3
  <2>8. Serves(es, c, from, to)
    BY <2>6, <2>7 DEF Serves
  <2> QED BY <2>3, <2>8 DEF es, S
<1> QED BY <1>6, <1>7

\* The same for all clips of a track
ServesAll(es, clips, from, to) ==
  /\ \A k \in 1..Len(es) : es[k].event.kind = "on" =>
       \E i \in 1..Len(clips) : \E j \in 1..Len(clips[i].notes) :
         /\ es[k].event.pitch = clips[i].notes[j].pitch
         /\ NoteOn(clips[i], clips[i].notes[j]) < to
         /\ NoteOff(clips[i], clips[i].notes[j]) < to => FollowedByOff(es, k, clips[i].notes[j].pitch)
  /\ \A i \in 1..Len(clips) : \A j \in 1..Len(clips[i].notes) :
       /\ from <= NoteOff(clips[i], clips[i].notes[j]) /\ NoteOff(clips[i], clips[i].notes[j]) < to
       /\ from < ClipEnd(clips[i])
       => \E l \in 1..Len(es) : es[l].event = Off(clips[i].notes[j].pitch)

LEMMA ClipsServed ==
  ASSUME spt \in Rates, NEW clips \in Seq(Clips), NEW from \in Nat, NEW frames \in Nat \ {0},
         NEW to, to = from + TicksIn(frames, spt)
  PROVE  LET es == FlattenSeq([i \in DOMAIN clips |-> EventsInRange(clips[i], from, to)]) IN
         /\ es \in Seq(Occurrences(frames))
         /\ ServesAll(es, clips, from, to)
<1> DEFINE ss == [i \in DOMAIN clips |-> EventsInRange(clips[i], from, to)]
           es == FlattenSeq(ss)
           S == Occurrences(frames)
<1>1. Len(clips) \in Nat /\ DOMAIN clips = 1..Len(clips) /\ \A i \in 1..Len(clips) : clips[i] \in Clips
  BY LenProperties, ElementOfSeq
<1>2. \A i \in 1..Len(clips) : ss[i] \in Seq(S) /\ Serves(ss[i], clips[i], from, to)
  BY <1>1, ClipServed
<1>3. ss \in Seq(Seq(S)) /\ Len(ss) = Len(clips)
  <2>1. ss = [i \in 1..Len(clips) |-> ss[i]]
    BY <1>1
  <2> HIDE DEF ss
  <2> QED BY <1>1, <1>2, <2>1
<1> HIDE DEF ss, S
<1>4. es \in Seq(S) /\ \E part, place : Places(ss, part, place)
  BY <1>3, Placed
<1>5. PICK part, place : Places(ss, part, place)
  BY <1>4
<1> DEFINE fs == es
<1> HIDE DEF es, fs
<1>6. Len(es) \in Nat /\ Len(ss) \in Nat /\ \A i \in 1..Len(ss) : Len(ss[i]) \in Nat
  BY <1>1, <1>2, <1>3, <1>4, LenProperties
<1>7. ASSUME NEW k \in 1..Len(es), es[k].event.kind = "on"
      PROVE  \E i \in 1..Len(clips) : \E j \in 1..Len(clips[i].notes) :
               /\ es[k].event.pitch = clips[i].notes[j].pitch
               /\ NoteOn(clips[i], clips[i].notes[j]) < to
               /\ NoteOff(clips[i], clips[i].notes[j]) < to => FollowedByOff(es, k, clips[i].notes[j].pitch)
  <2>1. part[k] \in 1..Len(clips)
    BY <1>3, <1>5 DEF Places, es
  <2>2. place[k] \in 1..Len(ss[part[k]]) /\ es[k] = ss[part[k]][place[k]]
    BY <1>5 DEF Places, es
  <2>3. PICK j \in 1..Len(clips[part[k]].notes) :
          /\ es[k].event.pitch = clips[part[k]].notes[j].pitch
          /\ NoteOn(clips[part[k]], clips[part[k]].notes[j]) < to
          /\ NoteOff(clips[part[k]], clips[part[k]].notes[j]) < to =>
               FollowedByOff(ss[part[k]], place[k], clips[part[k]].notes[j].pitch)
    BY <1>2, <1>7, <2>1, <2>2 DEF Serves
  <2>4. FollowedByOff(ss[part[k]], place[k], clips[part[k]].notes[j].pitch) =>
          FollowedByOff(es, k, clips[part[k]].notes[j].pitch)
    BY <1>5, <1>6, FollowedLifts DEF es
  <2> QED BY <2>1, <2>3, <2>4
<1>8. ASSUME NEW i \in 1..Len(clips), NEW j \in 1..Len(clips[i].notes),
             from <= NoteOff(clips[i], clips[i].notes[j]), NoteOff(clips[i], clips[i].notes[j]) < to,
             from < ClipEnd(clips[i])
      PROVE  \E l \in 1..Len(es) : es[l].event = Off(clips[i].notes[j].pitch)
  <2>1. PICK m \in 1..Len(ss[i]) : ss[i][m].event = Off(clips[i].notes[j].pitch)
    BY <1>2, <1>8 DEF Serves
  <2>2. PICK l \in 1..Len(es) : part[l] = i /\ place[l] = m
    BY <1>3, <1>5 DEF Places, es
  <2>3. es[l] = ss[i][m]
    BY <1>5, <2>2 DEF Places, es
  <2> QED BY <2>1, <2>3
<1>9. ServesAll(es, clips, from, to)
  BY <1>7, <1>8 DEF ServesAll
<1> QED BY <1>4, <1>9 DEF es, ss, S
-----------------------------------------------------------------------------
(* A block *)

\* Note j of clip i has pitch p.
Plays(clips, i, j, p) ==
  i \in 1..Len(clips) /\ j \in 1..Len(clips[i].notes) /\ clips[i].notes[j].pitch = p

OnTick(clips, i, j) == NoteOn(clips[i], clips[i].notes[j])
OffTick(clips, i, j) == NoteOff(clips[i], clips[i].notes[j])

\* The events of the clips in a block
FromClips(from, to) ==
  IF playing THEN FlattenSeq([i \in DOMAIN graph.clips |->
                    EventsInRange(graph.clips[i], from, to)])
             ELSE <<>>

FromKeys == [i \in DOMAIN live |-> At(0, live[i])]

\* The range of a block that Process renders
RangeStart == IF playing THEN TickAt(pos, spt) ELSE 0
RangeEnd(frames) == IF playing THEN RangeStart + TicksIn(frames, spt) ELSE 0

LiveEvents == {On(LiveNote), Off(LiveNote), AllOff}

\* What an invariant of Process may rely on
Ready ==
  /\ graph \in Docs
  /\ spt \in Rates
  /\ pos \in Nat
  /\ playing \in BOOLEAN
  /\ live \in Seq(LiveEvents)

LEMMA DocTypes ==
  ASSUME NEW d \in Docs
  PROVE  d.spt \in Rates /\ d.clips \in Seq(Clips)
  BY PlaybackAssumption

LEMMA BlockEvents ==
  ASSUME Ready, NEW frames \in Nat \ {0}, NEW from, NEW to,
         from = RangeStart, to = RangeEnd(frames)
  PROVE  /\ FromClips(from, to) \in Seq(Occurrences(frames))
         /\ playing => ServesAll(FromClips(from, to), graph.clips, from, to)
         /\ FromKeys \in Seq(Occurrences(frames))
         /\ Len(FromKeys) = Len(live)
         /\ \A i \in 1..Len(live) : FromKeys[i] = At(0, live[i])
<1>1. Len(live) \in Nat /\ DOMAIN live = 1..Len(live) /\ \A i \in 1..Len(live) : live[i] \in LiveEvents
  BY LenProperties, ElementOfSeq DEF Ready
<1>2. \A e \in LiveEvents : At(0, e) \in Occurrences(frames)
  <2>1. LiveNote \in Pitches
    BY DEF Pitches
  <2>2. 0 \in 0..(frames - 1)
    OBVIOUS
  <2>3. LiveEvents \subseteq Events
    BY <2>1 DEF LiveEvents, Events
  <2> QED BY <2>2, <2>3 DEF At, Occurrences
<1>3. FromKeys = [i \in 1..Len(live) |-> At(0, live[i])]
  BY <1>1 DEF FromKeys
<1>4. \A i \in 1..Len(live) : FromKeys[i] = At(0, live[i]) /\ FromKeys[i] \in Occurrences(frames)
  BY <1>1, <1>2, <1>3
<1>5. FromKeys \in Seq(Occurrences(frames)) /\ Len(FromKeys) = Len(live)
  <2>1. FromKeys \in [1..Len(live) -> Occurrences(frames)]
    BY <1>1, <1>2, <1>3
  <2> QED BY <1>1, <2>1
<1>6. CASE playing
  <2>1. from \in Nat /\ to = from + TicksIn(frames, spt)
    BY <1>6, TickIsNat DEF Ready, RangeStart, RangeEnd
  <2>2. graph.clips \in Seq(Clips) /\ spt \in Rates
    BY DocTypes DEF Ready
  <2>3. FromClips(from, to) =
          FlattenSeq([i \in DOMAIN graph.clips |-> EventsInRange(graph.clips[i], from, to)])
    BY <1>6 DEF FromClips
  <2>4. FromClips(from, to) \in Seq(Occurrences(frames)) /\ ServesAll(FromClips(from, to), graph.clips, from, to)
    BY <2>1, <2>2, <2>3, ClipsServed
  <2> QED BY <1>4, <1>5, <2>4
<1>7. CASE ~playing
  <2>1. FromClips(from, to) = <<>>
    BY <1>7 DEF FromClips
  <2> QED BY <1>4, <1>5, <1>7, <2>1
<1> QED BY <1>6, <1>7

\* A pitch of a clip that is on after a block was turned on by a note that
\* goes on beyond the block, or was on before and nothing turned it off.
LEMMA Processed ==
  ASSUME Ready, NEW frames \in Nat \ {0}, Process(frames), NEW p \in sounding', p # LiveNote,
         NEW from, NEW to, from = RangeStart, to = RangeEnd(frames)
  PROVE  \/ /\ playing
            /\ \E i, j : /\ Plays(graph.clips, i, j, p)
                         /\ OnTick(graph.clips, i, j) < to
                         /\ ~(OffTick(graph.clips, i, j) < to)
         \/ /\ p \in sounding
            /\ AllOff \notin Range(live)
            /\ playing => \A i, j : Plays(graph.clips, i, j, p) =>
                 ~(/\ from <= OffTick(graph.clips, i, j) /\ OffTick(graph.clips, i, j) < to
                   /\ from < ClipEnd(graph.clips[i]))
<1> DEFINE E == Occurrences(frames)
           clips == FromClips(from, to)
           events == FromKeys \o clips
           es == InOrder(events, frames)
<1>1. /\ clips \in Seq(E) /\ FromKeys \in Seq(E) /\ Len(FromKeys) = Len(live)
      /\ playing => ServesAll(clips, graph.clips, from, to)
      /\ \A i \in 1..Len(live) : FromKeys[i] = At(0, live[i])
  BY BlockEvents
<1>2. sounding' = FoldLeft(Handle, sounding, es)
  BY DEF Process, FromClips, FromKeys, RangeStart, RangeEnd
<1>3. \A e \in E : e.event \in Events /\ e.at \in 0..(frames - 1)
  BY DEF Occurrences
<1> HIDE DEF E, clips, es
<1>4. events \in Seq(E) /\ Extends(events, FromKeys, clips)
  BY <1>1, ConcatExtends
<1> HIDE DEF events
<1>5. es \in Seq(E) /\ \E index : Handles(events, frames, index)
  BY <1>4, Ordered DEF es
<1>6. PICK index : Handles(events, frames, index)
  BY <1>5
<1>7. sounding' = OnAfter(es, sounding, 1..Len(es))
  BY <1>2, <1>3, <1>5, Folded
<1>8. Len(live) \in Nat /\ Len(clips) \in Nat /\ Len(events) = Len(live) + Len(clips)
  BY <1>1, <1>4, LenProperties DEF Ready, Extends
<1>9. \A i \in 1..Len(live) : events[i].event = live[i]
  <2>1. \A i \in 1..Len(live) : events[i] = At(0, live[i])
    BY <1>1, <1>4 DEF Extends
  <2>2. \A e : At(0, e).event = e
    BY DEF At
  <2> QED BY <2>1, <2>2
<1>10. \A l \in 1..Len(clips) : events[Len(live) + l] = clips[l] /\ Len(live) + l \in 1..Len(events)
  <2>1. \A l \in 1..Len(clips) : events[Len(FromKeys) + l] = clips[l]
    BY <1>4 DEF Extends
  <2>2. \A l \in 1..Len(clips) : Len(live) + l \in 1..Len(events)
    BY <1>8
  <2>3. Len(FromKeys) = Len(live)
    BY <1>1
  <2> QED BY <2>1, <2>2, <2>3
<1>11. \A i \in 1..Len(events) : i \in 1..Len(live) \/ \E l \in 1..Len(clips) : i = Len(live) + l
  <2> TAKE i \in 1..Len(events)
  <2>1. CASE i > Len(live)
    <3>1. i - Len(live) \in 1..Len(clips) /\ i = Len(live) + (i - Len(live))
      BY <1>8, <2>1
    <3> QED BY <3>1
  <2>2. CASE ~(i > Len(live))
    BY <1>8, <2>2
  <2> QED BY <2>1, <2>2
<1>12. \A i \in 1..Len(events) : \E k \in 1..Len(es) : index[k] = i
  <2>1. \A i \in 1..Len(events) : events[i].at \in 0..(frames - 1)
    BY <1>3, <1>4, ElementOfSeq
  <2> QED BY <1>6, <2>1 DEF Handles, es
<1>13. \A k \in 1..Len(es) : index[k] \in 1..Len(events) /\ es[k] = events[index[k]]
  BY <1>6 DEF Handles, es
<1>14. CASE \E k \in 1..Len(es) : TurnsOn(es[k], p) /\ \A l \in 1..Len(es) : l > k => ~Silences(es[l], p)
  <2>1. PICK k \in 1..Len(es) : TurnsOn(es[k], p) /\ \A l \in 1..Len(es) : l > k => ~Silences(es[l], p)
    BY <1>14
  <2>2. index[k] \notin 1..Len(live)
    <3> SUFFICES ASSUME index[k] \in 1..Len(live) PROVE FALSE
      OBVIOUS
    <3>1. es[k].event = live[index[k]]
      BY <1>9, <1>13
    <3>2. live[index[k]] \in LiveEvents
      BY ElementOfSeq DEF Ready
    <3> QED BY <2>1, <3>1, <3>2 DEF TurnsOn, LiveEvents, On, Off, AllOff
  <2>3. PICK m \in 1..Len(clips) : index[k] = Len(live) + m
    BY <1>11, <1>13, <2>2
  <2>4. es[k] = clips[m]
    BY <1>10, <1>13, <2>3
  <2>5. playing
    <3> SUFFICES ASSUME ~playing PROVE FALSE
      BY DEF Ready
    <3>1. clips = <<>>
      BY DEF FromClips, clips
    <3> QED BY <3>1
  <2>6. PICK i \in 1..Len(graph.clips) : \E j \in 1..Len(graph.clips[i].notes) :
          /\ clips[m].event.pitch = graph.clips[i].notes[j].pitch
          /\ NoteOn(graph.clips[i], graph.clips[i].notes[j]) < to
          /\ NoteOff(graph.clips[i], graph.clips[i].notes[j]) < to =>
               FollowedByOff(clips, m, graph.clips[i].notes[j].pitch)
    BY <1>1, <2>1, <2>4, <2>5 DEF ServesAll, TurnsOn
  <2>7. PICK j \in 1..Len(graph.clips[i].notes) :
          /\ clips[m].event.pitch = graph.clips[i].notes[j].pitch
          /\ NoteOn(graph.clips[i], graph.clips[i].notes[j]) < to
          /\ NoteOff(graph.clips[i], graph.clips[i].notes[j]) < to =>
               FollowedByOff(clips, m, graph.clips[i].notes[j].pitch)
    BY <2>6
  <2>8. graph.clips[i].notes[j].pitch = p
    BY <2>1, <2>4, <2>7 DEF TurnsOn
  <2>9. ~(OffTick(graph.clips, i, j) < to)
    <3> SUFFICES ASSUME FollowedByOff(clips, m, p) PROVE FALSE
      BY <2>7, <2>8 DEF OffTick
    <3>1. PICK l \in 1..Len(clips) : m < l /\ clips[m].at <= clips[l].at /\ clips[l].event = Off(p)
      BY DEF FollowedByOff
    <3>2. PICK h \in 1..Len(es) : index[h] = Len(live) + l
      BY <1>10, <1>12
    <3>3. es[h] = clips[l]
      BY <1>10, <1>13, <3>2
    <3>4. Earlier(events, index[k], index[h])
      <4>1. clips[m].at \in Nat /\ clips[l].at \in Nat
        BY <1>1, <1>3, ElementOfSeq
      <4>2. index[k] < index[h]
        BY <1>8, <2>3, <3>1, <3>2
      <4>3. clips[m].at < clips[l].at \/ clips[m].at = clips[l].at
        BY <3>1, <4>1
      <4> QED BY <1>10, <2>3, <3>2, <4>2, <4>3 DEF Earlier
    <3>5. k < h
      BY <1>6, <3>4 DEF Handles, es
    <3>6. h > k /\ Silences(es[h], p)
      BY <3>1, <3>3, <3>5 DEF Silences, Off
    <3> QED BY <2>1, <3>6
  <2> QED BY <2>5, <2>7, <2>8, <2>9 DEF Plays, OnTick
<1>15. CASE p \in sounding /\ \A l \in 1..Len(es) : ~Silences(es[l], p)
  <2>1. AllOff \notin Range(live)
    <3> SUFFICES ASSUME AllOff \in Range(live) PROVE FALSE
      OBVIOUS
    <3>1. PICK i \in 1..Len(live) : live[i] = AllOff
      BY LenProperties DEF Range, Ready
    <3>2. i \in 1..Len(events)
      BY <1>8
    <3>3. PICK k \in 1..Len(es) : index[k] = i
      BY <1>12, <3>2
    <3>4. es[k].event = AllOff
      BY <1>9, <1>13, <3>1, <3>3
    <3> QED BY <1>15, <3>4 DEF Silences, AllOff
  <2>2. ASSUME playing, NEW i, NEW j, Plays(graph.clips, i, j, p),
               from <= OffTick(graph.clips, i, j), OffTick(graph.clips, i, j) < to,
               from < ClipEnd(graph.clips[i])
        PROVE  FALSE
    <3>1. PICK l \in 1..Len(clips) : clips[l].event = Off(p)
      BY <1>1, <2>2 DEF ServesAll, Plays, OffTick
    <3>2. PICK k \in 1..Len(es) : index[k] = Len(live) + l
      BY <1>10, <1>12
    <3>3. es[k].event = Off(p)
      BY <1>10, <1>13, <3>1, <3>2
    <3> QED BY <1>15, <3>3 DEF Silences, Off
  <2> QED BY <1>15, <2>1, <2>2
<1> QED BY <1>7, <1>14, <1>15 DEF OnAfter

\* A range ends at most a tick beyond the position after its block.
LEMMA BlocksOverlapLittle ==
  ASSUME NEW p \in Nat, NEW n \in Nat \ {0}, NEW s \in Rates
  PROVE  TickAt(p, s) + TicksIn(n, s) <= TickAt(p + n, s) + 1
<1> DEFINE d == s.num
           a == p * s.den
           b == n * s.den
           q == a \div d
           u == (b + d - 1) \div d
           r == (a + b) \div d
<1>1. d \in Nat \ {0} /\ a \in Nat /\ b \in Nat \ {0} /\ (p + n) * s.den = a + b
  BY SMT DEF Rates
<1>2. q \in Nat /\ d * q <= a
  BY <1>1, Division
<1>3. u \in Nat /\ b <= d * u /\ d * u <= b + d - 1
  BY <1>1, RoundedUp
<1>4. r \in Nat /\ a + b < d * (r + 1)
  <2>1. a + b \in Nat
    BY <1>1
  <2> QED BY <1>1, <2>1, Division
<1>5. TickAt(p, s) = q /\ TickAt(p + n, s) = r
  BY <1>1 DEF TickAt
<1>6. TicksIn(n, s) = IF u > 1 THEN u ELSE 1
  BY DEF TicksIn
<1> HIDE DEF d, a, b, q, u, r
<1>7. u # 0
  BY <1>1, <1>3, SMT
<1>8. d * (q + u) = d * q + d * u /\ d * (r + 2) = d * (r + 1) + d
  BY <1>1, <1>2, <1>3, <1>4, SMT
<1>9. d * q \in Nat /\ d * u \in Nat /\ d * (r + 1) \in Nat
  BY <1>1, <1>2, <1>3, <1>4
<1>10. d * (q + u) < d * (r + 2)
  BY <1>1, <1>2, <1>3, <1>4, <1>8, <1>9
<1>11. q + u < r + 2
  <2> DEFINE x == q + u
             y == r + 2
  <2>1. x \in Nat /\ y \in Nat /\ d * x < d * y
    BY <1>2, <1>3, <1>4, <1>10
  <2> HIDE DEF x, y
  <2>2. x < y
    <3> SUFFICES ASSUME y <= x PROVE FALSE
      BY <2>1
    <3>1. d * y <= d * x
      BY <1>1, <2>1, SMT
    <3>2. d * x \in Nat /\ d * y \in Nat
      BY <1>1, <2>1
    <3> QED BY <2>1, <3>1, <3>2
  <2> QED BY <2>2 DEF x, y
<1> QED BY <1>2, <1>3, <1>4, <1>5, <1>6, <1>7, <1>11

\* The inductive invariant: beyond what is to be shown, what the history of
\* the playback says about the notes that are on.
HeardAhead == heardTo # None => heardTo <= TickAt(pos, spt) + 1

HeardWhilePlaying == heardTo # None => playing

NothingWithoutGraph == graph = None => live = <<>> /\ sounding = {}

UnheardIsQuiet ==
  heardTo = None /\ ~jumped /\ AllOff \notin Range(live) => sounding \subseteq {LiveNote}

PlayInv ==
  /\ TypeOK
  /\ NoTickIsSkipped
  /\ EventsFitTheBlock
  /\ HeardAhead
  /\ HeardWhilePlaying
  /\ NothingWithoutGraph
  /\ UnheardIsQuiet
  /\ StopSilences
  /\ PlayedNotesEnd

LEMMA PlayedNotesAre ==
  ASSUME PlayedNotesEnd, graph \in Docs, heardTo # None, ~jumped, NEW p \in sounding, p # LiveNote
  PROVE  \E i, j : /\ Plays(graph.clips, i, j, p)
                   /\ OnTick(graph.clips, i, j) < heardTo
                   /\ \/ OffTick(graph.clips, i, j) >= heardTo
                      \/ OffTick(graph.clips, i, j) >= ClipEnd(graph.clips[i])
<1>1. graph.clips \in Seq(Clips) /\ DOMAIN graph.clips = 1..Len(graph.clips)
  BY DocTypes, LenProperties
<1>2. \A i \in 1..Len(graph.clips) : DOMAIN graph.clips[i].notes = 1..Len(graph.clips[i].notes)
  <2> TAKE i \in 1..Len(graph.clips)
  <2>1. graph.clips[i] \in Clips
    BY <1>1, ElementOfSeq
  <2>2. graph.clips[i].notes \in Seq(Notes)
    BY <2>1 DEF Clips
  <2> QED BY <2>2, LenProperties
<1> QED BY <1>1, <1>2 DEF PlayedNotesEnd, Plays, OnTick, OffTick

LEMMA NoteTicks ==
  ASSUME NEW d \in Docs, NEW i, NEW j, NEW p, Plays(d.clips, i, j, p)
  PROVE  /\ OnTick(d.clips, i, j) \in Int /\ OffTick(d.clips, i, j) \in Int
         /\ ClipEnd(d.clips[i]) \in Int /\ p \in Pitches
         /\ i \in DOMAIN d.clips /\ j \in DOMAIN d.clips[i].notes
<1>1. d.clips \in Seq(Clips) /\ DOMAIN d.clips = 1..Len(d.clips)
  BY DocTypes, LenProperties
<1>2. d.clips[i] \in Clips
  BY <1>1, ElementOfSeq DEF Plays
<1>3. d.clips[i].notes \in Seq(Notes)
  BY <1>2 DEF Clips
<1>4. d.clips[i].notes[j] \in Notes /\ DOMAIN d.clips[i].notes = 1..Len(d.clips[i].notes)
  BY <1>3, ElementOfSeq, LenProperties DEF Plays
<1>5. OnTick(d.clips, i, j) \in Int /\ OffTick(d.clips, i, j) \in Int /\ ClipEnd(d.clips[i]) \in Int
  BY <1>2, <1>4, NoteTimes DEF OnTick, OffTick
<1>6. p \in Pitches
  BY <1>4 DEF Plays, Notes
<1> QED BY <1>1, <1>4, <1>5, <1>6 DEF Plays

LEMMA ProcessStep ==
  ASSUME PlayInv, NEW n \in Nat \ {0}, Process(n), graph # None, UNCHANGED <<graph, spt, playing, sine>>,
         pos' = IF playing THEN pos + n ELSE pos
  PROVE  PlayInv'
<1> DEFINE from == RangeStart
           to == RangeEnd(n)
<1>1. Ready
  BY PlaybackAssumption DEF PlayInv, TypeOK, Ready, LiveEvents
<1>2. /\ live' = <<>>
      /\ block' = [from |-> from, to |-> to, frames |-> n, events |-> FromClips(from, to)]
      /\ heardTo' = IF playing THEN to ELSE None
      /\ jumped' = (jumped /\ AllOff \notin Range(live))
  BY Zenon DEF Process, RangeStart, RangeEnd, FromClips
<1>3. playing => from = TickAt(pos, spt) /\ from \in Nat /\ to = from + TicksIn(n, spt) /\ to \in Nat
  <2> SUFFICES ASSUME playing
               PROVE  from = TickAt(pos, spt) /\ from \in Nat /\ to = from + TicksIn(n, spt) /\ to \in Nat
    OBVIOUS
  <2>1. from = TickAt(pos, spt) /\ to = from + TicksIn(n, spt)
    BY DEF RangeStart, RangeEnd
  <2>2. TickAt(pos, spt) \in Nat /\ TicksIn(n, spt) \in Nat
    BY <1>1, TickIsNat, TicksAreNat DEF Ready
  <2> HIDE DEF from, to
  <2> QED BY <2>1, <2>2
<1>4. pos' \in Nat /\ spt \in Rates /\ None \notin Nat
  BY <1>1, PlaybackAssumption DEF Ready
<1>5. \A p \in sounding' : p # LiveNote =>
        \/ /\ playing
           /\ \E i, j : /\ Plays(graph.clips, i, j, p)
                        /\ OnTick(graph.clips, i, j) < to
                        /\ ~(OffTick(graph.clips, i, j) < to)
        \/ /\ p \in sounding
           /\ AllOff \notin Range(live)
           /\ playing => \A i, j : Plays(graph.clips, i, j, p) =>
                ~(/\ from <= OffTick(graph.clips, i, j) /\ OffTick(graph.clips, i, j) < to
                  /\ from < ClipEnd(graph.clips[i]))
  BY <1>1, Processed
<1>6. FromClips(from, to) \in Seq(Occurrences(n))
  BY <1>1, BlockEvents
<1> HIDE DEF from, to
<1>7. TypeOK'
  <2>1. sounding' \subseteq Pitches
    <3>1. LiveNote \in Pitches /\ sounding \subseteq Pitches
      BY DEF Pitches, PlayInv, TypeOK
    <3> QED BY <1>1, <1>5, <3>1, NoteTicks DEF Ready
  <2>2. heardTo' \in Nat \cup {None} /\ jumped' \in BOOLEAN
    BY <1>2, <1>3 DEF PlayInv, TypeOK
  <2> QED BY <1>2, <1>4, <2>1, <2>2 DEF PlayInv, TypeOK
<1>8. NoTickIsSkipped' /\ HeardAhead' /\ HeardWhilePlaying'
  <2>1. CASE playing
    <3>1. TickAt(pos', spt) <= to /\ to <= TickAt(pos', spt) + 1
      BY <1>1, <1>3, <2>1, BlocksMeet, BlocksOverlapLittle DEF Ready
    <3> QED BY <1>2, <2>1, <3>1 DEF NoTickIsSkipped, HeardAhead, HeardWhilePlaying
  <2>2. CASE ~playing
    BY <1>2, <2>2 DEF NoTickIsSkipped, HeardAhead, HeardWhilePlaying
  <2> QED BY <2>1, <2>2
<1>9. EventsFitTheBlock'
  <2>1. \A k \in DOMAIN FromClips(from, to) : FromClips(from, to)[k] \in Occurrences(n)
    BY <1>6, ElementOfSeq, LenProperties
  <2> QED BY <1>2, <2>1 DEF EventsFitTheBlock, Occurrences
<1>10. StopSilences'
  BY <1>2, <1>5 DEF StopSilences, PlayInv
<1>11. UnheardIsQuiet'
  <2> SUFFICES ASSUME ~playing, NEW p \in sounding', p # LiveNote PROVE ~(~jumped')
    BY <1>1, <1>2, <1>3, <1>4 DEF UnheardIsQuiet, Ready
  <2>1. p \in sounding /\ AllOff \notin Range(live)
    BY <1>5
  <2>2. heardTo = None
    BY DEF PlayInv, HeardWhilePlaying
  <2> QED BY <1>2, <2>1, <2>2 DEF PlayInv, UnheardIsQuiet
<1>12. NothingWithoutGraph'
  BY DEF NothingWithoutGraph
<1>13. PlayedNotesEnd'
  <2> SUFFICES ASSUME playing, ~jumped', NEW p \in sounding', p # LiveNote
               PROVE  \E i \in DOMAIN graph.clips : \E j \in DOMAIN graph.clips[i].notes :
                        /\ graph.clips[i].notes[j].pitch = p
                        /\ NoteOn(graph.clips[i], graph.clips[i].notes[j]) < to
                        /\ \/ NoteOff(graph.clips[i], graph.clips[i].notes[j]) >= to
                           \/ NoteOff(graph.clips[i], graph.clips[i].notes[j]) >= ClipEnd(graph.clips[i])
    BY <1>2 DEF PlayedNotesEnd
  <2>1. CASE \E i, j : /\ Plays(graph.clips, i, j, p)
                       /\ OnTick(graph.clips, i, j) < to
                       /\ ~(OffTick(graph.clips, i, j) < to)
    <3>1. PICK i, j : /\ Plays(graph.clips, i, j, p)
                      /\ OnTick(graph.clips, i, j) < to
                      /\ ~(OffTick(graph.clips, i, j) < to)
      BY <2>1
    <3>2. OffTick(graph.clips, i, j) \in Int /\ i \in DOMAIN graph.clips /\ j \in DOMAIN graph.clips[i].notes
      BY <1>1, <3>1, NoteTicks DEF Ready
    <3>3. OffTick(graph.clips, i, j) >= to
      BY <1>3, <3>1, <3>2
    <3> QED BY <3>1, <3>2, <3>3 DEF Plays, OnTick, OffTick
  <2>2. CASE ~ \E i, j : /\ Plays(graph.clips, i, j, p)
                         /\ OnTick(graph.clips, i, j) < to
                         /\ ~(OffTick(graph.clips, i, j) < to)
    <3>1. /\ p \in sounding /\ AllOff \notin Range(live)
          /\ \A i, j : Plays(graph.clips, i, j, p) =>
               ~(/\ from <= OffTick(graph.clips, i, j) /\ OffTick(graph.clips, i, j) < to
                 /\ from < ClipEnd(graph.clips[i]))
      BY <1>5, <2>2
    <3>2. ~jumped
      BY <1>2, <3>1
    <3>3. heardTo # None
      BY <3>1, <3>2 DEF PlayInv, UnheardIsQuiet
    <3>4. PICK i, j : /\ Plays(graph.clips, i, j, p)
                      /\ OnTick(graph.clips, i, j) < heardTo
                      /\ \/ OffTick(graph.clips, i, j) >= heardTo
                         \/ OffTick(graph.clips, i, j) >= ClipEnd(graph.clips[i])
      BY <1>1, <3>1, <3>2, <3>3, PlayedNotesAre DEF PlayInv, Ready
    <3>5. /\ OnTick(graph.clips, i, j) \in Int /\ OffTick(graph.clips, i, j) \in Int
          /\ ClipEnd(graph.clips[i]) \in Int
          /\ i \in DOMAIN graph.clips /\ j \in DOMAIN graph.clips[i].notes
      BY <1>1, <3>4, NoteTicks DEF Ready
    <3>6. heardTo \in Nat /\ from <= heardTo /\ heardTo <= from + 1
      BY <1>3, <3>3 DEF PlayInv, TypeOK, NoTickIsSkipped, HeardAhead
    <3>7. TicksIn(n, spt) \in Nat \ {0}
      BY <1>4, TicksAreNat
    <3>8. OnTick(graph.clips, i, j) < to
      BY <1>3, <3>4, <3>5, <3>6, <3>7
    <3>9. OffTick(graph.clips, i, j) >= to \/ OffTick(graph.clips, i, j) >= ClipEnd(graph.clips[i])
      <4> SUFFICES ASSUME OffTick(graph.clips, i, j) < to,
                          OffTick(graph.clips, i, j) < ClipEnd(graph.clips[i])
                   PROVE  FALSE
        BY <1>3, <3>5
      <4>1. OffTick(graph.clips, i, j) >= heardTo
        BY <3>4, <3>5
      <4>2. from <= OffTick(graph.clips, i, j) /\ from < ClipEnd(graph.clips[i])
        BY <1>3, <3>5, <3>6, <4>1
      <4> QED BY <3>1, <3>4, <4>2
    <3> QED BY <3>4, <3>5, <3>8, <3>9 DEF Plays, OnTick, OffTick
  <2> QED BY <2>1, <2>2
<1> QED BY <1>7, <1>8, <1>9, <1>10, <1>11, <1>12, <1>13 DEF PlayInv
-----------------------------------------------------------------------------
(* The other actions *)

\* A seek leads to a position (transport.rs seek_tick).
LEMMA SeekPosition ==
  ASSUME NEW t \in Int, NEW s \in Rates PROVE SampleAt(t, s) \in Nat
<1> DEFINE f == IF t < 0 THEN 0 ELSE t
<1>1. f \in Nat
  OBVIOUS
<1>2. f * s.num \in Nat /\ s.den \in Nat \ {0}
  BY <1>1 DEF Rates
<1>3. (f * s.num) \div s.den \in Nat
  BY <1>2, Division
<1> QED
  BY <1>3 DEF SampleAt

LEMMA UsedFrames ==
  ASSUME NEW n \in Frames PROVE Used(n) \in Nat \ {0}
  BY PlaybackAssumption DEF Used

LEMMA SkipStep ==
  ASSUME PlayInv, Skip, UNCHANGED <<graph, spt, playing, sine>>, pos' \in Nat
  PROVE  PlayInv'
<1>1. /\ block'.events = <<>> /\ heardTo' = None
      /\ jumped' = (jumped \/ (playing /\ sounding # {}))
      /\ UNCHANGED <<live, sounding>>
  BY DEF Skip, NoBlock
<1>2. TypeOK'
  BY <1>1 DEF PlayInv, TypeOK
<1>3. EventsFitTheBlock'
  <2>1. \A i \in DOMAIN <<>> : FALSE
    OBVIOUS
  <2> QED BY <1>1, <2>1 DEF EventsFitTheBlock
<1>4. UnheardIsQuiet'
  <2> SUFFICES ASSUME ~jumped', AllOff \notin Range(live) PROVE sounding \subseteq {LiveNote}
    BY <1>1 DEF UnheardIsQuiet
  <2>1. CASE playing
    BY <1>1, <2>1
  <2>2. CASE ~playing
    BY <1>1, <2>2 DEF PlayInv, HeardWhilePlaying, UnheardIsQuiet
  <2> QED BY <2>1, <2>2
<1>5. NothingWithoutGraph' /\ StopSilences'
  BY <1>1 DEF PlayInv, NothingWithoutGraph, StopSilences
<1>6. NoTickIsSkipped' /\ HeardAhead' /\ HeardWhilePlaying' /\ PlayedNotesEnd'
  BY <1>1 DEF NoTickIsSkipped, HeardAhead, HeardWhilePlaying, PlayedNotesEnd
<1> QED BY <1>2, <1>3, <1>4, <1>5, <1>6 DEF PlayInv

LEMMA SetGraphStep ==
  ASSUME PlayInv, NEW d \in Docs, SetGraph(d)
  PROVE  PlayInv'
<1>1. /\ graph' = d /\ spt' = d.spt /\ live' = <<>> /\ sounding' = {}
      /\ heardTo' = IF spt' = spt THEN heardTo ELSE None
      /\ jumped' = FALSE
      /\ UNCHANGED <<pos, playing, sine, block>>
  BY DEF SetGraph
<1>2. TypeOK'
  <2>1. d.spt \in {e.spt : e \in Docs} /\ heardTo' \in Nat \cup {None}
    BY <1>1 DEF PlayInv, TypeOK
  <2>2. <<>> \in Seq({On(LiveNote), Off(LiveNote), AllOff})
    OBVIOUS
  <2>3. spt' \in {e.spt : e \in Docs}
    BY <1>1, <2>1
  <2>4. pos \in Nat /\ playing \in BOOLEAN /\ sine \in BOOLEAN
    BY DEF PlayInv, TypeOK
  <2> QED BY <1>1, <2>1, <2>2, <2>3, <2>4 DEF TypeOK
<1>3. NoTickIsSkipped' /\ HeardAhead' /\ HeardWhilePlaying'
  BY <1>1 DEF PlayInv, NoTickIsSkipped, HeardAhead, HeardWhilePlaying
<1>4. EventsFitTheBlock' /\ StopSilences' /\ UnheardIsQuiet' /\ PlayedNotesEnd' /\ NothingWithoutGraph'
  BY <1>1 DEF PlayInv, EventsFitTheBlock, StopSilences, UnheardIsQuiet, PlayedNotesEnd, NothingWithoutGraph
<1> QED BY <1>2, <1>3, <1>4 DEF PlayInv

LEMMA SeekStep ==
  ASSUME PlayInv, NEW t \in Seeks, SeekTo(t), playing' \in BOOLEAN, sine' \in BOOLEAN,
         playing => playing',
         UNCHANGED <<graph, spt, live, sounding, block>>
  PROVE  PlayInv'
<1>1. heardTo' = None /\ jumped' = (jumped \/ sounding # {})
  BY DEF SeekTo
<1>2. TypeOK'
  <2>1. spt \in Rates /\ t \in Int
    BY PlaybackAssumption DEF PlayInv, TypeOK
  <2>2. pos' \in Nat
    BY <2>1, SeekPosition DEF SeekTo
  <2> QED BY <1>1, <2>2 DEF PlayInv, TypeOK
<1>3. NoTickIsSkipped' /\ HeardAhead' /\ HeardWhilePlaying' /\ PlayedNotesEnd'
  BY <1>1 DEF NoTickIsSkipped, HeardAhead, HeardWhilePlaying, PlayedNotesEnd
<1>4. EventsFitTheBlock' /\ StopSilences' /\ UnheardIsQuiet' /\ NothingWithoutGraph'
  BY <1>1 DEF PlayInv, EventsFitTheBlock, StopSilences, UnheardIsQuiet, NothingWithoutGraph, TypeOK
<1> QED BY <1>2, <1>3, <1>4 DEF PlayInv

LEMMA PlayStep ==
  ASSUME PlayInv, NEW t \in Seeks \cup {None}, Play(t)
  PROVE  PlayInv'
<1>1. CASE t = None
  <2>1. playing' = TRUE /\ sine' = FALSE /\ UNCHANGED <<graph, spt, pos, live, sounding, block, heardTo, jumped>>
    BY <1>1 DEF Play
  <2>2. TypeOK' /\ NoTickIsSkipped' /\ HeardAhead' /\ HeardWhilePlaying'
    BY <2>1 DEF PlayInv, TypeOK, NoTickIsSkipped, HeardAhead, HeardWhilePlaying
  <2>3. EventsFitTheBlock' /\ StopSilences' /\ UnheardIsQuiet' /\ NothingWithoutGraph' /\ PlayedNotesEnd'
    BY <2>1 DEF PlayInv, EventsFitTheBlock, StopSilences, UnheardIsQuiet, NothingWithoutGraph, PlayedNotesEnd
  <2> QED BY <2>2, <2>3 DEF PlayInv
<1>2. CASE t # None
  BY <1>2, SeekStep DEF Play
<1> QED BY <1>1, <1>2

\* An event pushed behind the others
LEMMA Pushed ==
  ASSUME live \in Seq(LiveEvents), NEW e \in LiveEvents
  PROVE  /\ Append(live, e) \in Seq(LiveEvents)
         /\ Range(Append(live, e)) = Range(live) \cup {e}
<1>1. Append(live, e) \in Seq(LiveEvents) /\ Len(live) \in Nat /\ Len(Append(live, e)) = Len(live) + 1
  BY AppendProperties, LenProperties
<1>2. /\ \A i \in 1..Len(live) : Append(live, e)[i] = live[i]
      /\ Append(live, e)[Len(live) + 1] = e
  BY AppendProperties
<1>3. DOMAIN live = 1..Len(live) /\ DOMAIN Append(live, e) = 1..(Len(live) + 1)
  BY <1>1, LenProperties
<1>4. 1..(Len(live) + 1) = 1..Len(live) \cup {Len(live) + 1}
  BY <1>1
<1> QED BY <1>1, <1>2, <1>3, <1>4 DEF Range

LEMMA StopStep ==
  ASSUME PlayInv, Stop
  PROVE  PlayInv'
<1>1. /\ playing' = FALSE /\ pos' = 0 /\ heardTo' = None
      /\ UNCHANGED <<graph, spt, sine, sounding, block, jumped>> /\ Push(AllOff)
  BY DEF Stop
<1>2. live \in Seq(LiveEvents) /\ AllOff \in LiveEvents
  BY DEF PlayInv, TypeOK, LiveEvents
<1>3. live' \in Seq(LiveEvents) /\ (graph # None => AllOff \in Range(live')) /\ (graph = None => live' = live)
  BY <1>1, <1>2, Pushed DEF Push
<1>4. TypeOK'
  BY <1>1, <1>3 DEF PlayInv, TypeOK, LiveEvents
<1>5. NoTickIsSkipped' /\ HeardAhead' /\ HeardWhilePlaying' /\ PlayedNotesEnd'
  BY <1>1 DEF NoTickIsSkipped, HeardAhead, HeardWhilePlaying, PlayedNotesEnd
<1>6. EventsFitTheBlock' /\ NothingWithoutGraph'
  BY <1>1, <1>3 DEF PlayInv, EventsFitTheBlock, NothingWithoutGraph
<1>7. StopSilences' /\ UnheardIsQuiet'
  BY <1>1, <1>3 DEF PlayInv, NothingWithoutGraph, StopSilences, UnheardIsQuiet
<1> QED BY <1>4, <1>5, <1>6, <1>7 DEF PlayInv

LEMMA LiveStep ==
  ASSUME PlayInv, LiveNotes
  PROVE  PlayInv'
<1>1. PICK e \in {On(LiveNote), Off(LiveNote)} : Push(e)
  BY DEF LiveNotes
<1>2. UNCHANGED <<graph, spt, pos, playing, sine, sounding, block, heardTo, jumped>>
  BY DEF LiveNotes
<1>3. live \in Seq(LiveEvents) /\ e \in LiveEvents /\ e # AllOff
  BY DEF PlayInv, TypeOK, LiveEvents, On, Off, AllOff
<1>4. /\ live' \in Seq(LiveEvents) /\ (AllOff \in Range(live') <=> AllOff \in Range(live))
      /\ (graph = None => live' = live)
  BY <1>1, <1>3, Pushed DEF Push
<1>5. TypeOK'
  BY <1>2, <1>4 DEF PlayInv, TypeOK, LiveEvents
<1>6. NoTickIsSkipped' /\ HeardAhead' /\ HeardWhilePlaying' /\ PlayedNotesEnd' /\ EventsFitTheBlock'
  BY <1>2 DEF PlayInv, NoTickIsSkipped, HeardAhead, HeardWhilePlaying, PlayedNotesEnd, EventsFitTheBlock
<1>7. NothingWithoutGraph' /\ StopSilences' /\ UnheardIsQuiet'
  BY <1>2, <1>4 DEF PlayInv, NothingWithoutGraph, StopSilences, UnheardIsQuiet
<1> QED BY <1>5, <1>6, <1>7 DEF PlayInv

LEMMA BlockStep ==
  ASSUME PlayInv, NEW n \in Frames, Block(n)
  PROVE  PlayInv'
<1>1. Used(n) \in Nat \ {0} /\ pos \in Nat
  BY UsedFrames DEF PlayInv, TypeOK
<1>2. pos' = (IF playing THEN pos + Used(n) ELSE pos) /\ UNCHANGED <<graph, spt, playing, sine>>
  BY DEF Block
<1>3. CASE ~sine /\ graph # None
  <2>1. Process(Used(n))
    BY <1>3 DEF Block
  <2> QED BY <1>1, <1>2, <1>3, <2>1, ProcessStep
<1>4. CASE ~(~sine /\ graph # None)
  <2>1. Skip /\ pos' \in Nat
    BY <1>1, <1>2, <1>4 DEF Block
  <2> QED BY <1>2, <2>1, SkipStep
<1> QED BY <1>3, <1>4

LEMMA UnchangedStep ==
  ASSUME PlayInv, UNCHANGED <<graph, spt, pos, playing, live, sounding, block, heardTo, jumped>>,
         sine' \in BOOLEAN
  PROVE  PlayInv'
<1>1. TypeOK' /\ NoTickIsSkipped' /\ HeardAhead' /\ HeardWhilePlaying' /\ PlayedNotesEnd'
  BY DEF PlayInv, TypeOK, NoTickIsSkipped, HeardAhead, HeardWhilePlaying, PlayedNotesEnd
<1>2. EventsFitTheBlock' /\ NothingWithoutGraph' /\ StopSilences' /\ UnheardIsQuiet'
  BY DEF PlayInv, EventsFitTheBlock, NothingWithoutGraph, StopSilences, UnheardIsQuiet
<1> QED BY <1>1, <1>2 DEF PlayInv

LEMMA InitPlays == Init => PlayInv
<1> SUFFICES ASSUME Init PROVE PlayInv
  OBVIOUS
<1>1. TypeOK
  <2>1. <<>> \in Seq({On(LiveNote), Off(LiveNote), AllOff})
    OBVIOUS
  <2> QED BY <2>1 DEF Init, TypeOK
<1>2. NoTickIsSkipped /\ HeardAhead /\ HeardWhilePlaying /\ NothingWithoutGraph
  BY DEF Init, NoTickIsSkipped, HeardAhead, HeardWhilePlaying, NothingWithoutGraph
<1>3. StopSilences /\ UnheardIsQuiet /\ PlayedNotesEnd
  BY DEF Init, StopSilences, UnheardIsQuiet, PlayedNotesEnd
<1>4. EventsFitTheBlock
  <2>1. \A i \in DOMAIN <<>> : FALSE
    OBVIOUS
  <2> QED BY <2>1 DEF Init, EventsFitTheBlock, NoBlock
<1> QED BY <1>1, <1>2, <1>3, <1>4 DEF PlayInv
-----------------------------------------------------------------------------
\* The invariant of the callback, for every tempo, sample rate, size of the
\* blocks and song, and every order of commands between them.
THEOREM PlaybackInvariant == Spec => []PlayInv
<1>1. PlayInv /\ [Next]_vars => PlayInv'
  <2> SUFFICES ASSUME PlayInv, [Next]_vars PROVE PlayInv'
    OBVIOUS
  <2>1. ASSUME NEW d \in Docs, SetGraph(d) PROVE PlayInv'
    BY <2>1, SetGraphStep
  <2>2. ASSUME NEW t \in Seeks \cup {None}, Play(t) PROVE PlayInv'
    BY <2>2, PlayStep
  <2>3. ASSUME NEW t \in Seeks, Seek(t) PROVE PlayInv'
    <3>1. SeekTo(t) /\ UNCHANGED <<graph, spt, playing, sine, live, sounding, block>>
      BY <2>3 DEF Seek
    <3>2. playing' \in BOOLEAN /\ sine' \in BOOLEAN /\ (playing => playing')
      BY <3>1 DEF PlayInv, TypeOK
    <3> QED BY <3>1, <3>2, SeekStep
  <2>4. CASE Stop
    BY <2>4, StopStep
  <2>5. CASE LiveNotes
    BY <2>5, LiveStep
  <2>6. ASSUME NEW on \in BOOLEAN, SineDebug(on) PROVE PlayInv'
    BY <2>6, UnchangedStep DEF SineDebug
  <2>7. ASSUME NEW n \in Frames, Block(n) PROVE PlayInv'
    BY <2>7, BlockStep
  <2>8. CASE UNCHANGED vars
    BY <2>8, UnchangedStep DEF vars, PlayInv, TypeOK
  <2> QED BY <2>1, <2>2, <2>3, <2>4, <2>5, <2>6, <2>7, <2>8 DEF Next
<1> QED BY <1>1, InitPlays, PTL DEF Spec

\* Consecutive blocks leave no tick out: whatever their sizes, the position
\* is rounded down and the length of a block up (graph.rs range_start, range_end).
THEOREM NoneSkipped == Spec => []NoTickIsSkipped
<1>1. PlayInv => NoTickIsSkipped
  BY DEF PlayInv
<1> QED BY <1>1, PlaybackInvariant, PTL

\* Every event of a block lies within its frames (clip.rs sample_offset).
THEOREM EventsFit == Spec => []EventsFitTheBlock
<1>1. PlayInv => EventsFitTheBlock
  BY DEF PlayInv
<1> QED BY <1>1, PlaybackInvariant, PTL

\* After a Stop no note of a clip sounds once a block is rendered (graph.rs
\* all_notes_off).
THEOREM StopsSound == Spec => []StopSilences
<1>1. PlayInv => StopSilences
  BY DEF PlayInv
<1> QED BY <1>1, PlaybackInvariant, PTL

\* A note whose end has been played through is off (graph.rs process, clip.rs
\* events_in_range).
THEOREM NotesEnd == Spec => []PlayedNotesEnd
<1>1. PlayInv => PlayedNotesEnd
  BY DEF PlayInv
<1> QED BY <1>1, PlaybackInvariant, PTL
=============================================================================
