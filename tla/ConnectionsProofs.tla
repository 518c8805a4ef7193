------------------------- MODULE ConnectionsProofs -------------------------
(***************************************************************************)
(* Proofs about Connections, for any number of clients, any size of their  *)
(* queues, of the ring and of a batch, and any number of requests and      *)
(* events:                                                                 *)
(*                                                                         *)
(*   - a client has the answers to its first requests, in their order.     *)
(*     What has been answered, what is queued and what is still to queue   *)
(*     make one list, which only a request that is handled makes longer;   *)
(*     the requests behind it are those that the reader has yet to read;   *)
(*   - a telemetry event is in one place.  The places of one connection    *)
(*     have one before the other, oldest first, and the places of two      *)
(*     connections, the ring and the losses have nothing in common.        *)
(***************************************************************************)
EXTENDS Connections, SequenceTheorems, WellFoundedInduction, TLAPS

Replies  == {"reply", "event"} \X Nat
Messages == {"reply", "event", "telemetry"} \X Nat

TypeOK ==
  /\ conn \in [Conns -> {"none", "open", "over"}]
  /\ peer \in [Conns -> BOOLEAN] /\ reading \in [Conns -> BOOLEAN]
  /\ sent \in [Conns -> Seq(Kinds)] /\ inbox \in [Conns -> Seq(Nat)]
  /\ todo \in [Conns -> Seq(Replies)] /\ out \in [Conns -> Seq(Messages)]
  /\ batch \in [Conns -> Seq(Nat)]
  /\ replies \in [Conns -> Seq(Replies)] /\ heard \in [Conns -> Seq(Nat)]
  /\ ring \in Seq(Nat) /\ emitted \in Nat /\ lost \subseteq Nat

\* Before it is accepted, a connection has nothing.
Untouched(c) ==
  /\ sent[c] = <<>> /\ inbox[c] = <<>> /\ todo[c] = <<>>
  /\ out[c] = <<>> /\ replies[c] = <<>>

Accepted(c) ==
  /\ peer[c] \/ reading[c] => conn[c] = "open"
  /\ conn[c] = "none" => Untouched(c)

\* The last requests are still to be read, and the answers to those before
\* them are with the client, in the queue or still to be queued.
InOrder(requests, unread, answered, queue, unqueued) ==
  /\ Len(unread) <= Len(requests)
  /\ \A i \in 1..Len(unread) : unread[i] = Len(requests) - Len(unread) + i
  /\ answered \o AnswersIn(queue) \o unqueued
       = AnswersTo(requests, Len(requests) - Len(unread))

RequestsInv ==
  \A c \in Conns :
    /\ Accepted(c)
    /\ peer[c] => InOrder(sent[c], inbox[c], replies[c], out[c], todo[c])
-----------------------------------------------------------------------------
Below(S, T) == \A i \in S, j \in T : i < j

\* The telemetry events in a queue are in their order.
Rising(queue) ==
  \A i, j \in DOMAIN queue :
    i < j /\ ~IsAnswer(queue[i]) /\ ~IsAnswer(queue[j]) => queue[i][2] < queue[j][2]

\* What a client has is older than what is in its queue, that than the
\* batch, and that than the ring.
OldestFirst(has, queue, taken, left) ==
  /\ Upwards(has) /\ Rising(queue) /\ Upwards(taken)
  /\ Below(ToSet(has), EventsIn(queue)) /\ Below(ToSet(has), ToSet(taken))
  /\ Below(ToSet(has), ToSet(left)) /\ Below(EventsIn(queue), ToSet(taken))
  /\ Below(EventsIn(queue), ToSet(left)) /\ Below(ToSet(taken), ToSet(left))

\* The events a connection has taken from the ring, those lost excepted
Of(c) == ToSet(heard[c]) \cup EventsIn(out[c]) \cup ToSet(batch[c])

\* Every event is somewhere, and in one place.
Parted(own, left, gone, last) ==
  /\ \A c \in Conns : own[c] \subseteq 1..last
  /\ left \subseteq 1..last /\ gone \subseteq 1..last
  /\ \A k \in 1..last : k \in left \/ k \in gone \/ \E c \in Conns : k \in own[c]
  /\ \A c, d \in Conns : c # d => own[c] \cap own[d] = {}
  /\ \A c \in Conns : own[c] \cap left = {} /\ own[c] \cap gone = {}
  /\ left \cap gone = {}

TelemetryInv ==
  /\ Upwards(ring)
  /\ \A c \in Conns : OldestFirst(heard[c], out[c], batch[c], ring)
  /\ Parted([c \in Conns |-> Of(c)], ToSet(ring), lost, emitted)

Inv == TypeOK /\ RequestsInv /\ TelemetryInv
-----------------------------------------------------------------------------
(* Lists *)

\* Induction over the naturals, for the set of those that have a property
LEMMA Induction ==
  ASSUME NEW S, 0 \in S, \A n \in Nat : n \in S => n + 1 \in S
  PROVE  Nat \subseteq S
<1> SUFFICES ASSUME NEW T, T = Nat \ S, T # {} PROVE FALSE
  OBVIOUS
<1>1. PICK m \in T : \A k \in T : ~(<<k, m>> \in OpToRel(<, Nat))
  BY NatLessThanWellFounded, WFMin
<1>2. m \in Nat /\ m # 0
  OBVIOUS
<1>3. m - 1 \in Nat /\ m - 1 \notin S
  BY <1>2
<1>4. <<m - 1, m>> \in OpToRel(<, Nat)
  BY <1>2, <1>3 DEF OpToRel
<1> QED BY <1>1, <1>3, <1>4

\* What holds of the empty list and is kept by Append holds of every list.
LEMMA ListInduction ==
  ASSUME NEW A, NEW T, <<>> \in T,
         \A l \in Seq(A) : \A e \in A : l \in T => Append(l, e) \in T
  PROVE  Seq(A) \subseteq T
<1> DEFINE N == {n \in Nat : \A l \in Seq(A) : Len(l) = n => l \in T}
<1>1. 0 \in N
  <2>1. \A l \in Seq(A) : Len(l) = 0 => l = <<>>
    BY EmptySeq
  <2> QED BY <2>1
<1>2. ASSUME NEW n \in Nat, n \in N PROVE n + 1 \in N
  <2> SUFFICES ASSUME NEW l \in Seq(A), Len(l) = n + 1 PROVE l \in T
    OBVIOUS
  <2>1. l # <<>>
    BY EmptySeq
  <2>2. PICK f \in Seq(A) : \E e \in A : l = Append(f, e)
    BY <2>1, SequenceEmptyOrAppend
  <2>3. PICK e \in A : l = Append(f, e)
    BY <2>2
  <2>4. Len(f) = n
    BY <2>3, AppendProperties, LenProperties
  <2> QED BY <1>2, <2>3, <2>4
<1>3. Nat \subseteq N
  BY <1>1, <1>2, Induction
<1> QED BY <1>3, LenProperties

\* f is computed from 0 to n: at 0 it is `first`, and step takes each place
\* and the value before it to the value there.
Computed(f, n, first, step) ==
  f[0] = first /\ \A i \in 1..n : f[i] = step[<<i, f[i - 1]>>]

\* A recursion that stays within a set of values has a function for it.
LEMMA Recursion ==
  ASSUME NEW V, NEW first \in V, NEW n \in Nat, NEW step,
         \A i \in 1..n : \A v \in V : step[<<i, v>>] \in V
  PROVE  \E f \in [0..n -> V] : Computed(f, n, first, step)
<1> DEFINE N == {m \in Nat : m <= n => \E f \in [0..m -> V] : Computed(f, m, first, step)}
<1>1. 0 \in N
  <2> DEFINE f == [i \in 0..0 |-> first]
  <2>1. f \in [0..0 -> V] /\ Computed(f, 0, first, step)
    BY DEF Computed
  <2> QED BY <2>1
<1>2. ASSUME NEW m \in Nat, m \in N PROVE m + 1 \in N
  <2> SUFFICES ASSUME m + 1 <= n
               PROVE  \E f \in [0..(m + 1) -> V] : Computed(f, m + 1, first, step)
    OBVIOUS
  <2>1. PICK f \in [0..m -> V] : Computed(f, m, first, step)
    BY <1>2
  <2> DEFINE last == step[<<m + 1, f[m]>>]
             g == [i \in 0..(m + 1) |-> IF i = m + 1 THEN last ELSE f[i]]
  <2>2. last \in V
    OBVIOUS
  <2> HIDE DEF last
  <2>3. g \in [0..(m + 1) -> V]
    BY <2>2
  <2>4. g[m] = f[m] /\ g[m + 1] = last /\ g[0] = f[0]
    OBVIOUS
  <2>5. \A i \in 1..m : g[i] = f[i] /\ g[i - 1] = f[i - 1]
    OBVIOUS
  <2> HIDE DEF g
  <2>6. ASSUME NEW i \in 1..(m + 1) PROVE g[i] = step[<<i, g[i - 1]>>]
    <3>1. CASE i = m + 1
      <4>1. i - 1 = m
        BY <3>1
      <4> QED BY <2>4, <3>1, <4>1 DEF last
    <3>2. CASE i # m + 1
      <4>1. i \in 1..m
        BY <3>2
      <4> QED BY <2>1, <2>5, <4>1 DEF Computed
    <3> QED BY <3>1, <3>2
  <2>7. Computed(g, m + 1, first, step)
    BY <2>1, <2>4, <2>6 DEF Computed
  <2> QED BY <2>3, <2>7
<1>3. Nat \subseteq N
  BY <1>1, <1>2, Induction
<1> QED BY <1>3
LEMMA Regroup ==
  ASSUME NEW a \in Seq(Replies), NEW b \in Seq(Replies), NEW d \in Seq(Replies)
  PROVE  (a \o b) \o d = a \o (b \o d)
BY ConcatAssociative

LEMMA HeadTailIs ==
  ASSUME NEW l \in Seq(Replies), l # <<>>
  PROVE  l = <<Head(l)>> \o Tail(l) /\ <<Head(l)>> \in Seq(Replies)
<1>1. /\ Head(l) \in Replies /\ Tail(l) \in Seq(Replies) /\ Len(Tail(l)) = Len(l) - 1
      /\ \A i \in 1..Len(Tail(l)) : Tail(l)[i] = l[i + 1]
      /\ Head(l) = l[1]
  BY HeadTailProperties
<1>2. <<Head(l)>> \in Seq(Replies) /\ Len(<<Head(l)>>) = 1 /\ <<Head(l)>>[1] = Head(l)
  BY <1>1
<1> DEFINE m == <<Head(l)>> \o Tail(l)
<1>3. Len(l) \in Nat
  BY LenProperties
<1>4. /\ m \in Seq(Replies) /\ Len(m) = Len(l)
      /\ \A i \in 1..Len(l) : m[i] = IF i <= 1 THEN <<Head(l)>>[i] ELSE Tail(l)[i - 1]
  <2>1. 1 + (Len(l) - 1) = Len(l)
    BY <1>3
  <2> QED BY <1>1, <1>2, <2>1, ConcatProperties
<1> HIDE DEF m
<1>5. ASSUME NEW i \in 1..Len(l) PROVE m[i] = l[i]
  <2>1. CASE i = 1
    BY <1>1, <1>2, <1>4, <2>1
  <2>2. CASE i # 1
    <3>1. i - 1 \in 1..Len(Tail(l)) /\ (i - 1) + 1 = i /\ ~(i <= 1)
      BY <1>1, <1>3, <2>2
    <3> QED BY <1>1, <1>4, <3>1
  <2> QED BY <2>1, <2>2
<1>6. m = l
  BY <1>4, <1>5, SeqEqual
<1> QED BY <1>2, <1>6 DEF m
-----------------------------------------------------------------------------
(* The answers in a queue *)

OneAnswer(m) == IF IsAnswer(m) THEN <<m>> ELSE <<>>

\* The recursion that AnswersIn is defined by
Filtered(queue, f, n) ==
  /\ f[0] = <<>>
  /\ \A i \in 1..n : f[i] = IF IsAnswer(queue[i]) THEN Append(f[i - 1], queue[i]) ELSE f[i - 1]

LEMMA AnswerTyped ==
  ASSUME NEW m \in Messages, IsAnswer(m) PROVE m \in Replies
BY DEF Messages, Replies, IsAnswer

LEMMA AnswersInFiltered ==
  ASSUME NEW queue \in Seq(Messages)
  PROVE  \E f \in [0..Len(queue) -> Seq(Replies)] :
           Filtered(queue, f, Len(queue)) /\ AnswersIn(queue) = f[Len(queue)]
<1> DEFINE n == Len(queue)
           V == Seq(Replies)
           step == [x \in (1..n) \X V |-> IF IsAnswer(queue[x[1]]) THEN Append(x[2], queue[x[1]])
                                                                ELSE x[2]]
           Next1(f) == [k \in 0..n |-> IF k = 0 THEN <<>>
                                    ELSE IF IsAnswer(queue[k]) THEN Append(f[k - 1], queue[k])
                                         ELSE f[k - 1]]
           kept == CHOOSE f : f = Next1(f)
<1>0. n \in Nat /\ <<>> \in V
  BY LenProperties, EmptySeq
<1>1. ASSUME NEW i \in 1..n, NEW v \in V
      PROVE  /\ step[<<i, v>>] = IF IsAnswer(queue[i]) THEN Append(v, queue[i]) ELSE v
             /\ step[<<i, v>>] \in V
  <2>1. step[<<i, v>>] = IF IsAnswer(queue[i]) THEN Append(v, queue[i]) ELSE v
    OBVIOUS
  <2>2. queue[i] \in Messages
    BY ElementOfSeq
  <2>3. IsAnswer(queue[i]) => Append(v, queue[i]) \in V
    BY <2>2, AnswerTyped, AppendProperties
  <2> QED BY <2>1, <2>3
<1>2. AnswersIn(queue) = kept[n]
  BY DEF AnswersIn
<1> HIDE DEF step, V, n
<1>3. PICK f \in [0..n -> V] : Computed(f, n, <<>>, step)
  BY <1>0, <1>1, Recursion
<1>4. ASSUME NEW i \in 1..n
      PROVE  f[i] = IF IsAnswer(queue[i]) THEN Append(f[i - 1], queue[i]) ELSE f[i - 1]
  <2>1. f[i - 1] \in V
    BY <1>0
  <2> QED BY <1>1, <1>3, <2>1 DEF Computed
<1>5. f[0] = <<>>
  BY <1>3 DEF Computed
<1>6. f = Next1(f)
  <2>1. f = [k \in 0..n |-> f[k]]
    OBVIOUS
  <2>2. ASSUME NEW k \in 0..n
        PROVE  f[k] = IF k = 0 THEN <<>>
                      ELSE IF IsAnswer(queue[k]) THEN Append(f[k - 1], queue[k]) ELSE f[k - 1]
    <3>1. k = 0 \/ k \in 1..n
      BY <1>0
    <3>2. 0 \notin 1..n
      BY <1>0
    <3> QED BY <1>4, <1>5, <3>1, <3>2
  <2> QED BY <2>1, <2>2
<1>7. kept = Next1(kept)
  BY <1>6
<1> HIDE DEF kept
<1>8. Filtered(queue, kept, n)
  <2>1. kept[0] = <<>>
    BY <1>0, <1>7
  <2>2. ASSUME NEW i \in 1..n
        PROVE  kept[i] = IF IsAnswer(queue[i]) THEN Append(kept[i - 1], queue[i]) ELSE kept[i - 1]
    <3>1. i \in 0..n /\ i # 0
      BY <1>0
    <3>2. kept[i] = Next1(kept)[i]
      BY <1>7
    <3> QED BY <3>1, <3>2
  <2> QED BY <2>1, <2>2 DEF Filtered
<1>9. kept \in [0..n -> V]
  <2> DEFINE N == {k \in Nat : k <= n => kept[k] \in V}
  <2>1. 0 \in N
    BY <1>0, <1>8 DEF Filtered
  <2>2. ASSUME NEW k \in Nat, k \in N PROVE k + 1 \in N
    <3> SUFFICES ASSUME k + 1 <= n PROVE kept[k + 1] \in V
      OBVIOUS
    <3>1. kept[k] \in V /\ k + 1 \in 1..n /\ (k + 1) - 1 = k
      BY <1>0, <2>2
    <3>2. kept[k + 1] = IF IsAnswer(queue[k + 1]) THEN Append(kept[k], queue[k + 1]) ELSE kept[k]
      BY <1>8, <3>1 DEF Filtered
    <3> QED BY <1>1, <3>1, <3>2
  <2>3. Nat \subseteq N
    BY <2>1, <2>2, Induction
  <2>4. \A k \in 0..n : kept[k] \in V
    BY <1>0, <2>3
  <2> HIDE DEF N
  <2>5. kept = [k \in 0..n |-> kept[k]]
    BY <1>7
  <2> QED BY <2>4, <2>5
<1> QED BY <1>2, <1>8, <1>9 DEF n, V

\* The first n messages decide what is kept of them.
LEMMA FilteredAgree ==
  ASSUME NEW k, NEW l, NEW f, NEW g, NEW m \in Nat, Filtered(k, f, m), Filtered(l, g, m),
         \A i \in 1..m : k[i] = l[i]
  PROVE  f[m] = g[m]
<1> DEFINE N == {n \in Nat : n <= m => f[n] = g[n]}
<1>1. 0 \in N
  BY DEF Filtered
<1>2. ASSUME NEW n \in Nat, n \in N PROVE n + 1 \in N
  <2> SUFFICES ASSUME n + 1 <= m PROVE f[n + 1] = g[n + 1]
    OBVIOUS
  <2>1. n + 1 \in 1..m /\ f[n] = g[n] /\ (n + 1) - 1 = n
    BY <1>2
  <2>2. f[n + 1] = IF IsAnswer(k[n + 1]) THEN Append(f[n], k[n + 1]) ELSE f[n]
    BY <2>1 DEF Filtered
  <2>3. g[n + 1] = IF IsAnswer(l[n + 1]) THEN Append(g[n], l[n + 1]) ELSE g[n]
    BY <2>1 DEF Filtered
  <2> QED BY <2>1, <2>2, <2>3
<1>3. Nat \subseteq N
  BY <1>1, <1>2, Induction
<1> QED BY <1>3

LEMMA AnswersInTyped ==
  ASSUME NEW queue \in Seq(Messages) PROVE AnswersIn(queue) \in Seq(Replies)
BY AnswersInFiltered, LenProperties

LEMMA AnswersInEmpty == AnswersIn(<<>>) = <<>>
<1>1. <<>> \in Seq(Messages) /\ Len(<<>>) = 0
  BY EmptySeq
<1>2. PICK f : Filtered(<<>>, f, Len(<<>>)) /\ AnswersIn(<<>>) = f[Len(<<>>)]
  BY <1>1, AnswersInFiltered
<1> QED BY <1>1, <1>2 DEF Filtered

LEMMA AnswersInAppend ==
  ASSUME NEW l \in Seq(Messages), NEW e \in Messages
  PROVE  AnswersIn(Append(l, e)) = AnswersIn(l) \o OneAnswer(e)
<1> DEFINE k == Append(l, e)
           n == Len(l)
<1>1. /\ k \in Seq(Messages) /\ n \in Nat /\ Len(k) = n + 1 /\ k[n + 1] = e
      /\ \A i \in 1..n : k[i] = l[i]
  BY AppendProperties, LenProperties
<1>2. PICK f : Filtered(l, f, n) /\ AnswersIn(l) = f[n]
  BY AnswersInFiltered
<1>3. PICK g : Filtered(k, g, Len(k)) /\ AnswersIn(k) = g[Len(k)]
  BY <1>1, AnswersInFiltered
<1> HIDE DEF k, n
<1>4. Filtered(k, g, n)
  BY <1>1, <1>3 DEF Filtered
<1>5. f[n] = g[n]
  BY <1>1, <1>2, <1>4, FilteredAgree
<1>6. g[n + 1] = IF IsAnswer(k[n + 1]) THEN Append(g[n], k[n + 1]) ELSE g[n]
  <2>1. n + 1 \in 1..Len(k) /\ (n + 1) - 1 = n
    BY <1>1
  <2> QED BY <1>3, <2>1 DEF Filtered
<1>7. AnswersIn(k) = IF IsAnswer(e) THEN Append(AnswersIn(l), e) ELSE AnswersIn(l)
  BY <1>1, <1>2, <1>3, <1>5, <1>6
<1>8. AnswersIn(l) \in Seq(Replies)
  BY AnswersInTyped
<1>9. IsAnswer(e) => Append(AnswersIn(l), e) = AnswersIn(l) \o <<e>>
  BY <1>8, AnswerTyped, AppendIsConcat
<1>10. AnswersIn(l) \o <<>> = AnswersIn(l)
  BY <1>8, ConcatEmptySeq
<1> QED BY <1>7, <1>9, <1>10 DEF k, OneAnswer

LEMMA OneAnswerTyped ==
  ASSUME NEW m \in Messages PROVE OneAnswer(m) \in Seq(Replies)
BY AnswerTyped, EmptySeq DEF OneAnswer

\* The same from the front
LEMMA AnswersInHead ==
  ASSUME NEW queue \in Seq(Messages), queue # <<>>
  PROVE  AnswersIn(queue) = OneAnswer(Head(queue)) \o AnswersIn(Tail(queue))
<1> DEFINE T == {l \in Seq(Messages) : l # <<>> =>
                   AnswersIn(l) = OneAnswer(Head(l)) \o AnswersIn(Tail(l))}
<1>1. <<>> \in T
  BY EmptySeq
<1>2. ASSUME NEW l \in Seq(Messages), NEW e \in Messages, l \in T PROVE Append(l, e) \in T
  <2>1. Append(l, e) \in Seq(Messages)
    BY AppendProperties
  <2>2. AnswersIn(Append(l, e)) = AnswersIn(l) \o OneAnswer(e)
    BY AnswersInAppend
  <2>3. OneAnswer(e) \in Seq(Replies) /\ AnswersIn(l) \in Seq(Replies)
    BY OneAnswerTyped, AnswersInTyped
  <2>4. CASE l = <<>>
    <3>1. Head(Append(l, e)) = e /\ Tail(Append(l, e)) = <<>>
      BY <2>4
    <3>2. AnswersIn(Append(l, e)) = OneAnswer(e)
      BY <2>2, <2>3, <2>4, AnswersInEmpty, ConcatEmptySeq
    <3>3. OneAnswer(e) \o AnswersIn(<<>>) = OneAnswer(e)
      BY <2>3, AnswersInEmpty, ConcatEmptySeq
    <3> QED BY <2>1, <3>1, <3>2, <3>3
  <2>5. CASE l # <<>>
    <3>1. /\ Head(l) \in Messages /\ Tail(l) \in Seq(Messages)
          /\ Head(Append(l, e)) = Head(l) /\ Tail(Append(l, e)) = Append(Tail(l), e)
      BY <2>5, EmptySeq, LenProperties, HeadTailProperties, AppendProperties
    <3>2. AnswersIn(l) = OneAnswer(Head(l)) \o AnswersIn(Tail(l))
      BY <1>2, <2>5
    <3>3. AnswersIn(Append(Tail(l), e)) = AnswersIn(Tail(l)) \o OneAnswer(e)
      BY <3>1, AnswersInAppend
    <3>4. OneAnswer(Head(l)) \in Seq(Replies) /\ AnswersIn(Tail(l)) \in Seq(Replies)
      BY <3>1, OneAnswerTyped, AnswersInTyped
    <3>5. (OneAnswer(Head(l)) \o AnswersIn(Tail(l))) \o OneAnswer(e)
          = OneAnswer(Head(l)) \o (AnswersIn(Tail(l)) \o OneAnswer(e))
      BY <2>3, <3>4, Regroup
    <3> QED BY <2>1, <2>2, <3>1, <3>2, <3>3, <3>5
  <2> QED BY <2>4, <2>5
<1>3. Seq(Messages) \subseteq T
  BY <1>1, <1>2, ListInduction
<1> QED BY <1>3
-----------------------------------------------------------------------------
(* The answers to requests *)

LEMMA HandleTyped ==
  ASSUME NEW n \in Nat, NEW kind PROVE HandleText(n, kind) \in Seq(Replies)
<1>1. ReplyTo(n) \in Replies /\ EventOf(n) \in Replies
  BY DEF ReplyTo, EventOf, Replies
<1> QED BY <1>1 DEF HandleText

LEMMA AnswersToSteps ==
  ASSUME NEW requests \in Seq(Kinds)
  PROVE  /\ AnswersTo(requests, 0) = <<>>
         /\ \A k \in 1..Len(requests) :
              AnswersTo(requests, k) = AnswersTo(requests, k - 1) \o HandleText(k, requests[k])
<1> DEFINE n == Len(requests)
           V == Seq(Replies)
           step == [x \in (1..n) \X V |-> x[2] \o HandleText(x[1], requests[x[1]])]
           Next1(f) == [k \in 0..n |-> IF k = 0 THEN <<>>
                                    ELSE f[k - 1] \o HandleText(k, requests[k])]
           answers == CHOOSE f : f = Next1(f)
<1>0. n \in Nat /\ <<>> \in V
  BY LenProperties, EmptySeq
<1>1. ASSUME NEW i \in 1..n, NEW v \in V
      PROVE  step[<<i, v>>] = v \o HandleText(i, requests[i]) /\ step[<<i, v>>] \in V
  <2>1. step[<<i, v>>] = v \o HandleText(i, requests[i])
    OBVIOUS
  <2>2. HandleText(i, requests[i]) \in V
    BY <1>0, HandleTyped
  <2>3. v \o HandleText(i, requests[i]) \in V
    BY <2>2, ConcatProperties
  <2> QED BY <2>1, <2>3
<1>2. \A k : AnswersTo(requests, k) = answers[k]
  BY DEF AnswersTo
<1> HIDE DEF step, V, n
<1>3. PICK f \in [0..n -> V] : Computed(f, n, <<>>, step)
  BY <1>0, <1>1, Recursion
<1>4. ASSUME NEW i \in 1..n PROVE f[i] = f[i - 1] \o HandleText(i, requests[i])
  <2>1. f[i - 1] \in V
    BY <1>0
  <2> QED BY <1>1, <1>3, <2>1 DEF Computed
<1>5. f[0] = <<>>
  BY <1>3 DEF Computed
<1>6. f = Next1(f)
  <2>1. f = [k \in 0..n |-> f[k]]
    OBVIOUS
  <2>2. ASSUME NEW k \in 0..n
        PROVE  f[k] = IF k = 0 THEN <<>> ELSE f[k - 1] \o HandleText(k, requests[k])
    <3>1. k = 0 \/ k \in 1..n
      BY <1>0
    <3>2. 0 \notin 1..n
      BY <1>0
    <3> QED BY <1>4, <1>5, <3>1, <3>2
  <2> QED BY <2>1, <2>2
<1>7. answers = Next1(answers)
  BY <1>6
<1> HIDE DEF answers
<1>8. answers[0] = <<>>
  BY <1>0, <1>7
<1>9. ASSUME NEW i \in 1..n
      PROVE  answers[i] = answers[i - 1] \o HandleText(i, requests[i])
  <2>1. i \in 0..n /\ i # 0
    BY <1>0
  <2>2. answers[i] = Next1(answers)[i]
    BY <1>7
  <2> QED BY <2>1, <2>2
<1> QED BY <1>2, <1>8, <1>9 DEF n

LEMMA AnswersToTyped ==
  ASSUME NEW requests \in Seq(Kinds), NEW k \in 0..Len(requests)
  PROVE  AnswersTo(requests, k) \in Seq(Replies)
<1> DEFINE N == {m \in Nat : m <= Len(requests) => AnswersTo(requests, m) \in Seq(Replies)}
<1>0. Len(requests) \in Nat
  BY LenProperties
<1>1. 0 \in N
  BY AnswersToSteps, EmptySeq
<1>2. ASSUME NEW m \in Nat, m \in N PROVE m + 1 \in N
  <2> SUFFICES ASSUME m + 1 <= Len(requests) PROVE AnswersTo(requests, m + 1) \in Seq(Replies)
    OBVIOUS
  <2>1. /\ m + 1 \in 1..Len(requests) /\ (m + 1) - 1 = m
        /\ AnswersTo(requests, m) \in Seq(Replies)
    BY <1>0, <1>2
  <2>2. AnswersTo(requests, m + 1) = AnswersTo(requests, m) \o HandleText(m + 1, requests[m + 1])
    BY <2>1, AnswersToSteps
  <2>3. HandleText(m + 1, requests[m + 1]) \in Seq(Replies)
    BY HandleTyped
  <2> QED BY <2>1, <2>2, <2>3, ConcatProperties
<1>3. Nat \subseteq N
  BY <1>1, <1>2, Induction
<1> QED BY <1>0, <1>3

\* A later request does not change what the earlier ones are answered with.
LEMMA AnswersToAppend ==
  ASSUME NEW requests \in Seq(Kinds), NEW kind \in Kinds, NEW k \in 0..Len(requests)
  PROVE  AnswersTo(Append(requests, kind), k) = AnswersTo(requests, k)
<1> DEFINE more == Append(requests, kind)
           N == {m \in Nat : m <= Len(requests) => AnswersTo(more, m) = AnswersTo(requests, m)}
<1>0. /\ Len(requests) \in Nat /\ more \in Seq(Kinds) /\ Len(more) = Len(requests) + 1
      /\ \A i \in 1..Len(requests) : more[i] = requests[i]
  BY LenProperties, AppendProperties
<1> HIDE DEF more
<1>1. 0 \in N
  BY <1>0, AnswersToSteps
<1>2. ASSUME NEW m \in Nat, m \in N PROVE m + 1 \in N
  <2> SUFFICES ASSUME m + 1 <= Len(requests)
               PROVE  AnswersTo(more, m + 1) = AnswersTo(requests, m + 1)
    OBVIOUS
  <2>1. /\ m + 1 \in 1..Len(requests) /\ m + 1 \in 1..Len(more) /\ (m + 1) - 1 = m
        /\ AnswersTo(more, m) = AnswersTo(requests, m)
    BY <1>0, <1>2
  <2>2. AnswersTo(requests, m + 1) = AnswersTo(requests, m) \o HandleText(m + 1, requests[m + 1])
    BY <2>1, AnswersToSteps
  <2>3. AnswersTo(more, m + 1) = AnswersTo(more, m) \o HandleText(m + 1, more[m + 1])
    BY <1>0, <2>1, AnswersToSteps
  <2> QED BY <1>0, <2>1, <2>2, <2>3
<1>3. Nat \subseteq N
  BY <1>1, <1>2, Induction
<1> QED BY <1>0, <1>3 DEF more
-----------------------------------------------------------------------------
(* What each operation does to the order of the answers *)

LEMMA OrderBegins == InOrder(<<>>, <<>>, <<>>, <<>>, <<>>)
<1>1. <<>> \in Seq(Kinds) /\ <<>> \in Seq(Replies) /\ Len(<<>>) = 0
  BY EmptySeq
<1>2. <<>> \o <<>> = <<>>
  BY <1>1, ConcatEmptySeq
<1>3. AnswersTo(<<>>, 0) = <<>>
  BY <1>1, AnswersToSteps
<1>4. <<>> \o AnswersIn(<<>>) \o <<>> = AnswersTo(<<>>, 0)
  BY <1>2, <1>3, AnswersInEmpty
<1> QED BY <1>1, <1>4 DEF InOrder

LEMMA OrderSends ==
  ASSUME NEW s \in Seq(Kinds), NEW u \in Seq(Nat), NEW a, NEW q, NEW t, InOrder(s, u, a, q, t),
         NEW kind \in Kinds
  PROVE  InOrder(Append(s, kind), Append(u, Len(s) + 1), a, q, t)
<1> DEFINE s2 == Append(s, kind)
           u2 == Append(u, Len(s) + 1)
<1>1. Len(s) \in Nat /\ Len(u) \in Nat /\ Len(s) + 1 \in Nat
  BY LenProperties
<1>2. /\ Len(s2) = Len(s) + 1 /\ Len(u2) = Len(u) + 1 /\ u2[Len(u) + 1] = Len(s) + 1
      /\ \A i \in 1..Len(u) : u2[i] = u[i]
  BY <1>1, AppendProperties
<1> HIDE DEF s2, u2
<1>3. /\ Len(u) <= Len(s) /\ \A i \in 1..Len(u) : u[i] = Len(s) - Len(u) + i
      /\ a \o AnswersIn(q) \o t = AnswersTo(s, Len(s) - Len(u))
  BY DEF InOrder
<1>4. Len(s2) - Len(u2) = Len(s) - Len(u) /\ Len(s) - Len(u) \in 0..Len(s)
  BY <1>1, <1>2, <1>3
<1>5. AnswersTo(s2, Len(s2) - Len(u2)) = AnswersTo(s, Len(s) - Len(u))
  BY <1>4, AnswersToAppend DEF s2
<1>6. ASSUME NEW i \in 1..Len(u2) PROVE u2[i] = Len(s2) - Len(u2) + i
  <2>1. CASE i \in 1..Len(u)
    BY <1>1, <1>2, <1>3, <2>1
  <2>2. CASE i = Len(u) + 1
    BY <1>1, <1>2, <2>2
  <2> QED BY <1>1, <1>2, <2>1, <2>2
<1>7. Len(u2) <= Len(s2)
  BY <1>1, <1>2, <1>3
<1>8. InOrder(s2, u2, a, q, t)
  BY <1>3, <1>5, <1>6, <1>7 DEF InOrder
<1> QED BY <1>8 DEF s2, u2

LEMMA OrderHandles ==
  ASSUME NEW s \in Seq(Kinds), NEW u \in Seq(Nat), NEW a \in Seq(Replies),
         NEW q \in Seq(Messages), InOrder(s, u, a, q, <<>>), u # <<>>
  PROVE  InOrder(s, Tail(u), a, q, HandleText(Head(u), s[Head(u)]))
<1> DEFINE v == Tail(u)
           n == Head(u)
           m == Len(s) - Len(u)
<1>1. Len(s) \in Nat /\ Len(u) \in Nat /\ Len(u) > 0
  BY LenProperties, EmptySeq
<1>2. /\ Len(v) = Len(u) - 1 /\ n = u[1]
      /\ \A i \in 1..Len(v) : v[i] = u[i + 1]
  BY HeadTailProperties
<1> HIDE DEF v, n
<1>3. /\ Len(u) <= Len(s) /\ \A i \in 1..Len(u) : u[i] = m + i
      /\ a \o AnswersIn(q) \o <<>> = AnswersTo(s, m)
  BY DEF InOrder
<1>4. /\ m \in 0..Len(s) /\ n = m + 1 /\ n \in 1..Len(s) /\ n - 1 = m
      /\ Len(s) - Len(v) = n
  BY <1>1, <1>2, <1>3
<1> HIDE DEF m
<1>5. AnswersTo(s, n) = AnswersTo(s, m) \o HandleText(n, s[n])
  BY <1>4, AnswersToSteps
<1>6. a \o AnswersIn(q) \o HandleText(n, s[n]) = AnswersTo(s, n)
  <2>1. AnswersIn(q) \in Seq(Replies)
    BY AnswersInTyped
  <2>2. a \o AnswersIn(q) \in Seq(Replies)
    BY <2>1, ConcatProperties
  <2>3. (a \o AnswersIn(q)) \o <<>> = a \o AnswersIn(q)
    BY <2>2, ConcatEmptySeq
  <2> QED BY <1>3, <1>5, <2>3
<1>7. ASSUME NEW i \in 1..Len(v) PROVE v[i] = Len(s) - Len(v) + i
  <2>1. i + 1 \in 1..Len(u)
    BY <1>1, <1>2
  <2>2. u[i + 1] = m + (i + 1)
    BY <1>3, <2>1
  <2>3. v[i] = m + (i + 1)
    BY <1>2, <2>2
  <2>4. Len(s) - Len(v) = m + 1
    BY <1>4
  <2>5. m \in Int /\ i \in Int
    BY <1>1, <1>2, <1>4
  <2>6. m + (i + 1) = (m + 1) + i
    BY <2>5
  <2> QED BY <2>3, <2>4, <2>6
<1>8. Len(v) <= Len(s)
  BY <1>1, <1>2, <1>3
<1>9. InOrder(s, v, a, q, HandleText(n, s[n]))
  BY <1>4, <1>6, <1>7, <1>8 DEF InOrder
<1> QED BY <1>9 DEF v, n

LEMMA OrderAnswers ==
  ASSUME NEW s, NEW u, NEW a \in Seq(Replies), NEW q \in Seq(Messages), NEW t \in Seq(Replies),
         InOrder(s, u, a, q, t), t # <<>>
  PROVE  InOrder(s, u, a, Append(q, Head(t)), Tail(t))
<1>1. Head(t) \in Replies /\ Tail(t) \in Seq(Replies)
  BY HeadTailProperties
<1>2. Head(t) \in Messages /\ IsAnswer(Head(t))
  BY <1>1 DEF Replies, Messages, IsAnswer
<1>3. AnswersIn(Append(q, Head(t))) = AnswersIn(q) \o <<Head(t)>>
  BY <1>2, AnswersInAppend DEF OneAnswer
<1>4. t = <<Head(t)>> \o Tail(t) /\ <<Head(t)>> \in Seq(Replies)
  BY <1>1, HeadTailIs
<1>5. AnswersIn(q) \in Seq(Replies) /\ a \o AnswersIn(q) \in Seq(Replies)
  BY AnswersInTyped, ConcatProperties
<1>6. (a \o AnswersIn(q)) \o t = ((a \o AnswersIn(q)) \o <<Head(t)>>) \o Tail(t)
  <2>1. ((a \o AnswersIn(q)) \o <<Head(t)>>) \o Tail(t)
        = (a \o AnswersIn(q)) \o (<<Head(t)>> \o Tail(t))
    BY <1>1, <1>4, <1>5, Regroup
  <2> QED BY <1>4, <2>1
<1>7. (a \o AnswersIn(q)) \o <<Head(t)>> = a \o (AnswersIn(q) \o <<Head(t)>>)
  BY <1>4, <1>5, Regroup
<1>8. a \o AnswersIn(Append(q, Head(t))) \o Tail(t) = a \o AnswersIn(q) \o t
  BY <1>3, <1>6, <1>7
<1> QED BY <1>8 DEF InOrder

LEMMA OrderForwards ==
  ASSUME NEW s, NEW u, NEW a, NEW q \in Seq(Messages), NEW t,
         InOrder(s, u, a, q, t), NEW m \in Messages, ~IsAnswer(m)
  PROVE  InOrder(s, u, a, Append(q, m), t)
<1>1. AnswersIn(Append(q, m)) = AnswersIn(q) \o <<>>
  BY AnswersInAppend DEF OneAnswer
<1>2. AnswersIn(q) \o <<>> = AnswersIn(q)
  BY AnswersInTyped, ConcatEmptySeq
<1> QED BY <1>1, <1>2 DEF InOrder

LEMMA OrderWrites ==
  ASSUME NEW s, NEW u, NEW a \in Seq(Replies), NEW q \in Seq(Messages), NEW t,
         InOrder(s, u, a, q, t), q # <<>>
  PROVE  /\ IsAnswer(Head(q)) => InOrder(s, u, Append(a, Head(q)), Tail(q), t)
         /\ ~IsAnswer(Head(q)) => InOrder(s, u, a, Tail(q), t)
<1>1. Head(q) \in Messages /\ Tail(q) \in Seq(Messages)
  BY HeadTailProperties
<1>2. AnswersIn(q) = OneAnswer(Head(q)) \o AnswersIn(Tail(q)) /\ AnswersIn(Tail(q)) \in Seq(Replies)
  BY <1>1, AnswersInHead, AnswersInTyped
<1>3. CASE IsAnswer(Head(q))
  <2>1. OneAnswer(Head(q)) = <<Head(q)>> /\ <<Head(q)>> \in Seq(Replies) /\ Head(q) \in Replies
    BY <1>1, <1>3, AnswerTyped DEF OneAnswer
  <2>2. Append(a, Head(q)) = a \o <<Head(q)>>
    BY <2>1, AppendIsConcat
  <2>3. (a \o <<Head(q)>>) \o AnswersIn(Tail(q)) = a \o (<<Head(q)>> \o AnswersIn(Tail(q)))
    BY <1>2, <2>1, Regroup
  <2>4. Append(a, Head(q)) \o AnswersIn(Tail(q)) = a \o AnswersIn(q)
    BY <1>2, <2>1, <2>2, <2>3
  <2> QED BY <1>3, <2>4 DEF InOrder
<1>4. CASE ~IsAnswer(Head(q))
  <2>1. AnswersIn(q) = <<>> \o AnswersIn(Tail(q))
    BY <1>2, <1>4 DEF OneAnswer
  <2>2. AnswersIn(q) = AnswersIn(Tail(q))
    BY <1>2, <2>1, ConcatEmptySeq
  <2> QED BY <1>4, <2>2 DEF InOrder
<1> QED BY <1>3, <1>4
-----------------------------------------------------------------------------
(* Types *)

LEMMA ReplyIsMessage == Replies \subseteq Messages
BY DEF Replies, Messages

LEMMA TelemetryTyped ==
  ASSUME NEW k \in Nat
  PROVE  /\ Telemetry(k) \in Messages /\ ~IsAnswer(Telemetry(k)) /\ Telemetry(k)[2] = k
BY DEF Telemetry, Messages, IsAnswer

LEMMA TypesBegin == Init => TypeOK
<1>1. <<>> \in Seq(Kinds) /\ <<>> \in Seq(Nat) /\ <<>> \in Seq(Replies) /\ <<>> \in Seq(Messages)
  BY EmptySeq
<1> QED BY <1>1 DEF Init, TypeOK

LEMMA TypesKept == TypeOK /\ [Next]_vars => TypeOK'
<1> SUFFICES ASSUME TypeOK, [Next]_vars PROVE TypeOK'
  OBVIOUS
<1> USE DEF TypeOK
<1>1. CASE Emit
  <2>1. emitted' \in Nat /\ lost' \subseteq Nat
    <3>0. emitted \in Nat /\ lost \subseteq Nat
      OBVIOUS
    <3>1. emitted' = emitted + 1 /\ emitted' \in Nat
      BY <1>1, <3>0 DEF Emit
    <3>2. lost' = lost \/ lost' = lost \cup {emitted'}
      BY <1>1 DEF Emit
    <3> QED BY <3>0, <3>1, <3>2
  <2>2. ring' \in Seq(Nat)
    <3>1. ring' = ring \/ ring' = Append(ring, emitted')
      BY <1>1 DEF Emit
    <3>2. ring \in Seq(Nat)
      OBVIOUS
    <3>3. Append(ring, emitted') \in Seq(Nat)
      BY <2>1, <3>2, AppendProperties
    <3> QED BY <3>1, <3>2, <3>3
  <2> QED BY <1>1, <2>1, <2>2 DEF Emit
<1>2. ASSUME NEW c \in Conns, Accept(c) \/ ClientLeaves(c) \/ ReaderEnds(c) PROVE TypeOK'
  BY <1>2 DEF Accept, ClientLeaves, ReaderEnds
<1>3. ASSUME NEW c \in Conns, NEW kind \in Kinds, ClientSends(c, kind) PROVE TypeOK'
  <2>1. Append(sent[c], kind) \in Seq(Kinds)
    BY AppendProperties
  <2>2. sent' \in [Conns -> Seq(Kinds)] /\ Len(sent'[c]) \in Nat
    BY <1>3, <2>1, LenProperties DEF ClientSends
  <2>3. Append(inbox[c], Len(sent'[c])) \in Seq(Nat)
    BY <2>2, AppendProperties
  <2> QED BY <1>3, <2>2, <2>3 DEF ClientSends
<1>4. ASSUME NEW c \in Conns, Handle(c) PROVE TypeOK'
  <2>1. inbox[c] # <<>>
    BY <1>4 DEF Handle
  <2>2. Head(inbox[c]) \in Nat /\ Tail(inbox[c]) \in Seq(Nat)
    BY <2>1, HeadTailProperties
  <2>3. HandleText(Head(inbox[c]), sent[c][Head(inbox[c])]) \in Seq(Replies)
    BY <2>2, HandleTyped
  <2> QED BY <1>4, <2>2, <2>3 DEF Handle
<1>5. ASSUME NEW c \in Conns, Answer(c) PROVE TypeOK'
  <2>1. todo[c] # <<>>
    BY <1>5 DEF Answer
  <2>2. Head(todo[c]) \in Messages /\ Tail(todo[c]) \in Seq(Replies)
    BY <2>1, HeadTailProperties, ReplyIsMessage
  <2>3. Append(out[c], Head(todo[c])) \in Seq(Messages)
    BY <2>2, AppendProperties
  <2> QED BY <1>5, <2>2, <2>3 DEF Answer, Queue
<1>6. ASSUME NEW c \in Conns, Poll(c) PROVE TypeOK'
  <2>1. PICK n \in Nat : /\ n <= Len(ring)
                         /\ batch' = [batch EXCEPT ![c] = SubSeq(ring, 1, n)]
                         /\ ring' = SubSeq(ring, n + 1, Len(ring))
    <3> DEFINE k == IF Len(ring) < BatchSize THEN Len(ring) ELSE BatchSize
    <3>1. Len(ring) \in Nat /\ BatchSize \in Nat
      BY LenProperties, ConnectionsAssumption
    <3>2. k \in Nat /\ k <= Len(ring)
      BY <3>1
    <3>3. batch' = [batch EXCEPT ![c] = SubSeq(ring, 1, k)] /\ ring' = SubSeq(ring, k + 1, Len(ring))
      BY <1>6 DEF Poll, AfterBatch
    <3> QED BY <3>2, <3>3
  <2>2. Len(ring) \in Nat /\ \A i \in 1..Len(ring) : ring[i] \in Nat
    <3>1. ring \in Seq(Nat)
      OBVIOUS
    <3> QED BY <3>1, LenProperties, ElementOfSeq
  <2>3. SubSeq(ring, 1, n) \in Seq(Nat) /\ SubSeq(ring, n + 1, Len(ring)) \in Seq(Nat)
    <3>1. \A i \in 1..n : ring[i] \in Nat
      BY <2>1, <2>2
    <3>2. \A i \in (n + 1)..Len(ring) : ring[i] \in Nat
      BY <2>1, <2>2
    <3> QED BY <2>1, <2>2, <3>1, <3>2, SubSeqProperties
  <2> QED BY <1>6, <2>1, <2>3 DEF Poll
<1>7. ASSUME NEW c \in Conns, Forward(c) PROVE TypeOK'
  <2>1. batch[c] # <<>>
    BY <1>7 DEF Forward
  <2>2. Head(batch[c]) \in Nat /\ Tail(batch[c]) \in Seq(Nat)
    BY <2>1, HeadTailProperties
  <2>3. Append(out[c], Telemetry(Head(batch[c]))) \in Seq(Messages)
    BY <2>2, TelemetryTyped, AppendProperties
  <2> QED BY <1>7, <2>2, <2>3 DEF Forward, Queue
<1>8. ASSUME NEW c \in Conns, Write(c) PROVE TypeOK'
  <2>1. out[c] # <<>>
    BY <1>8 DEF Write
  <2>2. Head(out[c]) \in Messages /\ Tail(out[c]) \in Seq(Messages)
    BY <2>1, HeadTailProperties
  <2>3. IsAnswer(Head(out[c])) => Append(replies[c], Head(out[c])) \in Seq(Replies)
    BY <2>2, AnswerTyped, AppendProperties
  <2>4. Append(heard[c], Head(out[c])[2]) \in Seq(Nat)
    <3>1. Head(out[c])[2] \in Nat
      BY <2>2 DEF Messages
    <3> QED BY <3>1, AppendProperties
  <2>5. replies' \in [Conns -> Seq(Replies)] /\ heard' \in [Conns -> Seq(Nat)]
    BY <1>8, <2>3, <2>4 DEF Write
  <2> QED BY <1>8, <2>2, <2>5 DEF Write
<1>9. ASSUME NEW queue \in Seq(Messages) PROVE EventsIn(queue) \subseteq Nat
  <2>1. ASSUME NEW i \in DOMAIN queue PROVE queue[i] \in Messages
    BY ElementOfSeq, LenProperties
  <2>2. \A m \in ToSet(queue) : m \in Messages
    BY <2>1 DEF ToSet
  <2> QED BY <2>2 DEF EventsIn, Messages
<1>10. ASSUME NEW c \in Conns, WriteToNobody(c) PROVE TypeOK'
  <2>1. out[c] # <<>>
    BY <1>10 DEF WriteToNobody
  <2>2. Head(out[c]) \in Messages /\ Tail(out[c]) \in Seq(Messages)
    BY <2>1, HeadTailProperties
  <2>3. <<Head(out[c])>> \in Seq(Messages)
    BY <2>2
  <2>4. lost' \subseteq Nat
    BY <1>9, <1>10, <2>3 DEF WriteToNobody
  <2> QED BY <1>10, <2>2, <2>4 DEF WriteToNobody
<1>11. ASSUME NEW c \in Conns, WriteFails(c) PROVE TypeOK'
  <2>1. ToSet(batch[c]) \subseteq Nat
    BY ElementOfSeq, LenProperties DEF ToSet
  <2>2. lost' \subseteq Nat
    BY <1>9, <1>11, <2>1 DEF WriteFails
  <2>3. <<>> \in Seq(Messages) /\ <<>> \in Seq(Replies) /\ <<>> \in Seq(Nat)
    BY EmptySeq
  <2> QED BY <1>11, <2>2, <2>3 DEF WriteFails
<1>12. CASE UNCHANGED vars
  BY <1>12 DEF vars
<1> QED BY <1>1, <1>2, <1>3, <1>4, <1>5, <1>6, <1>7, <1>8, <1>10, <1>11, <1>12 DEF Next, Reader
-----------------------------------------------------------------------------
(* Every step keeps the order of the answers. *)

\* What a step leaves alone stays in order.
LEMMA OrderStays ==
  ASSUME NEW d \in Conns, Accepted(d), peer[d] => InOrder(sent[d], inbox[d], replies[d], out[d], todo[d]),
         conn'[d] = conn[d], peer'[d] = peer[d], reading'[d] = reading[d],
         sent'[d] = sent[d], inbox'[d] = inbox[d], replies'[d] = replies[d],
         out'[d] = out[d], todo'[d] = todo[d]
  PROVE  /\ (Accepted(d))'
         /\ peer'[d] => InOrder(sent'[d], inbox'[d], replies'[d], out'[d], todo'[d])
BY DEF Accepted, Untouched

LEMMA RequestsKept == TypeOK /\ RequestsInv /\ [Next]_vars => RequestsInv'
<1> SUFFICES ASSUME TypeOK, RequestsInv, [Next]_vars, NEW d \in Conns
             PROVE  /\ (Accepted(d))'
                    /\ peer'[d] => InOrder(sent'[d], inbox'[d], replies'[d], out'[d], todo'[d])
  BY DEF RequestsInv
<1> DEFINE Kept == /\ (Accepted(d))'
                   /\ peer'[d] => InOrder(sent'[d], inbox'[d], replies'[d], out'[d], todo'[d])
<1> USE DEF TypeOK
<1>0. /\ Accepted(d)
      /\ peer[d] => InOrder(sent[d], inbox[d], replies[d], out[d], todo[d])
  BY DEF RequestsInv
<1>1. CASE Emit
  BY <1>0, <1>1, OrderStays DEF Emit
<1>2. ASSUME NEW c \in Conns, Accept(c) PROVE Kept
  <2>1. CASE d # c
    BY <1>0, <1>2, <2>1, OrderStays DEF Accept
  <2>2. CASE d = c
    <3>1. conn[d] = "none" /\ Untouched(d)
      BY <1>0, <1>2, <2>2 DEF Accept, Accepted
    <3>2. InOrder(sent'[d], inbox'[d], replies'[d], out'[d], todo'[d])
      BY <1>2, <2>2, <3>1, OrderBegins DEF Accept, Untouched
    <3>3. conn'[d] = "open"
      BY <1>2, <2>2 DEF Accept
    <3> QED BY <3>2, <3>3 DEF Accepted
  <2> QED BY <2>1, <2>2
<1>3. ASSUME NEW c \in Conns, ClientLeaves(c) PROVE Kept
  <2>1. CASE d # c
    BY <1>0, <1>3, <2>1, OrderStays DEF ClientLeaves
  <2>2. CASE d = c
    BY <1>0, <1>3, <2>2 DEF ClientLeaves, Accepted, Untouched
  <2> QED BY <2>1, <2>2
<1>4. ASSUME NEW c \in Conns, NEW kind \in Kinds, ClientSends(c, kind) PROVE Kept
  <2>1. CASE d # c
    BY <1>0, <1>4, <2>1, OrderStays DEF ClientSends
  <2>2. CASE d = c
    <3>1. conn[d] = "open" /\ InOrder(sent[d], inbox[d], replies[d], out[d], todo[d])
      BY <1>0, <1>4, <2>2 DEF ClientSends, Accepted
    <3>2. sent'[d] = Append(sent[d], kind) /\ Len(sent'[d]) = Len(sent[d]) + 1
      BY <1>4, <2>2, AppendProperties DEF ClientSends
    <3>3. inbox'[d] = Append(inbox[d], Len(sent[d]) + 1)
      BY <1>4, <2>2, <3>2 DEF ClientSends
    <3>4. InOrder(sent'[d], inbox'[d], replies[d], out[d], todo[d])
      BY <3>1, <3>2, <3>3, OrderSends
    <3> QED BY <1>4, <3>1, <3>4 DEF ClientSends, Accepted
  <2> QED BY <2>1, <2>2
<1>5. ASSUME NEW c \in Conns, Handle(c) PROVE Kept
  <2>1. CASE d # c
    BY <1>0, <1>5, <2>1, OrderStays DEF Handle
  <2>2. CASE d = c
    <3>1. conn[d] = "open" /\ todo[d] = <<>> /\ inbox[d] # <<>>
      BY <1>0, <1>5, <2>2 DEF Handle, Accepted
    <3>2. /\ inbox'[d] = Tail(inbox[d])
          /\ todo'[d] = HandleText(Head(inbox[d]), sent[d][Head(inbox[d])])
      BY <1>5, <2>2 DEF Handle
    <3>3. peer[d] => InOrder(sent[d], inbox'[d], replies[d], out[d], todo'[d])
      BY <1>0, <3>1, <3>2, OrderHandles
    <3> QED BY <1>5, <3>1, <3>3 DEF Handle, Accepted
  <2> QED BY <2>1, <2>2
<1>6. ASSUME NEW c \in Conns, Answer(c) PROVE Kept
  <2>1. CASE d # c
    BY <1>0, <1>6, <2>1, OrderStays DEF Answer, Queue
  <2>2. CASE d = c
    <3>1. conn[d] = "open" /\ todo[d] # <<>>
      BY <1>0, <1>6, <2>2 DEF Answer, Accepted
    <3>2. out'[d] = Append(out[d], Head(todo[d])) /\ todo'[d] = Tail(todo[d])
      BY <1>6, <2>2 DEF Answer, Queue
    <3>3. peer[d] => InOrder(sent[d], inbox[d], replies[d], out'[d], todo'[d])
      BY <1>0, <3>1, <3>2, OrderAnswers
    <3> QED BY <1>6, <3>1, <3>3 DEF Answer, Accepted
  <2> QED BY <2>1, <2>2
<1>7. ASSUME NEW c \in Conns, ReaderEnds(c) PROVE Kept
  BY <1>0, <1>7 DEF ReaderEnds, Accepted, Untouched
<1>8. ASSUME NEW c \in Conns, Poll(c) PROVE Kept
  BY <1>0, <1>8, OrderStays DEF Poll
<1>9. ASSUME NEW c \in Conns, Forward(c) PROVE Kept
  <2>1. CASE d # c
    BY <1>0, <1>9, <2>1, OrderStays DEF Forward, Queue
  <2>2. CASE d = c
    <3>1. conn[d] = "open" /\ batch[d] # <<>>
      BY <1>9, <2>2 DEF Forward
    <3>2. out'[d] = Append(out[d], Telemetry(Head(batch[d])))
      BY <1>9, <2>2 DEF Forward, Queue
    <3>3. Head(batch[d]) \in Nat
      BY <3>1, HeadTailProperties
    <3>4. ASSUME peer[d] PROVE InOrder(sent[d], inbox[d], replies[d], out'[d], todo[d])
      <4>1. InOrder(sent[d], inbox[d], replies[d], out[d], todo[d])
        BY <1>0, <3>4
      <4>2. PICK m \in Messages : m = Telemetry(Head(batch[d])) /\ ~IsAnswer(m)
        BY <3>3, TelemetryTyped
      <4>3. out[d] \in Seq(Messages)
        OBVIOUS
      <4> QED BY <3>2, <4>1, <4>2, <4>3, OrderForwards
    <3>5. /\ conn' = conn /\ peer' = peer /\ reading' = reading
          /\ sent' = sent /\ inbox' = inbox /\ replies' = replies /\ todo' = todo
      BY <1>9 DEF Forward
    <3>6. (Accepted(d))'
      BY <3>1, <3>5 DEF Accepted
    <3> QED BY <3>4, <3>5, <3>6
  <2> QED BY <2>1, <2>2
<1>10. ASSUME NEW c \in Conns, Write(c) PROVE Kept
  <2>1. CASE d # c
    <3>1. replies'[d] = replies[d]
      BY <1>10, <2>1 DEF Write
    <3> QED BY <1>0, <1>10, <2>1, <3>1, OrderStays DEF Write
  <2>2. CASE d = c
    <3>1. conn[d] = "open" /\ out[d] # <<>> /\ InOrder(sent[d], inbox[d], replies[d], out[d], todo[d])
      BY <1>0, <1>10, <2>2 DEF Write
    <3>2. /\ out'[d] = Tail(out[d])
          /\ replies'[d] = IF IsAnswer(Head(out[d])) THEN Append(replies[d], Head(out[d]))
                           ELSE replies[d]
      BY <1>10, <2>2 DEF Write
    <3>3. InOrder(sent[d], inbox[d], replies'[d], out'[d], todo[d])
      BY <3>1, <3>2, OrderWrites
    <3> QED BY <1>10, <3>1, <3>3 DEF Write, Accepted
  <2> QED BY <2>1, <2>2
<1>11. ASSUME NEW c \in Conns, WriteToNobody(c) \/ WriteFails(c) PROVE Kept
  <2>1. CASE d # c
    BY <1>0, <1>11, <2>1, OrderStays DEF WriteToNobody, WriteFails
  <2>2. CASE d = c
    <3>1. /\ peer'[d] = FALSE
          /\ conn'[d] = "open" \/ (conn'[d] = "over" /\ reading'[d] = FALSE)
      BY <1>11, <2>2 DEF WriteToNobody, WriteFails
    <3>2. (Accepted(d))'
      BY <3>1 DEF Accepted
    <3> QED BY <3>1, <3>2
  <2> QED BY <2>1, <2>2
<1>12. CASE UNCHANGED vars
  BY <1>0, <1>12, OrderStays DEF vars
<1> QED BY <1>1, <1>2, <1>3, <1>4, <1>5, <1>6, <1>7, <1>8, <1>9, <1>10, <1>11, <1>12
        DEF Next, Reader
-----------------------------------------------------------------------------
(* The events of a list and of a queue *)

OneEvent(m) == IF IsAnswer(m) THEN {} ELSE {m[2]}

LEMMA ListOf ==
  ASSUME NEW A, NEW l \in Seq(A)
  PROVE  Len(l) \in Nat /\ DOMAIN l = 1..Len(l) /\ ToSet(l) = {l[i] : i \in 1..Len(l)}
BY LenProperties DEF ToSet

LEMMA TailOf ==
  ASSUME NEW A, NEW l \in Seq(A), l # <<>>
  PROVE  /\ Len(l) \in Nat /\ Len(l) > 0 /\ Head(l) = l[1] /\ Tail(l) \in Seq(A)
         /\ DOMAIN l = 1..Len(l) /\ DOMAIN Tail(l) = 1..(Len(l) - 1)
         /\ \A i \in 1..(Len(l) - 1) : Tail(l)[i] = l[i + 1]
         /\ ToSet(l) = {l[i] : i \in 1..Len(l)}
         /\ ToSet(Tail(l)) = {Tail(l)[i] : i \in 1..(Len(l) - 1)}
<1>1. Len(l) \in Nat \ {0}
  BY EmptySeq
<1>2. /\ Head(l) = l[1] /\ Tail(l) \in Seq(A) /\ Len(Tail(l)) = Len(l) - 1
      /\ \A i \in 1..Len(Tail(l)) : Tail(l)[i] = l[i + 1]
  BY HeadTailProperties
<1>3. DOMAIN l = 1..Len(l) /\ ToSet(l) = {l[i] : i \in 1..Len(l)}
  BY ListOf
<1>4. Len(Tail(l)) = Len(l) - 1
  BY <1>2
<1>5. DOMAIN Tail(l) = 1..Len(Tail(l)) /\ ToSet(Tail(l)) = {Tail(l)[i] : i \in 1..Len(Tail(l))}
  BY <1>2, ListOf
<1>6. /\ DOMAIN Tail(l) = 1..(Len(l) - 1)
      /\ ToSet(Tail(l)) = {Tail(l)[i] : i \in 1..(Len(l) - 1)}
      /\ \A i \in 1..(Len(l) - 1) : Tail(l)[i] = l[i + 1]
  BY <1>2, <1>4, <1>5
<1>7. Len(l) \in Nat /\ Len(l) > 0
  BY <1>1
<1> QED BY <1>2, <1>3, <1>6, <1>7

LEMMA NoEvents == ToSet(<<>>) = {} /\ EventsIn(<<>>) = {}
<1>1. DOMAIN <<>> = {}
  OBVIOUS
<1> QED BY <1>1 DEF ToSet, EventsIn

LEMMA ToSetTyped ==
  ASSUME NEW A, NEW l \in Seq(A) PROVE ToSet(l) \subseteq A
<1>1. \A i \in 1..Len(l) : l[i] \in A
  BY ElementOfSeq
<1> QED BY <1>1, ListOf

LEMMA ToSetAppend ==
  ASSUME NEW A, NEW l \in Seq(A), NEW e \in A
  PROVE  ToSet(Append(l, e)) = ToSet(l) \cup {e}
<1> DEFINE k == Append(l, e)
           n == Len(l)
<1>1. /\ k \in Seq(A) /\ Len(k) = n + 1 /\ k[n + 1] = e
      /\ \A i \in 1..n : k[i] = l[i]
  BY AppendProperties
<1>2. n \in Nat /\ ToSet(l) = {l[i] : i \in 1..n} /\ ToSet(k) = {k[i] : i \in 1..(n + 1)}
  BY <1>1, ListOf
<1> HIDE DEF k, n
<1>3. 1..(n + 1) = (1..n) \cup {n + 1}
  BY <1>2
<1>4. ToSet(k) = {k[i] : i \in 1..n} \cup {k[n + 1]}
  BY <1>2, <1>3
<1>5. {k[i] : i \in 1..n} = {l[i] : i \in 1..n}
  BY <1>1
<1>6. ToSet(k) = ToSet(l) \cup {e}
  BY <1>1, <1>2, <1>4, <1>5
<1> QED BY <1>6 DEF k

LEMMA ToSetHead ==
  ASSUME NEW A, NEW l \in Seq(A), l # <<>>
  PROVE  ToSet(l) = {Head(l)} \cup ToSet(Tail(l))
<1> DEFINE k == Tail(l)
           n == Len(l)
<1>1. /\ k \in Seq(A) /\ Head(l) = l[1]
      /\ \A i \in 1..(n - 1) : k[i] = l[i + 1]
  BY TailOf
<1>2. /\ n \in Nat /\ n > 0
      /\ ToSet(l) = {l[i] : i \in 1..n} /\ ToSet(k) = {k[i] : i \in 1..(n - 1)}
  BY TailOf
<1> HIDE DEF k, n
<1>3. ASSUME NEW x \in ToSet(l) PROVE x = Head(l) \/ x \in ToSet(k)
  <2>1. PICK i \in 1..n : x = l[i]
    BY <1>2
  <2>2. CASE i # 1
    <3>1. i - 1 \in 1..(n - 1) /\ (i - 1) + 1 = i
      BY <1>2, <2>2
    <3>2. k[i - 1] = l[i]
      BY <1>1, <3>1
    <3> QED BY <1>2, <2>1, <3>1, <3>2
  <2> QED BY <1>1, <2>1, <2>2
<1>4. Head(l) \in ToSet(l)
  BY <1>1, <1>2
<1>5. ASSUME NEW x \in ToSet(k) PROVE x \in ToSet(l)
  <2>1. PICK i \in 1..(n - 1) : x = k[i]
    BY <1>2
  <2>2. i + 1 \in 1..n /\ k[i] = l[i + 1]
    BY <1>1, <1>2
  <2> QED BY <1>2, <2>1, <2>2
<1>6. ToSet(l) = {Head(l)} \cup ToSet(k)
  BY <1>3, <1>4, <1>5
<1> QED BY <1>6 DEF k

LEMMA EventsInSet ==
  ASSUME NEW queue, NEW k
  PROVE  k \in EventsIn(queue) <=> \E m \in ToSet(queue) : ~IsAnswer(m) /\ k = m[2]
BY DEF EventsIn

LEMMA EventsInTyped ==
  ASSUME NEW queue \in Seq(Messages) PROVE EventsIn(queue) \subseteq Nat
<1>1. ToSet(queue) \subseteq Messages
  BY ToSetTyped
<1>2. \A m \in Messages : m[2] \in Nat
  BY DEF Messages
<1> QED BY <1>1, <1>2, EventsInSet

LEMMA EventsInAppend ==
  ASSUME NEW queue \in Seq(Messages), NEW m \in Messages
  PROVE  EventsIn(Append(queue, m)) = EventsIn(queue) \cup OneEvent(m)
<1>1. ToSet(Append(queue, m)) = ToSet(queue) \cup {m}
  BY ToSetAppend
<1>2. ASSUME NEW k
      PROVE  k \in EventsIn(Append(queue, m)) <=> k \in EventsIn(queue) \/ k \in OneEvent(m)
  BY <1>1, EventsInSet DEF OneEvent
<1> QED BY <1>2

LEMMA EventsInHead ==
  ASSUME NEW queue \in Seq(Messages), queue # <<>>
  PROVE  EventsIn(queue) = OneEvent(Head(queue)) \cup EventsIn(Tail(queue))
<1>1. ToSet(queue) = {Head(queue)} \cup ToSet(Tail(queue))
  BY ToSetHead
<1>2. ASSUME NEW k
      PROVE  k \in EventsIn(queue) <=> k \in EventsIn(Tail(queue)) \/ k \in OneEvent(Head(queue))
  BY <1>1, EventsInSet DEF OneEvent
<1> QED BY <1>2

LEMMA EventsInOne ==
  ASSUME NEW m PROVE EventsIn(<<m>>) = OneEvent(m)
<1>1. DOMAIN <<m>> = {1} /\ <<m>>[1] = m
  OBVIOUS
<1>2. ToSet(<<m>>) = {m}
  BY <1>1 DEF ToSet
<1> QED BY <1>2 DEF EventsIn, OneEvent
-----------------------------------------------------------------------------
(* Their order *)

LEMMA BelowParts ==
  ASSUME NEW S, NEW T, Below(S, T), NEW S2 \in SUBSET S, NEW T2 \in SUBSET T
  PROVE  Below(S2, T2)
BY DEF Below

LEMMA BelowDisjoint ==
  ASSUME NEW S \in SUBSET Nat, NEW T \in SUBSET Nat, Below(S, T)
  PROVE  S \cap T = {}
BY DEF Below

LEMMA UpwardsEmpty == Upwards(<<>>) /\ Rising(<<>>)
<1>1. DOMAIN <<>> = {}
  OBVIOUS
<1> QED BY <1>1 DEF Upwards, Rising

LEMMA UpwardsAppend ==
  ASSUME NEW l \in Seq(Nat), NEW e \in Nat, Upwards(l), Below(ToSet(l), {e})
  PROVE  Upwards(Append(l, e))
<1> DEFINE k == Append(l, e)
           n == Len(l)
<1>1. /\ k \in Seq(Nat) /\ Len(k) = n + 1 /\ k[n + 1] = e
      /\ \A i \in 1..n : k[i] = l[i]
  BY AppendProperties
<1>2. n \in Nat /\ DOMAIN l = 1..n /\ ToSet(l) = {l[i] : i \in 1..n} /\ DOMAIN k = 1..(n + 1)
  BY <1>1, ListOf
<1> HIDE DEF k, n
<1>3. ASSUME NEW i \in 1..(n + 1), NEW j \in 1..(n + 1), i < j PROVE k[i] < k[j]
  <2>1. i \in 1..n /\ k[i] = l[i]
    BY <1>1, <1>2, <1>3
  <2>2. CASE j \in 1..n
    BY <1>1, <1>2, <1>3, <2>1, <2>2 DEF Upwards
  <2>3. CASE j = n + 1
    <3>1. l[i] \in ToSet(l)
      BY <1>2, <2>1
    <3> QED BY <1>1, <2>1, <2>3, <3>1 DEF Below
  <2> QED BY <1>2, <2>2, <2>3
<1>4. Upwards(k)
  BY <1>2, <1>3 DEF Upwards
<1> QED BY <1>4 DEF k

LEMMA UpwardsTail ==
  ASSUME NEW l \in Seq(Nat), l # <<>>, Upwards(l)
  PROVE  Upwards(Tail(l)) /\ Below({Head(l)}, ToSet(Tail(l)))
<1> DEFINE k == Tail(l)
           n == Len(l)
<1>1. /\ k \in Seq(Nat) /\ Head(l) = l[1]
      /\ \A i \in 1..(n - 1) : k[i] = l[i + 1]
  BY TailOf
<1>2. /\ n \in Nat /\ n > 0 /\ DOMAIN l = 1..n
      /\ DOMAIN k = 1..(n - 1) /\ ToSet(k) = {k[i] : i \in 1..(n - 1)}
  BY TailOf
<1> HIDE DEF k, n
<1>3. ASSUME NEW i \in 1..(n - 1)
      PROVE  i + 1 \in 1..n /\ k[i] = l[i + 1] /\ 1 < i + 1 /\ 1 \in 1..n
  BY <1>1, <1>2
<1>4. ASSUME NEW i \in 1..(n - 1), NEW j \in 1..(n - 1), i < j PROVE k[i] < k[j]
  <2>1. i + 1 < j + 1
    BY <1>2, <1>4
  <2> QED BY <1>2, <1>3, <2>1 DEF Upwards
<1>5. Upwards(k)
  BY <1>2, <1>4 DEF Upwards
<1>6. ASSUME NEW x \in ToSet(k) PROVE Head(l) < x
  <2>1. PICK i \in 1..(n - 1) : x = k[i]
    BY <1>2
  <2> QED BY <1>1, <1>2, <1>3, <2>1 DEF Upwards
<1>7. Below({Head(l)}, ToSet(k))
  BY <1>6 DEF Below
<1> QED BY <1>5, <1>7 DEF k

\* A list in its order that is cut in two
Front(l, n) == SubSeq(l, 1, n)

Back(l, n) == SubSeq(l, n + 1, Len(l))

LEMMA UpwardsCut ==
  ASSUME NEW l \in Seq(Nat), NEW n \in 0..Len(l), Upwards(l)
  PROVE  /\ Upwards(Front(l, n)) /\ Upwards(Back(l, n))
         /\ Below(ToSet(Front(l, n)), ToSet(Back(l, n)))
         /\ ToSet(l) = ToSet(Front(l, n)) \cup ToSet(Back(l, n))
<1> DEFINE m == Len(l)
           f == SubSeq(l, 1, n)
           b == SubSeq(l, n + 1, m)
<1>1. m \in Nat /\ n \in Nat /\ n <= m /\ DOMAIN l = 1..m /\ \A i \in 1..m : l[i] \in Nat
  BY ListOf, ElementOfSeq
<1>2. ToSet(l) = {l[i] : i \in 1..m}
  BY ListOf
<1>3. f \in Seq(Nat) /\ Len(f) = n /\ \A i \in 1..n : f[i] = l[i]
  <2>1. \A i \in 1..n : l[i] \in Nat
    BY <1>1
  <2>2. /\ SubSeq(l, 1, n) \in Seq(Nat)
        /\ Len(SubSeq(l, 1, n)) = IF 1 <= n THEN n - 1 + 1 ELSE 0
        /\ \A i \in 1..(n - 1 + 1) : SubSeq(l, 1, n)[i] = l[1 + i - 1]
    BY <1>1, <2>1, SubSeqProperties
  <2>3. \A i \in 1..n : 1 + i - 1 = i
    OBVIOUS
  <2>4. n - 1 + 1 = n /\ (IF 1 <= n THEN n - 1 + 1 ELSE 0) = n
    BY <1>1
  <2> QED BY <2>2, <2>3, <2>4
<1>4. b \in Seq(Nat) /\ Len(b) = m - n /\ \A i \in 1..(m - n) : b[i] = l[n + i]
  <2>1. \A i \in (n + 1)..m : l[i] \in Nat
    BY <1>1
  <2>2. /\ SubSeq(l, n + 1, m) \in Seq(Nat)
        /\ Len(SubSeq(l, n + 1, m)) = IF n + 1 <= m THEN m - (n + 1) + 1 ELSE 0
        /\ \A i \in 1..(m - (n + 1) + 1) : SubSeq(l, n + 1, m)[i] = l[n + 1 + i - 1]
    BY <1>1, <2>1, SubSeqProperties
  <2>3. \A i \in 1..(m - n) : n + 1 + i - 1 = n + i
    BY <1>1
  <2>4. m - (n + 1) + 1 = m - n /\ (n + 1 <= m \/ m - n = 0)
    <3>1. \A i, j \in Nat : j <= i => i - (j + 1) + 1 = i - j /\ (j + 1 <= i \/ i - j = 0)
      OBVIOUS
    <3> QED BY <1>1, <3>1
  <2>5. Len(SubSeq(l, n + 1, m)) = m - n
    BY <2>2, <2>4
  <2> QED BY <2>2, <2>3, <2>4, <2>5
<1>5. /\ DOMAIN f = 1..n /\ ToSet(f) = {f[i] : i \in 1..n}
      /\ DOMAIN b = 1..(m - n) /\ ToSet(b) = {b[i] : i \in 1..(m - n)}
  <2>1. \A k \in Seq(Nat) : DOMAIN k = 1..Len(k) /\ ToSet(k) = {k[i] : i \in 1..Len(k)}
    BY ListOf
  <2>2. DOMAIN f = 1..Len(f) /\ ToSet(f) = {f[i] : i \in 1..Len(f)}
    BY <1>3, <2>1
  <2>3. DOMAIN b = 1..Len(b) /\ ToSet(b) = {b[i] : i \in 1..Len(b)}
    BY <1>4, <2>1
  <2> QED BY <1>3, <1>4, <2>2, <2>3
<1> HIDE DEF m, f, b
<1>6. Upwards(f)
  <2>1. \A i \in 1..n : i \in 1..m
    BY <1>1
  <2> QED BY <1>1, <1>3, <1>5, <2>1 DEF Upwards
<1>7. ASSUME NEW i \in 1..(m - n)
      PROVE  n + i \in 1..m /\ b[i] = l[n + i]
  BY <1>1, <1>4
<1>8. Upwards(b)
  <2>1. ASSUME NEW i \in 1..(m - n), NEW j \in 1..(m - n), i < j PROVE b[i] < b[j]
    <3>1. n + i < n + j
      BY <1>1, <2>1
    <3> QED BY <1>1, <1>7, <3>1 DEF Upwards
  <2> QED BY <1>5, <2>1 DEF Upwards
<1>9. ASSUME NEW x \in ToSet(f), NEW y \in ToSet(b) PROVE x < y
  <2>1. PICK i \in 1..n : x = f[i]
    BY <1>5
  <2>2. PICK j \in 1..(m - n) : y = b[j]
    BY <1>5
  <2>3. i \in 1..m /\ i < n + j
    BY <1>1
  <2>4. x = l[i] /\ y = l[n + j] /\ n + j \in 1..m
    BY <1>3, <1>7, <2>1, <2>2
  <2> QED BY <1>1, <2>3, <2>4 DEF Upwards
<1>10. ASSUME NEW x \in ToSet(l) PROVE x \in ToSet(f) \/ x \in ToSet(b)
  <2>1. PICK i \in 1..m : x = l[i]
    BY <1>2
  <2>2. CASE i <= n
    <3>1. i \in 1..n /\ f[i] = x
      BY <1>1, <1>3, <2>1, <2>2
    <3> QED BY <1>5, <3>1
  <2>3. CASE ~(i <= n)
    <3>1. i - n \in 1..(m - n) /\ n + (i - n) = i
      BY <1>1, <2>3
    <3>2. b[i - n] = x
      BY <1>4, <2>1, <3>1
    <3> QED BY <1>5, <3>1, <3>2
  <2> QED BY <2>2, <2>3
<1>11. ASSUME NEW x \in ToSet(f) PROVE x \in ToSet(l)
  <2>1. PICK i \in 1..n : x = f[i]
    BY <1>5
  <2>2. i \in 1..m /\ x = l[i]
    BY <1>1, <1>3, <2>1
  <2> QED BY <1>2, <2>2
<1>12. ASSUME NEW x \in ToSet(b) PROVE x \in ToSet(l)
  <2>1. PICK i \in 1..(m - n) : x = b[i]
    BY <1>5
  <2> QED BY <1>2, <1>7, <2>1
<1>13. Below(ToSet(f), ToSet(b))
  BY <1>9 DEF Below
<1>14. f = Front(l, n) /\ b = Back(l, n)
  BY DEF f, b, m, Front, Back
<1> QED BY <1>6, <1>8, <1>10, <1>11, <1>12, <1>13, <1>14

LEMMA RisingAppend ==
  ASSUME NEW l \in Seq(Messages), NEW e \in Messages, Rising(l), Below(EventsIn(l), OneEvent(e))
  PROVE  Rising(Append(l, e))
<1> DEFINE k == Append(l, e)
           n == Len(l)
<1>1. /\ k \in Seq(Messages) /\ Len(k) = n + 1 /\ k[n + 1] = e
      /\ \A i \in 1..n : k[i] = l[i]
  BY AppendProperties
<1>2. n \in Nat /\ DOMAIN l = 1..n /\ ToSet(l) = {l[i] : i \in 1..n} /\ DOMAIN k = 1..(n + 1)
  BY <1>1, ListOf
<1> HIDE DEF k, n
<1>3. ASSUME NEW i \in 1..(n + 1), NEW j \in 1..(n + 1), i < j, ~IsAnswer(k[i]), ~IsAnswer(k[j])
      PROVE  k[i][2] < k[j][2]
  <2>1. i \in 1..n /\ k[i] = l[i]
    BY <1>1, <1>2, <1>3
  <2>2. CASE j \in 1..n
    BY <1>1, <1>2, <1>3, <2>1, <2>2 DEF Rising
  <2>3. CASE j = n + 1
    <3>1. l[i] \in ToSet(l) /\ k[j] = e
      BY <1>1, <1>2, <2>1, <2>3
    <3>2. l[i][2] \in EventsIn(l) /\ e[2] \in OneEvent(e)
      BY <1>3, <2>1, <3>1, EventsInSet DEF OneEvent
    <3> QED BY <2>1, <3>1, <3>2 DEF Below
  <2> QED BY <1>2, <2>2, <2>3
<1>4. Rising(k)
  BY <1>2, <1>3 DEF Rising
<1> QED BY <1>4 DEF k

LEMMA RisingTail ==
  ASSUME NEW l \in Seq(Messages), l # <<>>, Rising(l)
  PROVE  Rising(Tail(l)) /\ Below(OneEvent(Head(l)), EventsIn(Tail(l)))
<1> DEFINE k == Tail(l)
           n == Len(l)
<1>1. /\ k \in Seq(Messages) /\ Head(l) = l[1]
      /\ \A i \in 1..(n - 1) : k[i] = l[i + 1]
  BY TailOf
<1>2. /\ n \in Nat /\ n > 0 /\ DOMAIN l = 1..n
      /\ DOMAIN k = 1..(n - 1) /\ ToSet(k) = {k[i] : i \in 1..(n - 1)}
  BY TailOf
<1> HIDE DEF k, n
<1>3. ASSUME NEW i \in 1..(n - 1)
      PROVE  i + 1 \in 1..n /\ k[i] = l[i + 1] /\ 1 < i + 1 /\ 1 \in 1..n
  BY <1>1, <1>2
<1>4. ASSUME NEW i \in 1..(n - 1), NEW j \in 1..(n - 1), i < j, ~IsAnswer(k[i]), ~IsAnswer(k[j])
      PROVE  k[i][2] < k[j][2]
  <2>1. i + 1 < j + 1
    BY <1>2, <1>4
  <2> QED BY <1>2, <1>3, <1>4, <2>1 DEF Rising
<1>5. Rising(k)
  BY <1>2, <1>4 DEF Rising
<1>6. ASSUME NEW x \in OneEvent(Head(l)), NEW y \in EventsIn(k) PROVE x < y
  <2>1. PICK i \in 1..(n - 1) : ~IsAnswer(k[i]) /\ y = k[i][2]
    BY <1>2, <1>6, EventsInSet
  <2>2. ~IsAnswer(l[1]) /\ x = l[1][2]
    BY <1>1, <1>6 DEF OneEvent
  <2> QED BY <1>2, <1>3, <2>1, <2>2 DEF Rising
<1>7. Below(OneEvent(Head(l)), EventsIn(k))
  BY <1>6 DEF Below
<1> QED BY <1>5, <1>7 DEF k
-----------------------------------------------------------------------------
(* What each operation does to the order of the events *)

LEMMA FirstBegins ==
  ASSUME NEW left PROVE OldestFirst(<<>>, <<>>, <<>>, left)
<1>1. \A S : Below(S, {}) /\ Below({}, S)
  BY DEF Below
<1> QED BY <1>1, NoEvents, UpwardsEmpty DEF OldestFirst

\* An event of the ring is newer than all before it.
LEMMA FirstEmits ==
  ASSUME NEW h, NEW q, NEW b, NEW r \in Seq(Nat), NEW e \in Nat, OldestFirst(h, q, b, r),
         Below(ToSet(h), {e}), Below(EventsIn(q), {e}), Below(ToSet(b), {e})
  PROVE  OldestFirst(h, q, b, Append(r, e))
<1>1. ToSet(Append(r, e)) = ToSet(r) \cup {e}
  BY ToSetAppend
<1>2. ASSUME NEW S, Below(S, ToSet(r)), Below(S, {e}) PROVE Below(S, ToSet(Append(r, e)))
  BY <1>1, <1>2 DEF Below
<1> QED BY <1>2 DEF OldestFirst

\* Others take from the ring.
LEMMA FirstLeft ==
  ASSUME NEW h, NEW q, NEW b, NEW r, NEW r2, OldestFirst(h, q, b, r), ToSet(r2) \subseteq ToSet(r)
  PROVE  OldestFirst(h, q, b, r2)
<1>1. ASSUME NEW S, Below(S, ToSet(r)) PROVE Below(S, ToSet(r2))
  BY <1>1 DEF Below
<1> QED BY <1>1 DEF OldestFirst

LEMMA FirstPolls ==
  ASSUME NEW h, NEW q, NEW r \in Seq(Nat), NEW n \in 0..Len(r), Upwards(r),
         OldestFirst(h, q, <<>>, r)
  PROVE  OldestFirst(h, q, Front(r, n), Back(r, n))
<1> DEFINE f == Front(r, n)
           b == Back(r, n)
<1>1. /\ Upwards(f) /\ Upwards(b) /\ Below(ToSet(f), ToSet(b))
      /\ ToSet(r) = ToSet(f) \cup ToSet(b)
  BY UpwardsCut
<1> HIDE DEF f, b
<1>2. ASSUME NEW S, Below(S, ToSet(r)) PROVE Below(S, ToSet(f)) /\ Below(S, ToSet(b))
  BY <1>1, <1>2 DEF Below
<1>3. OldestFirst(h, q, f, b)
  BY <1>1, <1>2 DEF OldestFirst
<1> QED BY <1>3 DEF f, b

LEMMA FirstAnswers ==
  ASSUME NEW h, NEW q \in Seq(Messages), NEW b, NEW r, NEW m \in Messages, IsAnswer(m),
         OldestFirst(h, q, b, r)
  PROVE  OldestFirst(h, Append(q, m), b, r) /\ EventsIn(Append(q, m)) = EventsIn(q)
<1>1. OneEvent(m) = {}
  BY DEF OneEvent
<1>2. EventsIn(Append(q, m)) = EventsIn(q)
  BY <1>1, EventsInAppend
<1>3. Rising(Append(q, m))
  <2>1. Below(EventsIn(q), OneEvent(m))
    BY <1>1 DEF Below
  <2> QED BY <2>1, RisingAppend DEF OldestFirst
<1> QED BY <1>2, <1>3 DEF OldestFirst

LEMMA FirstForwards ==
  ASSUME NEW h, NEW q \in Seq(Messages), NEW b \in Seq(Nat), NEW r, b # <<>>,
         OldestFirst(h, q, b, r)
  PROVE  /\ OldestFirst(h, Append(q, Telemetry(Head(b))), Tail(b), r)
         /\ EventsIn(Append(q, Telemetry(Head(b)))) \cup ToSet(Tail(b))
              = EventsIn(q) \cup ToSet(b)
<1> DEFINE k == Head(b)
           m == Telemetry(k)
           t == Tail(b)
<1>1. k \in Nat /\ t \in Seq(Nat)
  BY HeadTailProperties
<1>2. ToSet(b) = {k} \cup ToSet(t) /\ Upwards(t) /\ Below({k}, ToSet(t))
  BY ToSetHead, UpwardsTail DEF OldestFirst
<1> HIDE DEF k, t
<1>3. m \in Messages /\ OneEvent(m) = {k}
  BY <1>1, TelemetryTyped DEF OneEvent
<1> HIDE DEF m
<1>4. EventsIn(Append(q, m)) = EventsIn(q) \cup {k}
  BY <1>3, EventsInAppend
<1>5. Below(EventsIn(q), {k}) /\ Below(EventsIn(q), ToSet(t))
  BY <1>2 DEF OldestFirst, Below
<1>6. Rising(Append(q, m))
  BY <1>3, <1>5, RisingAppend DEF OldestFirst
<1>7. Below(ToSet(h), {k}) /\ Below(ToSet(h), ToSet(t)) /\ Below({k}, ToSet(r)) /\ Below(ToSet(t), ToSet(r))
  BY <1>2 DEF OldestFirst, Below
<1>8. OldestFirst(h, Append(q, m), t, r)
  <2>1. ASSUME NEW S, Below(S, EventsIn(q)), Below(S, {k})
        PROVE  Below(S, EventsIn(Append(q, m)))
    BY <1>4, <2>1 DEF Below
  <2>2. ASSUME NEW S, Below(EventsIn(q), S), Below({k}, S)
        PROVE  Below(EventsIn(Append(q, m)), S)
    BY <1>4, <2>2 DEF Below
  <2> QED BY <1>2, <1>5, <1>6, <1>7, <2>1, <2>2 DEF OldestFirst
<1>9. EventsIn(Append(q, m)) \cup ToSet(t) = EventsIn(q) \cup ToSet(b)
  BY <1>2, <1>4
<1> QED BY <1>8, <1>9 DEF k, m, t

\* What leaves the queue is older than what stays in it.
LEMMA FirstWrites ==
  ASSUME NEW h, NEW q \in Seq(Messages), NEW b, NEW r, q # <<>>, OldestFirst(h, q, b, r)
  PROVE  /\ OldestFirst(h, Tail(q), b, r)
         /\ EventsIn(q) = OneEvent(Head(q)) \cup EventsIn(Tail(q))
         /\ Below(OneEvent(Head(q)), EventsIn(Tail(q)))
<1>1. EventsIn(q) = OneEvent(Head(q)) \cup EventsIn(Tail(q))
  BY EventsInHead
<1>2. Rising(Tail(q)) /\ Below(OneEvent(Head(q)), EventsIn(Tail(q)))
  BY RisingTail DEF OldestFirst
<1>3. /\ Below(ToSet(h), EventsIn(Tail(q))) /\ Below(EventsIn(Tail(q)), ToSet(b))
      /\ Below(EventsIn(Tail(q)), ToSet(r))
  BY <1>1 DEF OldestFirst, Below
<1> QED BY <1>1, <1>2, <1>3 DEF OldestFirst

LEMMA FirstIsHeard ==
  ASSUME NEW h \in Seq(Nat), NEW q \in Seq(Messages), NEW b, NEW r, q # <<>>,
         OldestFirst(h, q, b, r), ~IsAnswer(Head(q))
  PROVE  /\ OldestFirst(Append(h, Head(q)[2]), Tail(q), b, r)
         /\ ToSet(Append(h, Head(q)[2])) \cup EventsIn(Tail(q)) = ToSet(h) \cup EventsIn(q)
<1> DEFINE k == Head(q)[2]
           t == Tail(q)
<1>0. k \in Nat
  BY HeadTailProperties DEF Messages
<1>1. /\ OldestFirst(h, t, b, r) /\ EventsIn(q) = {k} \cup EventsIn(t)
      /\ Below({k}, EventsIn(t))
  BY FirstWrites DEF OneEvent
<1> HIDE DEF k, t
<1>2. ToSet(Append(h, k)) = ToSet(h) \cup {k}
  BY <1>0, ToSetAppend
<1>3. Below(ToSet(h), {k}) /\ Below({k}, ToSet(b)) /\ Below({k}, ToSet(r))
  BY <1>1 DEF OldestFirst, Below
<1>4. Upwards(Append(h, k))
  BY <1>0, <1>3, UpwardsAppend DEF OldestFirst
<1>5. OldestFirst(Append(h, k), t, b, r)
  <2>1. ASSUME NEW S, Below(ToSet(h), S), Below({k}, S) PROVE Below(ToSet(Append(h, k)), S)
    BY <1>2, <2>1 DEF Below
  <2> QED BY <1>1, <1>3, <1>4, <2>1 DEF OldestFirst
<1>6. ToSet(Append(h, k)) \cup EventsIn(t) = ToSet(h) \cup EventsIn(q)
  BY <1>1, <1>2
<1> QED BY <1>5, <1>6 DEF k, t

LEMMA FirstFails ==
  ASSUME NEW h, NEW q, NEW b, NEW r, OldestFirst(h, q, b, r)
  PROVE  OldestFirst(h, <<>>, <<>>, r)
<1>1. \A S : Below(S, {}) /\ Below({}, S)
  BY DEF Below
<1> QED BY <1>1, NoEvents, UpwardsEmpty DEF OldestFirst
-----------------------------------------------------------------------------
(* What each operation does to the places of the events *)

LEMMA PartsBegin ==
  ASSUME NEW own, \A c \in Conns : own[c] = {} PROVE Parted(own, {}, {}, 0)
BY DEF Parted

LEMMA PartsGrow ==
  ASSUME NEW own, NEW left, NEW gone, NEW last \in Nat, Parted(own, left, gone, last)
  PROVE  /\ Parted(own, left \cup {last + 1}, gone, last + 1)
         /\ Parted(own, left, gone \cup {last + 1}, last + 1)
<1>1. 1..(last + 1) = (1..last) \cup {last + 1} /\ last + 1 \notin 1..last
  OBVIOUS
<1>2. /\ \A c \in Conns : own[c] \subseteq 1..(last + 1) /\ last + 1 \notin own[c]
      /\ left \subseteq 1..(last + 1) /\ last + 1 \notin left
      /\ gone \subseteq 1..(last + 1) /\ last + 1 \notin gone
  BY <1>1 DEF Parted
<1>3. Parted(own, left \cup {last + 1}, gone, last + 1)
  BY <1>1, <1>2 DEF Parted
<1>4. Parted(own, left, gone \cup {last + 1}, last + 1)
  BY <1>1, <1>2 DEF Parted
<1> QED BY <1>3, <1>4

\* A connection takes events from the ring.
LEMMA PartsTaken ==
  ASSUME NEW own, NEW left, NEW gone, NEW last, Parted(own, left, gone, last),
         NEW c \in Conns, NEW taken, NEW rest, left = taken \cup rest, taken \cap rest = {},
         NEW own2, own2[c] = own[c] \cup taken, \A d \in Conns \ {c} : own2[d] = own[d]
  PROVE  Parted(own2, rest, gone, last)
<1>1. \A d \in Conns : own2[d] = IF d = c THEN own[c] \cup taken ELSE own[d]
  OBVIOUS
<1>2. /\ \A d \in Conns : own2[d] \subseteq 1..last
      /\ rest \subseteq 1..last /\ gone \subseteq 1..last
  BY <1>1 DEF Parted
<1>3. \A k \in 1..last : k \in rest \/ k \in gone \/ \E d \in Conns : k \in own2[d]
  BY <1>1 DEF Parted
<1>4. ASSUME NEW d \in Conns, NEW e \in Conns, d # e PROVE own2[d] \cap own2[e] = {}
  BY <1>1, <1>4 DEF Parted
<1>5. ASSUME NEW d \in Conns PROVE own2[d] \cap rest = {} /\ own2[d] \cap gone = {}
  BY <1>1 DEF Parted
<1>6. rest \cap gone = {}
  BY DEF Parted
<1> QED BY <1>2, <1>3, <1>4, <1>5, <1>6 DEF Parted

\* A connection loses some of what it has taken.
LEMMA PartsLost ==
  ASSUME NEW own, NEW left, NEW gone, NEW last, Parted(own, left, gone, last),
         NEW c \in Conns, NEW kept, NEW away, own[c] = kept \cup away, kept \cap away = {},
         NEW own2, own2[c] = kept, \A d \in Conns \ {c} : own2[d] = own[d]
  PROVE  Parted(own2, left, gone \cup away, last)
<1>1. \A d \in Conns : own2[d] = IF d = c THEN kept ELSE own[d]
  OBVIOUS
<1>2. /\ \A d \in Conns : own2[d] \subseteq 1..last
      /\ left \subseteq 1..last /\ gone \cup away \subseteq 1..last
  BY <1>1 DEF Parted
<1>3. \A k \in 1..last : k \in left \/ k \in gone \cup away \/ \E d \in Conns : k \in own2[d]
  BY <1>1 DEF Parted
<1>4. ASSUME NEW d \in Conns, NEW e \in Conns, d # e PROVE own2[d] \cap own2[e] = {}
  BY <1>1, <1>4 DEF Parted
<1>5. ASSUME NEW d \in Conns PROVE own2[d] \cap left = {} /\ own2[d] \cap (gone \cup away) = {}
  BY <1>1 DEF Parted
<1>6. left \cap (gone \cup away) = {}
  BY DEF Parted
<1> QED BY <1>2, <1>3, <1>4, <1>5, <1>6 DEF Parted

LEMMA PartsStay ==
  ASSUME NEW own, NEW left, NEW gone, NEW last, Parted(own, left, gone, last),
         NEW own2, \A d \in Conns : own2[d] = own[d]
  PROVE  Parted(own2, left, gone, last)
BY DEF Parted
-----------------------------------------------------------------------------
(* Every step keeps every event in one place. *)

Own == [c \in Conns |-> Of(c)]

LEMMA OwnIs ==
  /\ \A c \in Conns : Own[c] = ToSet(heard[c]) \cup EventsIn(out[c]) \cup ToSet(batch[c])
  /\ \A c \in Conns : Own'[c] = ToSet(heard'[c]) \cup EventsIn(out'[c]) \cup ToSet(batch'[c])
BY DEF Own, Of

\* The parts of what a connection has are numbers and differ.
LEMMA OwnParts ==
  ASSUME TypeOK, TelemetryInv, NEW c \in Conns
  PROVE  /\ ToSet(heard[c]) \subseteq 1..emitted /\ ToSet(heard[c]) \subseteq Nat
         /\ EventsIn(out[c]) \subseteq 1..emitted /\ EventsIn(out[c]) \subseteq Nat
         /\ ToSet(batch[c]) \subseteq 1..emitted /\ ToSet(batch[c]) \subseteq Nat
         /\ ToSet(heard[c]) \cap EventsIn(out[c]) = {}
         /\ ToSet(heard[c]) \cap ToSet(batch[c]) = {}
         /\ EventsIn(out[c]) \cap ToSet(batch[c]) = {}
<1>1. Own[c] \subseteq 1..emitted
  BY DEF TelemetryInv, Parted, Own
<1>2. /\ ToSet(heard[c]) \subseteq 1..emitted /\ EventsIn(out[c]) \subseteq 1..emitted
      /\ ToSet(batch[c]) \subseteq 1..emitted
  BY <1>1, OwnIs
<1>3. 1..emitted \subseteq Nat
  BY DEF TypeOK
<1>4. /\ ToSet(heard[c]) \in SUBSET Nat /\ EventsIn(out[c]) \in SUBSET Nat
      /\ ToSet(batch[c]) \in SUBSET Nat
  BY <1>2, <1>3
<1>5. /\ Below(ToSet(heard[c]), EventsIn(out[c])) /\ Below(ToSet(heard[c]), ToSet(batch[c]))
      /\ Below(EventsIn(out[c]), ToSet(batch[c]))
  BY DEF TelemetryInv, OldestFirst
<1> QED BY <1>2, <1>4, <1>5, BelowDisjoint

LEMMA TelemetryBegins == Init => TelemetryInv
<1> SUFFICES ASSUME Init PROVE TelemetryInv
  OBVIOUS
<1>1. /\ ring = <<>> /\ emitted = 0 /\ lost = {}
      /\ \A c \in Conns : heard[c] = <<>> /\ out[c] = <<>> /\ batch[c] = <<>>
  BY DEF Init
<1>2. \A c \in Conns : OldestFirst(heard[c], out[c], batch[c], ring)
  BY <1>1, FirstBegins
<1>3. \A c \in Conns : Own[c] = {}
  BY <1>1, OwnIs, NoEvents
<1>4. Parted(Own, ToSet(ring), lost, emitted)
  BY <1>1, <1>3, PartsBegin, NoEvents
<1> QED BY <1>1, <1>2, <1>4, UpwardsEmpty DEF TelemetryInv, Own

\* Nothing about telemetry changes.
LEMMA TelemetryStays ==
  ASSUME TelemetryInv, UNCHANGED <<heard, out, batch, ring, lost, emitted>>
  PROVE  TelemetryInv'
BY DEF TelemetryInv, Of

LEMMA EmitKeeps ==
  ASSUME TypeOK, TelemetryInv, Emit PROVE TelemetryInv'
<1>1. /\ emitted' = emitted + 1 /\ emitted \in Nat /\ ring \in Seq(Nat) /\ emitted + 1 \in Nat
      /\ heard' = heard /\ out' = out /\ batch' = batch
  BY DEF Emit, TypeOK
<1>2. \A c \in Conns : Own'[c] = Own[c]
  BY <1>1, OwnIs
<1>3. /\ Upwards(ring) /\ Parted(Own, ToSet(ring), lost, emitted)
      /\ \A c \in Conns : OldestFirst(heard[c], out[c], batch[c], ring)
  BY DEF TelemetryInv, Own
<1>4. ASSUME NEW S, S \subseteq 1..emitted PROVE Below(S, {emitted + 1})
  BY <1>1, <1>4 DEF Below
<1>5. CASE ring' = Append(ring, emitted + 1) /\ lost' = lost
  <2>1. ToSet(ring') = ToSet(ring) \cup {emitted + 1}
    BY <1>1, <1>5, ToSetAppend
  <2>2. ToSet(ring) \subseteq 1..emitted
    BY <1>3 DEF Parted
  <2>3. Upwards(ring')
    BY <1>1, <1>3, <1>4, <1>5, <2>2, UpwardsAppend
  <2>4. ASSUME NEW c \in Conns PROVE OldestFirst(heard'[c], out'[c], batch'[c], ring')
    <3>1. /\ Below(ToSet(heard[c]), {emitted + 1}) /\ Below(EventsIn(out[c]), {emitted + 1})
          /\ Below(ToSet(batch[c]), {emitted + 1})
      BY <1>4, OwnParts
    <3>2. OldestFirst(heard[c], out[c], batch[c], Append(ring, emitted + 1))
      BY <1>1, <1>3, <3>1, FirstEmits
    <3> QED BY <1>1, <1>5, <3>2
  <2>5. Parted(Own, ToSet(ring'), lost', emitted')
    <3>1. Parted(Own, ToSet(ring) \cup {emitted + 1}, lost, emitted + 1)
      BY <1>1, <1>3, PartsGrow
    <3> HIDE DEF Own
    <3> QED BY <1>1, <1>5, <2>1, <3>1
  <2>6. Parted(Own', ToSet(ring'), lost', emitted')
    BY <1>2, <2>5, PartsStay
  <2> QED BY <2>3, <2>4, <2>6 DEF TelemetryInv, Own
<1>6. CASE ring' = ring /\ lost' = lost \cup {emitted + 1}
  <2>1. Parted(Own, ToSet(ring'), lost', emitted')
    BY <1>1, <1>3, <1>6, PartsGrow
  <2>2. Parted(Own', ToSet(ring'), lost', emitted')
    BY <1>2, <2>1, PartsStay
  <2>3. \A c \in Conns : OldestFirst(heard'[c], out'[c], batch'[c], ring')
    BY <1>1, <1>3, <1>6
  <2> QED BY <1>3, <1>6, <2>2, <2>3 DEF TelemetryInv, Own
<1> QED BY <1>1, <1>5, <1>6 DEF Emit

LEMMA PollKeeps ==
  ASSUME TypeOK, TelemetryInv, NEW c \in Conns, Poll(c) PROVE TelemetryInv'
<1> DEFINE n == IF Len(ring) < BatchSize THEN Len(ring) ELSE BatchSize
           f == Front(ring, n)
           b == Back(ring, n)
<1>1. ring \in Seq(Nat) /\ n \in 0..Len(ring)
  BY LenProperties, ConnectionsAssumption DEF TypeOK
<1>2. /\ batch[c] = <<>> /\ batch' = [batch EXCEPT ![c] = f] /\ ring' = b
      /\ heard' = heard /\ out' = out /\ lost' = lost /\ emitted' = emitted
  BY DEF Poll, AfterBatch, Front, Back
<1> HIDE DEF n
<1>3. /\ Upwards(ring) /\ Parted(Own, ToSet(ring), lost, emitted)
      /\ \A d \in Conns : OldestFirst(heard[d], out[d], batch[d], ring)
  BY DEF TelemetryInv, Own
<1>4. /\ Upwards(b) /\ Below(ToSet(f), ToSet(b)) /\ ToSet(ring) = ToSet(f) \cup ToSet(b)
  BY <1>1, <1>3, UpwardsCut
<1>5. OldestFirst(heard[c], out[c], f, b)
  BY <1>1, <1>2, <1>3, FirstPolls
<1> HIDE DEF f, b
<1>6. batch'[c] = f /\ \A d \in Conns \ {c} : batch'[d] = batch[d]
  BY <1>2 DEF TypeOK
<1>7. \A d \in Conns : OldestFirst(heard'[d], out'[d], batch'[d], ring')
  <2>1. ASSUME NEW d \in Conns, d # c PROVE OldestFirst(heard[d], out[d], batch[d], b)
    BY <1>3, <1>4, FirstLeft
  <2> QED BY <1>2, <1>5, <1>6, <2>1
<1>8. ToSet(f) \cap ToSet(b) = {}
  <2>1. ToSet(ring) \subseteq Nat
    BY <1>1, ToSetTyped
  <2>2. ToSet(f) \in SUBSET Nat /\ ToSet(b) \in SUBSET Nat
    BY <1>4, <2>1
  <2> QED BY <1>4, <2>2, BelowDisjoint
<1>9. Own'[c] = Own[c] \cup ToSet(f) /\ \A d \in Conns \ {c} : Own'[d] = Own[d]
  <2>1. Own'[c] = ToSet(heard[c]) \cup EventsIn(out[c]) \cup ToSet(f)
    BY <1>2, <1>6, OwnIs
  <2>2. Own[c] = ToSet(heard[c]) \cup EventsIn(out[c])
    BY <1>2, OwnIs, NoEvents
  <2>3. \A d \in Conns \ {c} : Own'[d] = Own[d]
    BY <1>2, <1>6, OwnIs
  <2> QED BY <2>1, <2>2, <2>3
<1>10. Parted(Own', ToSet(b), lost, emitted)
  BY <1>3, <1>4, <1>8, <1>9, PartsTaken
<1> QED BY <1>2, <1>4, <1>7, <1>10 DEF TelemetryInv, Own

\* A connection moves or loses what it has, and the ring stays.
LEMMA OneMoves ==
  ASSUME TypeOK, TelemetryInv, NEW c \in Conns, ring' = ring, emitted' = emitted,
         \A d \in Conns \ {c} : heard'[d] = heard[d] /\ out'[d] = out[d] /\ batch'[d] = batch[d],
         OldestFirst(heard'[c], out'[c], batch'[c], ring),
         NEW away, lost' = lost \cup away,
         Own[c] = Own'[c] \cup away, Own'[c] \cap away = {}
  PROVE  TelemetryInv'
<1>1. /\ Upwards(ring) /\ Parted(Own, ToSet(ring), lost, emitted)
      /\ \A d \in Conns : OldestFirst(heard[d], out[d], batch[d], ring)
  BY DEF TelemetryInv, Own
<1>2. \A d \in Conns \ {c} : Own'[d] = Own[d]
  BY OwnIs
<1>3. Parted(Own', ToSet(ring), lost \cup away, emitted)
  BY <1>1, <1>2, PartsLost
<1>4. \A d \in Conns : OldestFirst(heard'[d], out'[d], batch'[d], ring')
  BY <1>1
<1> QED BY <1>1, <1>3, <1>4 DEF TelemetryInv, Own

LEMMA OneStays ==
  ASSUME TypeOK, TelemetryInv, NEW c \in Conns, ring' = ring, emitted' = emitted, lost' = lost,
         \A d \in Conns \ {c} : heard'[d] = heard[d] /\ out'[d] = out[d] /\ batch'[d] = batch[d],
         OldestFirst(heard'[c], out'[c], batch'[c], ring), Own'[c] = Own[c]
  PROVE  TelemetryInv'
<1>1. lost' = lost \cup {} /\ Own[c] = Own'[c] \cup {} /\ Own'[c] \cap {} = {}
  OBVIOUS
<1> QED BY <1>1, OneMoves

LEMMA QueueKeeps ==
  ASSUME TypeOK, TelemetryInv, NEW c \in Conns, Answer(c) \/ Forward(c)
  PROVE  TelemetryInv'
<1>0. OldestFirst(heard[c], out[c], batch[c], ring)
  BY DEF TelemetryInv
<1>1. CASE Answer(c)
  <2>1. /\ out' = [out EXCEPT ![c] = Append(@, Head(todo[c]))] /\ todo[c] # <<>>
        /\ heard' = heard /\ batch' = batch /\ ring' = ring /\ lost' = lost /\ emitted' = emitted
    BY <1>1 DEF Answer, Queue
  <2>2. PICK m \in Messages : m = Head(todo[c]) /\ IsAnswer(m)
    <3>1. Head(todo[c]) \in Replies
      BY <2>1, HeadTailProperties DEF TypeOK
    <3> QED BY <3>1 DEF Replies, Messages, IsAnswer
  <2>3. out'[c] = Append(out[c], m) /\ \A d \in Conns \ {c} : out'[d] = out[d]
    BY <2>1, <2>2 DEF TypeOK
  <2>4. OldestFirst(heard[c], out'[c], batch[c], ring) /\ EventsIn(out'[c]) = EventsIn(out[c])
    <3>1. out[c] \in Seq(Messages)
      BY DEF TypeOK
    <3> QED BY <1>0, <2>2, <2>3, <3>1, FirstAnswers
  <2>5. Own'[c] = Own[c]
    BY <2>1, <2>4, OwnIs
  <2>6. /\ heard'[c] = heard[c] /\ batch'[c] = batch[c]
        /\ \A d \in Conns \ {c} : heard'[d] = heard[d] /\ out'[d] = out[d] /\ batch'[d] = batch[d]
    BY <2>1, <2>3
  <2>7. OldestFirst(heard'[c], out'[c], batch'[c], ring)
    BY <2>4, <2>6
  <2> QED BY <2>1, <2>5, <2>6, <2>7, OneStays
<1>2. CASE Forward(c)
  <2>1. /\ out' = [out EXCEPT ![c] = Append(@, Telemetry(Head(batch[c])))]
        /\ batch' = [batch EXCEPT ![c] = Tail(@)] /\ batch[c] # <<>>
        /\ heard' = heard /\ ring' = ring /\ lost' = lost /\ emitted' = emitted
    BY <1>2 DEF Forward, Queue
  <2>2. /\ out'[c] = Append(out[c], Telemetry(Head(batch[c]))) /\ batch'[c] = Tail(batch[c])
        /\ \A d \in Conns \ {c} : out'[d] = out[d] /\ batch'[d] = batch[d]
    BY <2>1 DEF TypeOK
  <2>3. /\ OldestFirst(heard[c], out'[c], batch'[c], ring)
        /\ EventsIn(out'[c]) \cup ToSet(batch'[c]) = EventsIn(out[c]) \cup ToSet(batch[c])
    BY <1>0, <2>1, <2>2, FirstForwards DEF TypeOK
  <2>4. Own'[c] = Own[c]
    BY <2>1, <2>3, OwnIs
  <2>5. /\ heard'[c] = heard[c]
        /\ \A d \in Conns \ {c} : heard'[d] = heard[d] /\ out'[d] = out[d] /\ batch'[d] = batch[d]
    BY <2>1, <2>2
  <2>6. OldestFirst(heard'[c], out'[c], batch'[c], ring)
    BY <2>3, <2>5
  <2> QED BY <2>1, <2>4, <2>5, <2>6, OneStays
<1> QED BY <1>1, <1>2

LEMMA WriteKeeps ==
  ASSUME TypeOK, TelemetryInv, NEW c \in Conns, Write(c)
  PROVE  TelemetryInv'
<1>0. OldestFirst(heard[c], out[c], batch[c], ring)
  BY DEF TelemetryInv
<1>1. /\ out[c] # <<>> /\ out' = [out EXCEPT ![c] = Tail(@)]
      /\ batch' = batch /\ ring' = ring /\ lost' = lost /\ emitted' = emitted
  BY DEF Write
<1>2. out'[c] = Tail(out[c]) /\ \A d \in Conns \ {c} : out'[d] = out[d]
  BY <1>1 DEF TypeOK
<1>3. CASE IsAnswer(Head(out[c]))
  <2>1. heard' = heard
    BY <1>3 DEF Write
  <2>2. OldestFirst(heard[c], out'[c], batch[c], ring)
    BY <1>0, <1>1, <1>2, FirstWrites DEF TypeOK
  <2>3. EventsIn(out[c]) = OneEvent(Head(out[c])) \cup EventsIn(out'[c])
    BY <1>1, <1>2, EventsInHead DEF TypeOK
  <2>4. OneEvent(Head(out[c])) = {}
    BY <1>3 DEF OneEvent
  <2>5. Own'[c] = Own[c]
    BY <1>1, <2>1, <2>3, <2>4, OwnIs
  <2>6. /\ heard'[c] = heard[c] /\ batch'[c] = batch[c]
        /\ \A d \in Conns \ {c} : heard'[d] = heard[d] /\ out'[d] = out[d] /\ batch'[d] = batch[d]
    BY <1>1, <1>2, <2>1
  <2>7. OldestFirst(heard'[c], out'[c], batch'[c], ring)
    BY <2>2, <2>6
  <2> QED BY <1>1, <2>5, <2>6, <2>7, OneStays
<1>4. CASE ~IsAnswer(Head(out[c]))
  <2>1. heard' = [heard EXCEPT ![c] = Append(@, Head(out[c])[2])]
    BY <1>4 DEF Write
  <2>2. /\ heard'[c] = Append(heard[c], Head(out[c])[2])
        /\ \A d \in Conns \ {c} : heard'[d] = heard[d]
    BY <2>1 DEF TypeOK
  <2>3. /\ OldestFirst(heard'[c], out'[c], batch[c], ring)
        /\ ToSet(heard'[c]) \cup EventsIn(out'[c]) = ToSet(heard[c]) \cup EventsIn(out[c])
    BY <1>0, <1>1, <1>2, <1>4, <2>2, FirstIsHeard DEF TypeOK
  <2>4. Own'[c] = Own[c]
    BY <1>1, <2>3, OwnIs
  <2>5. /\ batch'[c] = batch[c]
        /\ \A d \in Conns \ {c} : heard'[d] = heard[d] /\ out'[d] = out[d] /\ batch'[d] = batch[d]
    BY <1>1, <1>2, <2>2
  <2>6. OldestFirst(heard'[c], out'[c], batch'[c], ring)
    BY <2>3, <2>5
  <2> QED BY <1>1, <2>4, <2>5, <2>6, OneStays
<1> QED BY <1>3, <1>4

LEMMA NobodyKeeps ==
  ASSUME TypeOK, TelemetryInv, NEW c \in Conns, WriteToNobody(c) \/ WriteFails(c)
  PROVE  TelemetryInv'
<1>0. OldestFirst(heard[c], out[c], batch[c], ring)
  BY DEF TelemetryInv
<1>1. CASE WriteToNobody(c)
  <2> DEFINE away == OneEvent(Head(out[c]))
  <2>1. /\ out[c] # <<>> /\ out' = [out EXCEPT ![c] = Tail(@)]
        /\ lost' = lost \cup away
        /\ heard' = heard /\ batch' = batch /\ ring' = ring /\ emitted' = emitted
    BY <1>1, EventsInOne DEF WriteToNobody
  <2>2. out'[c] = Tail(out[c]) /\ \A d \in Conns \ {c} : out'[d] = out[d]
    BY <2>1 DEF TypeOK
  <2>3. /\ OldestFirst(heard[c], out'[c], batch[c], ring)
        /\ EventsIn(out[c]) = away \cup EventsIn(out'[c])
        /\ Below(away, EventsIn(out'[c]))
    BY <1>0, <2>1, <2>2, FirstWrites DEF TypeOK
  <2> HIDE DEF away
  <2>4. away \cap EventsIn(out'[c]) = {}
    <3>1. away \in SUBSET Nat /\ EventsIn(out'[c]) \in SUBSET Nat
      BY <2>3, OwnParts
    <3> QED BY <2>3, <3>1, BelowDisjoint
  <2>5. Own[c] = Own'[c] \cup away /\ Own'[c] \cap away = {}
    BY <2>1, <2>3, <2>4, OwnIs, OwnParts
  <2> QED BY <2>1, <2>2, <2>3, <2>5, OneMoves
<1>2. CASE WriteFails(c)
  <2> DEFINE away == EventsIn(out[c]) \cup ToSet(batch[c])
  <2>1. /\ out' = [out EXCEPT ![c] = <<>>] /\ batch' = [batch EXCEPT ![c] = <<>>]
        /\ lost' = lost \cup away
        /\ heard' = heard /\ ring' = ring /\ emitted' = emitted
    BY <1>2 DEF WriteFails
  <2>2. /\ out'[c] = <<>> /\ batch'[c] = <<>>
        /\ \A d \in Conns \ {c} : out'[d] = out[d] /\ batch'[d] = batch[d]
    BY <2>1 DEF TypeOK
  <2>3. OldestFirst(heard[c], out'[c], batch'[c], ring)
    BY <1>0, <2>2, FirstFails
  <2>4. Own'[c] = ToSet(heard[c]) /\ Own[c] = ToSet(heard[c]) \cup away
    BY <2>1, <2>2, OwnIs, NoEvents
  <2>5. ToSet(heard[c]) \cap away = {}
    BY OwnParts
  <2> HIDE DEF away
  <2> QED BY <2>1, <2>2, <2>3, <2>4, <2>5, OneMoves
<1> QED BY <1>1, <1>2

LEMMA TelemetryKept == TypeOK /\ TelemetryInv /\ [Next]_vars => TelemetryInv'
<1> SUFFICES ASSUME TypeOK, TelemetryInv, [Next]_vars PROVE TelemetryInv'
  OBVIOUS
<1>1. ASSUME NEW c \in Conns,
             \/ Accept(c) \/ ClientLeaves(c) \/ \E kind \in Kinds : ClientSends(c, kind)
             \/ Handle(c) \/ ReaderEnds(c)
      PROVE  TelemetryInv'
  BY <1>1, TelemetryStays DEF Accept, ClientLeaves, ClientSends, Handle, ReaderEnds
<1>2. CASE UNCHANGED vars
  BY <1>2, TelemetryStays DEF vars
<1> QED BY <1>1, <1>2, EmitKeeps, PollKeeps, QueueKeeps, WriteKeeps, NobodyKeeps DEF Next, Reader
-----------------------------------------------------------------------------
LEMMA InvHolds == Spec => []Inv
<1>1. Init => Inv
  <2>1. Init => RequestsInv
    BY OrderBegins DEF Init, RequestsInv, Accepted, Untouched
  <2> QED BY <2>1, TypesBegin, TelemetryBegins DEF Inv
<1>2. Inv /\ [Next]_vars => Inv'
  BY TypesKept, RequestsKept, TelemetryKept DEF Inv
<1> QED BY <1>1, <1>2, PTL DEF Spec

\* What a connection keeps is well typed: its queue holds messages, its reader
\* answers, and the ring and the batches events (ws_server.rs handle_connection).
THEOREM ConnectionTypes == Spec => []TypeOK
<1>1. Inv => TypeOK
  BY DEF Inv
<1> QED BY <1>1, InvHolds, PTL

\* However many clients there are, however full their queues and however much
\* telemetry goes through them, the answers to the requests that were taken are
\* with the client or on their way to it, each once and in their order
\* (ws_server.rs handle_connection).
THEOREM AnswersOrdered == Spec => []AnswersInOrder
<1>1. Inv => AnswersInOrder
  BY DEF Inv, RequestsInv, InOrder, AnswersInOrder
<1> QED BY <1>1, InvHolds, PTL

\* Whichever connections take them, a telemetry event is in the ring, with one
\* connection or lost, and no client gets two in the wrong order
\* (ws_server.rs handle_connection, audio.rs try_recv_batch).
THEOREM TelemetryPlaced == Spec => []TelemetryReachesOne
<1>1. Inv => TelemetryReachesOne
  <2> SUFFICES ASSUME Inv PROVE TelemetryReachesOne
    OBVIOUS
  <2> DEFINE Way == {x \in Conns \X (1..3) : At(x) # {}}
  <2>1. TypeOK /\ TelemetryInv
    BY DEF Inv
  <2>2. Parted(Own, ToSet(ring), lost, emitted)
    BY <2>1 DEF TelemetryInv, Own
  <2>3. ASSUME NEW x \in Conns \X (1..3)
        PROVE  /\ x[1] \in Conns
               /\ \/ x[2] = 1 /\ At(x) = ToSet(heard[x[1]])
                  \/ x[2] = 2 /\ At(x) = EventsIn(out[x[1]])
                  \/ x[2] = 3 /\ At(x) = ToSet(batch[x[1]])
    <3>1. x[1] \in Conns /\ (x[2] = 1 \/ x[2] = 2 \/ x[2] = 3)
      OBVIOUS
    <3> QED BY <3>1 DEF At, Places
  <2>4. ASSUME NEW x \in Conns \X (1..3) PROVE At(x) \subseteq Own[x[1]]
    BY <2>3, OwnIs
  <2>5. ASSUME NEW k PROVE (\E x \in Way : k \in At(x)) <=> (\E c \in Conns : k \in Own[c])
    <3>1. ASSUME NEW x \in Way, k \in At(x) PROVE \E c \in Conns : k \in Own[c]
      BY <2>3, <2>4, <3>1
    <3>2. ASSUME NEW c \in Conns, k \in Own[c] PROVE \E x \in Way : k \in At(x)
      <4>1. \/ k \in ToSet(heard[c]) \/ k \in EventsIn(out[c]) \/ k \in ToSet(batch[c])
        BY <3>2, OwnIs
      <4>2. /\ <<c, 1>> \in Conns \X (1..3) /\ At(<<c, 1>>) = ToSet(heard[c])
            /\ <<c, 2>> \in Conns \X (1..3) /\ At(<<c, 2>>) = EventsIn(out[c])
            /\ <<c, 3>> \in Conns \X (1..3) /\ At(<<c, 3>>) = ToSet(batch[c])
        BY DEF At, Places
      <4>3. PICK x \in Conns \X (1..3) : k \in At(x)
        BY <4>1, <4>2
      <4> QED BY <4>3
    <3> QED BY <3>1, <3>2
  <2>6. (UNION {At(x) : x \in Way}) \cup ToSet(ring) \cup lost = 1..emitted
    <3> DEFINE onWay == UNION {At(x) : x \in Way}
    <3>1. ASSUME NEW k
          PROVE  k \in onWay <=> \E c \in Conns : k \in Own[c]
      <4>1. k \in onWay <=> \E x \in Way : k \in At(x)
        OBVIOUS
      <4> QED BY <2>5, <4>1
    <3> HIDE DEF Way, onWay
    <3>2. ASSUME NEW k
          PROVE  k \in 1..emitted
                   <=> (\E c \in Conns : k \in Own[c]) \/ k \in ToSet(ring) \/ k \in lost
      BY <2>2 DEF Parted
    <3>3. ASSUME NEW k
          PROVE  k \in onWay \cup ToSet(ring) \cup lost <=> k \in 1..emitted
      BY <3>1, <3>2
    <3>4. onWay \cup ToSet(ring) \cup lost = 1..emitted
      BY <3>3
    <3> QED BY <3>4 DEF onWay
  <2>7. ASSUME NEW x \in Way, NEW y \in Way, x # y PROVE At(x) \cap At(y) = {}
    <3>1. CASE x[1] = y[1]
      <4>1. x[2] # y[2]
        BY <2>7, <3>1
      <4>2. x[1] \in Conns
        BY <2>3
      <4> QED BY <2>1, <2>3, <3>1, <4>1, <4>2, OwnParts
    <3>2. CASE x[1] # y[1]
      <4>1. Own[x[1]] \cap Own[y[1]] = {}
        BY <2>2, <2>3, <3>2 DEF Parted
      <4>2. At(x) \subseteq Own[x[1]] /\ At(y) \subseteq Own[y[1]]
        BY <2>4
      <4> QED BY <4>1, <4>2
    <3> QED BY <3>1, <3>2
  <2>8. ASSUME NEW x \in Way PROVE At(x) \cap (ToSet(ring) \cup lost) = {}
    <3>1. Own[x[1]] \cap ToSet(ring) = {} /\ Own[x[1]] \cap lost = {}
      BY <2>2, <2>3 DEF Parted
    <3>2. At(x) \subseteq Own[x[1]]
      BY <2>4
    <3> QED BY <3>1, <3>2
  <2>9. ToSet(ring) \cap lost = {} /\ \A c \in Conns : Upwards(heard[c])
    BY <2>1, <2>2 DEF Parted, TelemetryInv, OldestFirst
  <2> QED BY <2>6, <2>7, <2>8, <2>9 DEF TelemetryReachesOne
<1> QED BY <1>1, InvHolds, PTL
=============================================================================
