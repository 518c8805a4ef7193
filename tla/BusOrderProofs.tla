--------------------------- MODULE BusOrderProofs ---------------------------
(***************************************************************************)
(* Proofs about the bus order, for routings of any number of buses.        *)
(***************************************************************************)
EXTENDS BusOrder, FiniteSetTheorems, SequenceTheorems, TLAPS

LEMMA UpToFinite ==
  ASSUME NEW m \in Nat
  PROVE  IsFiniteSet(1..m) /\ Cardinality(1..m) = m
BY FS_Interval

LEMMA FunctionIsSeq ==
  ASSUME NEW m \in Nat, NEW S, NEW f \in [1..m -> S]
  PROVE  f \in Seq(S) /\ Len(f) = m
<1>1. f \in Seq(S)
  BY SeqDef
<1> QED BY <1>1, LenProperties

LEMMA PopProperties ==
  ASSUME NEW S, NEW q \in Seq(S), q # <<>>
  PROVE  LET front == SubSeq(q, 1, Len(q) - 1) IN
         /\ Len(q) \in Nat \ {0} /\ q[Len(q)] \in S
         /\ front \in Seq(S) /\ Len(front) = Len(q) - 1
         /\ \A p \in 1..(Len(q) - 1) : front[p] = q[p]
<1>1. Len(q) \in Nat \ {0}
  BY EmptySeq, LenProperties
<1>2. q[Len(q)] \in S
  BY <1>1, ElementOfSeq
<1>3. \A p \in 1..Len(q) : q[p] \in S
  BY ElementOfSeq
<1> DEFINE front == SubSeq(q, 1, Len(q) - 1)
<1>4. /\ front \in Seq(S) /\ Len(front) = Len(q) - 1
      /\ \A p \in 1..(Len(q) - 1) : front[p] = q[p]
  BY <1>1, <1>3, SubSeqProperties
<1> QED BY <1>1, <1>2, <1>4

LEMMA PushProperties ==
  ASSUME NEW S, NEW q \in Seq(S), NEW x \in S
  PROVE  /\ Append(q, x) \in Seq(S) /\ Len(q) \in Nat
         /\ Len(Append(q, x)) = Len(q) + 1
         /\ \A p \in 1..Len(q) : Append(q, x)[p] = q[p]
         /\ Append(q, x)[Len(q) + 1] = x
BY AppendProperties, LenProperties

(* The edges of a routing                                                  *)

LEMMA EdgeParts ==
  ASSUME NEW e \in Edges
  PROVE  /\ e[1] \in 1..N /\ e[2] \in SendsOf(e[1]) /\ e[3] \in 1..N
         /\ e = <<e[1], e[2], e[3]>>
         /\ Receives(e[1], e[2], e[3])
BY DEF Edges

\* One bus receives a send: the last of those with its id.
LEMMA OneReceiver ==
  ASSUME buses \in Seq(Bus), NEW i, NEW k, NEW j \in 1..N, NEW l \in 1..N,
         Receives(i, k, j), Receives(i, k, l)
  PROVE  j = l
<1>1. N \in Nat
  BY LenProperties DEF N
<1>2. ~(j < l)
  BY <1>1 DEF Receives
<1>3. ~(l < j)
  BY <1>1 DEF Receives
<1> QED BY <1>1, <1>2, <1>3

LEMMA SendsType ==
  ASSUME buses \in Seq(Bus), NEW i \in 1..N
  PROVE  Len(buses[i].sends) \in Nat
<1>1. buses[i] \in Bus
  BY ElementOfSeq DEF N
<1>2. buses[i].sends \in Seq(Ids)
  BY <1>1 DEF Bus
<1> QED BY <1>2, LenProperties

LEMMA EdgesFinite ==
  ASSUME buses \in Seq(Bus)
  PROVE  IsFiniteSet(Edges)
<1> DEFINE From(i) == {i} \X SendsOf(i) \X (1..N)
           f == [i \in 1..N |-> From(i)]
           S == {From(i) : i \in 1..N}
<1>1. N \in Nat /\ IsFiniteSet(1..N)
  BY LenProperties, FS_Interval DEF N
<1>2. ASSUME NEW i \in 1..N PROVE IsFiniteSet(From(i))
  <2>1. Len(buses[i].sends) \in Nat
    BY <1>2, SendsType
  <2>2. IsFiniteSet(SendsOf(i))
    BY <2>1, UpToFinite DEF SendsOf
  <2> DEFINE D == SendsOf(i) \X (1..N)
             g == [x \in D |-> <<i, x[1], x[2]>>]
  <2>3. IsFiniteSet(D)
    BY <1>1, <2>2, FS_Product
  <2>4. g \in Surjection(D, From(i))
    <3>1. ASSUME NEW y \in From(i) PROVE \E x \in D : g[x] = y
      <4>1. <<y[2], y[3]>> \in D /\ y = <<i, y[2], y[3]>>
        OBVIOUS
      <4> QED BY <4>1
    <3>2. g \in [D -> From(i)]
      OBVIOUS
    <3> QED BY <3>1, <3>2 DEF Surjection
  <2> QED BY <2>3, <2>4, FS_Surjection
<1>3. IsFiniteSet(S)
  <2>1. f \in Surjection(1..N, S)
    BY DEF Surjection
  <2> QED BY <1>1, <2>1, FS_Surjection
<1>4. IsFiniteSet(UNION S)
  BY <1>2, <1>3, FS_UNION
<1>5. Edges \subseteq UNION S
  BY DEF Edges
<1> QED BY <1>4, <1>5, FS_Subset

(* Kahn's algorithm                                                        *)

\* Each counter is the number of sends into the bus that are not walked yet,
\* the stack holds buses without any, and a bus without any is on the stack
\* or placed.
Counting ==
  /\ \A j \in 1..N : inDegree[j] = Cardinality(Into(j, Pending))
  /\ \A j \in 1..N : j \in Placed => inDegree[j] = 0
  /\ current # 0 => current \in Placed

Stack ==
  /\ \A p, q \in 1..Len(queue) : queue[p] = queue[q] => p = q
  /\ \A p \in 1..Len(queue) : inDegree[queue[p]] = 0 /\ queue[p] \notin Placed
  /\ \A j \in 1..N :
       inDegree[j] = 0 => j \in Placed \/ \E p \in 1..Len(queue) : queue[p] = j

\* No bus of a circle is ever placed.
IsCircle(S) == \A b \in S : \E a \in S : <<a, b>> \in Routes

CirclesWait == \A S \in SUBSET (1..N) : IsCircle(S) => S \cap Placed = {}

Sorting == Counting /\ Stack /\ SourcesFirst /\ CirclesWait

\* What holds once the sort is over
Sorted ==
  phase # "sort" =>
    /\ ~Walking
    /\ queue = <<>>
    /\ phase = "err" <=> Len(order) # N

LEMMA NoPendingIntoZero ==
  ASSUME TypeOK, Counting, NEW j \in 1..N
  PROVE  /\ IsFiniteSet(Into(j, Pending))
         /\ inDegree[j] = 0 <=> \A e \in Pending : e[3] # j
<1>1. IsFiniteSet(Into(j, Pending))
  BY EdgesFinite, FS_Subset DEF TypeOK, Into, Pending
<1>2. inDegree[j] = 0 <=> Into(j, Pending) = {}
  BY <1>1, FS_EmptySet DEF Counting
<1> QED BY <1>1, <1>2 DEF Into

\* Between two walks the pending sends are those of buses not placed.
LEMMA PendingBetween ==
  ASSUME TypeOK, ~Walking
  PROVE  Pending = {e \in Edges : e[1] \notin Placed}
<1>1. ASSUME NEW e \in Edges, e[1] = current, e[2] >= next PROVE FALSE
  <2>1. e[1] \in 1..N /\ e[2] \in SendsOf(e[1])
    BY EdgeParts
  <2>2. current # 0 /\ Len(buses[current].sends) \in Nat /\ next \in Nat \ {0}
    BY <1>1, <2>1, SendsType DEF TypeOK
  <2> QED BY <1>1, <2>1, <2>2 DEF Walking, SendsOf
<1> QED BY <1>1 DEF Pending

LEMMA InitSorting ==
  ASSUME RoutingsAssumption, Init
  PROVE  TypeOK /\ Sorting
<1>1. buses \in Seq(Bus)
  BY DEF Init, RoutingsAssumption, Bus
<1>2. N \in Nat
  BY <1>1, LenProperties DEF N
<1>3. ASSUME NEW j \in 1..N PROVE DegreeOf(j) \in Nat
  <2>1. IsFiniteSet(Into(j, Edges))
    BY <1>1, EdgesFinite, FS_Subset DEF Into
  <2> QED BY <2>1, FS_CardinalityType DEF DegreeOf
<1>4. Sources \subseteq 1..N
  BY DEF Sources
<1>5. IsFiniteSet(Sources) /\ Cardinality(Sources) \in Nat
  BY <1>2, <1>4, UpToFinite, FS_Subset, FS_CardinalityType
<1>6. queue \in Seq(1..N) /\ Len(queue) = Cardinality(Sources)
  <2> DEFINE k == Cardinality(Sources)
  <2>1. k \in Nat
    BY <1>5
  <2>2. queue \in [1..k -> 1..N]
    BY <1>4 DEF Init
  <2> HIDE DEF k
  <2>3. queue \in Seq(1..N) /\ Len(queue) = k
    BY <2>1, <2>2, FunctionIsSeq
  <2> QED BY <2>3 DEF k
<1>7. TypeOK
  BY <1>1, <1>2, <1>3, <1>6 DEF Init, TypeOK
<1>8. Placed = {} /\ Pending = Edges
  BY DEF Init, Placed, Pending
<1>9. Counting
  BY <1>7, <1>8 DEF Counting, DegreeOf, Init, TypeOK
<1>10. Stack
  <2>1. DOMAIN queue = 1..Len(queue)
    BY <1>6, LenProperties
  <2>2. \A p \in 1..Len(queue) : queue[p] \in Sources
    BY <1>6 DEF Init
  <2>3. \A p, q \in 1..Len(queue) : p < q => queue[p] < queue[q]
    BY <2>1 DEF Init, IsAscending
  <2>4. ASSUME NEW p \in 1..Len(queue), NEW q \in 1..Len(queue), queue[p] = queue[q]
        PROVE  p = q
    <3>1. queue[p] \in Nat /\ queue[q] \in Nat /\ Len(queue) \in Nat
      BY <1>2, <1>5, <1>6, <2>2 DEF Sources
    <3> QED BY <2>3, <2>4, <3>1
  <2>5. \A j \in Sources : \E p \in 1..Len(queue) : queue[p] = j
    BY <2>1 DEF Init, IsAscending
  <2> QED BY <1>8, <2>2, <2>4, <2>5 DEF Stack, Sources
<1> QED BY <1>7, <1>8, <1>9, <1>10 DEF Sorting, SourcesFirst, CirclesWait, Init

LEMMA TypeStep ==
  ASSUME TypeOK, Sorting, [Next]_vars
  PROVE  TypeOK'
<1>1. N \in Nat /\ (buses' = buses => N' = N)
  BY LenProperties DEF TypeOK, N
<1>2. CASE Pop
  <2>1. /\ Len(queue) \in Nat \ {0}
        /\ queue[Len(queue)] \in 1..N
        /\ SubSeq(queue, 1, Len(queue) - 1) \in Seq(1..N)
    BY <1>2, PopProperties DEF Pop, TypeOK
  <2>2. order' \in Seq(1..N) /\ Len(order') = Len(order) + 1 /\ Len(order) \in Nat
    BY <1>2, <2>1, PushProperties DEF Pop, TypeOK
  <2>3. rendered' \in 0..Len(order')
    BY <1>2, <2>2 DEF Pop, renderVars, TypeOK
  <2>4. current' \in 0..N /\ queue' \in Seq(1..N) /\ next' \in Nat \ {0}
    BY <1>1, <1>2, <2>1 DEF Pop
  <2> QED BY <1>1, <1>2, <2>2, <2>3, <2>4 DEF Pop, renderVars, TypeOK
<1>3. CASE Walk
  <2>1. ASSUME NEW j \in 1..N, <<current, next, j>> \in Edges, Relax(j)
        PROVE  inDegree' \in [1..N -> Nat] /\ queue' \in Seq(1..N)
    <3>1. <<current, next, j>> \in Pending
      BY <2>1 DEF Pending, TypeOK
    <3>2. inDegree[j] # 0
      BY <3>1, NoPendingIntoZero DEF Sorting
    <3>3. Append(queue, j) \in Seq(1..N)
      BY PushProperties DEF TypeOK
    <3>4. inDegree[j] - 1 \in Nat
      BY <3>2 DEF TypeOK
    <3> QED BY <2>1, <3>3, <3>4 DEF Relax, TypeOK
  <2>2. inDegree' \in [1..N -> Nat] /\ queue' \in Seq(1..N)
    BY <1>3, <2>1 DEF Walk, TypeOK
  <2> QED BY <1>1, <1>3, <2>2 DEF Walk, renderVars, TypeOK
<1>4. CASE Finish
  BY <1>1, <1>4 DEF Finish, sortVars, renderVars, TypeOK
<1>5. CASE StartBlock
  <2>1. Len(order) \in Nat
    BY LenProperties DEF TypeOK
  <2> QED BY <1>1, <1>5, <2>1 DEF StartBlock, sortVars, TypeOK
<1>6. CASE RenderBus
  <2>1. Len(order) \in Nat /\ rendered + 1 \in 1..Len(order)
    BY <1>6, LenProperties DEF RenderBus, TypeOK
  <2>2. input' \in [1..N -> SUBSET (1..N)]
    <3>1. order[rendered + 1] \in 1..N
      BY <2>1, ElementOfSeq DEF TypeOK
    <3> QED BY <1>6, <3>1 DEF RenderBus, Cascade, TypeOK
  <2> QED BY <1>1, <1>6, <2>1, <2>2 DEF RenderBus, sortVars, TypeOK
<1>7. CASE EndBlock
  BY <1>1, <1>7 DEF EndBlock, sortVars, renderVars, TypeOK
<1>8. CASE UNCHANGED vars
  BY <1>1, <1>8 DEF vars, sortVars, renderVars, TypeOK
<1> QED BY <1>2, <1>3, <1>4, <1>5, <1>6, <1>7, <1>8 DEF Next

LEMMA EdgesKept ==
  ASSUME buses' = buses
  PROVE  N' = N /\ Edges' = Edges /\ Routes' = Routes
BY DEF N, Edges, SendsOf, Receives, Routes

LEMMA PopSorts ==
  ASSUME TypeOK, TypeOK', Sorting, Pop
  PROVE  Sorting'
<1> DEFINE i == queue[Len(queue)]
<1>1. Len(queue) \in Nat \ {0} /\ i \in 1..N /\ N \in Nat
  BY PopProperties, LenProperties DEF Pop, TypeOK, N
<1>2. N' = N /\ Edges' = Edges /\ Routes' = Routes
  BY EdgesKept DEF Pop
<1>3. /\ Len(order) \in Nat
      /\ order' = Append(order, i) /\ Len(order') = Len(order) + 1
      /\ order'[Len(order) + 1] = i
      /\ \A p \in 1..Len(order) : order'[p] = order[p]
  BY <1>1, AppendProperties, LenProperties DEF Pop, TypeOK
<1>4. inDegree[i] = 0 /\ i \notin Placed
  BY <1>1 DEF Sorting, Stack
<1>5. Placed' = Placed \cup {i}
  BY <1>3 DEF Placed
<1>6. Pending' = Pending
  <2>1. Pending = {e \in Edges : e[1] \notin Placed}
    BY PendingBetween DEF Pop
  <2>2. \A e \in Edges : e[1] = i => e[2] >= 1
    BY <1>1, EdgeParts, SendsType DEF SendsOf, TypeOK
  <2> QED BY <1>2, <1>4, <1>5, <2>1, <2>2 DEF Pending, Pop
\* All sources of i are placed.
<1>7. \A e \in Edges : e[3] = i => e[1] \in Placed
  <2>1. Pending = {e \in Edges : e[1] \notin Placed}
    BY PendingBetween DEF Pop
  <2> QED BY <1>1, <1>4, <2>1, NoPendingIntoZero DEF Sorting
<1>8. Counting'
  <2>1. current' = i /\ inDegree' = inDegree
    BY DEF Pop
  <2> QED BY <1>2, <1>4, <1>5, <1>6, <2>1 DEF Counting, Sorting, Into
<1>9. Stack'
  <2>1. /\ Len(queue') = Len(queue) - 1
        /\ \A p \in 1..(Len(queue) - 1) : queue'[p] = queue[p]
    BY PopProperties DEF Pop, TypeOK
  <2>2. inDegree' = inDegree
    BY DEF Pop
  <2>3. \A p \in 1..Len(queue') : queue'[p] # i
    BY <1>1, <2>1 DEF Sorting, Stack
  <2> QED BY <1>1, <1>2, <1>5, <2>1, <2>2, <2>3 DEF Sorting, Stack
<1>10. SourcesFirst'
  <2>1. ASSUME NEW p \in 1..Len(order'), NEW q \in 1..Len(order'), order'[p] = order'[q]
        PROVE  p = q
    BY <1>3, <1>4, <2>1 DEF Sorting, SourcesFirst, Placed
  <2>2. ASSUME NEW e \in Edges, NEW q \in 1..Len(order'), order'[q] = e[3]
        PROVE  \E p \in 1..(q - 1) : order'[p] = e[1]
    <3>1. CASE q \in 1..Len(order)
      <4>1. \E p \in 1..(q - 1) : order[p] = e[1]
        BY <1>3, <2>2, <3>1 DEF Sorting, SourcesFirst
      <4> QED BY <1>3, <3>1, <4>1
    <3>2. CASE q = Len(order) + 1
      BY <1>3, <1>7, <2>2, <3>2 DEF Placed
    <3> QED BY <1>3, <3>1, <3>2
  <2> QED BY <1>2, <2>1, <2>2 DEF SourcesFirst
<1>11. CirclesWait'
  <2> SUFFICES ASSUME NEW S \in SUBSET (1..N), IsCircle(S) PROVE i \notin S
    BY <1>2, <1>5 DEF CirclesWait, IsCircle, Sorting
  <2>1. S \cap Placed = {}
    BY DEF Sorting, CirclesWait
  <2>2. ASSUME i \in S PROVE FALSE
    <3>1. PICK a \in S : <<a, i>> \in Routes
      BY <2>2 DEF IsCircle
    <3>2. PICK e \in Edges : e[1] = a /\ e[3] = i
      BY <3>1 DEF Routes
    <3> QED BY <1>7, <2>1, <3>2
  <2> QED BY <2>2
<1> QED BY <1>8, <1>9, <1>10, <1>11 DEF Sorting

LEMMA WalkSorts ==
  ASSUME TypeOK, TypeOK', Sorting, Walk
  PROVE  Sorting'
<1>1. N' = N /\ Edges' = Edges /\ Routes' = Routes /\ N \in Nat
  BY EdgesKept, LenProperties DEF Walk, TypeOK, N
<1>2. /\ Placed' = Placed /\ order' = order /\ current' = current
      /\ current \in 1..N /\ next \in Nat \ {0} /\ next' = next + 1
  BY DEF Walk, Walking, TypeOK, Placed
<1>3. Pending' = {e \in Pending : ~(e[1] = current /\ e[2] = next)}
  <2>1. \A e \in Edges : e[1] = current => e[2] \in Nat
    BY <1>2, EdgeParts, SendsType DEF SendsOf, TypeOK
  <2> QED BY <1>1, <1>2, <2>1 DEF Pending, Counting, Sorting
<1>4. SourcesFirst' /\ CirclesWait'
  BY <1>1, <1>2 DEF Sorting, SourcesFirst, CirclesWait, IsCircle
<1>5. ASSUME NEW j \in 1..N, <<current, next, j>> \in Edges, Relax(j)
      PROVE  Counting' /\ Stack'
  <2> DEFINE e0 == <<current, next, j>>
  <2>1. e0 \in Pending
    BY <1>2, <1>5 DEF Pending
  <2>2. inDegree[j] # 0 /\ IsFiniteSet(Into(j, Pending)) /\ inDegree[j] \in Nat
    BY <2>1, NoPendingIntoZero DEF Sorting, TypeOK
  <2>3. \A e \in Edges : e[1] = current /\ e[2] = next => e = e0
    <3>1. ASSUME NEW e \in Edges, e[1] = current, e[2] = next PROVE e = e0
      <4>1. Receives(current, next, j) /\ Receives(current, next, e[3]) /\ e[3] \in 1..N
        BY <1>5, <3>1, EdgeParts
      <4>2. e[3] = j
        BY <4>1, OneReceiver DEF TypeOK
      <4>3. e = <<e[1], e[2], e[3]>>
        BY EdgeParts
      <4> QED BY <3>1, <4>2, <4>3
    <3> QED BY <3>1
  <2>4. Pending' = Pending \ {e0}
    BY <1>3, <2>3 DEF Pending
  <2>5. Into(j, Pending') = Into(j, Pending) \ {e0} /\ e0 \in Into(j, Pending)
    BY <2>1, <2>4 DEF Into
  <2>6. \A l \in 1..N : l # j => Into(l, Pending') = Into(l, Pending)
    BY <2>4 DEF Into
  <2>7. Cardinality(Into(j, Pending')) = inDegree[j] - 1
    BY <2>2, <2>5, FS_RemoveElement DEF Sorting, Counting
  <2>8. inDegree' = [inDegree EXCEPT ![j] = @ - 1]
    BY <1>5 DEF Relax
  <2>9. j \notin Placed
    BY <2>2 DEF Sorting, Counting
  <2>10. \A l \in 1..N : inDegree'[l] = Cardinality(Into(l, Pending'))
    BY <2>6, <2>7, <2>8 DEF Sorting, Counting, TypeOK
  <2>11. Counting'
    <3>1. \A l \in 1..N : l \in Placed => inDegree'[l] = 0
      BY <2>8, <2>9 DEF Sorting, Counting, TypeOK
    <3> QED BY <1>1, <1>2, <2>10, <3>1 DEF Sorting, Counting, Into
  <2>12. \A p \in 1..Len(queue) : queue[p] # j
    BY <2>2 DEF Sorting, Stack
  <2>13. \A p \in 1..Len(queue) : queue[p] \in 1..N
    BY ElementOfSeq DEF TypeOK
  <2>14. Stack'
    <3>1. CASE inDegree[j] = 1
      <4>1. /\ Len(queue) \in Nat /\ Len(queue') = Len(queue) + 1
            /\ \A p \in 1..Len(queue) : queue'[p] = queue[p]
            /\ queue'[Len(queue) + 1] = j
        BY <1>5, <3>1, PushProperties DEF Relax, TypeOK
      <4>2. inDegree'[j] = 0 /\ \A l \in 1..N : l # j => inDegree'[l] = inDegree[l]
        BY <2>8, <3>1 DEF TypeOK
      <4>3. ASSUME NEW p \in 1..Len(queue'), NEW q \in 1..Len(queue'), queue'[p] = queue'[q]
            PROVE  p = q
        BY <2>12, <4>1, <4>3 DEF Sorting, Stack
      <4>4. ASSUME NEW p \in 1..Len(queue')
            PROVE  inDegree'[queue'[p]] = 0 /\ queue'[p] \notin Placed
        BY <2>9, <2>12, <2>13, <4>1, <4>2 DEF Sorting, Stack
      <4>5. ASSUME NEW l \in 1..N, inDegree'[l] = 0
            PROVE  l \in Placed \/ \E p \in 1..Len(queue') : queue'[p] = l
        <5>1. CASE l = j
          BY <4>1, <5>1
        <5>2. CASE l # j
          BY <4>1, <4>2, <4>5, <5>2 DEF Sorting, Stack
        <5> QED BY <5>1, <5>2
      <4> QED BY <1>1, <1>2, <4>3, <4>4, <4>5 DEF Stack
    <3>2. CASE inDegree[j] # 1
      <4>1. queue' = queue
        BY <1>5, <3>2 DEF Relax
      <4>2. inDegree'[j] # 0 /\ \A l \in 1..N : l # j => inDegree'[l] = inDegree[l]
        BY <2>2, <2>8, <3>2 DEF TypeOK
      <4> QED BY <1>1, <1>2, <2>12, <2>13, <4>1, <4>2 DEF Sorting, Stack
    <3> QED BY <3>1, <3>2
  <2> QED BY <2>11, <2>14
<1>6. CASE /\ \A j \in 1..N : <<current, next, j>> \notin Edges
           /\ UNCHANGED <<inDegree, queue>>
  <2>1. Pending' = Pending
    <3>1. \A e \in Edges : ~(e[1] = current /\ e[2] = next)
      BY <1>6, EdgeParts
    <3> QED BY <1>3, <3>1 DEF Pending
  <2> QED BY <1>1, <1>2, <1>4, <1>6, <2>1 DEF Sorting, Counting, Stack, Into
<1>7. ASSUME NEW j \in 1..N, <<current, next, j>> \in Edges, Relax(j) PROVE Sorting'
  BY <1>4, <1>5, <1>7 DEF Sorting
<1>8. \/ \E j \in 1..N : <<current, next, j>> \in Edges /\ Relax(j)
      \/ /\ \A j \in 1..N : <<current, next, j>> \notin Edges
         /\ UNCHANGED <<inDegree, queue>>
  BY DEF Walk
<1> QED BY <1>6, <1>7, <1>8

(* What the sort decides                                                   *)

\* The order is complete when all buses are placed.
LEMMA Complete ==
  ASSUME TypeOK, SourcesFirst
  PROVE  /\ Placed \subseteq 1..N
         /\ Len(order) = N <=> Placed = 1..N
<1>1. N \in Nat /\ Len(order) \in Nat /\ order \in [1..Len(order) -> 1..N]
  BY LenProperties DEF TypeOK, N
<1>2. Placed \subseteq 1..N
  BY <1>1 DEF Placed
<1>3. order \in Injection(1..Len(order), 1..N)
  BY <1>1 DEF SourcesFirst, Injection, IsInjective
<1>4. Len(order) = N <=> order \in Surjection(1..Len(order), 1..N)
  BY <1>1, <1>3, UpToFinite, FS_Injection
<1>5. order \in Surjection(1..Len(order), 1..N) <=> Placed = 1..N
  BY <1>1, <1>2 DEF Surjection, Placed
<1> QED BY <1>2, <1>4, <1>5

\* A sort that is over has placed every bus, or left a circle.
LEMMA Decided ==
  ASSUME TypeOK, Sorting, ~Walking, queue = <<>>
  PROVE  Len(order) # N <=> Cyclic(1..N, Routes)
<1>1. /\ Placed \subseteq 1..N
      /\ Len(order) = N <=> Placed = 1..N
  BY Complete DEF Sorting
<1>2. CASE Len(order) = N
  BY <1>1, <1>2 DEF Cyclic, Sorting, CirclesWait, IsCircle
<1>3. CASE Len(order) # N
  <2> DEFINE S == (1..N) \ Placed
  <2>1. S # {} /\ S \in SUBSET (1..N)
    BY <1>1, <1>3
  <2>2. ASSUME NEW b \in S PROVE \E a \in S : <<a, b>> \in Routes
    <3>1. inDegree[b] # 0
      BY DEF Sorting, Stack
    <3>2. PICK e \in Pending : e[3] = b
      BY <3>1, NoPendingIntoZero DEF Sorting
    <3>3. e \in Edges /\ e[1] \notin Placed
      BY PendingBetween
    <3>4. e[1] \in S /\ <<e[1], b>> \in Routes
      BY <3>2, <3>3, EdgeParts DEF Routes
    <3> QED BY <3>4
  <2> QED BY <1>3, <2>1, <2>2 DEF Cyclic
<1> QED BY <1>2, <1>3

LEMMA SortingStep ==
  ASSUME TypeOK, TypeOK', Sorting, Sorted, [Next]_vars
  PROVE  Sorting' /\ Sorted'
<1>1. CASE Pop
  <2>1. phase' = "sort"
    BY <1>1 DEF Pop
  <2> QED BY <1>1, <2>1, PopSorts DEF Sorted
<1>2. CASE Walk
  <2>1. phase' = "sort"
    BY <1>2 DEF Walk
  <2> QED BY <1>2, <2>1, WalkSorts DEF Sorted
<1>3. CASE Finish \/ StartBlock \/ RenderBus \/ EndBlock \/ UNCHANGED vars
  <2>1. UNCHANGED <<buses, inDegree, queue, order, current, next>>
    BY <1>3 DEF Finish, StartBlock, RenderBus, EndBlock, vars, sortVars
  <2>2. /\ N' = N /\ Edges' = Edges /\ Routes' = Routes
        /\ Placed' = Placed /\ Pending' = Pending
        /\ Walking' = Walking
    BY <2>1, EdgesKept DEF Placed, Pending, Walking, SendsOf
  <2>3. Sorting'
    <3>1. Counting'
      BY <2>1, <2>2 DEF Sorting, Counting, Into
    <3>2. Stack'
      BY <2>1, <2>2 DEF Sorting, Stack
    <3>3. SourcesFirst'
      BY <2>1, <2>2 DEF Sorting, SourcesFirst
    <3>4. CirclesWait'
      BY <2>1, <2>2 DEF Sorting, CirclesWait, IsCircle
    <3> QED BY <3>1, <3>2, <3>3, <3>4 DEF Sorting
  <2>4. Sorted'
    <3>1. CASE Finish
      BY <2>1, <2>2, <3>1 DEF Finish, Sorted
    <3>2. CASE StartBlock \/ RenderBus \/ EndBlock \/ UNCHANGED vars
      <4>1. phase' # "sort" => phase # "sort" /\ (phase' = "err" <=> phase = "err")
        BY <3>2 DEF StartBlock, RenderBus, EndBlock, vars
      <4> QED BY <2>1, <2>2, <4>1 DEF Sorted
    <3> QED BY <1>3, <3>1, <3>2
  <2> QED BY <2>3, <2>4
<1> QED BY <1>1, <1>2, <1>3 DEF Next

SortInv == TypeOK /\ Sorting /\ Sorted

LEMMA SortInvariant == Spec => []SortInv
<1> USE RoutingsAssumption
<1>1. Init => SortInv
  BY InitSorting DEF SortInv, Sorted, Init
<1>2. SortInv /\ [Next]_vars => SortInv'
  BY TypeStep, SortingStep DEF SortInv
<1> QED BY <1>1, <1>2, PTL DEF Spec

\* The counters of the sort never fall below zero, and no bus out of range
\* is ever sorted or rendered.
THEOREM BusTypes == Spec => []TypeOK
BY SortInvariant, PTL DEF SortInv

\* Whatever the buses and their sends, no bus is placed before one that
\* sends to it.
THEOREM SourcesComeFirst == Spec => []SourcesFirst
BY SortInvariant, PTL DEF SortInv, Sorting

\* The sort refuses a routing exactly when it has a circle.
THEOREM CyclesRefused == Spec => []CyclesAreRefused
<1>1. SortInv => CyclesAreRefused
  BY Decided DEF SortInv, Sorted, CyclesAreRefused
<1> QED BY <1>1, SortInvariant, PTL

\* Every routing is sorted, or refused because of its circle.
THEOREM SortOrRefuse == Spec => []SortsOrRefuses
BY SourcesComeFirst, CyclesRefused, PTL DEF SortsOrRefuses
-----------------------------------------------------------------------------
(* Rendering in that order                                                 *)

\* What a rendered bus has passed on, that a bus hears rendered ones alone,
\* with all they have heard, and never more than what feeds it
Cascading ==
  phase = "block" =>
    /\ \A p \in 1..rendered : \A e \in Edges :
         e[1] = order[p] => input[e[1]] \cup {e[1]} \subseteq input[e[3]]
    /\ \A j \in 1..N : \A b \in input[j] :
         (\E p \in 1..rendered : order[p] = b) /\ input[b] \subseteq input[j]
    /\ \A j \in 1..N : \A S \in SUBSET (1..N) : Feeds(S, j) => input[j] \subseteq S

LEMMA CascadeStep ==
  ASSUME SortInv, Cascading, RenderBus
  PROVE  Cascading'
<1> DEFINE i == order[rendered + 1]
<1>1. N' = N /\ Edges' = Edges /\ order' = order /\ N \in Nat
  BY EdgesKept, LenProperties DEF RenderBus, sortVars, SortInv, TypeOK, N
<1>2. /\ rendered \in Nat /\ rendered' = rendered + 1 /\ Len(order) \in Nat
      /\ rendered + 1 \in 1..Len(order)
  BY LenProperties DEF RenderBus, SortInv, TypeOK
<1>3. i \in 1..N
  BY <1>2, ElementOfSeq DEF SortInv, TypeOK
<1>4. /\ \A p, q \in 1..Len(order) : order[p] = order[q] => p = q
      /\ \A e \in Edges : \A q \in 1..Len(order) :
           order[q] = e[3] => \E p \in 1..(q - 1) : order[p] = e[1]
  BY DEF SortInv, Sorting, SourcesFirst
<1> DEFINE Gets(j) == j # i /\ \E k \in SendsOf(i) : <<i, k, j>> \in Edges
<1>5. \A j \in 1..N : input'[j] = IF Gets(j) THEN input[j] \cup input[i] \cup {i} ELSE input[j]
  BY DEF RenderBus, Cascade
<1>6. ASSUME NEW j \in 1..N
      PROVE  Gets(j) <=> j # i /\ \E e \in Edges : e[1] = i /\ e[3] = j
  <2>1. ASSUME NEW e \in Edges, e[1] = i, e[3] = j
        PROVE  e[2] \in SendsOf(i) /\ <<i, e[2], j>> \in Edges
    BY <2>1, EdgeParts
  <2> QED BY <2>1
\* The buses rendered so far do not hear bus i.
<1>7. ASSUME NEW p \in 1..(rendered + 1) PROVE ~Gets(order[p])
  <2>1. p \in 1..Len(order)
    BY <1>2
  <2>2. ASSUME NEW e \in Edges, e[1] = i, e[3] = order[p] PROVE FALSE
    <3>1. PICK q \in 1..(p - 1) : order[q] = i
      BY <1>4, <2>1, <2>2
    <3>2. q \in 1..Len(order) /\ q # rendered + 1
      BY <1>2, <2>1, <3>1
    <3> QED BY <1>2, <1>4, <3>1, <3>2
  <2>3. order[p] \in 1..N
    BY <2>1, ElementOfSeq DEF SortInv, TypeOK
  <2> QED BY <1>6, <2>2, <2>3
<1>8. ASSUME NEW p \in 1..(rendered + 1), NEW e \in Edges, e[1] = order[p]
      PROVE  input'[e[1]] \cup {e[1]} \subseteq input'[e[3]]
  <2>1. e[1] \in 1..N /\ e[3] \in 1..N
    BY EdgeParts
  <2>2. input'[e[1]] = input[e[1]]
    BY <1>5, <1>7, <1>8, <2>1
  <2>3. input[e[3]] \subseteq input'[e[3]]
    BY <1>5, <2>1
  <2>4. CASE p \in 1..rendered
    <3>1. input[e[1]] \cup {e[1]} \subseteq input[e[3]]
      BY <1>8, <2>4 DEF Cascading, RenderBus
    <3> QED BY <2>2, <2>3, <3>1
  <2>5. CASE p = rendered + 1
    <3>1. e[3] # i
      <4>1. ASSUME e[3] = i PROVE FALSE
        <5>1. PICK q \in 1..rendered : order[q] = i
          BY <1>2, <1>4, <1>8, <2>5, <4>1
        <5>2. q \in 1..Len(order)
          BY <1>2, <5>1
        <5> QED BY <1>2, <1>4, <5>1, <5>2
      <4> QED BY <4>1
    <3>2. Gets(e[3])
      BY <1>6, <1>8, <2>1, <2>5, <3>1
    <3> QED BY <1>5, <1>8, <2>1, <2>2, <2>5, <3>2
  <2> QED BY <1>2, <2>4, <2>5
<1>9. ASSUME NEW j \in 1..N, NEW S \in SUBSET (1..N), Feeds(S, j)
      PROVE  input'[j] \subseteq S
  <2>1. input[j] \subseteq S
    BY <1>9 DEF Cascading, RenderBus
  <2>2. ASSUME Gets(j) PROVE input[i] \cup {i} \subseteq S
    <3>1. PICK e \in Edges : e[1] = i /\ e[3] = j
      BY <1>6, <2>2
    <3>2. i \in S
      BY <1>9, <3>1 DEF Feeds
    <3>3. Feeds(S, i)
      BY <1>9, <3>2 DEF Feeds
    <3> QED BY <1>3, <3>2, <3>3 DEF Cascading, RenderBus
  <2> QED BY <1>5, <2>1, <2>2
<1>10. ASSUME NEW j \in 1..N, NEW b \in input'[j]
       PROVE  (\E p \in 1..rendered' : order[p] = b) /\ input'[b] \subseteq input'[j]
  <2>1. b \in input[j] \/ (Gets(j) /\ (b \in input[i] \/ b = i))
    BY <1>5, <1>10
  <2>2. /\ \E p \in 1..(rendered + 1) : order[p] = b
        /\ input[b] \subseteq input[j] \/ (Gets(j) /\ input[b] \subseteq input[i])
    <3>1. CASE b \in input[j]
      BY <1>2, <3>1 DEF Cascading, RenderBus
    <3>2. CASE Gets(j) /\ b \in input[i]
      BY <1>2, <1>3, <3>2 DEF Cascading, RenderBus
    <3>3. CASE Gets(j) /\ b = i
      BY <1>2, <3>3
    <3> QED BY <2>1, <3>1, <3>2, <3>3
  <2>3. b \in 1..N
    BY <1>3, <2>1 DEF SortInv, TypeOK
  <2>4. input'[b] = input[b]
    BY <1>5, <1>7, <2>2, <2>3
  <2> QED BY <1>2, <1>5, <2>2, <2>4
<1> QED BY <1>1, <1>2, <1>8, <1>9, <1>10 DEF Cascading, Feeds

LEMMA CascadingStep ==
  ASSUME SortInv, Cascading, [Next]_vars
  PROVE  Cascading'
<1>1. CASE RenderBus
  BY <1>1, CascadeStep
<1>2. CASE StartBlock
  <2>1. N' = N /\ rendered' = 0 /\ \A j \in 1..N : input'[j] = {}
    BY <1>2, EdgesKept DEF StartBlock
  <2> QED BY <2>1 DEF Cascading
<1>3. CASE Pop \/ Walk \/ Finish \/ EndBlock
  <2>1. phase' # "block"
    BY <1>3 DEF Pop, Walk, Finish, EndBlock
  <2> QED BY <2>1 DEF Cascading
<1>4. CASE UNCHANGED vars
  BY <1>4, EdgesKept DEF vars, sortVars, renderVars, Cascading, Feeds
<1> QED BY <1>1, <1>2, <1>3, <1>4 DEF Next

\* In every finished block every bus has heard exactly the buses that feed
\* it, directly or through others.
THEOREM BusesHear == Spec => []BusesHearTheirSources
<1>1. Init => Cascading
  BY DEF Init, Cascading
<1>2. SortInv /\ Cascading /\ [Next]_vars => Cascading'
  BY CascadingStep
<1>3. SortInv /\ Cascading => BusesHearTheirSources
  <2> SUFFICES ASSUME SortInv, Cascading, phase = "block", rendered = Len(order),
                      NEW j \in 1..N
               PROVE  /\ Feeds(input[j], j)
                      /\ \A S \in SUBSET (1..N) : Feeds(S, j) => input[j] \subseteq S
    BY DEF BusesHearTheirSources
  <2>1. Placed = 1..N
    BY Complete DEF SortInv, Sorted, Sorting
  <2>2. ASSUME NEW e \in Edges PROVE input[e[1]] \cup {e[1]} \subseteq input[e[3]]
    <3>1. PICK p \in 1..Len(order) : order[p] = e[1]
      BY <2>1, EdgeParts DEF Placed
    <3> QED BY <3>1 DEF Cascading
  <2> QED BY <2>2 DEF Cascading, Feeds
<1> QED BY <1>1, <1>2, <1>3, SortInvariant, PTL DEF Spec
=============================================================================
