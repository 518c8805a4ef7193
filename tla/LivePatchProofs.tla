-------------------------- MODULE LivePatchProofs --------------------------
(***************************************************************************)
(* Proofs about LivePatch, for any documents and operations that parse:    *)
(*                                                                         *)
(*   - after every batch the sends of a graph point at their buses and the *)
(*     buses are in order, unless the last batch that touched them was not *)
(*     sorted.  That says nothing while a batch has changes to sort, and a *)
(*     sort restores it from any graph; what is left to show is that an    *)
(*     operation which asks for no sort, and is not one of those that      *)
(*     should have, leaves ids, sends and the places of buses alone;       *)
(*   - the document and the graph keep their types, so that a lane, however*)
(*     it was edited, is a list of points with integer ticks and values,   *)
(*     and its samples stay between two of them;                           *)
(*   - the patched graph is the one that would be built from the patched   *)
(*     document.  The two are related list by list: same sends, same lanes,*)
(*     same buses, and of the nodes of a chain those that are built in.    *)
(*     Every operation keeps the relation, or both patchers refuse it;     *)
(*   - a block of the patched graph carries every track to the buses its   *)
(*     sends lead to.  A bus that is rendered after its sources has all it *)
(*     will have; so what is heard at the end is closed under the sends,   *)
(*     and nothing is heard where no chain of sends leads.                 *)
(***************************************************************************)
EXTENDS LivePatch, SequenceTheorems, FiniteSetTheorems, TLAPS


IsTrack(t) == t = Track(t, t.inserts, t.sends, t.lanes)

IsBus(b) == b = Bus(b, b.inserts, b.sends)

Shape(g) ==
  /\ g = [tracks |-> g.tracks, buses |-> g.buses, master |-> g.master]
  /\ g.tracks = [t \in DOMAIN g.tracks |-> g.tracks[t]]
  /\ \A t \in DOMAIN g.tracks : IsTrack(g.tracks[t])
  /\ \A i \in DOMAIN g.buses : IsBus(g.buses[i])

Routed(g, o) ==
  /\ \A t \in DOMAIN g.tracks : Current(g.buses, g.tracks[t].sends)
  /\ \A i \in DOMAIN g.buses : Current(g.buses, g.buses[i].sends)
  /\ o \in Orders(g.buses)

Inv ==
  /\ dirty \in BOOLEAN /\ stale \in BOOLEAN
  /\ ~stale /\ ~dirty => Shape(graph) /\ Routed(graph, order)
-----------------------------------------------------------------------------
(* What a sort stores *)

\* Filling in the indices moves no bus and changes no id.
LEMMA SameTargets ==
  ASSUME NEW buses, NEW id
  PROVE  Target(CacheBuses(buses), id) = Target(buses, id)
<1>1. DOMAIN CacheBuses(buses) = DOMAIN buses
  BY DEF CacheBuses
<1>2. \A i \in DOMAIN buses : CacheBuses(buses)[i].id = buses[i].id
  BY DEF CacheBuses, Bus
<1>3. Ids(CacheBuses(buses)) = Ids(buses)
  BY <1>1, <1>2 DEF Ids
<1> QED
  BY <1>1, <1>2, <1>3 DEF Target

LEMMA CachedIsCurrent ==
  ASSUME NEW buses, NEW sends
  PROVE  /\ DOMAIN Cached(buses, sends) = DOMAIN sends
         /\ \A k \in DOMAIN sends :
              /\ Cached(buses, sends)[k].dest = sends[k].dest
              /\ Cached(buses, sends)[k].idx = Target(buses, sends[k].dest)
BY DEF Cached, SendTo

\* Nor does it change which orders the buses may be rendered in.
LEMMA SameOrders ==
  ASSUME NEW buses
  PROVE  Orders(CacheBuses(buses)) = Orders(buses)
<1>1. DOMAIN CacheBuses(buses) = DOMAIN buses
  BY DEF CacheBuses
<1>2. ASSUME NEW i \in DOMAIN buses
      PROVE  CacheBuses(buses)[i].sends = Cached(buses, buses[i].sends)
  BY DEF CacheBuses, Bus
<1>3. ASSUME NEW i \in DOMAIN buses, NEW j
      PROVE  (\E k \in DOMAIN CacheBuses(buses)[i].sends :
                Target(CacheBuses(buses), CacheBuses(buses)[i].sends[k].dest) = j)
             <=> (\E k \in DOMAIN buses[i].sends : Target(buses, buses[i].sends[k].dest) = j)
  BY <1>2, SameTargets, CachedIsCurrent
<1>4. BusSends(CacheBuses(buses)) = BusSends(buses)
  <2>1. ASSUME NEW e \in (DOMAIN buses) \X (DOMAIN buses)
        PROVE  e \in BusSends(CacheBuses(buses)) <=> e \in BusSends(buses)
    BY <1>1, <1>3 DEF BusSends
  <2> QED
    BY <1>1, <2>1 DEF BusSends
<1> QED
  BY <1>1, <1>4 DEF Orders, IsOrder

\* The sort restores everything, whatever the graph was.
LEMMA SortRestores ==
  ASSUME NEW g, NEW o \in Orders(g.buses)
  PROVE  Shape(CacheSendIndices(g)) /\ Routed(CacheSendIndices(g), o)
<1> SUFFICES ASSUME NEW h, h = CacheSendIndices(g) PROVE Shape(h) /\ Routed(h, o)
  OBVIOUS
<1>1. /\ h.buses = CacheBuses(g.buses)
      /\ h.tracks = CacheTracks(g)
      /\ h = [tracks |-> h.tracks, buses |-> h.buses, master |-> h.master]
  BY DEF CacheSendIndices
<1>2. DOMAIN h.tracks = DOMAIN g.tracks /\ h.tracks = [t \in DOMAIN h.tracks |-> h.tracks[t]]
  BY <1>1 DEF CacheTracks
<1>3. ASSUME NEW t \in DOMAIN h.tracks
      PROVE  IsTrack(h.tracks[t]) /\ h.tracks[t].sends = Cached(g.buses, g.tracks[t].sends)
  <2>1. h.tracks[t] = Track(g.tracks[t], g.tracks[t].inserts,
                            Cached(g.buses, g.tracks[t].sends), g.tracks[t].lanes)
    BY <1>1, <1>2 DEF CacheTracks
  <2> QED
    BY <2>1 DEF IsTrack, Track
<1>4. ASSUME NEW i \in DOMAIN h.buses
      PROVE  /\ i \in DOMAIN g.buses /\ h.buses[i].sends = Cached(g.buses, g.buses[i].sends)
             /\ IsBus(h.buses[i])
  <2>1. /\ i \in DOMAIN g.buses
        /\ h.buses[i] = Bus(g.buses[i], g.buses[i].inserts, Cached(g.buses, g.buses[i].sends))
    BY <1>1 DEF CacheBuses
  <2> QED
    BY <2>1 DEF IsBus, Bus
<1>5. ASSUME NEW sends PROVE Current(h.buses, Cached(g.buses, sends))
  BY <1>1, SameTargets, CachedIsCurrent DEF Current
<1>6. o \in Orders(h.buses)
  BY <1>1, SameOrders
<1> QED
  BY <1>1, <1>2, <1>3, <1>4, <1>5, <1>6 DEF Shape, Routed
-----------------------------------------------------------------------------
(* Operations that ask for no sort *)

\* On a track, only an operation about its sends changes them.
LEMMA TrackKeepsSends ==
  ASSUME NEW s, IsTrack(s), NEW o, o.part # "sends", NEW t \in LiveTrack(s, o)
  PROVE  IsTrack(t) /\ t.sends = s.sends
<1> USE DEF IsTrack, Track
<1>1. CASE t = s
  BY <1>1
<1>2. CASE t = [s EXCEPT !.mute = o.flag]
  BY <1>2
<1>3. CASE t = [s EXCEPT !.solo = o.flag]
  BY <1>3
<1>4. ASSUME NEW l, t = [s EXCEPT !.inserts = l] PROVE IsTrack(t) /\ t.sends = s.sends
  BY <1>4
<1>5. ASSUME NEW l, t = [s EXCEPT !.lanes = l] PROVE IsTrack(t) /\ t.sends = s.sends
  BY <1>5
<1>6. \/ t = s \/ t = [s EXCEPT !.mute = o.flag] \/ t = [s EXCEPT !.solo = o.flag]
      \/ \E l \in LiveInserts(s.inserts, o) : t = [s EXCEPT !.inserts = l]
      \/ \E l \in LiveLanes(s.lanes, o) : t = [s EXCEPT !.lanes = l]
  BY DEF LiveTrack
<1> QED
  BY <1>1, <1>2, <1>3, <1>4, <1>5, <1>6

\* Nor on a bus, whose id nothing changes.
LEMMA BusKeepsSends ==
  ASSUME NEW b, IsBus(b), NEW o, o.part # "sends", NEW c \in LiveBus(b, o)
  PROVE  IsBus(c) /\ c.id = b.id /\ c.sends = b.sends
<1> USE DEF IsBus, Bus
<1>1. c = b \/ \E l \in LiveInserts(b.inserts, o) : c = [b EXCEPT !.inserts = l]
  BY DEF LiveBus
<1>2. ASSUME NEW l, c = [b EXCEPT !.inserts = l] PROVE IsBus(c) /\ c.id = b.id /\ c.sends = b.sends
  BY <1>2
<1> QED
  BY <1>1, <1>2

\* Lists of buses with the same ids and sends have the same routes.
LEMMA SameRoutes ==
  ASSUME NEW buses, NEW others, DOMAIN others = DOMAIN buses,
         \A i \in DOMAIN buses : others[i].id = buses[i].id /\ others[i].sends = buses[i].sends
  PROVE  /\ \A id : Target(others, id) = Target(buses, id)
         /\ Orders(others) = Orders(buses)
<1>1. Ids(others) = Ids(buses)
  BY DEF Ids
<1>2. ASSUME NEW id PROVE Target(others, id) = Target(buses, id)
  BY <1>1 DEF Target
<1>3. BusSends(others) = BusSends(buses)
  BY <1>2 DEF BusSends
<1> QED
  BY <1>2, <1>3 DEF Orders, IsOrder

\* So no route moves unless the operation asks for the sort, or adds or removes
\* a bus without asking.
LEMMA RoutesStay ==
  ASSUME NEW g, NEW r, Shape(g), Routed(g, r),
         NEW o, Parses(o), ~Topological(o), ~Overlooked(o), NEW h \in ApplyOne(g, o)
  PROVE  Shape(h) /\ Routed(h, r)
<1>1. /\ o.part # "sends"
      /\ o.root = "buses" => o.part \notin {"new", "gone"}
  BY DEF Parses, Topological, Overlooked
<1>2. CASE o.root = "tracks" /\ o.id \in DOMAIN g.tracks
  <2>1. PICK t \in LiveTrack(g.tracks[o.id], o) : h = [g EXCEPT !.tracks[o.id] = t]
    BY <1>2 DEF ApplyOne
  <2>2. IsTrack(t) /\ t.sends = g.tracks[o.id].sends
    BY <1>1, <1>2, TrackKeepsSends DEF Shape
  <2>3. /\ h.buses = g.buses
        /\ h.tracks = [g.tracks EXCEPT ![o.id] = t]
        /\ h = [tracks |-> h.tracks, buses |-> h.buses, master |-> h.master]
    BY <2>1 DEF Shape
  <2>4. /\ DOMAIN h.tracks = DOMAIN g.tracks
        /\ h.tracks = [u \in DOMAIN h.tracks |-> h.tracks[u]]
        /\ \A u \in DOMAIN h.tracks : IsTrack(h.tracks[u]) /\ h.tracks[u].sends = g.tracks[u].sends
    BY <1>2, <2>2, <2>3 DEF Shape
  <2> QED
    BY <2>3, <2>4 DEF Shape, Routed
<1>3. CASE o.root = "master"
  <2>1. PICK m : h = [g EXCEPT !.master = m]
    BY <1>3 DEF ApplyOne
  <2>2. /\ h.buses = g.buses /\ h.tracks = g.tracks
        /\ h = [tracks |-> h.tracks, buses |-> h.buses, master |-> h.master]
    BY <2>1 DEF Shape
  <2> QED
    BY <2>2 DEF Shape, Routed
<1>4. CASE o.root = "buses"
  <2> DEFINE n == FirstAt(g.buses, o.id)
  <2>1. PICK l \in LiveBuses(g.buses, o) : h = [g EXCEPT !.buses = l]
    BY <1>4 DEF ApplyOne
  <2>2. PICK b \in LiveBus(g.buses[n], o) : l = [g.buses EXCEPT ![n] = b]
    BY <1>1, <1>4, <2>1 DEF LiveBuses
  <2> HIDE DEF n
  <2>3. /\ h.buses = l /\ h.tracks = g.tracks
        /\ h = [tracks |-> h.tracks, buses |-> h.buses, master |-> h.master]
    BY <2>1 DEF Shape
  <2>4. n \in DOMAIN g.buses => IsBus(b) /\ b.id = g.buses[n].id /\ b.sends = g.buses[n].sends
    BY <1>1, <2>2, BusKeepsSends DEF Shape
  <2>5. /\ DOMAIN l = DOMAIN g.buses
        /\ \A i \in DOMAIN g.buses : l[i] = IF i = n THEN b ELSE g.buses[i]
    BY <2>2
  <2>6. \A i \in DOMAIN g.buses :
          IsBus(l[i]) /\ l[i].id = g.buses[i].id /\ l[i].sends = g.buses[i].sends
    BY <2>4, <2>5 DEF Shape
  <2>7. (\A id : Target(l, id) = Target(g.buses, id)) /\ Orders(l) = Orders(g.buses)
    BY <2>5, <2>6, SameRoutes
  <2>8. ASSUME NEW sends PROVE Current(l, sends) <=> Current(g.buses, sends)
    BY <2>7 DEF Current
  <2>9. Shape(h)
    BY <2>3, <2>5, <2>6 DEF Shape
  <2>10. Routed(h, r)
    BY <2>3, <2>5, <2>6, <2>7, <2>8 DEF Routed
  <2> QED
    BY <2>9, <2>10
<1> QED
  BY <1>1, <1>2, <1>3, <1>4 DEF ApplyOne
-----------------------------------------------------------------------------
LEMMA InvInit == Init => Inv
<1> SUFFICES ASSUME Init PROVE Inv
  OBVIOUS
<1>1. graph.buses = CacheBuses(Unsorted(project).buses)
  BY DEF Init, Fresh, CacheSendIndices
<1>2. order \in Orders(Unsorted(project).buses)
  BY <1>1, SameOrders DEF Init
<1>3. Shape(graph) /\ Routed(graph, order)
  BY <1>2, SortRestores DEF Init, Fresh
<1> QED
  BY <1>3 DEF Init, Inv

LEMMA InvKept == Inv /\ [Next]_vars => Inv'
<1> SUFFICES ASSUME Inv, [Next]_vars PROVE Inv'
  OBVIOUS
<1>1. CASE PatchBegin
  BY <1>1 DEF PatchBegin, Inv, Shape, Routed
<1>2. ASSUME NEW o \in Ops, PatchOp(o) PROVE Inv'
  <2> DEFINE live == IF "graph" \in patching THEN ApplyOne(graph, o) ELSE {}
  <2>1. /\ graph' \in (IF live = {} THEN {graph} ELSE live)
        /\ dirty' = (live # {} /\ (dirty \/ Topological(o)))
        /\ stale' = (stale \/ (IF live = {} THEN dirty ELSE Overlooked(o)))
        /\ order' = order
    BY <1>2 DEF PatchOp
  <2>0. Parses(o) /\ Topological(o) \in BOOLEAN /\ Overlooked(o) \in BOOLEAN
    BY LivePatchAssumption DEF Topological, Overlooked
  <2>2. dirty' \in BOOLEAN /\ stale' \in BOOLEAN
    BY <2>0, <2>1 DEF Inv
  <2>3. ASSUME ~stale', ~dirty' PROVE Shape(graph') /\ Routed(graph', order')
    <3>1. CASE live = {}
      <4>1. ~stale /\ ~dirty /\ graph' = graph /\ order' = order
        BY <2>1, <2>3, <3>1
      <4> QED
        BY <4>1 DEF Inv
    <3>2. CASE live # {}
      <4>1. /\ ~stale /\ ~dirty /\ ~Topological(o) /\ ~Overlooked(o)
            /\ graph' \in live /\ order' = order
        BY <2>1, <2>3, <3>2
      <4>2. graph' \in ApplyOne(graph, o)
        BY <3>2, <4>1
      <4>3. Shape(graph) /\ Routed(graph, order)
        BY <4>1 DEF Inv
      <4> QED
        BY <2>0, <4>1, <4>2, <4>3, RoutesStay
    <3> QED
      BY <3>1, <3>2
  <2> QED
    BY <2>2, <2>3 DEF Inv, Shape, Routed
<1>3. CASE PatchEnd
  <2>1. CASE ~dirty /\ UNCHANGED <<graph, order, stale>>
    BY <1>3, <2>1 DEF PatchEnd, Inv, Shape, Routed
  <2>2. CASE Sort
    <3>1. Shape(graph') /\ Routed(graph', order')
      BY <2>2, SortRestores DEF Sort
    <3> QED
      BY <1>3, <2>2, <3>1 DEF PatchEnd, Sort, Inv, Shape, Routed
  <2>3. CASE SortFails
    BY <1>3, <2>3 DEF PatchEnd, SortFails, Inv
  <2> QED
    BY <1>3, <2>1, <2>2, <2>3 DEF PatchEnd
<1>4. CASE Rebuild
  <2>1. Shape(graph') /\ Routed(graph', order')
    BY <1>4, SortRestores DEF Rebuild, Fresh
  <2> QED
    BY <1>4, <2>1 DEF Rebuild, Inv, Shape, Routed
<1>5. CASE UNCHANGED vars
  BY <1>5 DEF vars, Inv, Shape, Routed
<1> QED
  BY <1>1, <1>2, <1>3, <1>4, <1>5 DEF Next

\* After any documents, operations and refusals, the index every send caches
\* is where its bus stands, and the buses are in an order with sources first,
\* unless a change to the buses has not been followed by a sort: because its
\* batch failed, because of a circle, or because a bus was added or removed by
\* a path that apply_patch does not sort after.
THEOREM RoutesCurrent == Spec => []RoutesAreCurrent
<1>1. Inv => RoutesAreCurrent
  BY DEF Inv, Routed, RoutesAreCurrent
<1> QED
  BY <1>1, InvInit, InvKept, PTL DEF Spec
-----------------------------------------------------------------------------
(* Lists *)

\* Induction over the naturals, for the set of those that have a property.
LEMMA Induction ==
  ASSUME NEW S, 0 \in S, \A n \in Nat : n \in S => n + 1 \in S
  PROVE  Nat \subseteq S
<1> SUFFICES ASSUME NEW T, T = Nat \ S, T # {} PROVE FALSE
  OBVIOUS
<1>1. PICK m \in T : \A k \in T : ~(<<k, m>> \in OpToRel(<, Nat))
  BY NatLessThanWellFounded, WFMin
<1>2. m \in Nat /\ m # 0
  OBVIOUS
<1>3. m - 1 \in Nat /\ m - 1 \notin S
  BY <1>2
<1>4. <<m - 1, m>> \in OpToRel(<, Nat)
  BY <1>2, <1>3 DEF OpToRel
<1> QED BY <1>1, <1>3, <1>4

\* What holds of the empty list and is kept by Append holds of every list.
LEMMA ListInduction ==
  ASSUME NEW A, NEW T, <<>> \in T,
         \A l \in Seq(A) : \A e \in A : l \in T => Append(l, e) \in T
  PROVE  Seq(A) \subseteq T
<1> DEFINE N == {n \in Nat : \A l \in Seq(A) : Len(l) = n => l \in T}
<1>1. 0 \in N
  <2>1. \A l \in Seq(A) : Len(l) = 0 => l = <<>>
    BY EmptySeq
  <2> QED BY <2>1
<1>2. ASSUME NEW n \in Nat, n \in N PROVE n + 1 \in N
  <2> SUFFICES ASSUME NEW l \in Seq(A), Len(l) = n + 1 PROVE l \in T
    OBVIOUS
  <2>1. l # <<>>
    BY EmptySeq
  <2>2. PICK f \in Seq(A) : \E e \in A : l = Append(f, e)
    BY <2>1, SequenceEmptyOrAppend
  <2>3. PICK e \in A : l = Append(f, e)
    BY <2>2
  <2>4. Len(f) = n
    BY <2>3, AppendProperties, LenProperties
  <2> QED BY <1>2, <2>3, <2>4
<1>3. Nat \subseteq N
  BY <1>1, <1>2, Induction
<1> QED BY <1>3, LenProperties

\* The recursion that Only is defined by
Keeps(list, S, f, n) ==
  /\ f[0] = <<>>
  /\ \A i \in 1..n : f[i] = IF list[i] \in S THEN Append(f[i - 1], list[i]) ELSE f[i - 1]

LEMMA KeepsExist ==
  ASSUME NEW A, NEW list \in Seq(A), NEW S
  PROVE  \E f : f = [n \in 0..Len(list) |-> f[n]] /\ Keeps(list, S, f, Len(list))
<1> DEFINE N == {n \in Nat : n <= Len(list) =>
                   \E f : f = [i \in 0..n |-> f[i]] /\ Keeps(list, S, f, n)}
<1>0. Len(list) \in Nat
  BY LenProperties
<1>1. 0 \in N
  <2> DEFINE f == [i \in 0..0 |-> <<>>]
  <2>1. f = [i \in 0..0 |-> f[i]] /\ Keeps(list, S, f, 0)
    BY DEF Keeps
  <2> QED BY <2>1
<1>2. ASSUME NEW n \in Nat, n \in N PROVE n + 1 \in N
  <2> SUFFICES ASSUME n + 1 <= Len(list)
               PROVE  \E f : f = [i \in 0..(n + 1) |-> f[i]] /\ Keeps(list, S, f, n + 1)
    OBVIOUS
  <2>1. PICK f : f = [i \in 0..n |-> f[i]] /\ Keeps(list, S, f, n)
    BY <1>0, <1>2
  <2> DEFINE last == IF list[n + 1] \in S THEN Append(f[n], list[n + 1]) ELSE f[n]
             g == [i \in 0..(n + 1) |-> IF i = n + 1 THEN last ELSE f[i]]
  <2> HIDE DEF last
  <2>2. g = [i \in 0..(n + 1) |-> g[i]]
    OBVIOUS
  <2>3. g[n] = f[n] /\ g[n + 1] = last /\ g[0] = f[0]
    OBVIOUS
  <2>4. ASSUME NEW i \in 1..n PROVE g[i] = f[i] /\ g[i - 1] = f[i - 1]
    OBVIOUS
  <2> HIDE DEF g
  <2>5. ASSUME NEW i \in 1..(n + 1)
        PROVE  g[i] = IF list[i] \in S THEN Append(g[i - 1], list[i]) ELSE g[i - 1]
    <3>1. CASE i = n + 1
      <4>1. i - 1 = n
        BY <3>1
      <4> QED BY <2>3, <3>1, <4>1 DEF last
    <3>2. CASE i # n + 1
      <4>1. i \in 1..n
        BY <3>2
      <4> QED BY <2>1, <2>4, <4>1 DEF Keeps
    <3> QED BY <3>1, <3>2
  <2>6. Keeps(list, S, g, n + 1)
    BY <2>1, <2>3, <2>5 DEF Keeps
  <2> QED BY <2>2, <2>6
<1>3. Nat \subseteq N
  BY <1>1, <1>2, Induction
<1> QED BY <1>0, <1>3

LEMMA OnlyKeeps ==
  ASSUME NEW A, NEW list \in Seq(A), NEW S
  PROVE  \E f : Keeps(list, S, f, Len(list)) /\ Only(list, S) = f[Len(list)]
<1> DEFINE Step(f) == [n \in 0..Len(list) |->
                         IF n = 0 THEN <<>>
                         ELSE IF list[n] \in S THEN Append(f[n - 1], list[n]) ELSE f[n - 1]]
           kept == CHOOSE f : f = Step(f)
<1>0. Len(list) \in Nat
  BY LenProperties
<1>1. Only(list, S) = kept[Len(list)]
  BY DEF Only
<1>2. PICK f : f = [n \in 0..Len(list) |-> f[n]] /\ Keeps(list, S, f, Len(list))
  BY KeepsExist
<1>3. f = Step(f)
  <2>1. ASSUME NEW n \in 0..Len(list)
        PROVE f[n] = IF n = 0 THEN <<>>
                     ELSE IF list[n] \in S THEN Append(f[n - 1], list[n]) ELSE f[n - 1]
    BY <1>0, <1>2 DEF Keeps
  <2> QED BY <1>2, <2>1
<1>4. kept = Step(kept)
  BY <1>3
<1> HIDE DEF kept
<1>5. kept[0] = <<>>
  BY <1>0, <1>4
<1>6. ASSUME NEW i \in 1..Len(list)
      PROVE  kept[i] = IF list[i] \in S THEN Append(kept[i - 1], list[i]) ELSE kept[i - 1]
  <2>1. i \in 0..Len(list) /\ i # 0
    BY <1>0
  <2>2. kept[i] = Step(kept)[i]
    BY <1>4
  <2> QED BY <2>1, <2>2
<1> QED BY <1>1, <1>5, <1>6 DEF Keeps

\* The first n elements decide what is kept of them.
LEMMA KeptAgree ==
  ASSUME NEW S, NEW T, NEW k, NEW l, NEW f, NEW g, NEW m \in Nat, Keeps(k, S, f, m), Keeps(l, T, g, m),
         \A i \in 1..m : k[i] = l[i] /\ (k[i] \in S <=> l[i] \in T)
  PROVE  f[m] = g[m]
<1> DEFINE N == {n \in Nat : n <= m => f[n] = g[n]}
<1>1. 0 \in N
  BY DEF Keeps
<1>2. ASSUME NEW n \in Nat, n \in N PROVE n + 1 \in N
  <2> SUFFICES ASSUME n + 1 <= m PROVE f[n + 1] = g[n + 1]
    OBVIOUS
  <2>1. n + 1 \in 1..m /\ f[n] = g[n] /\ (n + 1) - 1 = n
    BY <1>2
  <2>2. f[n + 1] = IF k[n + 1] \in S THEN Append(f[n], k[n + 1]) ELSE f[n]
    BY <2>1 DEF Keeps
  <2>3. g[n + 1] = IF l[n + 1] \in T THEN Append(g[n], l[n + 1]) ELSE g[n]
    BY <2>1 DEF Keeps
  <2> QED BY <2>1, <2>2, <2>3
<1>3. Nat \subseteq N
  BY <1>1, <1>2, Induction
<1> QED BY <1>3

LEMMA OnlyEmpty ==
  ASSUME NEW S PROVE Only(<<>>, S) = <<>>
<1>1. <<>> \in Seq({}) /\ Len(<<>>) = 0
  BY EmptySeq
<1>2. PICK f : Keeps(<<>>, S, f, Len(<<>>)) /\ Only(<<>>, S) = f[Len(<<>>)]
  BY <1>1, OnlyKeeps
<1> QED BY <1>1, <1>2 DEF Keeps

LEMMA OnlyAppend ==
  ASSUME NEW A, NEW l \in Seq(A), NEW e \in A, NEW S
  PROVE  Only(Append(l, e), S) = IF e \in S THEN Append(Only(l, S), e) ELSE Only(l, S)
<1> DEFINE k == Append(l, e)
           n == Len(l)
<1>1. /\ k \in Seq(A) /\ n \in Nat /\ Len(k) = n + 1 /\ k[n + 1] = e
      /\ \A i \in 1..n : k[i] = l[i]
  BY AppendProperties, LenProperties
<1>2. PICK f : Keeps(l, S, f, n) /\ Only(l, S) = f[n]
  BY OnlyKeeps
<1>3. PICK g : Keeps(k, S, g, Len(k)) /\ Only(k, S) = g[Len(k)]
  BY <1>1, OnlyKeeps
<1> HIDE DEF k, n
<1>4. Keeps(k, S, g, n)
  BY <1>1, <1>3 DEF Keeps
<1>5. f[n] = g[n]
  BY <1>1, <1>2, <1>4, KeptAgree
<1>6. g[n + 1] = IF k[n + 1] \in S THEN Append(g[n], k[n + 1]) ELSE g[n]
  <2>1. n + 1 \in 1..Len(k) /\ (n + 1) - 1 = n
    BY <1>1
  <2> QED BY <1>3, <2>1 DEF Keeps
<1>7. Only(k, S) = IF e \in S THEN Append(Only(l, S), e) ELSE Only(l, S)
  BY <1>1, <1>2, <1>3, <1>5, <1>6
<1> QED BY <1>7 DEF k

\* Sets that agree on the elements of a list keep the same of it.
LEMMA OnlyAgree ==
  ASSUME NEW A, NEW l \in Seq(A), NEW S, NEW T, \A i \in 1..Len(l) : l[i] \in S <=> l[i] \in T
  PROVE  Only(l, S) = Only(l, T)
<1>1. PICK f : Keeps(l, S, f, Len(l)) /\ Only(l, S) = f[Len(l)]
  BY OnlyKeeps
<1>2. PICK g : Keeps(l, T, g, Len(l)) /\ Only(l, T) = g[Len(l)]
  BY OnlyKeeps
<1> QED BY <1>1, <1>2, KeptAgree, LenProperties

LEMMA OnlyTyped ==
  ASSUME NEW A, NEW l \in Seq(A), NEW S
  PROVE  Only(l, S) \in Seq(A \cap S)
<1> DEFINE T == {k \in Seq(A) : Only(k, S) \in Seq(A \cap S)}
<1>1. <<>> \in T
  BY EmptySeq, OnlyEmpty
<1>2. ASSUME NEW k \in Seq(A), NEW e \in A, k \in T PROVE Append(k, e) \in T
  <2>1. Append(k, e) \in Seq(A)
    BY AppendProperties
  <2>2. Only(k, S) \in Seq(A \cap S)
    BY <1>2
  <2>3. e \in S => Append(Only(k, S), e) \in Seq(A \cap S)
    BY <2>2, AppendProperties
  <2>4. Only(Append(k, e), S) \in Seq(A \cap S)
    BY <2>2, <2>3, OnlyAppend
  <2> QED BY <2>1, <2>4
<1>3. Seq(A) \subseteq T
  BY <1>1, <1>2, ListInduction
<1> QED BY <1>3

\* Nothing is kept that is not in the list.
LEMMA OnlyFrom ==
  ASSUME NEW A, NEW l \in Seq(A), NEW S, NEW j \in 1..Len(Only(l, S))
  PROVE  /\ Only(l, S)[j] \in A /\ Only(l, S)[j] \in S
         /\ \E i \in 1..Len(l) : l[i] = Only(l, S)[j]
<1>1. Only(l, S)[j] \in A \cap S
  BY OnlyTyped, ElementOfSeq
<1>2. l \in Seq(Range(l)) /\ Range(l) = {l[i] : i \in 1..Len(l)}
  BY SeqOfRange, RangeEquality
<1>3. Only(l, S)[j] \in Range(l) \cap S
  BY <1>2, OnlyTyped, ElementOfSeq
<1> QED BY <1>1, <1>2, <1>3

\* What is in the set is kept.
LEMMA OnlyHas ==
  ASSUME NEW A, NEW l \in Seq(A), NEW S, NEW i \in 1..Len(l), l[i] \in S
  PROVE  \E j \in 1..Len(Only(l, S)) : Only(l, S)[j] = l[i]
<1> DEFINE T == {k \in Seq(A) : \A n \in 1..Len(k) : k[n] \in S =>
                   \E j \in 1..Len(Only(k, S)) : Only(k, S)[j] = k[n]}
<1>1. <<>> \in T
  BY EmptySeq
<1>2. ASSUME NEW k \in Seq(A), NEW e \in A, k \in T PROVE Append(k, e) \in T
  <2> DEFINE m == Only(k, S)
             ke == Append(k, e)
  <2>1. /\ ke \in Seq(A) /\ Len(k) \in Nat /\ Len(ke) = Len(k) + 1 /\ ke[Len(k) + 1] = e
        /\ \A n \in 1..Len(k) : ke[n] = k[n]
    BY AppendProperties, LenProperties
  <2>2. Only(ke, S) = IF e \in S THEN Append(m, e) ELSE m
    BY OnlyAppend
  <2>3. m \in Seq(A \cap S) /\ Len(m) \in Nat
    BY OnlyTyped, LenProperties
  <2>4. \A n \in 1..Len(k) : k[n] \in S => \E j \in 1..Len(m) : m[j] = k[n]
    BY <1>2
  <2> HIDE DEF m, ke
  <2>5. e \in S => /\ Len(Append(m, e)) = Len(m) + 1 /\ Append(m, e)[Len(m) + 1] = e
                   /\ \A j \in 1..Len(m) : Append(m, e)[j] = m[j]
    BY <2>3, AppendProperties
  <2>6. ASSUME NEW n \in 1..Len(ke), ke[n] \in S
        PROVE  \E j \in 1..Len(Only(ke, S)) : Only(ke, S)[j] = ke[n]
    <3>1. CASE n = Len(k) + 1
      <4>1. e \in S /\ Len(m) + 1 \in 1..(Len(m) + 1)
        BY <2>1, <2>3, <2>6, <3>1
      <4> QED BY <2>1, <2>2, <2>5, <3>1, <4>1
    <3>2. CASE n # Len(k) + 1
      <4>1. n \in 1..Len(k) /\ ke[n] = k[n]
        BY <2>1, <3>2
      <4>2. PICK j \in 1..Len(m) : m[j] = k[n]
        BY <2>4, <2>6, <4>1
      <4>3. e \in S => j \in 1..Len(Append(m, e)) /\ Append(m, e)[j] = k[n]
        BY <2>3, <2>5, <4>2
      <4> QED BY <2>2, <4>1, <4>2, <4>3
    <3> QED BY <3>1, <3>2
  <2> QED BY <2>1, <2>6 DEF ke
<1>3. Seq(A) \subseteq T
  BY <1>1, <1>2, ListInduction
<1> QED BY <1>3

LEMMA OnlyOnly ==
  ASSUME NEW A, NEW l \in Seq(A), NEW S, NEW T
  PROVE  Only(Only(l, S), T) = Only(l, S \cap T)
<1> DEFINE U == {k \in Seq(A) : Only(Only(k, S), T) = Only(k, S \cap T)}
<1>1. <<>> \in U
  BY EmptySeq, OnlyEmpty
<1>2. ASSUME NEW k \in Seq(A), NEW e \in A, k \in U PROVE Append(k, e) \in U
  <2>1. Append(k, e) \in Seq(A)
    BY AppendProperties
  <2>2. Only(k, S) \in Seq(A \cap S)
    BY OnlyTyped
  <2>3. Only(Only(k, S), T) = Only(k, S \cap T)
    BY <1>2
  <2>4. CASE e \in S
    <3>1. Only(Append(k, e), S) = Append(Only(k, S), e)
      BY <2>4, OnlyAppend
    <3>2. Only(Append(Only(k, S), e), T)
          = IF e \in T THEN Append(Only(Only(k, S), T), e) ELSE Only(Only(k, S), T)
      <4>1. PICK C : C = A \cap S
        OBVIOUS
      <4>2. Only(k, S) \in Seq(C) /\ e \in C
        BY <2>2, <2>4, <4>1
      <4> QED BY <4>2, OnlyAppend
    <3>3. Only(Append(k, e), S \cap T)
          = IF e \in T THEN Append(Only(k, S \cap T), e) ELSE Only(k, S \cap T)
      BY <2>4, OnlyAppend
    <3>4. Only(Only(Append(k, e), S), T) = Only(Append(k, e), S \cap T)
      BY <2>3, <3>1, <3>2, <3>3
    <3> QED BY <2>1, <3>4
  <2>5. CASE e \notin S
    <3>1. Only(Append(k, e), S) = Only(k, S)
      BY <2>5, OnlyAppend
    <3>2. Only(Append(k, e), S \cap T) = Only(k, S \cap T)
      BY <2>5, OnlyAppend
    <3> QED BY <2>1, <2>3, <3>1, <3>2
  <2> QED BY <2>4, <2>5
<1>3. Seq(A) \subseteq U
  BY <1>1, <1>2, ListInduction
<1> QED BY <1>3

\* Two lists of which each element is in a relation with its counterpart
Matches(R, l, d) ==
  Len(l) = Len(d) /\ \A i \in 1..Len(l) : <<l[i], d[i]>> \in R

LEMMA MatchesAppend ==
  ASSUME NEW A, NEW B, NEW R, NEW l \in Seq(A), NEW d \in Seq(B), Matches(R, l, d),
         NEW x \in A, NEW y \in B, <<x, y>> \in R
  PROVE  Matches(R, Append(l, x), Append(d, y))
<1>1. /\ Len(Append(l, x)) = Len(l) + 1 /\ Append(l, x)[Len(l) + 1] = x
      /\ \A i \in 1..Len(l) : Append(l, x)[i] = l[i]
      /\ Len(l) \in Nat
  BY AppendProperties, LenProperties
<1>2. /\ Len(Append(d, y)) = Len(d) + 1 /\ Append(d, y)[Len(d) + 1] = y
      /\ \A i \in 1..Len(d) : Append(d, y)[i] = d[i]
  BY AppendProperties
<1>3. Len(l) = Len(d) /\ \A i \in 1..Len(l) : <<l[i], d[i]>> \in R
  BY DEF Matches
<1> SUFFICES ASSUME NEW i \in 1..(Len(l) + 1)
             PROVE <<Append(l, x)[i], Append(d, y)[i]>> \in R
  BY <1>1, <1>2, <1>3 DEF Matches
<1>4. CASE i = Len(l) + 1
  BY <1>1, <1>2, <1>3, <1>4
<1>5. CASE i # Len(l) + 1
  <2>1. i \in 1..Len(l)
    BY <1>1, <1>5
  <2> QED BY <1>1, <1>2, <1>3, <2>1
<1> QED BY <1>4, <1>5

\* The same is kept of both, if the sets agree on counterparts.
LEMMA OnlyMatches ==
  ASSUME NEW A, NEW B, NEW R, NEW l \in Seq(A), NEW d \in Seq(B), Matches(R, l, d),
         NEW S, NEW T, \A i \in 1..Len(l) : l[i] \in S <=> d[i] \in T
  PROVE  Matches(R, Only(l, S), Only(d, T))
<1> DEFINE Agree(k, c) == \A i \in 1..Len(k) : k[i] \in S <=> c[i] \in T
           U == {k \in Seq(A) : \A c \in Seq(B) :
                   Matches(R, k, c) /\ Agree(k, c) => Matches(R, Only(k, S), Only(c, T))}
<1>1. <<>> \in U
  <2>1. <<>> \in Seq(A) /\ Len(<<>>) = 0
    BY EmptySeq
  <2>2. ASSUME NEW c \in Seq(B), Matches(R, <<>>, c) PROVE c = <<>>
    <3>1. Len(c) = 0
      BY <2>1, <2>2 DEF Matches
    <3> QED BY <3>1, EmptySeq
  <2>3. Only(<<>>, S) = <<>> /\ Only(<<>>, T) = <<>>
    BY OnlyEmpty
  <2> QED BY <2>1, <2>2, <2>3
<1>2. ASSUME NEW k \in Seq(A), NEW x \in A, k \in U PROVE Append(k, x) \in U
  <2> DEFINE kx == Append(k, x)
  <2>1. /\ kx \in Seq(A) /\ Len(k) \in Nat /\ Len(kx) = Len(k) + 1 /\ kx[Len(k) + 1] = x
        /\ \A n \in 1..Len(k) : kx[n] = k[n]
    BY AppendProperties, LenProperties
  <2> HIDE DEF kx
  <2>2. ASSUME NEW e \in Seq(B), Matches(R, kx, e), Agree(kx, e)
        PROVE  Matches(R, Only(kx, S), Only(e, T))
    <3>1. e # <<>>
      <4>1. Len(e) = Len(k) + 1
        BY <2>1, <2>2 DEF Matches
      <4> QED BY <2>1, <4>1, EmptySeq
    <3>2. PICK c \in Seq(B) : \E y \in B : e = Append(c, y)
      BY <3>1, SequenceEmptyOrAppend
    <3>3. PICK y \in B : e = Append(c, y)
      BY <3>2
    <3>4. /\ Len(e) = Len(c) + 1 /\ e[Len(c) + 1] = y /\ Len(c) \in Nat
          /\ \A n \in 1..Len(c) : e[n] = c[n]
      BY <3>3, AppendProperties, LenProperties
    <3>5. Len(c) = Len(k) /\ \A i \in 1..(Len(k) + 1) : <<kx[i], e[i]>> \in R
      BY <2>1, <2>2, <3>4 DEF Matches
    <3>6. \A i \in 1..(Len(k) + 1) : kx[i] \in S <=> e[i] \in T
      BY <2>1, <2>2
    <3>7. \A i \in 1..Len(k) : i \in 1..(Len(k) + 1)
      BY <2>1
    <3>8. Matches(R, k, c) /\ Agree(k, c)
      BY <2>1, <3>4, <3>5, <3>6, <3>7 DEF Matches
    <3>9. <<x, y>> \in R /\ (x \in S <=> y \in T)
      <4>1. Len(k) + 1 \in 1..(Len(k) + 1)
        BY <2>1
      <4> QED BY <2>1, <3>4, <3>5, <3>6, <4>1
    <3>10. Matches(R, Only(k, S), Only(c, T))
      BY <1>2, <3>8
    <3>11. Only(k, S) \in Seq(A) /\ Only(c, T) \in Seq(B)
      <4>1. A \cap S \subseteq A /\ B \cap T \subseteq B
        OBVIOUS
      <4> QED BY <4>1, OnlyTyped, SeqMonotonic
    <3>12. Only(kx, S) = IF x \in S THEN Append(Only(k, S), x) ELSE Only(k, S)
      BY OnlyAppend DEF kx
    <3>13. Only(e, T) = IF y \in T THEN Append(Only(c, T), y) ELSE Only(c, T)
      BY <3>3, OnlyAppend
    <3>14. x \in S => Matches(R, Append(Only(k, S), x), Append(Only(c, T), y))
      BY <3>9, <3>10, <3>11, MatchesAppend
    <3> QED BY <3>9, <3>10, <3>12, <3>13, <3>14
  <2> QED BY <2>1, <2>2 DEF kx
<1>3. Seq(A) \subseteq U
  BY <1>1, <1>2, ListInduction
<1> QED BY <1>3

\* Where the element at f is kept, and stays kept when it is changed to e
KeptAt(list, S, P, f, e) ==
  \E g \in 1..Len(Only(list, S)) :
    /\ Only(list, S)[g] = list[f]
    /\ \A j \in 1..Len(Only(list, S)) : j < g => Only(list, S)[j] \notin P
    /\ Only([list EXCEPT ![f] = e], S) = [Only(list, S) EXCEPT ![g] = e]

\* An element that stays in the set is changed where it is kept; it is kept
\* first of those in P if it is the first of them in the list.
LEMMA OnlyChanged ==
  ASSUME NEW A, NEW list \in Seq(A), NEW S, NEW P, NEW f \in 1..Len(list),
         list[f] \in S, list[f] \in P, \A j \in 1..Len(list) : j < f => list[j] \notin P,
         NEW e \in A, e \in S
  PROVE  KeptAt(list, S, P, f, e)
<1> DEFINE First(l, k) == /\ l[k] \in S /\ l[k] \in P
                          /\ \A j \in 1..Len(l) : j < k => l[j] \notin P
           Kept(l, k, m, g) == /\ m[g] = l[k]
                               /\ \A j \in 1..Len(m) : j < g => m[j] \notin P
                               /\ Only([l EXCEPT ![k] = e], S) = [m EXCEPT ![g] = e]
           T == {l \in Seq(A) : \A k \in 1..Len(l) :
                   First(l, k) => \E g \in 1..Len(Only(l, S)) : Kept(l, k, Only(l, S), g)}
<1>1. <<>> \in T
  BY EmptySeq
<1>2. ASSUME NEW l \in Seq(A), NEW x \in A, l \in T PROVE Append(l, x) \in T
  <2> DEFINE lx == Append(l, x)
             m == Only(l, S)
             n == Len(l)
  <2>1. /\ lx \in Seq(A) /\ n \in Nat /\ Len(lx) = n + 1 /\ lx[n + 1] = x
        /\ \A i \in 1..n : lx[i] = l[i]
    BY AppendProperties, LenProperties
  <2>2. Only(lx, S) = IF x \in S THEN Append(m, x) ELSE m
    BY OnlyAppend
  <2>3. m \in Seq(A) /\ Len(m) \in Nat
    <3>1. m \in Seq(A \cap S) /\ A \cap S \subseteq A
      BY OnlyTyped
    <3> QED BY <3>1, SeqMonotonic, LenProperties
  <2>4. ASSUME NEW i \in 1..Len(m) PROVE \E j \in 1..n : m[i] = l[j]
    BY OnlyFrom
  <2>5. \A k \in 1..n : First(l, k) => \E g \in 1..Len(m) : Kept(l, k, m, g)
    BY <1>2
  <2>6. Len(m) \in Nat
    BY <2>3
  <2> HIDE DEF m, n, Kept, First, T
  <2>7. /\ Append(m, x) \in Seq(A) /\ Len(Append(m, x)) = Len(m) + 1
        /\ Append(m, x)[Len(m) + 1] = x
        /\ \A j \in 1..Len(m) : Append(m, x)[j] = m[j]
    BY <2>3, AppendProperties
  <2> SUFFICES ASSUME NEW k \in 1..(n + 1), First(lx, k)
               PROVE  \E g \in 1..Len(Only(lx, S)) : Kept(lx, k, Only(lx, S), g)
    BY <2>1 DEF T
  <2>8. CASE k = n + 1
    <3>1. x \in S /\ x \in P
      BY <2>1, <2>8 DEF First
    <3>2. \A j \in 1..n : l[j] \notin P
      <4>1. ASSUME NEW j \in 1..n PROVE lx[j] \notin P
        <5>1. j \in 1..Len(lx) /\ j < k
          BY <2>1, <2>8
        <5> QED BY <5>1 DEF First
      <4> QED BY <2>1, <4>1
    <3>3. \A j \in 1..Len(m) : m[j] \notin P
      BY <2>4, <3>2
    <3>4. [lx EXCEPT ![n + 1] = e] = Append(l, e)
      <4>1. /\ [lx EXCEPT ![n + 1] = e] \in Seq(A) /\ Len([lx EXCEPT ![n + 1] = e]) = n + 1
            /\ \A j \in 1..(n + 1) : [lx EXCEPT ![n + 1] = e][j] = IF j = n + 1 THEN e ELSE lx[j]
        <5>1. n + 1 \in 1..Len(lx)
          BY <2>1
        <5> HIDE DEF lx
        <5> QED BY <2>1, <5>1, ExceptSeq
      <4>2. /\ Append(l, e) \in Seq(A) /\ Len(Append(l, e)) = n + 1 /\ Append(l, e)[n + 1] = e
            /\ \A j \in 1..n : Append(l, e)[j] = l[j]
        BY AppendProperties DEF n
      <4>3. \A j \in 1..(n + 1) : [lx EXCEPT ![n + 1] = e][j] = Append(l, e)[j]
        <5> TAKE j \in 1..(n + 1)
        <5>1. j = n + 1 \/ j \in 1..n
          BY <2>1
        <5> HIDE DEF lx
        <5> QED BY <2>1, <4>1, <4>2, <5>1
      <4> HIDE DEF lx
      <4> QED BY <4>1, <4>2, <4>3, SeqEqual
    <3>5. Only(Append(l, e), S) = Append(m, e)
      BY OnlyAppend DEF m
    <3> DEFINE mx == Append(m, x)
               p == Len(m) + 1
    <3>6. [mx EXCEPT ![p] = e] = Append(m, e)
      <4>0. p \in 1..Len(mx)
        BY <2>3, <2>7
      <4>1. /\ [mx EXCEPT ![p] = e] \in Seq(A) /\ Len([mx EXCEPT ![p] = e]) = p
            /\ \A j \in 1..p : [mx EXCEPT ![p] = e][j] = IF j = p THEN e ELSE mx[j]
        <5> HIDE DEF mx, p
        <5>1. mx \in Seq(A) /\ Len(mx) = p
          BY <2>7 DEF mx, p
        <5> QED BY <4>0, <5>1, ExceptSeq
      <4>2. /\ Append(m, e) \in Seq(A) /\ Len(Append(m, e)) = p /\ Append(m, e)[p] = e
            /\ \A j \in 1..Len(m) : Append(m, e)[j] = m[j]
        BY <2>3, AppendProperties
      <4>3. \A j \in 1..p : [mx EXCEPT ![p] = e][j] = Append(m, e)[j]
        <5> TAKE j \in 1..p
        <5>1. j = p \/ (j \in 1..Len(m) /\ j # p)
          BY <2>3
        <5>2. j \in 1..Len(m) => mx[j] = m[j]
          BY <2>7
        <5> HIDE DEF mx, p
        <5> QED BY <4>1, <4>2, <5>1, <5>2
      <4> HIDE DEF mx, p
      <4> QED BY <4>1, <4>2, <4>3, SeqEqual
    <3>7. Only(lx, S) = mx /\ p \in 1..Len(mx) /\ mx[p] = x /\ lx[k] = x
      BY <2>1, <2>2, <2>3, <2>7, <2>8, <3>1
    <3>8. \A j \in 1..Len(mx) : j < p => mx[j] \notin P
      <4> SUFFICES ASSUME NEW j \in 1..Len(mx), j < p PROVE mx[j] \notin P
        OBVIOUS
      <4>1. j \in 1..Len(m)
        BY <2>3, <2>7
      <4> QED BY <2>7, <3>3, <4>1
    <3>9. Only([lx EXCEPT ![k] = e], S) = [mx EXCEPT ![p] = e]
      BY <2>8, <3>4, <3>5, <3>6
    <3> HIDE DEF mx, p, lx
    <3>10. Kept(lx, k, mx, p)
      BY <3>7, <3>8, <3>9 DEF Kept
    <3> QED BY <3>7, <3>10
  <2>9. CASE k # n + 1
    <3>1. k \in 1..n /\ lx[k] = l[k]
      BY <2>1, <2>9
    <3>2. First(l, k)
      <4>1. ASSUME NEW j \in 1..n, j < k PROVE l[j] \notin P
        <5>1. j \in 1..Len(lx)
          BY <2>1
        <5>2. lx[j] \notin P
          BY <4>1, <5>1 DEF First
        <5> QED BY <2>1, <5>2
      <4> QED BY <3>1, <4>1 DEF First, n
    <3>3. PICK g \in 1..Len(m) : Kept(l, k, m, g)
      BY <2>5, <3>1, <3>2
    <3> DEFINE le == [l EXCEPT ![k] = e]
               me == [m EXCEPT ![g] = e]
    <3>4. le \in Seq(A) /\ Len(le) = n /\ \A j \in 1..n : le[j] = IF j = k THEN e ELSE l[j]
      BY <3>1, ExceptSeq DEF n
    <3>5. me \in Seq(A) /\ Len(me) = Len(m) /\ \A j \in 1..Len(m) : me[j] = IF j = g THEN e ELSE m[j]
      BY <2>3, ExceptSeq
    <3>6. Only(le, S) = me
      BY <3>3 DEF Kept
    <3>7. [lx EXCEPT ![k] = e] = Append(le, x)
      <4>1. /\ [lx EXCEPT ![k] = e] \in Seq(A) /\ Len([lx EXCEPT ![k] = e]) = n + 1
            /\ \A j \in 1..(n + 1) : [lx EXCEPT ![k] = e][j] = IF j = k THEN e ELSE lx[j]
        <5> HIDE DEF lx
        <5> QED BY <2>1, ExceptSeq
      <4>2. /\ Append(le, x) \in Seq(A) /\ Len(Append(le, x)) = n + 1 /\ Append(le, x)[n + 1] = x
            /\ \A j \in 1..n : Append(le, x)[j] = le[j]
        <5> HIDE DEF le
        <5> QED BY <3>4, AppendProperties
      <4>3. \A j \in 1..(n + 1) : [lx EXCEPT ![k] = e][j] = Append(le, x)[j]
        <5> TAKE j \in 1..(n + 1)
        <5>1. j = n + 1 \/ j \in 1..n
          BY <2>1
        <5> HIDE DEF lx, le
        <5> QED BY <2>1, <2>9, <3>4, <4>1, <4>2, <5>1
      <4> HIDE DEF lx, le
      <4> QED BY <4>1, <4>2, <4>3, SeqEqual
    <3>8. Only(Append(le, x), S) = IF x \in S THEN Append(me, x) ELSE me
      <4> HIDE DEF le
      <4> QED BY <3>4, <3>6, OnlyAppend
    <3>9. CASE x \notin S
      <4>1. Only(lx, S) = m /\ Only([lx EXCEPT ![k] = e], S) = [m EXCEPT ![g] = e]
        BY <2>2, <3>7, <3>8, <3>9
      <4>2. m[g] = lx[k] /\ \A j \in 1..Len(m) : j < g => m[j] \notin P
        BY <3>1, <3>3 DEF Kept
      <4> HIDE DEF lx
      <4>3. Kept(lx, k, m, g)
        BY <4>1, <4>2 DEF Kept
      <4> QED BY <4>1, <4>3
    <3>10. CASE x \in S
      <4> DEFINE mx == Append(m, x)
      <4>1. Only(lx, S) = mx /\ Only([lx EXCEPT ![k] = e], S) = Append(me, x)
        BY <2>2, <3>7, <3>8, <3>10
      <4>2. g \in 1..Len(mx) /\ g # Len(m) + 1 /\ Len(mx) = Len(m) + 1 /\ mx[g] = m[g]
        BY <2>3, <2>7
      <4>3. [mx EXCEPT ![g] = e] = Append(me, x)
        <5>1. /\ [mx EXCEPT ![g] = e] \in Seq(A) /\ Len([mx EXCEPT ![g] = e]) = Len(m) + 1
              /\ \A j \in 1..(Len(m) + 1) : [mx EXCEPT ![g] = e][j] = IF j = g THEN e ELSE mx[j]
          <6>1. mx \in Seq(A)
            BY <2>7
          <6> HIDE DEF mx
          <6> QED BY <4>2, <6>1, ExceptSeq
        <5>2. /\ Append(me, x) \in Seq(A) /\ Len(Append(me, x)) = Len(m) + 1
              /\ Append(me, x)[Len(m) + 1] = x
              /\ \A j \in 1..Len(m) : Append(me, x)[j] = me[j]
          <6>1. me \in Seq(A) /\ Len(me) = Len(m)
            BY <3>5
          <6> HIDE DEF me
          <6>2. /\ Append(me, x) \in Seq(A) /\ Len(Append(me, x)) = Len(me) + 1
                /\ Append(me, x)[Len(me) + 1] = x
                /\ \A j \in 1..Len(me) : Append(me, x)[j] = me[j]
            <7>1. \A z \in Seq(A) : /\ Append(z, x) \in Seq(A) /\ Len(Append(z, x)) = Len(z) + 1
                                    /\ Append(z, x)[Len(z) + 1] = x
                                    /\ \A j \in 1..Len(z) : Append(z, x)[j] = z[j]
              BY AppendProperties
            <7> QED BY <6>1, <7>1
          <6> QED BY <6>1, <6>2
        <5>3. \A j \in 1..(Len(m) + 1) : [mx EXCEPT ![g] = e][j] = Append(me, x)[j]
          <6> TAKE j \in 1..(Len(m) + 1)
          <6>1. j = Len(m) + 1 \/ j \in 1..Len(m)
            BY <2>6
          <6>2. mx[Len(m) + 1] = x /\ \A i \in 1..Len(m) : mx[i] = m[i]
            BY <2>7
          <6> HIDE DEF mx, me
          <6> QED BY <3>5, <4>2, <5>1, <5>2, <6>1, <6>2
        <5> HIDE DEF mx, me
        <5> QED BY <5>1, <5>2, <5>3, SeqEqual
      <4>4. m[g] = lx[k] /\ \A j \in 1..Len(m) : j < g => m[j] \notin P
        BY <3>1, <3>3 DEF Kept
      <4>5. \A j \in 1..Len(mx) : j < g => mx[j] \notin P
        <5> SUFFICES ASSUME NEW j \in 1..Len(mx), j < g PROVE mx[j] \notin P
          OBVIOUS
        <5>1. j \in 1..Len(m)
          BY <2>3, <4>2
        <5> QED BY <2>7, <4>4, <5>1
      <4> HIDE DEF lx, mx
      <4>6. Kept(lx, k, mx, g)
        BY <4>1, <4>2, <4>3, <4>4, <4>5 DEF Kept
      <4> QED BY <4>1, <4>2, <4>6
    <3> QED BY <3>9, <3>10
  <2> QED BY <2>8, <2>9
<1>3. Seq(A) \subseteq T
  BY <1>1, <1>2, ListInduction
<1>4. First(list, f)
  OBVIOUS
<1>5. \A k \in 1..Len(list) : First(list, k) =>
        \E g \in 1..Len(Only(list, S)) : Kept(list, k, Only(list, S), g)
  BY <1>3
<1>6. \E g \in 1..Len(Only(list, S)) : Kept(list, f, Only(list, S), g)
  BY <1>4, <1>5
<1> QED BY <1>6 DEF KeptAt

LEMMA HasMin ==
  ASSUME NEW U \in SUBSET Nat, U # {}
  PROVE  \E i \in U : \A j \in U : i <= j
<1>1. PICK i \in U : \A j \in U : ~(<<j, i>> \in OpToRel(<, Nat))
  BY NatLessThanWellFounded, WFMin
<1>2. ASSUME NEW j \in U PROVE i <= j
  <2>1. i \in Nat /\ j \in Nat
    OBVIOUS
  <2>2. j < i => <<j, i>> \in OpToRel(<, Nat)
    BY <2>1 DEF OpToRel
  <2>3. ~(j < i)
    BY <1>1, <2>2
  <2> QED BY <2>1, <2>3
<1> QED BY <1>2

LEMMA FirstIs ==
  ASSUME NEW A, NEW list \in Seq(A), NEW id, Has(list, id)
  PROVE  /\ FirstAt(list, id) \in 1..Len(list)
         /\ list[FirstAt(list, id)].id = id
         /\ \A j \in 1..Len(list) : j < FirstAt(list, id) => list[j].id # id
<1>1. DOMAIN list = 1..Len(list) /\ Len(list) \in Nat
  BY LenProperties
<1> DEFINE U == {i \in 1..Len(list) : list[i].id = id}
<1>2. U # {} /\ U \in SUBSET Nat
  BY <1>1 DEF Has
<1>3. PICK i \in U : \A j \in U : i <= j
  BY <1>2, HasMin
<1>5. \E x \in DOMAIN list :
        list[x].id = id /\ \A j \in DOMAIN list : list[j].id = id => x <= j
  BY <1>1, <1>3
<1>6. /\ FirstAt(list, id) \in DOMAIN list /\ list[FirstAt(list, id)].id = id
      /\ \A j \in DOMAIN list : list[j].id = id => FirstAt(list, id) <= j
  BY <1>5 DEF FirstAt
<1> QED BY <1>1, <1>6

LEMMA FirstIsAt ==
  ASSUME NEW A, NEW list \in Seq(A), NEW i \in 1..Len(list), NEW id, list[i].id = id,
         \A j \in 1..Len(list) : j < i => list[j].id # id
  PROVE  Has(list, id) /\ FirstAt(list, id) = i
<1>1. DOMAIN list = 1..Len(list) /\ Len(list) \in Nat
  BY LenProperties
<1>2. Has(list, id)
  BY <1>1 DEF Has
<1>3. /\ FirstAt(list, id) \in 1..Len(list)
      /\ list[FirstAt(list, id)].id = id
      /\ \A j \in 1..Len(list) : j < FirstAt(list, id) => list[j].id # id
  BY <1>2, FirstIs
<1> QED BY <1>1, <1>2, <1>3

LEMMA ChangedFirst ==
  ASSUME NEW A, NEW list \in Seq(A), NEW id, Has(list, id), NEW e \in A
  PROVE  /\ [list EXCEPT ![FirstAt(list, id)] = e] \in Seq(A)
         /\ Len([list EXCEPT ![FirstAt(list, id)] = e]) = Len(list)
         /\ \A j \in 1..Len(list) :
              [list EXCEPT ![FirstAt(list, id)] = e][j] = IF j = FirstAt(list, id) THEN e ELSE list[j]
<1>1. FirstAt(list, id) \in 1..Len(list)
  BY FirstIs
<1> HIDE DEF FirstAt
<1> QED BY <1>1, ExceptSeq

LEMMA RemovedTyped ==
  ASSUME NEW A, NEW list \in Seq(A), NEW id, NEW k \in Removed(list, id)
  PROVE  k \in Seq(A)
<1>1. k = Only(list, {e \in Range(list) : e.id # id})
  BY DEF Removed
<1>2. k \in Seq(A \cap {e \in Range(list) : e.id # id})
  BY <1>1, OnlyTyped
<1>3. A \cap {e \in Range(list) : e.id # id} \subseteq A
  OBVIOUS
<1> QED BY <1>2, <1>3, SeqMonotonic

LEMMA RemovedAt ==
  ASSUME NEW A, NEW list \in Seq(A), NEW i \in 1..Len(list)
  PROVE  /\ RemoveAt(list, i) \in Seq(A) /\ Len(RemoveAt(list, i)) = Len(list) - 1
         /\ \A j \in 1..(Len(list) - 1) :
              RemoveAt(list, i)[j] = IF j < i THEN list[j] ELSE list[j + 1]
<1> DEFINE n == Len(list)
           a == SubSeq(list, 1, i - 1)
           b == SubSeq(list, i + 1, n)
<1>1. n \in Nat /\ \A j \in 1..n : list[j] \in A
  BY LenProperties, ElementOfSeq
<1>2. /\ a \in Seq(A) /\ Len(a) = i - 1 /\ \A j \in 1..(i - 1) : a[j] = list[j]
  <2>1. i - 1 \in Int /\ \A j \in 1..(i - 1) : list[j] \in A
    BY <1>1
  <2>2. /\ a \in Seq(A) /\ Len(a) = IF 1 <= i - 1 THEN (i - 1) - 1 + 1 ELSE 0
        /\ \A j \in 1..((i - 1) - 1 + 1) : a[j] = list[1 + j - 1]
    BY <2>1, SubSeqProperties
  <2>3. i \in Nat /\ i >= 1
    BY <1>1
  <2>4. ASSUME NEW j \in 1..(i - 1) PROVE a[j] = list[j]
    <3>1. 1 + j - 1 = j /\ j \in 1..((i - 1) - 1 + 1)
      BY <2>3
    <3> HIDE DEF a
    <3>2. a[j] = list[1 + j - 1]
      BY <2>2, <3>1
    <3> QED BY <3>1, <3>2
  <2>5. (IF 1 <= i - 1 THEN (i - 1) - 1 + 1 ELSE 0) = i - 1
    BY <2>3
  <2> QED BY <2>2, <2>4, <2>5
<1>3. /\ b \in Seq(A) /\ Len(b) = n - i /\ \A j \in 1..(n - i) : b[j] = list[i + j]
  <2>1. i + 1 \in Int /\ n \in Int /\ \A j \in (i + 1)..n : list[j] \in A
    BY <1>1
  <2>2. /\ b \in Seq(A) /\ Len(b) = IF i + 1 <= n THEN n - (i + 1) + 1 ELSE 0
        /\ \A j \in 1..(n - (i + 1) + 1) : b[j] = list[(i + 1) + j - 1]
    BY <2>1, SubSeqProperties
  <2>3. i \in Nat /\ i >= 1 /\ i <= n
    BY <1>1
  <2>4. ASSUME NEW j \in 1..(n - i) PROVE b[j] = list[i + j]
    <3>1. (i + 1) + j - 1 = i + j /\ j \in 1..(n - (i + 1) + 1)
      BY <1>1, <2>3
    <3> HIDE DEF b
    <3>2. b[j] = list[(i + 1) + j - 1]
      BY <2>2, <3>1
    <3> QED BY <3>1, <3>2
  <2>5. (IF i + 1 <= n THEN n - (i + 1) + 1 ELSE 0) = n - i
    BY <1>1, <2>3
  <2> QED BY <2>2, <2>4, <2>5
<1>4. RemoveAt(list, i) = a \o b
  BY DEF RemoveAt
<1> HIDE DEF a, b, n
<1>5. /\ a \o b \in Seq(A) /\ Len(a \o b) = (i - 1) + (n - i)
      /\ \A j \in 1..((i - 1) + (n - i)) : (a \o b)[j] = IF j <= i - 1 THEN a[j] ELSE b[j - (i - 1)]
  <2>1. /\ a \o b \in Seq(A) /\ Len(a \o b) = Len(a) + Len(b)
        /\ \A j \in 1..(Len(a) + Len(b)) : (a \o b)[j] = IF j <= Len(a) THEN a[j] ELSE b[j - Len(a)]
    BY <1>2, <1>3, ConcatProperties
  <2>2. Len(a) = i - 1 /\ Len(b) = n - i
    BY <1>2, <1>3
  <2> QED BY <2>1, <2>2
<1>6. (i - 1) + (n - i) = n - 1 /\ i \in 1..n
  BY <1>1 DEF n
<1>7. ASSUME NEW j \in 1..(n - 1) PROVE (a \o b)[j] = IF j < i THEN list[j] ELSE list[j + 1]
  <2>1. (a \o b)[j] = IF j <= i - 1 THEN a[j] ELSE b[j - (i - 1)]
    BY <1>5, <1>6
  <2>2. CASE j < i
    <3>1. j \in 1..(i - 1) /\ j <= i - 1
      BY <1>1, <1>6, <2>2
    <3> QED BY <1>2, <2>1, <2>2, <3>1
  <2>3. CASE ~(j < i)
    <3>1. j - (i - 1) \in 1..(n - i) /\ ~(j <= i - 1) /\ i + (j - (i - 1)) = j + 1
      BY <1>1, <1>6, <2>3
    <3>2. b[j - (i - 1)] = list[i + (j - (i - 1))]
      BY <1>3, <3>1
    <3> QED BY <2>1, <2>3, <3>1, <3>2
  <2> QED BY <2>2, <2>3
<1> QED BY <1>4, <1>5, <1>6, <1>7 DEF n

-----------------------------------------------------------------------------
(* The document and the graph keep their types. *)

\* What the nodes, sends, points, lanes, tracks and buses of a document become
GraphNodes  == [id : Names, param : Int, bypass : BOOLEAN, tuned : BOOLEAN]
GraphSends  == [id : Names, dest : Names, pre : BOOLEAN, idx : Nat \cup {None}]
GraphPoints == [tick : Int, value : Int, curve : Curves]
GraphLanes  == [node : Names, param : Names, points : Seq(GraphPoints)]
GraphTracks == [mute : BOOLEAN, solo : BOOLEAN,
                inserts : Seq(GraphNodes), sends : Seq(GraphSends), lanes : Seq(GraphLanes)]
GraphBuses  == [id : Names, inserts : Seq(GraphNodes), sends : Seq(GraphSends)]
GraphMaster == [inserts : Seq(GraphNodes)]

IsGraph(g) ==
  /\ g = [tracks |-> g.tracks, buses |-> g.buses, master |-> g.master]
  /\ DOMAIN g.tracks \subseteq Names /\ g.tracks \in [DOMAIN g.tracks -> GraphTracks]
  /\ g.buses \in Seq(GraphBuses) /\ g.master \in GraphMaster

\* An operation on the document gives each of its parts a value of its type,
\* and so does one on the graph: first chains, then sends, lanes, tracks,
\* buses and the master.
LEMMA ProjectInsertsTyped ==
  ASSUME NEW o, Parses(o), o.part = "inserts",
         NEW l \in Seq(Nodes), NEW k \in ProjectInserts(l, o)
  PROVE  k \in Seq(Nodes)
<1>1. CASE o.verb = "append"
  <2>1. k = Append(l, o.insert) /\ o.insert \in Nodes
    BY <1>1 DEF ProjectInserts, Parses
  <2> QED BY <2>1, AppendProperties
<1>2. CASE o.verb = "remove"
  <2>1. k \in Removed(l, o.item)
    BY <1>2 DEF ProjectInserts
  <2> QED BY <2>1, RemovedTyped
<1>3. CASE o.verb \in {"param", "bypass"}
  <2>1. PICK e \in {[l[FirstAt(l, o.item)] EXCEPT !.param = o.level],
                    [l[FirstAt(l, o.item)] EXCEPT !.bypass = o.flag]} :
          /\ Has(l, o.item) /\ k = [l EXCEPT ![FirstAt(l, o.item)] = e]
          /\ o.verb = "param" => e = [l[FirstAt(l, o.item)] EXCEPT !.param = o.level]
          /\ o.verb = "bypass" => e = [l[FirstAt(l, o.item)] EXCEPT !.bypass = o.flag]
    BY <1>3 DEF ProjectInserts, Changed
  <2>2. l[FirstAt(l, o.item)] \in Nodes
    BY <2>1, FirstIs, ElementOfSeq
  <2>3. (o.verb = "param" => o.level \in Int) /\ (o.verb = "bypass" => o.flag \in BOOLEAN)
    BY DEF Parses
  <2>4. e \in Nodes
    BY <1>3, <2>1, <2>2, <2>3 DEF Nodes
  <2> QED BY <2>1, <2>4, ChangedFirst
<1> QED BY <1>1, <1>2, <1>3 DEF ProjectInserts

LEMMA LiveInsertsTyped ==
  ASSUME NEW o, Parses(o), o.part = "inserts",
         NEW l \in Seq(GraphNodes), NEW k \in LiveInserts(l, o)
  PROVE  k \in Seq(GraphNodes)
<1>1. CASE o.verb = "append"
  <2>1. k = Append(l, AddedNode(o.insert)) /\ o.insert \in Nodes
    BY <1>1 DEF LiveInserts, Parses
  <2>2. AddedNode(o.insert) \in GraphNodes
    BY <2>1 DEF AddedNode, LiveNode, Nodes, GraphNodes
  <2> QED BY <2>1, <2>2, AppendProperties
<1>2. CASE o.verb = "remove"
  <2>1. k \in Removed(l, o.item)
    BY <1>2 DEF LiveInserts
  <2> QED BY <2>1, RemovedTyped
<1>3. CASE o.verb \in {"param", "bypass"}
  <2>1. PICK e \in {[l[FirstAt(l, o.item)] EXCEPT !.param = o.level],
                    [l[FirstAt(l, o.item)] EXCEPT !.bypass = o.flag]} :
          /\ Has(l, o.item) /\ k = [l EXCEPT ![FirstAt(l, o.item)] = e]
          /\ o.verb = "param" => e = [l[FirstAt(l, o.item)] EXCEPT !.param = o.level]
          /\ o.verb = "bypass" => e = [l[FirstAt(l, o.item)] EXCEPT !.bypass = o.flag]
    BY <1>3 DEF LiveInserts, Changed
  <2>2. l[FirstAt(l, o.item)] \in GraphNodes
    BY <2>1, FirstIs, ElementOfSeq
  <2>3. (o.verb = "param" => o.level \in Int) /\ (o.verb = "bypass" => o.flag \in BOOLEAN)
    BY DEF Parses
  <2>4. e \in GraphNodes
    BY <1>3, <2>1, <2>2, <2>3 DEF GraphNodes
  <2> QED BY <2>1, <2>4, ChangedFirst
<1> QED BY <1>1, <1>2, <1>3 DEF LiveInserts

LEMMA ProjectSendsTyped ==
  ASSUME NEW o, Parses(o), o.part = "sends",
         NEW l \in Seq(Sends), NEW k \in ProjectSends(l, o)
  PROVE  k \in Seq(Sends)
<1>1. CASE o.verb = "append"
  <2>1. k = Append(l, o.send) /\ o.send \in Sends
    BY <1>1 DEF ProjectSends, Parses
  <2>2. o.send \in Sends
    BY <2>1 DEF LiveSend, SendTo, Sends, GraphSends
  <2> QED BY <2>1, <2>2, AppendProperties
<1>2. CASE o.verb = "remove"
  <2>1. k \in Removed(l, o.item)
    BY <1>2 DEF ProjectSends
  <2> QED BY <2>1, RemovedTyped
<1>3. CASE o.verb \in {"level", "pre", "dest"}
  <2> DEFINE s == l[FirstAt(l, o.item)]
  <2>1. Has(l, o.item) /\ k \in Changed(l, o.item, LAMBDA x : x)
                            \cup Changed(l, o.item, LAMBDA x : [x EXCEPT !.pre = o.flag])
                            \cup Changed(l, o.item, LAMBDA x : [x EXCEPT !.dest = o.dest])
    BY <1>3 DEF ProjectSends, Changed
  <2>2. PICK e \in {s, [s EXCEPT !.pre = o.flag], [s EXCEPT !.dest = o.dest]} :
          /\ k = [l EXCEPT ![FirstAt(l, o.item)] = e]
          /\ o.verb = "level" => e = s
          /\ o.verb = "pre" => e = [s EXCEPT !.pre = o.flag]
          /\ o.verb = "dest" => e = [s EXCEPT !.dest = o.dest]
    BY <1>3 DEF ProjectSends, Changed
  <2>3. s \in Sends
    BY <2>1, FirstIs, ElementOfSeq
  <2>4. (o.verb = "pre" => o.flag \in BOOLEAN) /\ (o.verb = "dest" => o.dest \in Names)
    BY DEF Parses
  <2> HIDE DEF s
  <2>5. e \in Sends
    BY <1>3, <2>2, <2>3, <2>4 DEF Sends
  <2> QED BY <2>1, <2>2, <2>5, ChangedFirst
<1> QED BY <1>1, <1>2, <1>3 DEF ProjectSends

\* What is built from the parts of a document has their graph types.
LEMMA MadeInserts ==
  ASSUME NEW list \in Seq(Nodes)
  PROVE  LET kept == Only(list, {n \in Nodes : n.builtin}) IN
         /\ kept \in Seq(Nodes)
         /\ MakeInserts(list) \in Seq(GraphNodes)
         /\ Len(MakeInserts(list)) = Len(kept)
         /\ \A i \in 1..Len(kept) : MakeInserts(list)[i] = LiveNode(kept[i])
<1> DEFINE B == {n \in Nodes : n.builtin}
           kept == Only(list, B)
<1>1. \A i \in 1..Len(list) : list[i] \in Nodes /\ list[i] \in Range(list)
  BY ElementOfSeq, RangeEquality
<1>2. Only(list, {n \in Range(list) : n.builtin}) = kept
  <2>1. \A i \in 1..Len(list) : list[i] \in {n \in Range(list) : n.builtin} <=> list[i] \in B
    BY <1>1
  <2> HIDE DEF B
  <2> QED BY <2>1, OnlyAgree
<1>3. kept \in Seq(Nodes)
  <2>1. kept \in Seq(Nodes \cap B)
    BY OnlyTyped
  <2> QED BY <2>1, SeqMonotonic
<1>4. MakeInserts(list) = [i \in DOMAIN kept |-> LiveNode(kept[i])]
  BY <1>2 DEF MakeInserts
<1> HIDE DEF kept
<1>5. DOMAIN kept = 1..Len(kept) /\ Len(kept) \in Nat /\ \A i \in 1..Len(kept) : kept[i] \in Nodes
  BY <1>3, LenProperties, ElementOfSeq
<1>6. \A i \in 1..Len(kept) : LiveNode(kept[i]) \in GraphNodes
  BY <1>5 DEF LiveNode, Nodes, GraphNodes
<1>7. MakeInserts(list) \in [1..Len(kept) -> GraphNodes]
  BY <1>4, <1>5, <1>6
<1>8. MakeInserts(list) \in Seq(GraphNodes) /\ Len(MakeInserts(list)) = Len(kept)
  BY <1>5, <1>7
<1> QED BY <1>3, <1>4, <1>5, <1>8 DEF kept

LEMMA MadeSends ==
  ASSUME NEW list \in Seq(Sends)
  PROVE  /\ MakeSends(list) \in Seq(GraphSends)
         /\ Len(MakeSends(list)) = Len(list)
         /\ \A i \in 1..Len(list) : MakeSends(list)[i] = LiveSend(list[i])
<1>1. DOMAIN list = 1..Len(list) /\ Len(list) \in Nat /\ \A i \in 1..Len(list) : list[i] \in Sends
  BY LenProperties, ElementOfSeq
<1>2. \A i \in 1..Len(list) : LiveSend(list[i]) \in GraphSends
  BY <1>1 DEF LiveSend, SendTo, Sends, GraphSends
<1>3. MakeSends(list) \in [1..Len(list) -> GraphSends]
  BY <1>1, <1>2 DEF MakeSends
<1> QED BY <1>1, <1>3 DEF MakeSends

LEMMA MadeBusTyped ==
  ASSUME NEW b \in Buses PROVE MakeBus(b) \in GraphBuses
<1>1. b.id \in Names /\ b.inserts \in Seq(Nodes) /\ b.sends \in Seq(Sends)
  BY DEF Buses
<1>2. MakeInserts(b.inserts) \in Seq(GraphNodes) /\ MakeSends(b.sends) \in Seq(GraphSends)
  BY <1>1, MadeInserts, MadeSends
<1> QED BY <1>1, <1>2 DEF MakeBus, Bus, GraphBuses

LEMMA MadeLane ==
  ASSUME NEW l \in Lanes PROVE LiveLane(l) \in GraphLanes
<1>1. l.node \in Names /\ l.param \in Names /\ l.points \in Seq(Points)
  BY DEF Lanes
<1> DEFINE ps == l.points
<1>2. DOMAIN ps = 1..Len(ps) /\ Len(ps) \in Nat /\ \A i \in 1..Len(ps) : ps[i] \in Points
  BY <1>1, LenProperties, ElementOfSeq
<1>3. \A i \in 1..Len(ps) : LivePoint(ps[i]) \in GraphPoints
  BY <1>2 DEF LivePoint, Points, GraphPoints
<1>4. [i \in DOMAIN ps |-> LivePoint(ps[i])] \in [1..Len(ps) -> GraphPoints]
  BY <1>2, <1>3
<1>5. [i \in DOMAIN ps |-> LivePoint(ps[i])] \in Seq(GraphPoints)
  BY <1>2, <1>4
<1> QED BY <1>1, <1>5 DEF LiveLane, GraphLanes

LEMMA MadeLanes ==
  ASSUME NEW list \in Seq(Lanes)
  PROVE  [i \in DOMAIN list |-> LiveLane(list[i])] \in Seq(GraphLanes)
<1>1. DOMAIN list = 1..Len(list) /\ Len(list) \in Nat /\ \A i \in 1..Len(list) : list[i] \in Lanes
  BY LenProperties, ElementOfSeq
<1>2. \A i \in 1..Len(list) : LiveLane(list[i]) \in GraphLanes
  BY <1>1, MadeLane
<1>3. [i \in DOMAIN list |-> LiveLane(list[i])] \in [1..Len(list) -> GraphLanes]
  BY <1>1, <1>2
<1> QED BY <1>1, <1>3

LEMMA LiveSendsTyped ==
  ASSUME NEW o, Parses(o), o.part = "sends",
         NEW l \in Seq(GraphSends), NEW k \in LiveSends(l, o)
  PROVE  k \in Seq(GraphSends)
<1>1. CASE o.verb = "append"
  <2>1. k = Append(l, LiveSend(o.send)) /\ o.send \in Sends
    BY <1>1 DEF LiveSends, Parses
  <2>2. LiveSend(o.send) \in GraphSends
    BY <2>1 DEF LiveSend, SendTo, Sends, GraphSends
  <2> QED BY <2>1, <2>2, AppendProperties
<1>2. CASE o.verb = "remove"
  <2>1. k \in Removed(l, o.item)
    BY <1>2 DEF LiveSends
  <2> QED BY <2>1, RemovedTyped
<1>3. CASE o.verb \in {"level", "pre", "dest"}
  <2> DEFINE s == l[FirstAt(l, o.item)]
  <2>1. Has(l, o.item) /\ k \in Changed(l, o.item, LAMBDA x : x)
                            \cup Changed(l, o.item, LAMBDA x : [x EXCEPT !.pre = o.flag])
                            \cup Changed(l, o.item, LAMBDA x : [x EXCEPT !.dest = o.dest])
    BY <1>3 DEF LiveSends, Changed
  <2>2. PICK e \in {s, [s EXCEPT !.pre = o.flag], [s EXCEPT !.dest = o.dest]} :
          /\ k = [l EXCEPT ![FirstAt(l, o.item)] = e]
          /\ o.verb = "level" => e = s
          /\ o.verb = "pre" => e = [s EXCEPT !.pre = o.flag]
          /\ o.verb = "dest" => e = [s EXCEPT !.dest = o.dest]
    BY <1>3 DEF LiveSends, Changed
  <2>3. s \in GraphSends
    BY <2>1, FirstIs, ElementOfSeq
  <2>4. (o.verb = "pre" => o.flag \in BOOLEAN) /\ (o.verb = "dest" => o.dest \in Names)
    BY DEF Parses
  <2> HIDE DEF s
  <2>5. e \in GraphSends
    BY <1>3, <2>2, <2>3, <2>4 DEF GraphSends
  <2> QED BY <2>1, <2>2, <2>5, ChangedFirst
<1> QED BY <1>1, <1>2, <1>3 DEF LiveSends

LEMMA LiveLanesTyped ==
  ASSUME NEW o, Parses(o), o.part = "lanes",
         NEW l \in Seq(GraphLanes), NEW k \in LiveLanes(l, o)
  PROVE  k \in Seq(GraphLanes)
<1>1. CASE o.verb = "append"
  <2>1. k = Append(l, LiveLane(o.lane)) /\ o.lane \in Lanes
    BY <1>1 DEF LiveLanes, Parses
  <2> QED BY <2>1, MadeLane, AppendProperties
<1>2. CASE o.verb = "lanes" /\ o.below
  <2>1. k = [i \in DOMAIN o.lanes |-> LiveLane(o.lanes[i])] /\ o.lanes \in Seq(Lanes)
    BY <1>2 DEF LiveLanes, Parses
  <2> QED BY <2>1, MadeLanes
<1>3. CASE o.verb = "points" /\ o.points = <<>>
  <2>1. k = <<>>
    BY <1>3 DEF LiveLanes
  <2> QED BY <2>1, EmptySeq
<1> QED BY <1>1, <1>2, <1>3 DEF LiveLanes

LEMMA ProjectPointsTyped ==
  ASSUME NEW o, Parses(o), NEW l \in Seq(Points), NEW k \in ProjectPoints(l, o)
  PROVE  k \in Seq(Points)
<1>1. CASE o.verb = "points"
  BY <1>1 DEF ProjectPoints, Parses
<1>2. CASE o.verb = "addPoint"
  <2>1. k = Append(l, o.point) /\ o.point \in Points
    BY <1>2 DEF ProjectPoints, Parses
  <2> QED BY <2>1, AppendProperties
<1>3. CASE o.verb = "dropPoint"
  <2>1. k \in Removed(l, o.item)
    BY <1>3 DEF ProjectPoints
  <2> QED BY <2>1, RemovedTyped
<1>4. CASE o.verb \in {"setPoint", "tick", "value", "curve"}
  <2> DEFINE p == l[FirstAt(l, o.item)]
  <2>1. Has(l, o.item)
    BY <1>4 DEF ProjectPoints, Changed
  <2>2. PICK e \in {o.point, [p EXCEPT !.tick = o.level], [p EXCEPT !.value = o.level],
                    [p EXCEPT !.curve = o.curve]} :
          /\ k = [l EXCEPT ![FirstAt(l, o.item)] = e]
          /\ o.verb = "setPoint" => e = o.point
          /\ o.verb = "tick" => e = [p EXCEPT !.tick = o.level]
          /\ o.verb = "value" => e = [p EXCEPT !.value = o.level]
          /\ o.verb = "curve" => e = [p EXCEPT !.curve = o.curve]
    BY <1>4 DEF ProjectPoints, Changed
  <2>3. p \in Points
    BY <2>1, FirstIs, ElementOfSeq
  <2>4. /\ o.verb = "setPoint" => o.point \in Points
        /\ o.verb \in {"tick", "value"} => o.level \in Int
        /\ o.verb = "curve" => o.curve \in Curves
    BY DEF Parses
  <2> HIDE DEF p
  <2>5. e \in Points
    BY <1>4, <2>2, <2>3, <2>4 DEF Points
  <2> QED BY <2>1, <2>2, <2>5, ChangedFirst
<1> QED BY <1>1, <1>2, <1>3, <1>4 DEF ProjectPoints

LEMMA ProjectLanesTyped ==
  ASSUME NEW o, Parses(o), o.part = "lanes",
         NEW l \in Seq(Lanes), NEW k \in ProjectLanes(l, o)
  PROVE  k \in Seq(Lanes)
<1> DEFINE at == {i \in DOMAIN l : IsLane(l[i], o)}
           first == CHOOSE i \in at : \A j \in at : i <= j
<1>1. CASE o.verb = "lanes"
  <2>1. k = o.lanes /\ o.lanes \in Seq(Lanes)
    BY <1>1 DEF ProjectLanes, Parses
  <2> QED BY <2>1
<1>2. CASE o.verb = "append" \/ (o.verb = "setLane" /\ at = {})
  <2>1. k = Append(l, o.lane) /\ o.lane \in Lanes
    BY <1>2 DEF ProjectLanes, Parses
  <2> QED BY <2>1, AppendProperties
<1>3. CASE at # {} /\ o.verb \notin {"lanes", "append"}
  <2>1. first \in 1..Len(l)
    <3>1. DOMAIN l = 1..Len(l) /\ Len(l) \in Nat
      BY LenProperties
    <3>2. at # {} /\ at \subseteq Nat
      BY <1>3, <3>1
    <3>3. \E i \in at : \A j \in at : i <= j
      BY <3>2, HasMin
    <3>4. first \in at
      BY <3>3
    <3> HIDE DEF first
    <3> QED BY <3>1, <3>4
  <2>2. l[first] \in Lanes
    <3> HIDE DEF first
    <3> QED BY <2>1, ElementOfSeq
  <2>3. CASE o.verb = "setLane"
    <3>1. k = [l EXCEPT ![first] = o.lane] /\ o.lane \in Lanes
      BY <1>3, <2>3 DEF ProjectLanes, Parses
    <3> HIDE DEF first
    <3> QED BY <2>1, <3>1, ExceptSeq
  <2>4. CASE o.verb = "dropLane"
    <3> DEFINE S == {x \in Range(l) : ~IsLane(x, o)}
    <3>1. k = Only(l, S)
      BY <1>3, <2>4 DEF ProjectLanes
    <3> HIDE DEF S
    <3>2. k \in Seq(Lanes \cap S) /\ Lanes \cap S \subseteq Lanes
      BY <3>1, OnlyTyped
    <3> QED BY <3>2, SeqMonotonic
  <2>5. CASE o.verb \notin {"setLane", "dropLane"}
    <3>1. PICK ps \in ProjectPoints(l[first].points, o) : k = [l EXCEPT ![first].points = ps]
      BY <1>3, <2>5 DEF ProjectLanes
    <3> HIDE DEF first
    <3>2. l[first].points \in Seq(Points)
      BY <2>2 DEF Lanes
    <3>3. ps \in Seq(Points)
      BY <3>2, ProjectPointsTyped
    <3>4. [l[first] EXCEPT !.points = ps] \in Lanes
      BY <2>2, <3>3 DEF Lanes
    <3>5. k = [l EXCEPT ![first] = [l[first] EXCEPT !.points = ps]]
      BY <3>1
    <3> QED BY <2>1, <3>4, <3>5, ExceptSeq
  <2> QED BY <2>3, <2>4, <2>5
<1> QED BY <1>1, <1>2, <1>3 DEF ProjectLanes

LEMMA ProjectTrackTyped ==
  ASSUME NEW o, Parses(o), NEW s \in Tracks, NEW t \in ProjectTrack(s, o)
  PROVE  t \in Tracks
<1>1. CASE o.part \in {"gain", "mute", "solo"}
  <2>1. o.part \in {"mute", "solo"} => o.flag \in BOOLEAN
    BY DEF Parses
  <2> QED BY <1>1, <2>1 DEF ProjectTrack, Tracks
<1>2. CASE o.part = "inserts"
  <2>1. PICK l \in ProjectInserts(s.inserts, o) : t = [s EXCEPT !.inserts = l]
    BY <1>2 DEF ProjectTrack
  <2>2. s.inserts \in Seq(Nodes)
    BY DEF Tracks
  <2>3. l \in Seq(Nodes)
    BY <1>2, <2>2, ProjectInsertsTyped
  <2> QED BY <2>1, <2>3 DEF Tracks
<1>3. CASE o.part = "sends"
  <2>1. PICK l \in ProjectSends(s.sends, o) : t = [s EXCEPT !.sends = l]
    BY <1>3 DEF ProjectTrack
  <2>2. s.sends \in Seq(Sends)
    BY DEF Tracks
  <2>3. l \in Seq(Sends)
    BY <1>3, <2>2, ProjectSendsTyped
  <2> QED BY <2>1, <2>3 DEF Tracks
<1>4. CASE o.part = "lanes"
  <2>1. PICK l \in ProjectLanes(s.lanes, o) : t = [s EXCEPT !.lanes = l]
    BY <1>4 DEF ProjectTrack
  <2>2. s.lanes \in Seq(Lanes)
    BY DEF Tracks
  <2>3. l \in Seq(Lanes)
    BY <1>4, <2>2, ProjectLanesTyped
  <2> QED BY <2>1, <2>3 DEF Tracks
<1> QED BY <1>1, <1>2, <1>3, <1>4 DEF ProjectTrack

LEMMA LiveTrackTyped ==
  ASSUME NEW o, Parses(o), NEW s \in GraphTracks, NEW t \in LiveTrack(s, o)
  PROVE  t \in GraphTracks
<1>1. CASE o.part \in {"gain", "mute", "solo"}
  <2>1. o.part \in {"mute", "solo"} => o.flag \in BOOLEAN
    BY DEF Parses
  <2> QED BY <1>1, <2>1 DEF LiveTrack, GraphTracks
<1>2. CASE o.part = "inserts"
  <2>1. PICK l \in LiveInserts(s.inserts, o) : t = [s EXCEPT !.inserts = l]
    BY <1>2 DEF LiveTrack
  <2>2. s.inserts \in Seq(GraphNodes)
    BY DEF GraphTracks
  <2>3. l \in Seq(GraphNodes)
    BY <1>2, <2>2, LiveInsertsTyped
  <2> QED BY <2>1, <2>3 DEF GraphTracks
<1>3. CASE o.part = "sends"
  <2>1. PICK l \in LiveSends(s.sends, o) : t = [s EXCEPT !.sends = l]
    BY <1>3 DEF LiveTrack
  <2>2. s.sends \in Seq(GraphSends)
    BY DEF GraphTracks
  <2>3. l \in Seq(GraphSends)
    BY <1>3, <2>2, LiveSendsTyped
  <2> QED BY <2>1, <2>3 DEF GraphTracks
<1>4. CASE o.part = "lanes"
  <2>1. PICK l \in LiveLanes(s.lanes, o) : t = [s EXCEPT !.lanes = l]
    BY <1>4 DEF LiveTrack
  <2>2. s.lanes \in Seq(GraphLanes)
    BY DEF GraphTracks
  <2>3. l \in Seq(GraphLanes)
    BY <1>4, <2>2, LiveLanesTyped
  <2> QED BY <2>1, <2>3 DEF GraphTracks
<1> QED BY <1>1, <1>2, <1>3, <1>4 DEF LiveTrack

LEMMA ProjectBusTyped ==
  ASSUME NEW o, Parses(o), NEW b \in Buses, NEW c \in ProjectBus(b, o)
  PROVE  c \in Buses /\ c.id = b.id
<1>1. CASE o.part = "gain"
  BY <1>1 DEF ProjectBus
<1>2. CASE o.part = "inserts"
  <2>1. PICK l \in ProjectInserts(b.inserts, o) : c = [b EXCEPT !.inserts = l]
    BY <1>2 DEF ProjectBus
  <2>2. b.inserts \in Seq(Nodes)
    BY DEF Buses
  <2>3. l \in Seq(Nodes)
    BY <1>2, <2>2, ProjectInsertsTyped
  <2> QED BY <2>1, <2>3 DEF Buses
<1>3. CASE o.part = "sends"
  <2>1. PICK l \in ProjectSends(b.sends, o) : c = [b EXCEPT !.sends = l]
    BY <1>3 DEF ProjectBus
  <2>2. b.sends \in Seq(Sends)
    BY DEF Buses
  <2>3. l \in Seq(Sends)
    BY <1>3, <2>2, ProjectSendsTyped
  <2> QED BY <2>1, <2>3 DEF Buses
<1> QED BY <1>1, <1>2, <1>3 DEF ProjectBus

LEMMA ProjectBusesTyped ==
  ASSUME NEW o, Parses(o), NEW l \in Seq(Buses), NEW k \in ProjectBuses(l, o)
  PROVE  k \in Seq(Buses)
<1>1. CASE o.part = "new"
  <2>1. k = Append(l, o.bus) /\ o.bus \in Buses
    BY <1>1 DEF ProjectBuses, Parses
  <2>2. o.bus \in Buses
    BY <2>1
  <2> QED BY <2>1, <2>2, AppendProperties
<1>2. CASE o.part # "new"
  <2>1. Has(l, o.id)
    BY <1>2 DEF ProjectBuses
  <2>2. FirstAt(l, o.id) \in 1..Len(l)
    BY <2>1, FirstIs
  <2>3. CASE o.part = "gone"
    <3>1. k = RemoveAt(l, FirstAt(l, o.id))
      BY <2>1, <2>3 DEF ProjectBuses
    <3> QED BY <2>2, <3>1, RemovedAt
  <2>4. CASE o.part # "gone"
    <3>1. PICK c \in ProjectBus(l[FirstAt(l, o.id)], o) : k = [l EXCEPT ![FirstAt(l, o.id)] = c]
      BY <1>2, <2>1, <2>4 DEF ProjectBuses
    <3>2. l[FirstAt(l, o.id)] \in Buses
      BY <2>2, ElementOfSeq
    <3>3. c \in Buses
      BY <3>2, ProjectBusTyped
    <3> QED BY <2>1, <3>1, <3>3, ChangedFirst
  <2> QED BY <2>3, <2>4
<1> QED BY <1>1, <1>2

LEMMA ProjectMasterTyped ==
  ASSUME NEW o, Parses(o), NEW m \in Master, NEW x \in ProjectMaster(m, o)
  PROVE  x \in Master
<1>1. CASE o.part = "gain"
  BY <1>1 DEF ProjectMaster
<1>2. CASE o.part = "inserts"
  <2>1. PICK l \in ProjectInserts(m.inserts, o) : x = [m EXCEPT !.inserts = l]
    BY <1>2 DEF ProjectMaster
  <2>2. m.inserts \in Seq(Nodes)
    BY DEF Master
  <2>3. l \in Seq(Nodes)
    BY <1>2, <2>2, ProjectInsertsTyped
  <2> QED BY <2>1, <2>3 DEF Master
<1> QED BY <1>1, <1>2 DEF ProjectMaster

LEMMA LiveBusTyped ==
  ASSUME NEW o, Parses(o), NEW b \in GraphBuses, NEW c \in LiveBus(b, o)
  PROVE  c \in GraphBuses /\ c.id = b.id
<1>1. CASE o.part = "gain"
  BY <1>1 DEF LiveBus
<1>2. CASE o.part = "inserts"
  <2>1. PICK l \in LiveInserts(b.inserts, o) : c = [b EXCEPT !.inserts = l]
    BY <1>2 DEF LiveBus
  <2>2. b.inserts \in Seq(GraphNodes)
    BY DEF GraphBuses
  <2>3. l \in Seq(GraphNodes)
    BY <1>2, <2>2, LiveInsertsTyped
  <2> QED BY <2>1, <2>3 DEF GraphBuses
<1>3. CASE o.part = "sends"
  <2>1. PICK l \in LiveSends(b.sends, o) : c = [b EXCEPT !.sends = l]
    BY <1>3 DEF LiveBus
  <2>2. b.sends \in Seq(GraphSends)
    BY DEF GraphBuses
  <2>3. l \in Seq(GraphSends)
    BY <1>3, <2>2, LiveSendsTyped
  <2> QED BY <2>1, <2>3 DEF GraphBuses
<1> QED BY <1>1, <1>2, <1>3 DEF LiveBus

LEMMA LiveBusesTyped ==
  ASSUME NEW o, Parses(o), NEW l \in Seq(GraphBuses), NEW k \in LiveBuses(l, o)
  PROVE  k \in Seq(GraphBuses)
<1>1. CASE o.part = "new"
  <2>1. k = Append(l, MakeBus(o.bus)) /\ o.bus \in Buses
    BY <1>1 DEF LiveBuses, Parses
  <2>2. MakeBus(o.bus) \in GraphBuses
    BY <2>1, MadeBusTyped
  <2> QED BY <2>1, <2>2, AppendProperties
<1>2. CASE o.part # "new"
  <2>1. Has(l, o.id)
    BY <1>2 DEF LiveBuses
  <2>2. FirstAt(l, o.id) \in 1..Len(l)
    BY <2>1, FirstIs
  <2>3. CASE o.part = "gone"
    <3>1. k = RemoveAt(l, FirstAt(l, o.id))
      BY <2>1, <2>3 DEF LiveBuses
    <3> QED BY <2>2, <3>1, RemovedAt
  <2>4. CASE o.part # "gone"
    <3>1. PICK c \in LiveBus(l[FirstAt(l, o.id)], o) : k = [l EXCEPT ![FirstAt(l, o.id)] = c]
      BY <1>2, <2>1, <2>4 DEF LiveBuses
    <3>2. l[FirstAt(l, o.id)] \in GraphBuses
      BY <2>2, ElementOfSeq
    <3>3. c \in GraphBuses
      BY <3>2, LiveBusTyped
    <3> QED BY <2>1, <3>1, <3>3, ChangedFirst
  <2> QED BY <2>3, <2>4
<1> QED BY <1>1, <1>2

LEMMA LiveMasterTyped ==
  ASSUME NEW o, Parses(o), NEW m \in GraphMaster, NEW x \in LiveMaster(m, o)
  PROVE  x \in GraphMaster
<1>1. CASE o.part = "gain"
  BY <1>1 DEF LiveMaster
<1>2. CASE o.part = "inserts"
  <2>1. PICK l \in LiveInserts(m.inserts, o) : x = [m EXCEPT !.inserts = l]
    BY <1>2 DEF LiveMaster
  <2>2. m.inserts \in Seq(GraphNodes)
    BY DEF GraphMaster
  <2>3. l \in Seq(GraphNodes)
    BY <1>2, <2>2, LiveInsertsTyped
  <2> QED BY <2>1, <2>3 DEF GraphMaster
<1> QED BY <1>1, <1>2 DEF LiveMaster

\* An operation takes a document to a document.
LEMMA ApplyOneProjectTyped ==
  ASSUME NEW o, Parses(o), NEW g, IsDocument(g), NEW h \in ApplyOneProject(g, o)
  PROVE  IsDocument(h)
<1>0. /\ g = [tracks |-> g.tracks, buses |-> g.buses, master |-> g.master]
      /\ DOMAIN g.tracks \subseteq Names /\ g.tracks \in [DOMAIN g.tracks -> Tracks]
      /\ g.buses \in Seq(Buses) /\ g.master \in Master
  BY DEF IsDocument
<1>1. CASE o.root = "tracks" /\ o.id \in DOMAIN g.tracks
  <2>1. PICK t \in ProjectTrack(g.tracks[o.id], o) : h = [g EXCEPT !.tracks[o.id] = t]
    BY <1>1 DEF ApplyOneProject
  <2>2. g.tracks[o.id] \in Tracks
    BY <1>0, <1>1
  <2>3. t \in Tracks
    BY <2>2, ProjectTrackTyped
  <2>4. /\ h.tracks = [g.tracks EXCEPT ![o.id] = t] /\ h.buses = g.buses /\ h.master = g.master
        /\ h = [tracks |-> h.tracks, buses |-> h.buses, master |-> h.master]
    BY <1>0, <2>1
  <2>5. DOMAIN h.tracks = DOMAIN g.tracks /\ h.tracks \in [DOMAIN h.tracks -> Tracks]
    BY <1>0, <2>3, <2>4
  <2> QED BY <1>0, <2>4, <2>5 DEF IsDocument
<1>2. CASE o.root = "buses"
  <2>1. PICK l \in ProjectBuses(g.buses, o) : h = [g EXCEPT !.buses = l]
    BY <1>2 DEF ApplyOneProject
  <2>2. l \in Seq(Buses)
    BY <1>0, ProjectBusesTyped
  <2>3. /\ h.tracks = g.tracks /\ h.buses = l /\ h.master = g.master
        /\ h = [tracks |-> h.tracks, buses |-> h.buses, master |-> h.master]
    BY <1>0, <2>1
  <2> QED BY <1>0, <2>2, <2>3 DEF IsDocument
<1>3. CASE o.root = "master"
  <2>1. PICK x \in ProjectMaster(g.master, o) : h = [g EXCEPT !.master = x]
    BY <1>3 DEF ApplyOneProject
  <2>2. x \in Master
    BY <1>0, ProjectMasterTyped
  <2>3. /\ h.tracks = g.tracks /\ h.buses = g.buses /\ h.master = x
        /\ h = [tracks |-> h.tracks, buses |-> h.buses, master |-> h.master]
    BY <1>0, <2>1
  <2> QED BY <1>0, <2>2, <2>3 DEF IsDocument
<1> QED BY <1>1, <1>2, <1>3 DEF ApplyOneProject

\* An operation takes a graph to a graph.
LEMMA ApplyOneTyped ==
  ASSUME NEW o, Parses(o), NEW g, IsGraph(g), NEW h \in ApplyOne(g, o)
  PROVE  IsGraph(h)
<1>0. /\ g = [tracks |-> g.tracks, buses |-> g.buses, master |-> g.master]
      /\ DOMAIN g.tracks \subseteq Names /\ g.tracks \in [DOMAIN g.tracks -> GraphTracks]
      /\ g.buses \in Seq(GraphBuses) /\ g.master \in GraphMaster
  BY DEF IsGraph
<1>1. CASE o.root = "tracks" /\ o.id \in DOMAIN g.tracks
  <2>1. PICK t \in LiveTrack(g.tracks[o.id], o) : h = [g EXCEPT !.tracks[o.id] = t]
    BY <1>1 DEF ApplyOne
  <2>2. g.tracks[o.id] \in GraphTracks
    BY <1>0, <1>1
  <2>3. t \in GraphTracks
    BY <2>2, LiveTrackTyped
  <2>4. /\ h.tracks = [g.tracks EXCEPT ![o.id] = t] /\ h.buses = g.buses /\ h.master = g.master
        /\ h = [tracks |-> h.tracks, buses |-> h.buses, master |-> h.master]
    BY <1>0, <2>1
  <2>5. DOMAIN h.tracks = DOMAIN g.tracks /\ h.tracks \in [DOMAIN h.tracks -> GraphTracks]
    BY <1>0, <2>3, <2>4
  <2> QED BY <1>0, <2>4, <2>5 DEF IsGraph
<1>2. CASE o.root = "buses"
  <2>1. PICK l \in LiveBuses(g.buses, o) : h = [g EXCEPT !.buses = l]
    BY <1>2 DEF ApplyOne
  <2>2. l \in Seq(GraphBuses)
    BY <1>0, LiveBusesTyped
  <2>3. /\ h.tracks = g.tracks /\ h.buses = l /\ h.master = g.master
        /\ h = [tracks |-> h.tracks, buses |-> h.buses, master |-> h.master]
    BY <1>0, <2>1
  <2> QED BY <1>0, <2>2, <2>3 DEF IsGraph
<1>3. CASE o.root = "master"
  <2>1. PICK x \in LiveMaster(g.master, o) : h = [g EXCEPT !.master = x]
    BY <1>3 DEF ApplyOne
  <2>2. x \in GraphMaster
    BY <1>0, LiveMasterTyped
  <2>3. /\ h.tracks = g.tracks /\ h.buses = g.buses /\ h.master = x
        /\ h = [tracks |-> h.tracks, buses |-> h.buses, master |-> h.master]
    BY <1>0, <2>1
  <2> QED BY <1>0, <2>2, <2>3 DEF IsGraph
<1> QED BY <1>1, <1>2, <1>3 DEF ApplyOne

-----------------------------------------------------------------------------
(* Sampling a lane *)

\* The signs of products
LEMMA Products ==
  ASSUME NEW x \in Int, NEW y \in Int
  PROVE  /\ x * y \in Int
         /\ x >= 0 /\ y >= 0 => x * y >= 0
         /\ x > 0 /\ y > 0 => x * y > 0
         /\ x <= 0 /\ y >= 0 => x * y <= 0
BY Z3

\* v is a + (b - a) * n / d, between a and b.
Blended(v, a, b, n, d) ==
  /\ v.den = d /\ v.num \in Int
  /\ a <= b => a * d <= v.num /\ v.num <= b * d
  /\ b <= a => b * d <= v.num /\ v.num <= a * d
  /\ n = d => v.num = b * d

\* A blend with a weight between 0 and 1 lies between its ends.
LEMMA BlendBetween ==
  ASSUME NEW a \in Int, NEW b \in Int, NEW n \in Int, NEW d \in Int, 0 <= n, n <= d,
         NEW v, v = Blend(a, b, n, d)
  PROVE  Blended(v, a, b, n, d)
<1> DEFINE x == (b - a) * n
           y == (b - a) * (d - n)
<1>1. v.den = d /\ v.num = a * d + x
  BY DEF Blend, Fraction
<1>2. x \in Int /\ y \in Int /\ a * d \in Int /\ b * d \in Int
  BY Products
<1>3. a * d + x + y = b * d
  BY SMT
<1>4. (n = 0 => x = 0) /\ (n = d => y = 0)
  BY SMT
<1>5. (a <= b => x >= 0 /\ y >= 0) /\ (b <= a => x <= 0 /\ y <= 0)
  <2>1. d - n \in Int /\ d - n >= 0 /\ b - a \in Int
    OBVIOUS
  <2>2. a <= b => b - a >= 0
    OBVIOUS
  <2>3. b <= a => b - a <= 0
    OBVIOUS
  <2> QED BY <2>1, <2>2, <2>3, Products
<1> HIDE DEF x, y
<1> QED BY <1>1, <1>2, <1>3, <1>4, <1>5 DEF Blended

\* The smoothstep of a weight between 0 and 1 is one too.
LEMMA Smoothstep ==
  ASSUME NEW n \in Int, NEW d \in Int, 0 <= n, n <= d, d > 0
  PROVE  LET w == n * n * (3 * d - 2 * n)
             c == d * d * d
         IN  /\ w \in Int /\ c \in Int
             /\ 0 <= w /\ w <= c /\ c > 0
             /\ n = 0 => w = 0
             /\ n = d => w = c
<1>1. n * n \in Int /\ n * n >= 0 /\ d * d \in Int /\ d * d > 0
  BY Products
<1>2. 3 * d - 2 * n \in Int /\ 3 * d - 2 * n >= 0
  OBVIOUS
<1>3. n * n * (3 * d - 2 * n) \in Int /\ n * n * (3 * d - 2 * n) >= 0
  BY <1>1, <1>2, Products
<1>4. d * d * d \in Int /\ d * d * d > 0
  BY <1>1, Products
<1>5. d - n \in Int /\ d - n >= 0 /\ d + 2 * n \in Int /\ d + 2 * n >= 0
  OBVIOUS
<1>6. (d - n) * (d - n) \in Int /\ (d - n) * (d - n) >= 0
  BY <1>5, Products
<1>7. (d - n) * (d - n) * (d + 2 * n) >= 0
  BY <1>5, <1>6, Products
<1>8. d * d * d - n * n * (3 * d - 2 * n) = (d - n) * (d - n) * (d + 2 * n)
  BY Z3
<1>9. n * n * (3 * d - 2 * n) <= d * d * d
  BY <1>3, <1>4, <1>7, <1>8
<1>10. n = d => n * n * (3 * d - 2 * n) = d * d * d
  BY Z3
<1>11. n = 0 => n * n * (3 * d - 2 * n) = 0
  BY Z3
<1> QED BY <1>3, <1>4, <1>9, <1>10, <1>11

Between(v, a, b) ==
  \/ a * v.den <= v.num /\ v.num <= b * v.den
  \/ b * v.den <= v.num /\ v.num <= a * v.den

LEMMA Interpolated ==
  ASSUME NEW a \in Int, NEW b \in Int, NEW n \in Int, NEW d \in Int, 0 <= n, n <= d, d > 0,
         NEW curve \in Curves
  PROVE  LET v == Interpolate(a, b, n, d, curve) IN
         /\ Between(v, a, b)
         /\ n = d /\ curve # "hold" => v.num = b * v.den
<1>1. CASE curve = "hold"
  <2>1. Interpolate(a, b, n, d, curve).num = a /\ Interpolate(a, b, n, d, curve).den = 1
    BY <1>1 DEF Interpolate, Fraction
  <2>2. a * 1 = a /\ b * 1 = b /\ (a <= b \/ b <= a)
    OBVIOUS
  <2> QED BY <1>1, <2>1, <2>2 DEF Between
<1>2. CASE curve = "linear"
  <2>1. Interpolate(a, b, n, d, curve) = Blend(a, b, n, d)
    BY <1>2 DEF Interpolate
  <2>2. a <= b \/ b <= a
    OBVIOUS
  <2>3. PICK v : v = Blend(a, b, n, d)
    OBVIOUS
  <2>4. Blended(v, a, b, n, d)
    BY <2>3, BlendBetween
  <2> QED BY <2>1, <2>2, <2>3, <2>4 DEF Between, Blended
<1>3. CASE curve = "bezier"
  <2> DEFINE w == n * n * (3 * d - 2 * n)
             c == d * d * d
  <2>1. Interpolate(a, b, n, d, curve) = Blend(a, b, w, c)
    BY <1>3 DEF Interpolate
  <2>2. /\ w \in Int /\ c \in Int /\ 0 <= w /\ w <= c /\ c > 0
        /\ n = d => w = c
    BY Smoothstep
  <2> HIDE DEF w, c
  <2>3. a <= b \/ b <= a
    OBVIOUS
  <2>4. PICK v : v = Blend(a, b, w, c)
    OBVIOUS
  <2>5. Blended(v, a, b, w, c)
    BY <2>2, <2>4, BlendBetween
  <2> QED BY <2>1, <2>2, <2>3, <2>4, <2>5 DEF Between, Blended
<1> QED BY <1>1, <1>2, <1>3 DEF Curves

\* Inside a segment the value is between those of its ends.
LEMMA SegmentSampled ==
  ASSUME NEW points \in Seq(GraphPoints), NEW half \in Int, NEW i, Segment(points, half, i)
  PROVE  LET v == InSegment(points, half, i) IN
         /\ i \in 1..Len(points) /\ i + 1 \in 1..Len(points)
         /\ Between(v, points[i].value, points[i + 1].value)
         /\ half = 2 * points[i + 1].tick /\ points[i].tick < points[i + 1].tick
              /\ points[i].curve # "hold" => v.num = points[i + 1].value * v.den
<1>0. Len(points) \in Nat /\ i \in Int /\ 1 <= i /\ i <= Len(points) - 1
  BY LenProperties DEF Segment
<1>1. i \in 1..Len(points) /\ i + 1 \in 1..Len(points)
  BY <1>0
<1>2. PICK a \in GraphPoints : a = points[i]
  BY <1>1, ElementOfSeq
<1>3. PICK b \in GraphPoints : b = points[i + 1]
  BY <1>1, ElementOfSeq
<1>4. /\ a.tick \in Int /\ a.value \in Int /\ a.curve \in Curves
      /\ b.tick \in Int /\ b.value \in Int
  BY DEF GraphPoints
<1>5. 2 * a.tick <= half /\ half <= 2 * b.tick
  BY <1>2, <1>3 DEF Segment
<1> DEFINE span == 2 * (b.tick - a.tick)
           n == half - 2 * a.tick
<1>6. span \in Int /\ n \in Int /\ 0 <= n /\ n <= span
  BY <1>4, <1>5
<1>7. InSegment(points, half, i) = IF span > 0 THEN Interpolate(a.value, b.value, n, span, a.curve)
                                   ELSE Interpolate(a.value, b.value, 0, 1, a.curve)
  BY <1>2, <1>3 DEF InSegment
<1>8. /\ a.tick < b.tick => span > 0
      /\ half = 2 * b.tick => n = span
  BY <1>4
<1> HIDE DEF span, n
<1>9. CASE span > 0
  <2>1. /\ Between(Interpolate(a.value, b.value, n, span, a.curve), a.value, b.value)
        /\ n = span /\ a.curve # "hold"
             => Interpolate(a.value, b.value, n, span, a.curve).num
                = b.value * Interpolate(a.value, b.value, n, span, a.curve).den
    BY <1>4, <1>6, <1>9, Interpolated
  <2> QED BY <1>1, <1>2, <1>3, <1>7, <1>8, <1>9, <2>1
<1>10. CASE ~(span > 0)
  <2>1. Between(Interpolate(a.value, b.value, 0, 1, a.curve), a.value, b.value)
    BY <1>4, Interpolated
  <2> QED BY <1>1, <1>2, <1>3, <1>7, <1>8, <1>10, <2>1
<1> QED BY <1>9, <1>10

\* The value of a point itself
LEMMA PointSampled ==
  ASSUME NEW a \in Int
  PROVE  /\ Between(Fraction(a, 1), a, a)
         /\ Fraction(a, 1).num = a * Fraction(a, 1).den
BY DEF Fraction, Between

PointHeard(points, half, v, i) ==
  half = 2 * points[i].tick /\ (i \in {1, Len(points)} \/ points[i - 1].curve # "hold")
    => v.num = points[i].value * v.den

\* Wherever a lane is asked around its points
LEMMA LaneSampled ==
  ASSUME NEW points \in Seq(GraphPoints) PROVE Sampled(points)
<1> SUFFICES ASSUME NEW half \in Around(points), NEW v, v = ValueAt(points, half),
                    NEW n, n = Len(points)
             PROVE  /\ \E i, j \in 1..n : Between(v, points[i].value, points[j].value)
                    /\ Sorted(points) => \A i \in 1..n : PointHeard(points, half, v, i)
  <2>1. DOMAIN points = 1..Len(points)
    BY LenProperties
  <2> QED BY <2>1 DEF Sampled, Between, PointHeard
<1>0. /\ DOMAIN points = 1..n /\ n \in Nat
      /\ \A i \in 1..n : /\ points[i] \in GraphPoints /\ points[i].tick \in Int
                                   /\ points[i].value \in Int
  <2>1. \A i \in 1..Len(points) : points[i] \in GraphPoints
    BY ElementOfSeq
  <2> QED BY <2>1, LenProperties DEF GraphPoints
<1>1. half \in Int /\ n # 0
  <2>1. PICK i \in 1..Len(points) : \E d \in {-1, 0, 1} : half = 2 * points[i].tick + d
    BY <1>0 DEF Around
  <2> QED BY <1>0, <2>1
<1> DEFINE at == {i \in 1..(n - 1) : FirstSegment(points, half, i)}
<1>2. 1 \in 1..n /\ n \in 1..n /\ points # <<>>
  BY <1>0, <1>1, EmptySeq
<1>3. CASE n = 1
  <2>1. v = Fraction(points[1].value, 1)
    BY <1>2, <1>3 DEF ValueAt
  <2>2. \A i \in 1..n : i = 1
    BY <1>3
  <2>3. Between(v, points[1].value, points[1].value) /\ v.num = points[1].value * v.den
    BY <1>0, <1>2, <2>1, PointSampled
  <2> QED BY <1>2, <2>2, <2>3 DEF PointHeard
<1>4. CASE n # 1 /\ half <= 2 * points[1].tick
  <2>1. v = Fraction(points[1].value, 1)
    BY <1>0, <1>1, <1>2, <1>4 DEF ValueAt
  <2>2. Between(v, points[1].value, points[1].value) /\ v.num = points[1].value * v.den
    BY <1>0, <1>2, <2>1, PointSampled
  <2>3. ASSUME Sorted(points), NEW i \in 1..n, half = 2 * points[i].tick PROVE i = 1 /\ v.num = points[i].value * v.den
    <3>1. i # 1 => points[1].tick < points[i].tick
      BY <1>0, <1>2, <2>3 DEF Sorted
    <3> QED BY <1>0, <1>1, <1>2, <1>4, <2>2, <2>3, <3>1
  <2> QED BY <1>2, <2>2, <2>3 DEF PointHeard
<1>5. CASE n # 1 /\ half > 2 * points[1].tick /\ half >= 2 * points[n].tick
  <2>1. v = Fraction(points[n].value, 1)
    BY <1>0, <1>1, <1>2, <1>5 DEF ValueAt
  <2>2. Between(v, points[n].value, points[n].value) /\ v.num = points[n].value * v.den
    BY <1>0, <1>2, <2>1, PointSampled
  <2>3. ASSUME Sorted(points), NEW i \in 1..n, half = 2 * points[i].tick PROVE i = n /\ v.num = points[i].value * v.den
    <3>1. i # n => points[i].tick < points[n].tick
      BY <1>0, <1>2, <2>3 DEF Sorted
    <3> QED BY <1>0, <1>1, <1>2, <1>5, <2>2, <2>3, <3>1
  <2> QED BY <1>2, <2>2, <2>3 DEF PointHeard
<1>6. CASE n # 1 /\ half > 2 * points[1].tick /\ ~(half >= 2 * points[n].tick)
  <2>1. v = IF at = {} THEN Fraction(points[n].value, 1)
            ELSE InSegment(points, half, CHOOSE i \in at : TRUE)
    <3>1. ~(half <= 2 * points[1].tick)
      BY <1>0, <1>1, <1>2, <1>6
    <3> QED BY <1>2, <1>6, <3>1 DEF ValueAt
  <2>2. \E i, j \in 1..n : Between(v, points[i].value, points[j].value)
    <3>1. CASE at = {}
      <4>1. Between(v, points[n].value, points[n].value)
        BY <1>0, <1>2, <2>1, <3>1, PointSampled
      <4> QED BY <1>2, <4>1
    <3>2. CASE at # {}
      <4>1. PICK k \in at : v = InSegment(points, half, k)
        BY <2>1, <3>2
      <4>2. Segment(points, half, k)
        BY DEF FirstSegment
      <4>3. k \in 1..n /\ k + 1 \in 1..n /\ Between(v, points[k].value, points[k + 1].value)
        BY <1>1, <4>1, <4>2, SegmentSampled
      <4> QED BY <4>3
    <3> QED BY <3>1, <3>2
  <2>3. ASSUME Sorted(points), NEW i \in 1..n, half = 2 * points[i].tick,
               i \in {1, n} \/ points[i - 1].curve # "hold"
        PROVE  v.num = points[i].value * v.den
    <3>1. i # 1 /\ i # n
      BY <1>0, <1>1, <1>2, <1>6, <2>3
    <3>2. PICK k \in 1..(n - 1) : i = k + 1
      <4>1. i - 1 \in 1..(n - 1) /\ i = (i - 1) + 1
        BY <1>0, <3>1
      <4> QED BY <4>1
    <3>3. k \in 1..n /\ k < i /\ points[k].tick < points[i].tick
      <4>1. k \in 1..n /\ k < i
        BY <1>0, <3>2
      <4> QED BY <1>0, <2>3, <4>1 DEF Sorted
    <3>4. Segment(points, half, k)
      BY <1>0, <2>3, <3>2, <3>3 DEF Segment
    <3>5. \A j \in 1..(k - 1) : ~Segment(points, half, j)
      <4> TAKE j \in 1..(k - 1)
      <4>1. j + 1 \in 1..n /\ j + 1 < i
        BY <1>0, <3>2
      <4>2. points[j + 1].tick < points[i].tick
        BY <1>0, <2>3, <4>1 DEF Sorted
      <4> QED BY <1>0, <2>3, <4>1, <4>2 DEF Segment
    <3>6. k \in at
      BY <3>4, <3>5 DEF FirstSegment
    <3>7. ASSUME NEW j \in at PROVE j = k
      <4>1. j \in 1..(n - 1) /\ Segment(points, half, j) /\ \A m \in 1..(j - 1) : ~Segment(points, half, m)
        BY DEF FirstSegment
      <4>2. j < k => j \in 1..(k - 1)
        BY <1>0, <4>1
      <4>3. k < j => k \in 1..(j - 1)
        BY <1>0, <4>1
      <4>4. ~(j < k) /\ ~(k < j)
        BY <3>4, <3>5, <4>1, <4>2, <4>3
      <4> QED BY <1>0, <4>1, <4>4
    <3>8. v = InSegment(points, half, k)
      <4>1. (CHOOSE j \in at : TRUE) \in at
        BY <3>6
      <4>2. (CHOOSE j \in at : TRUE) = k
        BY <3>7, <4>1
      <4>3. at # {}
        BY <3>6
      <4> QED BY <2>1, <4>2, <4>3
    <3>9. points[k].curve # "hold"
      <4>1. i - 1 = k
        BY <3>2
      <4> QED BY <2>3, <3>1, <4>1
    <3> QED BY <1>1, <2>3, <3>2, <3>3, <3>4, <3>8, <3>9, SegmentSampled
  <2> QED BY <2>2, <2>3 DEF PointHeard
<1> QED
  <2>1. half <= 2 * points[1].tick \/ half > 2 * points[1].tick
    BY <1>0, <1>1, <1>2
  <2> QED BY <1>3, <1>4, <1>5, <1>6, <2>1

-----------------------------------------------------------------------------
(* Building a graph, and sorting its buses *)

\* A document is built into a graph.
LEMMA UnsortedTyped ==
  ASSUME NEW p, IsDocument(p) PROVE IsGraph(Unsorted(p))
<1>0. /\ DOMAIN p.tracks \subseteq Names /\ p.tracks \in [DOMAIN p.tracks -> Tracks]
      /\ p.buses \in Seq(Buses) /\ p.master \in Master
  BY DEF IsDocument
<1>1. ASSUME NEW t \in DOMAIN p.tracks PROVE MakeTrack(p.tracks[t]) \in GraphTracks
  <2>1. PICK s \in Tracks : s = p.tracks[t]
    BY <1>0
  <2>2. /\ s.mute \in BOOLEAN /\ s.solo \in BOOLEAN
        /\ s.inserts \in Seq(Nodes) /\ s.sends \in Seq(Sends) /\ s.lanes \in Seq(Lanes)
    BY DEF Tracks
  <2>3. MakeInserts(s.inserts) \in Seq(GraphNodes) /\ MakeSends(s.sends) \in Seq(GraphSends)
    BY <2>2, MadeInserts, MadeSends
  <2>4. [i \in DOMAIN s.lanes |-> LiveLane(s.lanes[i])] \in Seq(GraphLanes)
    BY <2>2, MadeLanes
  <2>5. MakeTrack(s) \in GraphTracks
    BY <2>2, <2>3, <2>4 DEF MakeTrack, Track, GraphTracks
  <2> QED BY <2>1, <2>5
<1>2. /\ DOMAIN p.buses = 1..Len(p.buses) /\ Len(p.buses) \in Nat
      /\ \A i \in 1..Len(p.buses) : p.buses[i] \in Buses
  BY <1>0, LenProperties, ElementOfSeq
<1>3. \A i \in 1..Len(p.buses) : MakeBus(p.buses[i]) \in GraphBuses
  BY <1>2, MadeBusTyped
<1>4. [i \in DOMAIN p.buses |-> MakeBus(p.buses[i])] \in [1..Len(p.buses) -> GraphBuses]
  BY <1>2, <1>3
<1>5. [i \in DOMAIN p.buses |-> MakeBus(p.buses[i])] \in Seq(GraphBuses)
  BY <1>2, <1>4
<1>6. MakeInserts(p.master.inserts) \in Seq(GraphNodes)
  <2>1. p.master.inserts \in Seq(Nodes)
    BY <1>0 DEF Master
  <2> QED BY <2>1, MadeInserts
<1>7. [inserts |-> MakeInserts(p.master.inserts)] \in GraphMaster
  BY <1>6 DEF GraphMaster
<1>8. [t \in DOMAIN p.tracks |-> MakeTrack(p.tracks[t])] \in [DOMAIN p.tracks -> GraphTracks]
  BY <1>1
<1> QED BY <1>0, <1>5, <1>7, <1>8 DEF Unsorted, IsGraph

\* The last bus with an id is one of the buses.
LEMMA LastIs ==
  ASSUME NEW A, NEW list \in Seq(A), NEW id, \E i \in DOMAIN list : list[i].id = id
  PROVE  /\ LastAt(Ids(list), id) \in 1..Len(list)
         /\ list[LastAt(Ids(list), id)].id = id
         /\ \A j \in 1..Len(list) : list[j].id = id => j <= LastAt(Ids(list), id)
<1>1. DOMAIN list = 1..Len(list) /\ Len(list) \in Nat
  BY LenProperties
<1> DEFINE n == Len(list)
           at == {i \in 1..n : list[i].id = id}
           back == {n - i : i \in at}
<1>2. back \in SUBSET Nat /\ back # {}
  BY <1>1
<1>3. PICK m \in back : \A k \in back : m <= k
  BY <1>2, HasMin
<1>4. PICK i \in at : m = n - i
  OBVIOUS
<1>5. ASSUME NEW j \in at PROVE j <= i
  <2>1. n - i <= n - j
    BY <1>3, <1>4
  <2> QED BY <1>1, <2>1
<1>6. DOMAIN Ids(list) = 1..n /\ \A j \in 1..n : Ids(list)[j] = list[j].id
  BY <1>1 DEF Ids
<1>7. \E x \in DOMAIN Ids(list) :
        Ids(list)[x] = id /\ \A j \in DOMAIN Ids(list) : Ids(list)[j] = id => j <= x
  BY <1>5, <1>6
<1>8. /\ LastAt(Ids(list), id) \in DOMAIN Ids(list)
      /\ Ids(list)[LastAt(Ids(list), id)] = id
      /\ \A j \in DOMAIN Ids(list) : Ids(list)[j] = id => j <= LastAt(Ids(list), id)
  BY <1>7 DEF LastAt
<1> QED BY <1>6, <1>8

\* The sort caches indices of buses, or none.
LEMMA TargetTyped ==
  ASSUME NEW A, NEW list \in Seq(A), NEW id PROVE Target(list, id) \in Nat \cup {None}
<1>1. CASE \E i \in DOMAIN list : list[i].id = id
  <2>1. Target(list, id) = LastAt(Ids(list), id)
    BY <1>1 DEF Target
  <2>2. LastAt(Ids(list), id) \in 1..Len(list)
    BY <1>1, LastIs
  <2> QED BY <2>1, <2>2
<1> QED BY <1>1 DEF Target

LEMMA CachedTyped ==
  ASSUME NEW A, NEW buses \in Seq(A), NEW sends \in Seq(GraphSends)
  PROVE  Cached(buses, sends) \in Seq(GraphSends)
<1>1. /\ DOMAIN sends = 1..Len(sends) /\ Len(sends) \in Nat
      /\ \A k \in 1..Len(sends) : sends[k] \in GraphSends
  BY LenProperties, ElementOfSeq
<1>2. \A k \in 1..Len(sends) : SendTo(sends[k], Target(buses, sends[k].dest)) \in GraphSends
  BY <1>1, TargetTyped DEF SendTo, GraphSends
<1>3. Cached(buses, sends) \in [1..Len(sends) -> GraphSends]
  BY <1>1, <1>2 DEF Cached
<1> QED BY <1>1, <1>3

LEMMA SortTyped ==
  ASSUME NEW g, IsGraph(g) PROVE IsGraph(CacheSendIndices(g))
<1>0. /\ DOMAIN g.tracks \subseteq Names /\ g.tracks \in [DOMAIN g.tracks -> GraphTracks]
      /\ g.buses \in Seq(GraphBuses) /\ g.master \in GraphMaster
  BY DEF IsGraph
<1>1. ASSUME NEW t \in DOMAIN g.tracks
      PROVE  Track(g.tracks[t], g.tracks[t].inserts, Cached(g.buses, g.tracks[t].sends), g.tracks[t].lanes)
               \in GraphTracks
  <2>1. PICK s \in GraphTracks : s = g.tracks[t]
    BY <1>0
  <2>2. s.sends \in Seq(GraphSends)
    BY DEF GraphTracks
  <2>3. Cached(g.buses, s.sends) \in Seq(GraphSends)
    BY <1>0, <2>2, CachedTyped
  <2>4. Track(s, s.inserts, Cached(g.buses, s.sends), s.lanes) \in GraphTracks
    BY <2>3 DEF Track, GraphTracks
  <2> QED BY <2>1, <2>4
<1>2. CacheTracks(g) \in [DOMAIN g.tracks -> GraphTracks]
  BY <1>1 DEF CacheTracks
<1>3. /\ DOMAIN g.buses = 1..Len(g.buses) /\ Len(g.buses) \in Nat
      /\ \A i \in 1..Len(g.buses) : g.buses[i] \in GraphBuses
  BY <1>0, LenProperties, ElementOfSeq
<1>4. ASSUME NEW i \in 1..Len(g.buses)
      PROVE  Bus(g.buses[i], g.buses[i].inserts, Cached(g.buses, g.buses[i].sends)) \in GraphBuses
  <2>1. PICK b \in GraphBuses : b = g.buses[i]
    BY <1>3
  <2>2. b.sends \in Seq(GraphSends)
    BY DEF GraphBuses
  <2>3. Cached(g.buses, b.sends) \in Seq(GraphSends)
    BY <1>0, <2>2, CachedTyped
  <2>4. Bus(b, b.inserts, Cached(g.buses, b.sends)) \in GraphBuses
    BY <2>3 DEF Bus, GraphBuses
  <2> QED BY <2>1, <2>4
<1>5. CacheBuses(g.buses) \in [1..Len(g.buses) -> GraphBuses]
  BY <1>3, <1>4 DEF CacheBuses
<1>6. CacheBuses(g.buses) \in Seq(GraphBuses)
  BY <1>3, <1>5
<1> QED BY <1>0, <1>2, <1>6 DEF CacheSendIndices, IsGraph

LEMMA FreshTyped ==
  ASSUME NEW p, IsDocument(p) PROVE IsGraph(Fresh(p))
BY UnsortedTyped, SortTyped DEF Fresh

\* The type invariant
Typed == IsDocument(project) /\ IsGraph(graph)

LEMMA TypedInit == Init => Typed
BY FreshTyped, LivePatchAssumption DEF Init, Typed

LEMMA TypedKept == Typed /\ [Next]_vars => Typed'
<1> SUFFICES ASSUME Typed, [Next]_vars PROVE Typed'
  OBVIOUS
<1>0. IsDocument(project) /\ IsGraph(graph)
  BY DEF Typed
<1>1. CASE project' = project /\ graph' = graph
  BY <1>0, <1>1 DEF Typed, IsDocument, IsGraph
<1>2. ASSUME NEW o \in Ops, PatchOp(o) PROVE Typed'
  <2>1. Parses(o)
    BY LivePatchAssumption
  <2>2. graph' = graph \/ graph' \in ApplyOne(graph, o)
    BY <1>2 DEF PatchOp
  <2>3. project' = project \/ project' \in ApplyOneProject(project, o)
    BY <1>2 DEF PatchOp
  <2>4. IsGraph(graph')
    BY <1>0, <2>1, <2>2, ApplyOneTyped
  <2>5. IsDocument(project')
    BY <1>0, <2>1, <2>3, ApplyOneProjectTyped
  <2> QED BY <2>4, <2>5 DEF Typed, IsDocument, IsGraph
<1>3. CASE PatchEnd
  <2>1. project' = project /\ (graph' = graph \/ graph' = CacheSendIndices(graph))
    BY <1>3 DEF PatchEnd, Sort, SortFails
  <2>2. IsGraph(graph') /\ IsDocument(project')
    BY <1>0, <2>1, SortTyped
  <2> QED BY <2>2 DEF Typed, IsDocument, IsGraph
<1>4. CASE Rebuild
  <2>1. project' = project /\ graph' = Fresh(project)
    BY <1>4 DEF Rebuild
  <2>2. IsGraph(graph') /\ IsDocument(project')
    BY <1>0, <2>1, FreshTyped
  <2> QED BY <2>2 DEF Typed, IsDocument, IsGraph
<1> QED BY <1>1, <1>2, <1>3, <1>4 DEF Next, PatchBegin, vars

\* The document and the graph keep their types under every patch.
THEOREM PatchTypes == Spec => []Typed
BY TypedInit, TypedKept, PTL DEF Spec

LEMMA TypedSampled == Typed => AutomationFollowsPoints
<1> SUFFICES ASSUME Typed, NEW t \in DOMAIN graph.tracks, NEW i \in DOMAIN graph.tracks[t].lanes
             PROVE  Sampled(graph.tracks[t].lanes[i].points)
  BY DEF AutomationFollowsPoints
<1>1. graph.tracks[t] \in GraphTracks
  BY DEF Typed, IsGraph
<1>2. PICK ls \in Seq(GraphLanes) : ls = graph.tracks[t].lanes
  BY <1>1 DEF GraphTracks
<1>3. ls[i] \in GraphLanes
  BY <1>2, LenProperties, ElementOfSeq
<1>4. ls[i].points \in Seq(GraphPoints)
  BY <1>3 DEF GraphLanes
<1> QED BY <1>2, <1>4, LaneSampled

\* However a lane's points are added, moved and removed, it is sampled within
\* their range, and where they stand if they are sorted.
THEOREM LanesFollow == Spec => []AutomationFollowsPoints
BY PatchTypes, TypedSampled, PTL

-----------------------------------------------------------------------------
(* The two patchers side by side *)

\* A part of the graph and the part of the document it stands for; an index
\* says nothing of the document.
SameSend == {x \in GraphSends \X Sends : x[1].id = x[2].id /\ x[1].dest = x[2].dest /\ x[1].pre = x[2].pre}

SameNode == {x \in GraphNodes \X Nodes : x[1] = LiveNode(x[2])}

SameLane == {x \in GraphLanes \X Lanes : x[1] = LiveLane(x[2])}

Builtin == {n \in Nodes : n.builtin}

SameInserts(ls, ds) == Matches(SameNode, ls, Only(ds, Builtin))

SameTrack(t, s) ==
  /\ t.mute = s.mute /\ t.solo = s.solo
  /\ SameInserts(t.inserts, s.inserts)
  /\ Matches(SameSend, t.sends, s.sends)
  /\ Matches(SameLane, t.lanes, s.lanes)

SameBus == {x \in GraphBuses \X Buses :
              /\ x[1].id = x[2].id
              /\ SameInserts(x[1].inserts, x[2].inserts)
              /\ Matches(SameSend, x[1].sends, x[2].sends)}

\* The graph is that of the document, but for the indices of its sends.
Same(g, p) ==
  /\ DOMAIN g.tracks = DOMAIN p.tracks
  /\ \A t \in DOMAIN p.tracks : SameTrack(g.tracks[t], p.tracks[t])
  /\ Matches(SameBus, g.buses, p.buses)
  /\ SameInserts(g.master.inserts, p.master.inserts)

\* Things with the same ids are found in the same place.
LEMMA MatchesFirst ==
  ASSUME NEW A, NEW B, NEW R, NEW l \in Seq(A), NEW d \in Seq(B), Matches(R, l, d), NEW id,
         \A i \in 1..Len(l) : l[i].id = d[i].id
  PROVE  /\ Has(l, id) <=> Has(d, id)
         /\ Has(l, id) => FirstAt(l, id) = FirstAt(d, id)
<1>1. DOMAIN l = 1..Len(l) /\ DOMAIN d = 1..Len(d) /\ Len(l) = Len(d)
  BY LenProperties DEF Matches
<1>2. Has(l, id) <=> Has(d, id)
  BY <1>1 DEF Has
<1>3. ASSUME Has(l, id) PROVE FirstAt(l, id) = FirstAt(d, id)
  <2> DEFINE i == FirstAt(d, id)
  <2>1. /\ i \in 1..Len(d) /\ d[i].id = id
        /\ \A j \in 1..Len(d) : j < i => d[j].id # id
    BY <1>2, <1>3, FirstIs
  <2> HIDE DEF i
  <2>2. i \in 1..Len(l) /\ l[i].id = id /\ \A j \in 1..Len(l) : j < i => l[j].id # id
    BY <1>1, <2>1
  <2>3. FirstAt(l, id) = i
    BY <2>2, FirstIsAt
  <2> QED BY <2>3 DEF i
<1> QED BY <1>2, <1>3

LEMMA MatchesChanged ==
  ASSUME NEW A, NEW B, NEW R, NEW l \in Seq(A), NEW d \in Seq(B), Matches(R, l, d),
         NEW i \in 1..Len(l), NEW x \in A, NEW y \in B, <<x, y>> \in R
  PROVE  Matches(R, [l EXCEPT ![i] = x], [d EXCEPT ![i] = y])
<1>1. Len(l) = Len(d) /\ \A j \in 1..Len(l) : <<l[j], d[j]>> \in R
  BY DEF Matches
<1>2. /\ Len([l EXCEPT ![i] = x]) = Len(l)
      /\ \A j \in 1..Len(l) : [l EXCEPT ![i] = x][j] = IF j = i THEN x ELSE l[j]
  BY ExceptSeq
<1>3. /\ Len([d EXCEPT ![i] = y]) = Len(d)
      /\ \A j \in 1..Len(d) : [d EXCEPT ![i] = y][j] = IF j = i THEN y ELSE d[j]
  <2>1. i \in 1..Len(d)
    BY <1>1
  <2> QED BY <2>1, ExceptSeq
<1> QED BY <1>1, <1>2, <1>3 DEF Matches

LEMMA MatchesRemoveAt ==
  ASSUME NEW A, NEW B, NEW R, NEW l \in Seq(A), NEW d \in Seq(B), Matches(R, l, d),
         NEW i \in 1..Len(l)
  PROVE  Matches(R, RemoveAt(l, i), RemoveAt(d, i))
<1>1. Len(l) = Len(d) /\ \A j \in 1..Len(l) : <<l[j], d[j]>> \in R
  BY DEF Matches
<1>2. /\ Len(RemoveAt(l, i)) = Len(l) - 1
      /\ \A j \in 1..(Len(l) - 1) : RemoveAt(l, i)[j] = IF j < i THEN l[j] ELSE l[j + 1]
  BY RemovedAt
<1>3. /\ Len(RemoveAt(d, i)) = Len(d) - 1
      /\ \A j \in 1..(Len(d) - 1) : RemoveAt(d, i)[j] = IF j < i THEN d[j] ELSE d[j + 1]
  <2>1. i \in 1..Len(d)
    BY <1>1
  <2> QED BY <2>1, RemovedAt
<1>4. Len(l) \in Nat
  BY LenProperties
<1>5. \A j \in 1..(Len(l) - 1) : j \in 1..Len(l) /\ j + 1 \in 1..Len(l)
  BY <1>4
<1>6. \A j \in 1..(Len(l) - 1) : <<RemoveAt(l, i)[j], RemoveAt(d, i)[j]>> \in R
  BY <1>1, <1>2, <1>3, <1>5
<1> QED BY <1>1, <1>2, <1>3, <1>6 DEF Matches

LEMMA MatchesRemoved ==
  ASSUME NEW A, NEW B, NEW R, NEW l \in Seq(A), NEW d \in Seq(B), Matches(R, l, d), NEW id,
         \A i \in 1..Len(l) : l[i].id = d[i].id
  PROVE  /\ Removed(l, id) = {} <=> Removed(d, id) = {}
         /\ \A k \in Removed(l, id), c \in Removed(d, id) : Matches(R, k, c)
<1>1. Has(l, id) <=> Has(d, id)
  BY MatchesFirst
<1> DEFINE S == {e \in Range(l) : e.id # id}
           T == {e \in Range(d) : e.id # id}
<1>2. Matches(R, Only(l, S), Only(d, T))
  <2>1. Len(l) = Len(d)
    BY DEF Matches
  <2>2. Range(l) = {l[i] : i \in 1..Len(l)} /\ Range(d) = {d[i] : i \in 1..Len(d)}
    BY RangeEquality
  <2>3. \A i \in 1..Len(l) : l[i] \in S <=> d[i] \in T
    BY <2>1, <2>2
  <2> HIDE DEF S, T
  <2> QED BY <2>3, OnlyMatches
<1>3. /\ Removed(l, id) = IF Has(l, id) THEN {Only(l, S)} ELSE {}
      /\ Removed(d, id) = IF Has(d, id) THEN {Only(d, T)} ELSE {}
  BY DEF Removed
<1> HIDE DEF S, T
<1> QED BY <1>1, <1>2, <1>3

\* The two patchers refuse the same operations on the sends of a track or a
\* bus, and leave the same sends.
LEMMA SendsMirrored ==
  ASSUME NEW o, Parses(o), o.part = "sends",
         NEW l \in Seq(GraphSends), NEW d \in Seq(Sends), Matches(SameSend, l, d)
  PROVE  /\ LiveSends(l, o) = {} <=> ProjectSends(d, o) = {}
         /\ \A k \in LiveSends(l, o), c \in ProjectSends(d, o) : Matches(SameSend, k, c)
<1>0. Len(l) = Len(d) /\ \A i \in 1..Len(l) : <<l[i], d[i]>> \in SameSend
  BY DEF Matches
<1>1. \A i \in 1..Len(l) : l[i].id = d[i].id
  BY <1>0 DEF SameSend
<1>2. CASE o.verb = "append"
  <2>1. LiveSends(l, o) = {Append(l, LiveSend(o.send))} /\ ProjectSends(d, o) = {Append(d, o.send)}
    BY <1>2 DEF LiveSends, ProjectSends
  <2>2. o.send \in Sends
    BY <1>2 DEF Parses
  <2>3. LiveSend(o.send) \in GraphSends /\ <<LiveSend(o.send), o.send>> \in SameSend
    BY <2>2 DEF LiveSend, SendTo, GraphSends, Sends, SameSend
  <2>4. Matches(SameSend, Append(l, LiveSend(o.send)), Append(d, o.send))
    BY <2>2, <2>3, MatchesAppend
  <2> QED BY <2>1, <2>4
<1>3. CASE o.verb = "remove"
  <2>1. LiveSends(l, o) = Removed(l, o.item) /\ ProjectSends(d, o) = Removed(d, o.item)
    BY <1>3 DEF LiveSends, ProjectSends
  <2> QED BY <1>1, <2>1, MatchesRemoved
<1>4. CASE o.verb \in {"level", "pre", "dest"}
  <2> DEFINE i == FirstAt(l, o.item)
  <2>1. /\ Has(l, o.item) <=> Has(d, o.item)
        /\ Has(l, o.item) => FirstAt(d, o.item) = i
    BY <1>1, MatchesFirst
  <2>2. CASE ~Has(l, o.item)
    <3>1. LiveSends(l, o) = {} /\ ProjectSends(d, o) = {}
      BY <1>4, <2>1, <2>2 DEF LiveSends, ProjectSends, Changed
    <3> QED BY <3>1
  <2>3. CASE Has(l, o.item)
    <3> DEFINE New(s) == IF o.verb = "level" THEN s
                         ELSE IF o.verb = "pre" THEN [s EXCEPT !.pre = o.flag]
                         ELSE [s EXCEPT !.dest = o.dest]
    <3>1. /\ LiveSends(l, o) = {[l EXCEPT ![i] = New(l[i])]}
          /\ ProjectSends(d, o) = {[d EXCEPT ![i] = New(d[i])]}
      <4>1. CASE o.verb = "level"
        BY <2>1, <2>3, <4>1 DEF LiveSends, ProjectSends, Changed
      <4>2. CASE o.verb = "pre"
        BY <2>1, <2>3, <4>2 DEF LiveSends, ProjectSends, Changed
      <4>3. CASE o.verb = "dest"
        BY <2>1, <2>3, <4>3 DEF LiveSends, ProjectSends, Changed
      <4> QED BY <1>4, <4>1, <4>2, <4>3
    <3>2. i \in 1..Len(l)
      BY <2>3, FirstIs
    <3> HIDE DEF i
    <3>3. /\ l[i] \in GraphSends /\ d[i] \in Sends
          /\ l[i].id = d[i].id /\ l[i].dest = d[i].dest /\ l[i].pre = d[i].pre
      BY <1>0, <3>2, ElementOfSeq DEF SameSend
    <3>4. (o.verb = "pre" => o.flag \in BOOLEAN) /\ (o.verb = "dest" => o.dest \in Names)
      BY DEF Parses
    <3>5. New(l[i]) \in GraphSends /\ New(d[i]) \in Sends /\ <<New(l[i]), New(d[i])>> \in SameSend
      <4>1. PICK x \in GraphSends : x = l[i]
        BY <3>3
      <4>2. PICK y \in Sends : y = d[i]
        BY <3>3
      <4>3. x.id = y.id /\ x.dest = y.dest /\ x.pre = y.pre
        BY <3>3, <4>1, <4>2
      <4>4. New(x) \in GraphSends /\ New(y) \in Sends
        BY <1>4, <3>4 DEF GraphSends, Sends
      <4>5. New(x).id = New(y).id /\ New(x).dest = New(y).dest /\ New(x).pre = New(y).pre
        BY <1>4, <4>3 DEF GraphSends, Sends
      <4> HIDE DEF New
      <4>6. <<New(x), New(y)>> \in SameSend
        BY <4>4, <4>5 DEF SameSend
      <4> QED BY <4>1, <4>2, <4>4, <4>6
    <3> HIDE DEF New
    <3>6. Matches(SameSend, [l EXCEPT ![i] = New(l[i])], [d EXCEPT ![i] = New(d[i])])
      BY <3>2, <3>5, MatchesChanged
    <3> QED BY <3>1, <3>6
  <2> QED BY <2>2, <2>3
<1>5. CASE o.verb \notin {"append", "remove", "level", "pre", "dest"}
  <2>1. LiveSends(l, o) = {} /\ ProjectSends(d, o) = {}
    BY <1>5 DEF LiveSends, ProjectSends
  <2> QED BY <2>1
<1> QED BY <1>2, <1>3, <1>4, <1>5

\* An appended lane is the same in both.
LEMMA LanesMirrored ==
  ASSUME NEW o, Parses(o), o.part = "lanes", o.verb = "append",
         NEW l \in Seq(GraphLanes), NEW d \in Seq(Lanes), Matches(SameLane, l, d)
  PROVE  /\ LiveLanes(l, o) # {} /\ ProjectLanes(d, o) # {}
         /\ \A k \in LiveLanes(l, o), c \in ProjectLanes(d, o) : Matches(SameLane, k, c)
<1>1. LiveLanes(l, o) = {Append(l, LiveLane(o.lane))} /\ ProjectLanes(d, o) = {Append(d, o.lane)}
  BY DEF LiveLanes, ProjectLanes
<1>2. o.lane \in Lanes
  BY DEF Parses
<1>3. LiveLane(o.lane) \in GraphLanes /\ <<LiveLane(o.lane), o.lane>> \in SameLane
  BY <1>2, MadeLane DEF SameLane
<1>4. Matches(SameLane, Append(l, LiveLane(o.lane)), Append(d, o.lane))
  BY <1>2, <1>3, MatchesAppend
<1> QED BY <1>1, <1>4

\* An operation on a chain that both patchers are said to treat alike
Alike(ds, o) ==
  CASE o.verb = "append" -> o.insert.builtin /\ rate = DefaultRate
    [] o.verb = "bypass" -> o.root = "tracks" /\ o.item \notin LeftOut(ds)
    [] o.verb \in {"remove", "param"} -> o.item \notin LeftOut(ds)
    [] OTHER -> TRUE

\* Of a node that is not left out, the graph has its counterpart, and first
\* where the document has it first.
LEMMA FirstKept ==
  ASSUME NEW l \in Seq(GraphNodes), NEW d \in Seq(Nodes), SameInserts(l, d),
         NEW id, id \notin LeftOut(d)
  PROVE  /\ Has(l, id) <=> Has(d, id)
         /\ Has(d, id) =>
              \A e \in Builtin :
                /\ l[FirstAt(l, id)] = LiveNode(d[FirstAt(d, id)])
                /\ SameInserts([l EXCEPT ![FirstAt(l, id)] = LiveNode(e)],
                               [d EXCEPT ![FirstAt(d, id)] = e])
<1> DEFINE kept == Only(d, Builtin)
<1>1. /\ Len(l) = Len(kept) /\ \A i \in 1..Len(l) : <<l[i], kept[i]>> \in SameNode
      /\ Matches(SameNode, l, kept)
  BY DEF SameInserts, Matches
<1>2. kept \in Seq(Nodes)
  <2>1. kept \in Seq(Nodes \cap Builtin) /\ Nodes \cap Builtin \subseteq Nodes
    BY OnlyTyped
  <2> QED BY <2>1, SeqMonotonic
<1>3. /\ DOMAIN d = 1..Len(d) /\ \A i \in 1..Len(d) : d[i] \in Nodes
      /\ DOMAIN kept = 1..Len(kept) /\ Len(kept) \in Nat
  BY <1>2, LenProperties, ElementOfSeq
<1>4. \A i \in 1..Len(d) : d[i].id = id => d[i] \in Builtin
  BY <1>3 DEF LeftOut, Builtin
<1>5. \A i \in 1..Len(l) : l[i].id = kept[i].id
  <2> TAKE i \in 1..Len(l)
  <2>1. <<l[i], kept[i]>> \in SameNode
    BY <1>1
  <2> HIDE DEF kept
  <2>2. l[i] = LiveNode(kept[i])
    BY <2>1 DEF SameNode
  <2> QED BY <2>2 DEF LiveNode
<1>6. /\ Has(l, id) <=> Has(kept, id)
      /\ Has(l, id) => FirstAt(l, id) = FirstAt(kept, id)
  BY <1>1, <1>2, <1>5, MatchesFirst
<1>7. Has(d, id) <=> Has(kept, id)
  <2>1. ASSUME NEW i \in 1..Len(d), d[i].id = id PROVE Has(kept, id)
    <3>1. d[i] \in Builtin
      BY <1>4, <2>1
    <3>2. \E j \in 1..Len(kept) : kept[j] = d[i]
      BY <3>1, OnlyHas
    <3> QED BY <1>3, <2>1, <3>2 DEF Has
  <2>2. ASSUME NEW j \in 1..Len(kept), kept[j].id = id PROVE Has(d, id)
    <3>1. \E i \in 1..Len(d) : d[i] = kept[j]
      BY OnlyFrom
    <3> QED BY <1>3, <2>2, <3>1 DEF Has
  <2> QED BY <1>3, <2>1, <2>2 DEF Has
<1>8. ASSUME Has(d, id), NEW e \in Builtin
      PROVE  /\ l[FirstAt(l, id)] = LiveNode(d[FirstAt(d, id)])
             /\ SameInserts([l EXCEPT ![FirstAt(l, id)] = LiveNode(e)],
                            [d EXCEPT ![FirstAt(d, id)] = e])
  <2> DEFINE P == {n \in Nodes : n.id = id}
  <2>1. PICK f \in 1..Len(d) : /\ f = FirstAt(d, id) /\ d[f].id = id
                               /\ \A j \in 1..Len(d) : j < f => d[j].id # id
    BY <1>8, FirstIs
  <2>2. d[f] \in Builtin /\ d[f] \in P /\ \A j \in 1..Len(d) : j < f => d[j] \notin P
    BY <1>3, <1>4, <2>1
  <2>3. e \in Nodes
    BY DEF Builtin
  <2> HIDE DEF P, kept
  <2>4. PICK g \in 1..Len(kept) :
          /\ kept[g] = d[f]
          /\ \A j \in 1..Len(kept) : j < g => kept[j] \notin P
          /\ Only([d EXCEPT ![f] = e], Builtin) = [kept EXCEPT ![g] = e]
    <3>1. d[f] \in Builtin
      BY <2>2
    <3>2. d[f] \in P
      BY <2>2
    <3>3. \A j \in 1..Len(d) : j < f => d[j] \notin P
      BY <2>2
    <3>4. KeptAt(d, Builtin, P, f, e)
      BY <2>3, <3>1, <3>2, <3>3, OnlyChanged
    <3> QED BY <3>4 DEF kept, KeptAt
  <2>5. kept[g].id = id /\ \A j \in 1..Len(kept) : j < g => kept[j].id # id
    <3>1. \A j \in 1..Len(kept) : kept[j] \in Nodes
      BY <1>2, ElementOfSeq
    <3>2. kept[g].id = id
      BY <2>1, <2>4
    <3>3. \A j \in 1..Len(kept) : j < g => kept[j] \notin P
      BY <2>4
    <3> QED BY <3>1, <3>2, <3>3 DEF P
  <2>6. FirstAt(kept, id) = g
    BY <1>2, <2>5, FirstIsAt
  <2>7. FirstAt(l, id) = g /\ g \in 1..Len(l)
    BY <1>1, <1>6, <1>7, <1>8, <2>6
  <2>8. l[g] = LiveNode(d[f])
    <3>1. <<l[g], kept[g]>> \in SameNode
      BY <1>1, <2>7
    <3> QED BY <2>4, <3>1 DEF SameNode
  <2>9. LiveNode(e) \in GraphNodes /\ <<LiveNode(e), e>> \in SameNode
    BY <2>3 DEF LiveNode, Nodes, GraphNodes, SameNode
  <2>10. Matches(SameNode, [l EXCEPT ![g] = LiveNode(e)], [kept EXCEPT ![g] = e])
    BY <1>1, <1>2, <2>3, <2>7, <2>9, MatchesChanged
  <2>11. Only([d EXCEPT ![f] = e], Builtin) = [kept EXCEPT ![g] = e]
    BY <2>4
  <2>12. SameInserts([l EXCEPT ![g] = LiveNode(e)], [d EXCEPT ![f] = e])
    BY <2>10, <2>11 DEF SameInserts
  <2> QED BY <2>1, <2>7, <2>8, <2>12
<1> QED BY <1>6, <1>7, <1>8

LEMMA RemovedKept ==
  ASSUME NEW l \in Seq(GraphNodes), NEW d \in Seq(Nodes), SameInserts(l, d),
         NEW id, id \notin LeftOut(d)
  PROVE  /\ Removed(l, id) = {} <=> Removed(d, id) = {}
         /\ \A k \in Removed(l, id), c \in Removed(d, id) : SameInserts(k, c)
<1> DEFINE kept == Only(d, Builtin)
           S == {e \in Range(l) : e.id # id}
           T == {e \in Range(d) : e.id # id}
<1>1. Has(l, id) <=> Has(d, id)
  BY FirstKept
<1>2. /\ Len(l) = Len(kept) /\ \A i \in 1..Len(l) : <<l[i], kept[i]>> \in SameNode
      /\ Matches(SameNode, l, kept)
  BY DEF SameInserts, Matches
<1>3. kept \in Seq(Nodes)
  <2>1. kept \in Seq(Nodes \cap Builtin) /\ Nodes \cap Builtin \subseteq Nodes
    BY OnlyTyped
  <2> QED BY <2>1, SeqMonotonic
<1>4. \A i \in 1..Len(l) : l[i] \in S <=> kept[i] \in T
  <2> SUFFICES ASSUME NEW i \in 1..Len(l) PROVE l[i] \in S <=> kept[i] \in T
    OBVIOUS
  <2>1. l[i].id = kept[i].id
    <3>1. <<l[i], kept[i]>> \in SameNode
      BY <1>2
    <3> HIDE DEF kept
    <3>2. l[i] = LiveNode(kept[i])
      BY <3>1 DEF SameNode
    <3> QED BY <3>2 DEF LiveNode
  <2>2. i \in 1..Len(kept)
    BY <1>2
  <2>3. \E j \in 1..Len(d) : d[j] = kept[i]
    BY <2>2, OnlyFrom
  <2>4. l[i] \in Range(l) /\ kept[i] \in Range(d)
    BY <2>3, RangeEquality
  <2> HIDE DEF kept
  <2> QED BY <2>1, <2>4
<1>5. Only(kept, T) = Only(Only(d, T), Builtin)
  <2>1. Only(kept, T) = Only(d, Builtin \cap T) /\ Only(Only(d, T), Builtin) = Only(d, T \cap Builtin)
    BY OnlyOnly
  <2>2. Builtin \cap T = T \cap Builtin
    OBVIOUS
  <2> QED BY <2>1, <2>2
<1> HIDE DEF kept, S, T
<1>6. Matches(SameNode, Only(l, S), Only(kept, T))
  BY <1>2, <1>3, <1>4, OnlyMatches
<1>7. SameInserts(Only(l, S), Only(d, T))
  BY <1>5, <1>6 DEF SameInserts
<1>8. /\ Removed(l, id) = IF Has(l, id) THEN {Only(l, S)} ELSE {}
      /\ Removed(d, id) = IF Has(d, id) THEN {Only(d, T)} ELSE {}
  BY DEF Removed, S, T
<1> QED BY <1>1, <1>7, <1>8

\* The same for the nodes of a chain, for the operations both treat alike
LEMMA InsertsMirrored ==
  ASSUME NEW o, Parses(o), o.part = "inserts",
         NEW l \in Seq(GraphNodes), NEW d \in Seq(Nodes), SameInserts(l, d), Alike(d, o)
  PROVE  /\ LiveInserts(l, o) = {} <=> ProjectInserts(d, o) = {}
         /\ \A k \in LiveInserts(l, o), c \in ProjectInserts(d, o) : SameInserts(k, c)
<1>1. CASE o.verb = "append"
  <2>0. o.insert \in Nodes /\ o.insert.builtin /\ rate = DefaultRate
    BY <1>1 DEF Parses, Alike
  <2>7. AddedNode(o.insert) = LiveNode(o.insert)
    BY <2>0 DEF AddedNode
  <2>1. /\ LiveInserts(l, o) = {Append(l, LiveNode(o.insert))}
        /\ ProjectInserts(d, o) = {Append(d, o.insert)}
    BY <1>1, <2>0, <2>7 DEF LiveInserts, ProjectInserts
  <2>2. LiveNode(o.insert) \in GraphNodes /\ <<LiveNode(o.insert), o.insert>> \in SameNode
    BY <2>0 DEF LiveNode, Nodes, GraphNodes, SameNode
  <2>3. Only(Append(d, o.insert), Builtin) = Append(Only(d, Builtin), o.insert)
    BY <2>0, OnlyAppend DEF Builtin
  <2>4. Only(d, Builtin) \in Seq(Nodes)
    <3>1. Only(d, Builtin) \in Seq(Nodes \cap Builtin) /\ Nodes \cap Builtin \subseteq Nodes
      BY OnlyTyped
    <3> QED BY <3>1, SeqMonotonic
  <2>5. Matches(SameNode, Append(l, LiveNode(o.insert)), Append(Only(d, Builtin), o.insert))
    BY <2>0, <2>2, <2>4, MatchesAppend DEF SameInserts
  <2>6. SameInserts(Append(l, LiveNode(o.insert)), Append(d, o.insert))
    BY <2>3, <2>5 DEF SameInserts
  <2> QED BY <2>1, <2>6
<1>2. CASE o.verb = "remove"
  <2>1. LiveInserts(l, o) = Removed(l, o.item) /\ ProjectInserts(d, o) = Removed(d, o.item)
    BY <1>2 DEF LiveInserts, ProjectInserts
  <2>2. o.item \notin LeftOut(d)
    BY <1>2 DEF Alike
  <2> QED BY <2>1, <2>2, RemovedKept
<1>3. CASE o.verb \in {"param", "bypass"}
  <2> DEFINE f == FirstAt(l, o.item)
             i == FirstAt(d, o.item)
             New(n) == IF o.verb = "param" THEN [n EXCEPT !.param = o.level]
                       ELSE [n EXCEPT !.bypass = o.flag]
  <2>1. o.item \notin LeftOut(d) /\ (o.verb = "bypass" => o.root = "tracks")
    BY <1>3 DEF Alike
  <2>2. Has(l, o.item) <=> Has(d, o.item)
    BY <2>1, FirstKept
  <2>3. CASE ~Has(d, o.item)
    <3>1. LiveInserts(l, o) = {} /\ ProjectInserts(d, o) = {}
      BY <1>3, <2>2, <2>3 DEF LiveInserts, ProjectInserts, Changed
    <3> QED BY <3>1
  <2>4. CASE Has(d, o.item)
    <3>1. /\ LiveInserts(l, o) = {[l EXCEPT ![f] = New(l[f])]}
          /\ ProjectInserts(d, o) = {[d EXCEPT ![i] = New(d[i])]}
      <4>1. CASE o.verb = "param"
        BY <2>1, <2>2, <2>4, <4>1 DEF LiveInserts, ProjectInserts, Changed
      <4>2. CASE o.verb = "bypass"
        BY <2>1, <2>2, <2>4, <4>2 DEF LiveInserts, ProjectInserts, Changed
      <4> QED BY <1>3, <4>1, <4>2
    <3>2. i \in 1..Len(d) /\ d[i].id = o.item
      BY <2>4, FirstIs
    <3>3. PICK n \in Nodes : n = d[i] /\ n \in Builtin
      <4>1. d[i] \in Nodes /\ DOMAIN d = 1..Len(d)
        BY <3>2, ElementOfSeq, LenProperties
      <4>2. d[i].builtin
        BY <2>1, <3>2, <4>1 DEF LeftOut
      <4> QED BY <4>1, <4>2 DEF Builtin
    <3>4. (o.verb = "param" => o.level \in Int) /\ (o.verb = "bypass" => o.flag \in BOOLEAN)
      BY DEF Parses
    <3>5. New(n) \in Builtin /\ LiveNode(New(n)) = New(LiveNode(n))
      <4>1. n.builtin
        BY <3>3 DEF Builtin
      <4>2. New(n) \in Nodes
        BY <1>3, <3>4 DEF Nodes
      <4>3. New(n).builtin = n.builtin
        BY <1>3 DEF Nodes
      <4>4. New(n) \in Builtin
        BY <4>1, <4>2, <4>3 DEF Builtin
      <4>5. LiveNode(New(n)) = New(LiveNode(n))
        BY <1>3 DEF Nodes, LiveNode
      <4> QED BY <4>4, <4>5
    <3> HIDE DEF New, f, i
    <3>6. /\ l[f] = LiveNode(d[i])
          /\ SameInserts([l EXCEPT ![f] = LiveNode(New(n))], [d EXCEPT ![i] = New(n)])
      BY <2>1, <2>4, <3>5, FirstKept DEF f, i
    <3>7. SameInserts([l EXCEPT ![f] = New(l[f])], [d EXCEPT ![i] = New(d[i])])
      BY <3>3, <3>5, <3>6
    <3> QED BY <3>1, <3>7
  <2> QED BY <2>3, <2>4
<1>4. CASE o.verb \notin {"append", "remove", "param", "bypass"}
  <2>1. LiveInserts(l, o) = {} /\ ProjectInserts(d, o) = {}
    BY <1>4 DEF LiveInserts, ProjectInserts
  <2> QED BY <2>1
<1> QED BY <1>1, <1>2, <1>3, <1>4

\* What is not listed as a difference is treated alike.
LEMMA NotDiffers ==
  ASSUME NEW p, NEW o, ~Differs(p, o), o.part = "inserts", NEW ds, LeftOut(ds) \subseteq OtherFormats(p)
  PROVE  Alike(ds, o)
<1>1. CASE o.verb = "append"
  BY <1>1 DEF Differs, Alike
<1>2. CASE o.verb = "bypass"
  BY <1>2 DEF Differs, Alike
<1>3. CASE o.verb \in {"remove", "param"}
  BY <1>3 DEF Differs, Alike
<1> QED BY <1>1, <1>2, <1>3 DEF Alike

LEMMA TrackMirrored ==
  ASSUME NEW o, Parses(o), NEW t \in GraphTracks, NEW s \in Tracks, SameTrack(t, s),
         o.part = "inserts" => Alike(s.inserts, o), o.part = "lanes" => o.verb = "append"
  PROVE  /\ LiveTrack(t, o) = {} <=> ProjectTrack(s, o) = {}
         /\ \A x \in LiveTrack(t, o), y \in ProjectTrack(s, o) : SameTrack(x, y)
<1>0. /\ t.inserts \in Seq(GraphNodes) /\ t.sends \in Seq(GraphSends) /\ t.lanes \in Seq(GraphLanes)
      /\ s.inserts \in Seq(Nodes) /\ s.sends \in Seq(Sends) /\ s.lanes \in Seq(Lanes)
  BY DEF GraphTracks, Tracks
<1>1. /\ t.mute = s.mute /\ t.solo = s.solo /\ SameInserts(t.inserts, s.inserts)
      /\ Matches(SameSend, t.sends, s.sends) /\ Matches(SameLane, t.lanes, s.lanes)
  BY DEF SameTrack
<1>2. CASE o.part = "gain"
  <2>1. LiveTrack(t, o) = {t} /\ ProjectTrack(s, o) = {s}
    BY <1>2 DEF LiveTrack, ProjectTrack
  <2> QED BY <2>1
<1>3. CASE o.part = "mute"
  <2>1. /\ LiveTrack(t, o) = {[t EXCEPT !.mute = o.flag]}
        /\ ProjectTrack(s, o) = {[s EXCEPT !.mute = o.flag]}
    BY <1>3 DEF LiveTrack, ProjectTrack
  <2>2. SameTrack([t EXCEPT !.mute = o.flag], [s EXCEPT !.mute = o.flag])
    BY <1>1 DEF SameTrack, GraphTracks, Tracks
  <2> QED BY <2>1, <2>2
<1>4. CASE o.part = "solo"
  <2>1. /\ LiveTrack(t, o) = {[t EXCEPT !.solo = o.flag]}
        /\ ProjectTrack(s, o) = {[s EXCEPT !.solo = o.flag]}
    BY <1>4 DEF LiveTrack, ProjectTrack
  <2>2. SameTrack([t EXCEPT !.solo = o.flag], [s EXCEPT !.solo = o.flag])
    BY <1>1 DEF SameTrack, GraphTracks, Tracks
  <2> QED BY <2>1, <2>2
<1>5. CASE o.part = "inserts"
  <2>1. /\ LiveTrack(t, o) = {[t EXCEPT !.inserts = k] : k \in LiveInserts(t.inserts, o)}
        /\ ProjectTrack(s, o) = {[s EXCEPT !.inserts = c] : c \in ProjectInserts(s.inserts, o)}
    BY <1>5 DEF LiveTrack, ProjectTrack
  <2>2. /\ LiveInserts(t.inserts, o) = {} <=> ProjectInserts(s.inserts, o) = {}
        /\ \A k \in LiveInserts(t.inserts, o), c \in ProjectInserts(s.inserts, o) : SameInserts(k, c)
    BY <1>0, <1>1, <1>5, InsertsMirrored
  <2>3. ASSUME NEW k, NEW c, SameInserts(k, c)
        PROVE  SameTrack([t EXCEPT !.inserts = k], [s EXCEPT !.inserts = c])
    BY <1>1, <2>3 DEF SameTrack, GraphTracks, Tracks
  <2>4. LiveTrack(t, o) = {} <=> ProjectTrack(s, o) = {}
    <3>1. LiveTrack(t, o) = {} <=> LiveInserts(t.inserts, o) = {}
      <4>1. ASSUME NEW k \in LiveInserts(t.inserts, o) PROVE [t EXCEPT !.inserts = k] \in LiveTrack(t, o)
        BY <2>1
      <4>2. ASSUME NEW x \in LiveTrack(t, o) PROVE \E k \in LiveInserts(t.inserts, o) : x = [t EXCEPT !.inserts = k]
        BY <2>1
      <4> QED BY <4>1, <4>2
    <3>2. ProjectTrack(s, o) = {} <=> ProjectInserts(s.inserts, o) = {}
      <4>1. ASSUME NEW k \in ProjectInserts(s.inserts, o) PROVE [s EXCEPT !.inserts = k] \in ProjectTrack(s, o)
        BY <2>1
      <4>2. ASSUME NEW x \in ProjectTrack(s, o) PROVE \E k \in ProjectInserts(s.inserts, o) : x = [s EXCEPT !.inserts = k]
        BY <2>1
      <4> QED BY <4>1, <4>2
    <3> QED BY <2>2, <3>1, <3>2
  <2>5. ASSUME NEW x \in LiveTrack(t, o), NEW y \in ProjectTrack(s, o) PROVE SameTrack(x, y)
    <3>1. PICK k1 \in LiveInserts(t.inserts, o) : x = [t EXCEPT !.inserts = k1]
      BY <2>1
    <3>2. PICK c1 \in ProjectInserts(s.inserts, o) : y = [s EXCEPT !.inserts = c1]
      BY <2>1
    <3> QED BY <2>2, <2>3, <3>1, <3>2
  <2> QED BY <2>4, <2>5
<1>6. CASE o.part = "sends"
  <2>1. /\ LiveTrack(t, o) = {[t EXCEPT !.sends = k] : k \in LiveSends(t.sends, o)}
        /\ ProjectTrack(s, o) = {[s EXCEPT !.sends = c] : c \in ProjectSends(s.sends, o)}
    BY <1>6 DEF LiveTrack, ProjectTrack
  <2>2. /\ LiveSends(t.sends, o) = {} <=> ProjectSends(s.sends, o) = {}
        /\ \A k \in LiveSends(t.sends, o), c \in ProjectSends(s.sends, o) : Matches(SameSend, k, c)
    BY <1>0, <1>1, <1>6, SendsMirrored
  <2>3. ASSUME NEW k, NEW c, Matches(SameSend, k, c)
        PROVE  SameTrack([t EXCEPT !.sends = k], [s EXCEPT !.sends = c])
    BY <1>1, <2>3 DEF SameTrack, GraphTracks, Tracks
  <2>4. LiveTrack(t, o) = {} <=> ProjectTrack(s, o) = {}
    <3>1. LiveTrack(t, o) = {} <=> LiveSends(t.sends, o) = {}
      <4>1. ASSUME NEW k \in LiveSends(t.sends, o) PROVE [t EXCEPT !.sends = k] \in LiveTrack(t, o)
        BY <2>1
      <4>2. ASSUME NEW x \in LiveTrack(t, o) PROVE \E k \in LiveSends(t.sends, o) : x = [t EXCEPT !.sends = k]
        BY <2>1
      <4> QED BY <4>1, <4>2
    <3>2. ProjectTrack(s, o) = {} <=> ProjectSends(s.sends, o) = {}
      <4>1. ASSUME NEW k \in ProjectSends(s.sends, o) PROVE [s EXCEPT !.sends = k] \in ProjectTrack(s, o)
        BY <2>1
      <4>2. ASSUME NEW x \in ProjectTrack(s, o) PROVE \E k \in ProjectSends(s.sends, o) : x = [s EXCEPT !.sends = k]
        BY <2>1
      <4> QED BY <4>1, <4>2
    <3> QED BY <2>2, <3>1, <3>2
  <2>5. ASSUME NEW x \in LiveTrack(t, o), NEW y \in ProjectTrack(s, o) PROVE SameTrack(x, y)
    <3>1. PICK k1 \in LiveSends(t.sends, o) : x = [t EXCEPT !.sends = k1]
      BY <2>1
    <3>2. PICK c1 \in ProjectSends(s.sends, o) : y = [s EXCEPT !.sends = c1]
      BY <2>1
    <3> QED BY <2>2, <2>3, <3>1, <3>2
  <2> QED BY <2>4, <2>5
<1>7. CASE o.part = "lanes"
  <2>1. /\ LiveTrack(t, o) = {[t EXCEPT !.lanes = k] : k \in LiveLanes(t.lanes, o)}
        /\ ProjectTrack(s, o) = {[s EXCEPT !.lanes = c] : c \in ProjectLanes(s.lanes, o)}
    BY <1>7 DEF LiveTrack, ProjectTrack
  <2>2. /\ LiveLanes(t.lanes, o) # {} /\ ProjectLanes(s.lanes, o) # {}
        /\ \A k \in LiveLanes(t.lanes, o), c \in ProjectLanes(s.lanes, o) : Matches(SameLane, k, c)
    BY <1>0, <1>1, <1>7, LanesMirrored
  <2>3. ASSUME NEW k, NEW c, Matches(SameLane, k, c)
        PROVE  SameTrack([t EXCEPT !.lanes = k], [s EXCEPT !.lanes = c])
    BY <1>1, <2>3 DEF SameTrack, GraphTracks, Tracks
  <2>4. LiveTrack(t, o) = {} <=> ProjectTrack(s, o) = {}
    <3>1. LiveTrack(t, o) = {} <=> LiveLanes(t.lanes, o) = {}
      <4>1. ASSUME NEW k \in LiveLanes(t.lanes, o) PROVE [t EXCEPT !.lanes = k] \in LiveTrack(t, o)
        BY <2>1
      <4>2. ASSUME NEW x \in LiveTrack(t, o) PROVE \E k \in LiveLanes(t.lanes, o) : x = [t EXCEPT !.lanes = k]
        BY <2>1
      <4> QED BY <4>1, <4>2
    <3>2. ProjectTrack(s, o) = {} <=> ProjectLanes(s.lanes, o) = {}
      <4>1. ASSUME NEW k \in ProjectLanes(s.lanes, o) PROVE [s EXCEPT !.lanes = k] \in ProjectTrack(s, o)
        BY <2>1
      <4>2. ASSUME NEW x \in ProjectTrack(s, o) PROVE \E k \in ProjectLanes(s.lanes, o) : x = [s EXCEPT !.lanes = k]
        BY <2>1
      <4> QED BY <4>1, <4>2
    <3> QED BY <2>2, <3>1, <3>2
  <2>5. ASSUME NEW x \in LiveTrack(t, o), NEW y \in ProjectTrack(s, o) PROVE SameTrack(x, y)
    <3>1. PICK k1 \in LiveLanes(t.lanes, o) : x = [t EXCEPT !.lanes = k1]
      BY <2>1
    <3>2. PICK c1 \in ProjectLanes(s.lanes, o) : y = [s EXCEPT !.lanes = c1]
      BY <2>1
    <3> QED BY <2>2, <2>3, <3>1, <3>2
  <2> QED BY <2>4, <2>5
<1>8. CASE o.part \notin {"gain", "mute", "solo", "inserts", "sends", "lanes"}
  <2>1. LiveTrack(t, o) = {} /\ ProjectTrack(s, o) = {}
    BY <1>8 DEF LiveTrack, ProjectTrack
  <2> QED BY <2>1
<1> QED BY <1>2, <1>3, <1>4, <1>5, <1>6, <1>7, <1>8

LEMMA BusMirrored ==
  ASSUME NEW o, Parses(o), NEW b \in GraphBuses, NEW c \in Buses, <<b, c>> \in SameBus,
         o.part = "inserts" => Alike(c.inserts, o)
  PROVE  /\ LiveBus(b, o) = {} <=> ProjectBus(c, o) = {}
         /\ \A x \in LiveBus(b, o), y \in ProjectBus(c, o) : <<x, y>> \in SameBus
<1>0. /\ b.inserts \in Seq(GraphNodes) /\ b.sends \in Seq(GraphSends)
      /\ c.inserts \in Seq(Nodes) /\ c.sends \in Seq(Sends)
  BY DEF GraphBuses, Buses
<1>1. b.id = c.id /\ SameInserts(b.inserts, c.inserts) /\ Matches(SameSend, b.sends, c.sends)
  BY DEF SameBus
<1>2. CASE o.part = "gain"
  <2>1. LiveBus(b, o) = {b} /\ ProjectBus(c, o) = {c}
    BY <1>2 DEF LiveBus, ProjectBus
  <2> QED BY <2>1
<1>3. CASE o.part = "inserts"
  <2>1. /\ LiveBus(b, o) = {[b EXCEPT !.inserts = k] : k \in LiveInserts(b.inserts, o)}
        /\ ProjectBus(c, o) = {[c EXCEPT !.inserts = k] : k \in ProjectInserts(c.inserts, o)}
    BY <1>3 DEF LiveBus, ProjectBus
  <2>2. /\ LiveInserts(b.inserts, o) = {} <=> ProjectInserts(c.inserts, o) = {}
        /\ \A k \in LiveInserts(b.inserts, o), m \in ProjectInserts(c.inserts, o) : SameInserts(k, m)
    BY <1>0, <1>1, <1>3, InsertsMirrored
  <2>3. ASSUME NEW k \in LiveInserts(b.inserts, o), NEW m \in ProjectInserts(c.inserts, o)
        PROVE  <<[b EXCEPT !.inserts = k], [c EXCEPT !.inserts = m]>> \in SameBus
    <3>1. k \in Seq(GraphNodes) /\ m \in Seq(Nodes)
      BY <1>0, <1>3, LiveInsertsTyped, ProjectInsertsTyped
    <3>2. [b EXCEPT !.inserts = k] \in GraphBuses /\ [c EXCEPT !.inserts = m] \in Buses
      BY <3>1 DEF GraphBuses, Buses
    <3>3. /\ [b EXCEPT !.inserts = k].id = b.id /\ [c EXCEPT !.inserts = m].id = c.id
          /\ [b EXCEPT !.inserts = k].inserts = k /\ [c EXCEPT !.inserts = m].inserts = m
          /\ [b EXCEPT !.inserts = k].sends = b.sends /\ [c EXCEPT !.inserts = m].sends = c.sends
      BY DEF GraphBuses, Buses
    <3> QED BY <1>1, <2>2, <3>2, <3>3 DEF SameBus
  <2>4. LiveBus(b, o) = {} <=> ProjectBus(c, o) = {}
    <3>1. LiveBus(b, o) = {} <=> LiveInserts(b.inserts, o) = {}
      <4>1. ASSUME NEW k \in LiveInserts(b.inserts, o) PROVE [b EXCEPT !.inserts = k] \in LiveBus(b, o)
        BY <2>1
      <4>2. ASSUME NEW x \in LiveBus(b, o) PROVE \E k \in LiveInserts(b.inserts, o) : x = [b EXCEPT !.inserts = k]
        BY <2>1
      <4> QED BY <4>1, <4>2
    <3>2. ProjectBus(c, o) = {} <=> ProjectInserts(c.inserts, o) = {}
      <4>1. ASSUME NEW k \in ProjectInserts(c.inserts, o) PROVE [c EXCEPT !.inserts = k] \in ProjectBus(c, o)
        BY <2>1
      <4>2. ASSUME NEW x \in ProjectBus(c, o) PROVE \E k \in ProjectInserts(c.inserts, o) : x = [c EXCEPT !.inserts = k]
        BY <2>1
      <4> QED BY <4>1, <4>2
    <3> QED BY <2>2, <3>1, <3>2
  <2>5. ASSUME NEW x \in LiveBus(b, o), NEW y \in ProjectBus(c, o) PROVE <<x, y>> \in SameBus
    <3>1. PICK k1 \in LiveInserts(b.inserts, o) : x = [b EXCEPT !.inserts = k1]
      BY <2>1
    <3>2. PICK c1 \in ProjectInserts(c.inserts, o) : y = [c EXCEPT !.inserts = c1]
      BY <2>1
    <3> QED BY <2>2, <2>3, <3>1, <3>2
  <2> QED BY <2>4, <2>5
<1>4. CASE o.part = "sends"
  <2>1. /\ LiveBus(b, o) = {[b EXCEPT !.sends = k] : k \in LiveSends(b.sends, o)}
        /\ ProjectBus(c, o) = {[c EXCEPT !.sends = k] : k \in ProjectSends(c.sends, o)}
    BY <1>4 DEF LiveBus, ProjectBus
  <2>2. /\ LiveSends(b.sends, o) = {} <=> ProjectSends(c.sends, o) = {}
        /\ \A k \in LiveSends(b.sends, o), m \in ProjectSends(c.sends, o) : Matches(SameSend, k, m)
    BY <1>0, <1>1, <1>4, SendsMirrored
  <2>3. ASSUME NEW k \in LiveSends(b.sends, o), NEW m \in ProjectSends(c.sends, o)
        PROVE  <<[b EXCEPT !.sends = k], [c EXCEPT !.sends = m]>> \in SameBus
    <3>1. k \in Seq(GraphSends) /\ m \in Seq(Sends)
      BY <1>0, <1>4, LiveSendsTyped, ProjectSendsTyped
    <3>2. [b EXCEPT !.sends = k] \in GraphBuses /\ [c EXCEPT !.sends = m] \in Buses
      BY <3>1 DEF GraphBuses, Buses
    <3>3. /\ [b EXCEPT !.sends = k].id = b.id /\ [c EXCEPT !.sends = m].id = c.id
          /\ [b EXCEPT !.sends = k].inserts = b.inserts /\ [c EXCEPT !.sends = m].inserts = c.inserts
          /\ [b EXCEPT !.sends = k].sends = k /\ [c EXCEPT !.sends = m].sends = m
      BY DEF GraphBuses, Buses
    <3> QED BY <1>1, <2>2, <3>2, <3>3 DEF SameBus
  <2>4. LiveBus(b, o) = {} <=> ProjectBus(c, o) = {}
    <3>1. LiveBus(b, o) = {} <=> LiveSends(b.sends, o) = {}
      <4>1. ASSUME NEW k \in LiveSends(b.sends, o) PROVE [b EXCEPT !.sends = k] \in LiveBus(b, o)
        BY <2>1
      <4>2. ASSUME NEW x \in LiveBus(b, o) PROVE \E k \in LiveSends(b.sends, o) : x = [b EXCEPT !.sends = k]
        BY <2>1
      <4> QED BY <4>1, <4>2
    <3>2. ProjectBus(c, o) = {} <=> ProjectSends(c.sends, o) = {}
      <4>1. ASSUME NEW k \in ProjectSends(c.sends, o) PROVE [c EXCEPT !.sends = k] \in ProjectBus(c, o)
        BY <2>1
      <4>2. ASSUME NEW x \in ProjectBus(c, o) PROVE \E k \in ProjectSends(c.sends, o) : x = [c EXCEPT !.sends = k]
        BY <2>1
      <4> QED BY <4>1, <4>2
    <3> QED BY <2>2, <3>1, <3>2
  <2>5. ASSUME NEW x \in LiveBus(b, o), NEW y \in ProjectBus(c, o) PROVE <<x, y>> \in SameBus
    <3>1. PICK k1 \in LiveSends(b.sends, o) : x = [b EXCEPT !.sends = k1]
      BY <2>1
    <3>2. PICK c1 \in ProjectSends(c.sends, o) : y = [c EXCEPT !.sends = c1]
      BY <2>1
    <3> QED BY <2>2, <2>3, <3>1, <3>2
  <2> QED BY <2>4, <2>5
<1>5. CASE o.part \notin {"gain", "inserts", "sends"}
  <2>1. LiveBus(b, o) = {} /\ ProjectBus(c, o) = {}
    BY <1>5 DEF LiveBus, ProjectBus
  <2> QED BY <2>1
<1> QED BY <1>2, <1>3, <1>4, <1>5

\* A graph is built from a document as the patchers say.
LEMMA MadeSame ==
  /\ \A d \in Seq(Nodes) : SameInserts(MakeInserts(d), d)
  /\ \A d \in Seq(Sends) : Matches(SameSend, MakeSends(d), d)
  /\ \A b \in Buses : <<MakeBus(b), b>> \in SameBus
<1>1. ASSUME NEW d \in Seq(Nodes) PROVE SameInserts(MakeInserts(d), d)
  <2> DEFINE kept == Only(d, Builtin)
  <2>1. /\ kept \in Seq(Nodes) /\ MakeInserts(d) \in Seq(GraphNodes)
        /\ Len(MakeInserts(d)) = Len(kept)
        /\ \A i \in 1..Len(kept) : MakeInserts(d)[i] = LiveNode(kept[i])
    BY MadeInserts DEF Builtin
  <2> HIDE DEF kept
  <2>2. ASSUME NEW i \in 1..Len(kept) PROVE <<MakeInserts(d)[i], kept[i]>> \in SameNode
    <3>1. kept[i] \in Nodes /\ MakeInserts(d)[i] \in GraphNodes
      BY <2>1, ElementOfSeq
    <3> QED BY <2>1, <3>1 DEF SameNode
  <2> QED BY <2>1, <2>2 DEF SameInserts, Matches, kept
<1>2. ASSUME NEW d \in Seq(Sends) PROVE Matches(SameSend, MakeSends(d), d)
  <2>1. /\ MakeSends(d) \in Seq(GraphSends) /\ Len(MakeSends(d)) = Len(d)
        /\ \A i \in 1..Len(d) : MakeSends(d)[i] = LiveSend(d[i])
    BY MadeSends
  <2>2. ASSUME NEW i \in 1..Len(d) PROVE <<MakeSends(d)[i], d[i]>> \in SameSend
    <3>1. d[i] \in Sends /\ MakeSends(d)[i] \in GraphSends
      BY <2>1, ElementOfSeq
    <3>2. MakeSends(d)[i] = LiveSend(d[i])
      BY <2>1
    <3> QED BY <3>1, <3>2 DEF SameSend, LiveSend, SendTo
  <2> QED BY <2>1, <2>2 DEF Matches
<1>3. ASSUME NEW b \in Buses PROVE <<MakeBus(b), b>> \in SameBus
  <2>1. b.inserts \in Seq(Nodes) /\ b.sends \in Seq(Sends)
    BY DEF Buses
  <2>2. /\ MakeBus(b).id = b.id /\ MakeBus(b).inserts = MakeInserts(b.inserts)
        /\ MakeBus(b).sends = MakeSends(b.sends)
    BY DEF MakeBus, Bus
  <2> QED BY <1>1, <1>2, <2>1, <2>2, MadeBusTyped DEF SameBus
<1> QED BY <1>1, <1>2, <1>3

LEMMA BusesMirrored ==
  ASSUME NEW o, Parses(o), NEW l \in Seq(GraphBuses), NEW d \in Seq(Buses), Matches(SameBus, l, d),
         o.part = "inserts" => \A i \in 1..Len(d) : Alike(d[i].inserts, o)
  PROVE  /\ LiveBuses(l, o) = {} <=> ProjectBuses(d, o) = {}
         /\ \A k \in LiveBuses(l, o), c \in ProjectBuses(d, o) : Matches(SameBus, k, c)
<1>0. Len(l) = Len(d) /\ \A i \in 1..Len(l) : <<l[i], d[i]>> \in SameBus
  BY DEF Matches
<1>1. \A i \in 1..Len(l) : l[i].id = d[i].id
  BY <1>0 DEF SameBus
<1>2. CASE o.part = "new"
  <2>1. LiveBuses(l, o) = {Append(l, MakeBus(o.bus))} /\ ProjectBuses(d, o) = {Append(d, o.bus)}
    BY <1>2 DEF LiveBuses, ProjectBuses
  <2>2. o.bus \in Buses /\ MakeBus(o.bus) \in GraphBuses /\ <<MakeBus(o.bus), o.bus>> \in SameBus
    BY <1>2, MadeSame, MadeBusTyped DEF Parses
  <2>3. Matches(SameBus, Append(l, MakeBus(o.bus)), Append(d, o.bus))
    BY <2>2, MatchesAppend
  <2> QED BY <2>1, <2>3
<1>3. CASE o.part # "new"
  <2> DEFINE i == FirstAt(l, o.id)
  <2>1. /\ Has(l, o.id) <=> Has(d, o.id)
        /\ Has(l, o.id) => FirstAt(d, o.id) = i
    BY <1>1, MatchesFirst
  <2>2. CASE ~Has(l, o.id)
    <3>1. LiveBuses(l, o) = {} /\ ProjectBuses(d, o) = {}
      BY <1>3, <2>1, <2>2 DEF LiveBuses, ProjectBuses
    <3> QED BY <3>1
  <2>3. CASE Has(l, o.id)
    <3>1. i \in 1..Len(l)
      BY <2>3, FirstIs
    <3>2. CASE o.part = "gone"
      <4>1. LiveBuses(l, o) = {RemoveAt(l, i)} /\ ProjectBuses(d, o) = {RemoveAt(d, i)}
        BY <2>1, <2>3, <3>2 DEF LiveBuses, ProjectBuses
      <4> HIDE DEF i
      <4>2. Matches(SameBus, RemoveAt(l, i), RemoveAt(d, i))
        BY <3>1, MatchesRemoveAt
      <4> QED BY <4>1, <4>2
    <3>3. CASE o.part # "gone"
      <4>1. /\ LiveBuses(l, o) = {[l EXCEPT ![i] = x] : x \in LiveBus(l[i], o)}
            /\ ProjectBuses(d, o) = {[d EXCEPT ![i] = y] : y \in ProjectBus(d[i], o)}
        BY <1>3, <2>1, <2>3, <3>3 DEF LiveBuses, ProjectBuses
      <4> HIDE DEF i
      <4>2. l[i] \in GraphBuses /\ d[i] \in Buses /\ <<l[i], d[i]>> \in SameBus
        BY <1>0, <3>1, ElementOfSeq
      <4>3. o.part = "inserts" => Alike(d[i].inserts, o)
        BY <1>0, <3>1
      <4>4. /\ LiveBus(l[i], o) = {} <=> ProjectBus(d[i], o) = {}
            /\ \A x \in LiveBus(l[i], o), y \in ProjectBus(d[i], o) : <<x, y>> \in SameBus
        BY <4>2, <4>3, BusMirrored
      <4>5. ASSUME NEW x \in LiveBus(l[i], o), NEW y \in ProjectBus(d[i], o)
            PROVE  Matches(SameBus, [l EXCEPT ![i] = x], [d EXCEPT ![i] = y])
        <5>1. x \in GraphBuses /\ y \in Buses
          BY <4>2, LiveBusTyped, ProjectBusTyped
        <5> QED BY <3>1, <4>4, <5>1, MatchesChanged
      <4>6. LiveBuses(l, o) = {} <=> ProjectBuses(d, o) = {}
        <5>1. LiveBuses(l, o) = {} <=> LiveBus(l[i], o) = {}
            <6>1. ASSUME NEW k \in LiveBus(l[i], o) PROVE [l EXCEPT ![i] = k] \in LiveBuses(l, o)
              BY <4>1
            <6>2. ASSUME NEW x \in LiveBuses(l, o) PROVE \E k \in LiveBus(l[i], o) : x = [l EXCEPT ![i] = k]
              BY <4>1
            <6> QED BY <6>1, <6>2
        <5>2. ProjectBuses(d, o) = {} <=> ProjectBus(d[i], o) = {}
            <6>1. ASSUME NEW k \in ProjectBus(d[i], o) PROVE [d EXCEPT ![i] = k] \in ProjectBuses(d, o)
              BY <4>1
            <6>2. ASSUME NEW x \in ProjectBuses(d, o) PROVE \E k \in ProjectBus(d[i], o) : x = [d EXCEPT ![i] = k]
              BY <4>1
            <6> QED BY <6>1, <6>2
        <5> QED BY <4>4, <5>1, <5>2
      <4>7. ASSUME NEW k \in LiveBuses(l, o), NEW c \in ProjectBuses(d, o) PROVE Matches(SameBus, k, c)
        <5>1. PICK x \in LiveBus(l[i], o) : k = [l EXCEPT ![i] = x]
          BY <4>1
        <5>2. PICK y \in ProjectBus(d[i], o) : c = [d EXCEPT ![i] = y]
          BY <4>1
        <5> QED BY <4>5, <5>1, <5>2
      <4> QED BY <4>6, <4>7
    <3> QED BY <3>2, <3>3
  <2> QED BY <2>2, <2>3
<1> QED BY <1>2, <1>3

LEMMA MasterMirrored ==
  ASSUME NEW o, Parses(o), NEW m \in GraphMaster, NEW d \in Master, SameInserts(m.inserts, d.inserts),
         o.part = "inserts" => Alike(d.inserts, o)
  PROVE  /\ LiveMaster(m, o) = {} <=> ProjectMaster(d, o) = {}
         /\ \A x \in LiveMaster(m, o), y \in ProjectMaster(d, o) : SameInserts(x.inserts, y.inserts)
<1>0. m.inserts \in Seq(GraphNodes) /\ d.inserts \in Seq(Nodes)
  BY DEF GraphMaster, Master
<1>1. CASE o.part = "gain"
  <2>1. LiveMaster(m, o) = {m} /\ ProjectMaster(d, o) = {d}
    BY <1>1 DEF LiveMaster, ProjectMaster
  <2> QED BY <2>1
<1>2. CASE o.part = "inserts"
  <2>1. /\ LiveMaster(m, o) = {[m EXCEPT !.inserts = k] : k \in LiveInserts(m.inserts, o)}
        /\ ProjectMaster(d, o) = {[d EXCEPT !.inserts = c] : c \in ProjectInserts(d.inserts, o)}
    BY <1>2 DEF LiveMaster, ProjectMaster
  <2>2. /\ LiveInserts(m.inserts, o) = {} <=> ProjectInserts(d.inserts, o) = {}
        /\ \A k \in LiveInserts(m.inserts, o), c \in ProjectInserts(d.inserts, o) : SameInserts(k, c)
    BY <1>0, <1>2, InsertsMirrored
  <2>3. ASSUME NEW k, NEW c PROVE [m EXCEPT !.inserts = k].inserts = k /\ [d EXCEPT !.inserts = c].inserts = c
    BY DEF GraphMaster, Master
  <2>4. LiveMaster(m, o) = {} <=> ProjectMaster(d, o) = {}
    <3>1. LiveMaster(m, o) = {} <=> LiveInserts(m.inserts, o) = {}
      <4>1. ASSUME NEW k \in LiveInserts(m.inserts, o) PROVE [m EXCEPT !.inserts = k] \in LiveMaster(m, o)
        BY <2>1
      <4>2. ASSUME NEW x \in LiveMaster(m, o) PROVE \E k \in LiveInserts(m.inserts, o) : x = [m EXCEPT !.inserts = k]
        BY <2>1
      <4> QED BY <4>1, <4>2
    <3>2. ProjectMaster(d, o) = {} <=> ProjectInserts(d.inserts, o) = {}
      <4>1. ASSUME NEW k \in ProjectInserts(d.inserts, o) PROVE [d EXCEPT !.inserts = k] \in ProjectMaster(d, o)
        BY <2>1
      <4>2. ASSUME NEW x \in ProjectMaster(d, o) PROVE \E k \in ProjectInserts(d.inserts, o) : x = [d EXCEPT !.inserts = k]
        BY <2>1
      <4> QED BY <4>1, <4>2
    <3> QED BY <2>2, <3>1, <3>2
  <2>5. ASSUME NEW x \in LiveMaster(m, o), NEW y \in ProjectMaster(d, o) PROVE SameInserts(x.inserts, y.inserts)
    <3>1. PICK k1 \in LiveInserts(m.inserts, o) : x = [m EXCEPT !.inserts = k1]
      BY <2>1
    <3>2. PICK c1 \in ProjectInserts(d.inserts, o) : y = [d EXCEPT !.inserts = c1]
      BY <2>1
    <3> QED BY <2>2, <2>3, <3>1, <3>2
  <2> QED BY <2>4, <2>5
<1>3. CASE o.part \notin {"gain", "inserts"}
  <2>1. LiveMaster(m, o) = {} /\ ProjectMaster(d, o) = {}
    BY <1>3 DEF LiveMaster, ProjectMaster
  <2> QED BY <2>1
<1> QED BY <1>1, <1>2, <1>3

\* One operation on both
LEMMA ApplyMirrored ==
  ASSUME NEW o, Parses(o), NEW g, IsGraph(g), NEW p, IsDocument(p), Same(g, p), ~Differs(p, o)
  PROVE  /\ ApplyOne(g, o) = {} <=> ApplyOneProject(p, o) = {}
         /\ \A h \in ApplyOne(g, o), q \in ApplyOneProject(p, o) : Same(h, q)
<1>0. /\ g = [tracks |-> g.tracks, buses |-> g.buses, master |-> g.master]
      /\ g.tracks = [t \in DOMAIN g.tracks |-> g.tracks[t]]
      /\ \A t \in DOMAIN g.tracks : g.tracks[t] \in GraphTracks
      /\ g.buses \in Seq(GraphBuses) /\ g.master \in GraphMaster
  BY DEF IsGraph
<1>1. /\ p = [tracks |-> p.tracks, buses |-> p.buses, master |-> p.master]
      /\ p.tracks = [t \in DOMAIN p.tracks |-> p.tracks[t]]
      /\ \A t \in DOMAIN p.tracks : p.tracks[t] \in Tracks
      /\ p.buses \in Seq(Buses) /\ p.master \in Master
  BY DEF IsDocument
<1>2. DOMAIN g.tracks = DOMAIN p.tracks
  BY DEF Same
<1>3. \A t \in DOMAIN p.tracks : SameTrack(g.tracks[t], p.tracks[t])
  BY DEF Same
<1>4. Matches(SameBus, g.buses, p.buses) /\ SameInserts(g.master.inserts, p.master.inserts)
  BY DEF Same
<1>5. o.part = "lanes" => o.verb = "append"
  BY DEF Differs
<1>6. CASE o.root = "tracks" /\ o.id \in DOMAIN p.tracks
  <2> DEFINE t == g.tracks[o.id]
             s == p.tracks[o.id]
  <2>1. /\ ApplyOne(g, o) = {[g EXCEPT !.tracks[o.id] = x] : x \in LiveTrack(t, o)}
        /\ ApplyOneProject(p, o) = {[p EXCEPT !.tracks[o.id] = y] : y \in ProjectTrack(s, o)}
    BY <1>2, <1>6 DEF ApplyOne, ApplyOneProject
  <2>2. t \in GraphTracks /\ s \in Tracks /\ SameTrack(t, s)
    BY <1>0, <1>1, <1>2, <1>3, <1>6
  <2>3. o.part = "inserts" => Alike(s.inserts, o)
    <3>1. LeftOut(s.inserts) \subseteq OtherFormats(p)
      BY <1>6 DEF OtherFormats
    <3> QED BY <3>1, NotDiffers
  <2> HIDE DEF t, s
  <2>4. /\ LiveTrack(t, o) = {} <=> ProjectTrack(s, o) = {}
        /\ \A x \in LiveTrack(t, o), y \in ProjectTrack(s, o) : SameTrack(x, y)
    BY <1>5, <2>2, <2>3, TrackMirrored
  <2>5. ApplyOne(g, o) = {} <=> ApplyOneProject(p, o) = {}
    <3>1. ApplyOne(g, o) = {} <=> LiveTrack(t, o) = {}
      <4>1. ASSUME NEW x \in LiveTrack(t, o) PROVE [g EXCEPT !.tracks[o.id] = x] \in ApplyOne(g, o)
        BY <2>1
      <4>2. ASSUME NEW h \in ApplyOne(g, o)
            PROVE \E x \in LiveTrack(t, o) : h = [g EXCEPT !.tracks[o.id] = x]
        BY <2>1
      <4> QED BY <4>1, <4>2
    <3>2. ApplyOneProject(p, o) = {} <=> ProjectTrack(s, o) = {}
      <4>1. ASSUME NEW y \in ProjectTrack(s, o)
            PROVE [p EXCEPT !.tracks[o.id] = y] \in ApplyOneProject(p, o)
        BY <2>1
      <4>2. ASSUME NEW q \in ApplyOneProject(p, o)
            PROVE \E y \in ProjectTrack(s, o) : q = [p EXCEPT !.tracks[o.id] = y]
        BY <2>1
      <4> QED BY <4>1, <4>2
    <3> QED BY <2>4, <3>1, <3>2
  <2>6. ASSUME NEW h \in ApplyOne(g, o), NEW q \in ApplyOneProject(p, o) PROVE Same(h, q)
    <3>1. PICK x \in LiveTrack(t, o) : h = [g EXCEPT !.tracks[o.id] = x]
      BY <2>1
    <3>2. PICK y \in ProjectTrack(s, o) : q = [p EXCEPT !.tracks[o.id] = y]
      BY <2>1
    <3>3. SameTrack(x, y)
      BY <2>4
    <3>4. h.tracks = [g.tracks EXCEPT ![o.id] = x] /\ h.buses = g.buses /\ h.master = g.master
      BY <1>0, <3>1
    <3>5. q.tracks = [p.tracks EXCEPT ![o.id] = y] /\ q.buses = p.buses /\ q.master = p.master
      BY <1>1, <3>2
    <3>6. /\ DOMAIN h.tracks = DOMAIN g.tracks /\ DOMAIN q.tracks = DOMAIN p.tracks
          /\ \A u \in DOMAIN p.tracks : /\ h.tracks[u] = IF u = o.id THEN x ELSE g.tracks[u]
                                        /\ q.tracks[u] = IF u = o.id THEN y ELSE p.tracks[u]
      BY <1>0, <1>1, <1>2, <3>4, <3>5
    <3>7. \A u \in DOMAIN q.tracks : SameTrack(h.tracks[u], q.tracks[u])
      BY <1>3, <3>3, <3>6
    <3> QED BY <1>2, <1>4, <3>4, <3>5, <3>6, <3>7 DEF Same
  <2> QED BY <2>5, <2>6
<1>7. CASE o.root = "buses"
  <2>1. /\ ApplyOne(g, o) = {[g EXCEPT !.buses = x] : x \in LiveBuses(g.buses, o)}
        /\ ApplyOneProject(p, o) = {[p EXCEPT !.buses = y] : y \in ProjectBuses(p.buses, o)}
    BY <1>7 DEF ApplyOne, ApplyOneProject
  <2>2. o.part = "inserts" => \A i \in 1..Len(p.buses) : Alike(p.buses[i].inserts, o)
    <3>1. DOMAIN p.buses = 1..Len(p.buses)
      BY <1>1, LenProperties
    <3>2. \A i \in 1..Len(p.buses) : LeftOut(p.buses[i].inserts) \subseteq OtherFormats(p)
      BY <3>1 DEF OtherFormats
    <3> QED BY <3>2, NotDiffers
  <2>3. /\ LiveBuses(g.buses, o) = {} <=> ProjectBuses(p.buses, o) = {}
        /\ \A x \in LiveBuses(g.buses, o), y \in ProjectBuses(p.buses, o) : Matches(SameBus, x, y)
    BY <1>0, <1>1, <1>4, <2>2, BusesMirrored
  <2>4. ApplyOne(g, o) = {} <=> ApplyOneProject(p, o) = {}
    <3>1. ApplyOne(g, o) = {} <=> LiveBuses(g.buses, o) = {}
      <4>1. ASSUME NEW x \in LiveBuses(g.buses, o) PROVE [g EXCEPT !.buses = x] \in ApplyOne(g, o)
        BY <2>1
      <4>2. ASSUME NEW h \in ApplyOne(g, o)
            PROVE \E x \in LiveBuses(g.buses, o) : h = [g EXCEPT !.buses = x]
        BY <2>1
      <4> QED BY <4>1, <4>2
    <3>2. ApplyOneProject(p, o) = {} <=> ProjectBuses(p.buses, o) = {}
      <4>1. ASSUME NEW y \in ProjectBuses(p.buses, o)
            PROVE [p EXCEPT !.buses = y] \in ApplyOneProject(p, o)
        BY <2>1
      <4>2. ASSUME NEW q \in ApplyOneProject(p, o)
            PROVE \E y \in ProjectBuses(p.buses, o) : q = [p EXCEPT !.buses = y]
        BY <2>1
      <4> QED BY <4>1, <4>2
    <3> QED BY <2>3, <3>1, <3>2
  <2>5. ASSUME NEW h \in ApplyOne(g, o), NEW q \in ApplyOneProject(p, o) PROVE Same(h, q)
    <3>1. PICK x \in LiveBuses(g.buses, o) : h = [g EXCEPT !.buses = x]
      BY <2>1
    <3>2. PICK y \in ProjectBuses(p.buses, o) : q = [p EXCEPT !.buses = y]
      BY <2>1
    <3>3. Matches(SameBus, x, y)
      BY <2>3
    <3>4. h.tracks = g.tracks /\ h.buses = x /\ h.master = g.master
      BY <1>0, <3>1
    <3>5. q.tracks = p.tracks /\ q.buses = y /\ q.master = p.master
      BY <1>1, <3>2
    <3> QED BY <1>2, <1>3, <1>4, <3>3, <3>4, <3>5 DEF Same
  <2> QED BY <2>4, <2>5
<1>8. CASE o.root = "master"
  <2>1. /\ ApplyOne(g, o) = {[g EXCEPT !.master = x] : x \in LiveMaster(g.master, o)}
        /\ ApplyOneProject(p, o) = {[p EXCEPT !.master = y] : y \in ProjectMaster(p.master, o)}
    BY <1>8 DEF ApplyOne, ApplyOneProject
  <2>2. o.part = "inserts" => Alike(p.master.inserts, o)
    <3>1. LeftOut(p.master.inserts) \subseteq OtherFormats(p)
      BY DEF OtherFormats
    <3> QED BY <3>1, NotDiffers
  <2>3. /\ LiveMaster(g.master, o) = {} <=> ProjectMaster(p.master, o) = {}
        /\ \A x \in LiveMaster(g.master, o), y \in ProjectMaster(p.master, o) :
             SameInserts(x.inserts, y.inserts)
    BY <1>0, <1>1, <1>4, <2>2, MasterMirrored
  <2>4. ApplyOne(g, o) = {} <=> ApplyOneProject(p, o) = {}
    <3>1. ApplyOne(g, o) = {} <=> LiveMaster(g.master, o) = {}
      <4>1. ASSUME NEW x \in LiveMaster(g.master, o) PROVE [g EXCEPT !.master = x] \in ApplyOne(g, o)
        BY <2>1
      <4>2. ASSUME NEW h \in ApplyOne(g, o)
            PROVE \E x \in LiveMaster(g.master, o) : h = [g EXCEPT !.master = x]
        BY <2>1
      <4> QED BY <4>1, <4>2
    <3>2. ApplyOneProject(p, o) = {} <=> ProjectMaster(p.master, o) = {}
      <4>1. ASSUME NEW y \in ProjectMaster(p.master, o)
            PROVE [p EXCEPT !.master = y] \in ApplyOneProject(p, o)
        BY <2>1
      <4>2. ASSUME NEW q \in ApplyOneProject(p, o)
            PROVE \E y \in ProjectMaster(p.master, o) : q = [p EXCEPT !.master = y]
        BY <2>1
      <4> QED BY <4>1, <4>2
    <3> QED BY <2>3, <3>1, <3>2
  <2>5. ASSUME NEW h \in ApplyOne(g, o), NEW q \in ApplyOneProject(p, o) PROVE Same(h, q)
    <3>1. PICK x \in LiveMaster(g.master, o) : h = [g EXCEPT !.master = x]
      BY <2>1
    <3>2. PICK y \in ProjectMaster(p.master, o) : q = [p EXCEPT !.master = y]
      BY <2>1
    <3>3. SameInserts(x.inserts, y.inserts)
      BY <2>3
    <3>4. h.tracks = g.tracks /\ h.buses = g.buses /\ h.master = x
      BY <1>0, <3>1
    <3>5. q.tracks = p.tracks /\ q.buses = p.buses /\ q.master = y
      BY <1>1, <3>2
    <3> QED BY <1>2, <1>3, <1>4, <3>3, <3>4, <3>5 DEF Same
  <2> QED BY <2>4, <2>5
<1>9. CASE ~(o.root = "tracks" /\ o.id \in DOMAIN p.tracks) /\ o.root \notin {"buses", "master"}
  <2>1. ApplyOne(g, o) = {} /\ ApplyOneProject(p, o) = {}
    BY <1>2, <1>9 DEF ApplyOne, ApplyOneProject
  <2> QED BY <2>1
<1> QED BY <1>6, <1>7, <1>8, <1>9

LEMMA UnsortedSame ==
  ASSUME NEW p, IsDocument(p) PROVE Same(Unsorted(p), p)
<1>0. /\ \A t \in DOMAIN p.tracks : p.tracks[t] \in Tracks
      /\ p.buses \in Seq(Buses) /\ p.master \in Master
  BY DEF IsDocument
<1>1. ASSUME NEW t \in DOMAIN p.tracks PROVE SameTrack(MakeTrack(p.tracks[t]), p.tracks[t])
  <2>1. PICK s \in Tracks : s = p.tracks[t]
    BY <1>0
  <2>2. s.inserts \in Seq(Nodes) /\ s.sends \in Seq(Sends) /\ s.lanes \in Seq(Lanes)
    BY DEF Tracks
  <2> DEFINE made == [i \in DOMAIN s.lanes |-> LiveLane(s.lanes[i])]
  <2>3. /\ MakeTrack(s).mute = s.mute /\ MakeTrack(s).solo = s.solo
        /\ MakeTrack(s).inserts = MakeInserts(s.inserts) /\ MakeTrack(s).sends = MakeSends(s.sends)
        /\ MakeTrack(s).lanes = made
    BY DEF MakeTrack, Track
  <2>4. /\ DOMAIN s.lanes = 1..Len(s.lanes) /\ Len(s.lanes) \in Nat
        /\ \A i \in 1..Len(s.lanes) : s.lanes[i] \in Lanes
    BY <2>2, LenProperties, ElementOfSeq
  <2>5. made \in Seq(GraphLanes) /\ DOMAIN made = 1..Len(s.lanes)
    BY <2>2, <2>4, MadeLanes
  <2>6. Len(made) = Len(s.lanes)
    <3>1. DOMAIN made = 1..Len(made) /\ Len(made) \in Nat
      BY <2>5, LenProperties
    <3> QED BY <2>4, <2>5, <3>1
  <2>7. ASSUME NEW i \in 1..Len(s.lanes) PROVE <<made[i], s.lanes[i]>> \in SameLane
    <3>1. made[i] = LiveLane(s.lanes[i]) /\ LiveLane(s.lanes[i]) \in GraphLanes
      BY <2>4, MadeLane
    <3> HIDE DEF made
    <3> QED BY <2>4, <3>1 DEF SameLane
  <2>8. Matches(SameLane, made, s.lanes)
    BY <2>6, <2>7 DEF Matches
  <2> HIDE DEF made
  <2>9. SameInserts(MakeInserts(s.inserts), s.inserts) /\ Matches(SameSend, MakeSends(s.sends), s.sends)
    BY <2>2, MadeSame
  <2>10. SameTrack(MakeTrack(s), s)
    BY <2>3, <2>8, <2>9 DEF SameTrack
  <2> QED BY <2>1, <2>10
<1>2. Matches(SameBus, [i \in DOMAIN p.buses |-> MakeBus(p.buses[i])], p.buses)
  <2> DEFINE made == [i \in DOMAIN p.buses |-> MakeBus(p.buses[i])]
  <2>1. /\ DOMAIN p.buses = 1..Len(p.buses) /\ Len(p.buses) \in Nat
        /\ \A i \in 1..Len(p.buses) : p.buses[i] \in Buses
    BY <1>0, LenProperties, ElementOfSeq
  <2>2. made \in [1..Len(p.buses) -> GraphBuses]
    BY <2>1, MadeBusTyped
  <2>3. Len(made) = Len(p.buses)
    BY <2>1, <2>2
  <2>4. \A i \in 1..Len(p.buses) : <<made[i], p.buses[i]>> \in SameBus
    BY <2>1, MadeSame
  <2> HIDE DEF made
  <2>5. Matches(SameBus, made, p.buses)
    BY <2>3, <2>4 DEF Matches
  <2> QED BY <2>5 DEF made
<1>3. SameInserts(MakeInserts(p.master.inserts), p.master.inserts)
  <2>1. p.master.inserts \in Seq(Nodes)
    BY <1>0 DEF Master
  <2> QED BY <2>1, MadeSame
<1>4. /\ Unsorted(p).tracks = [t \in DOMAIN p.tracks |-> MakeTrack(p.tracks[t])]
      /\ Unsorted(p).buses = [i \in DOMAIN p.buses |-> MakeBus(p.buses[i])]
      /\ Unsorted(p).master.inserts = MakeInserts(p.master.inserts)
  BY DEF Unsorted
<1> QED BY <1>1, <1>2, <1>3, <1>4 DEF Same

\* The sort fills in indices only.
LEMMA CachedSame ==
  ASSUME NEW A, NEW buses \in Seq(A), NEW l \in Seq(GraphSends), NEW d \in Seq(Sends),
         Matches(SameSend, l, d)
  PROVE  Matches(SameSend, Cached(buses, l), d)
<1> DEFINE k == Cached(buses, l)
<1>1. /\ DOMAIN l = 1..Len(l) /\ Len(l) \in Nat
      /\ Len(l) = Len(d) /\ \A i \in 1..Len(l) : <<l[i], d[i]>> \in SameSend
  BY LenProperties DEF Matches
<1>2. k \in Seq(GraphSends) /\ DOMAIN k = 1..Len(l)
  BY <1>1, CachedTyped DEF Cached
<1>3. Len(k) = Len(l)
  <2>1. DOMAIN k = 1..Len(k) /\ Len(k) \in Nat
    BY <1>2, LenProperties
  <2> QED BY <1>1, <1>2, <2>1
<1>4. \A i \in 1..Len(l) : k[i] = SendTo(l[i], Target(buses, l[i].dest))
  BY <1>1 DEF Cached
<1> HIDE DEF k
<1>5. ASSUME NEW i \in 1..Len(k) PROVE <<k[i], d[i]>> \in SameSend
  <2>1. k[i] \in GraphSends /\ d[i] \in Sends
    BY <1>1, <1>2, <1>3, ElementOfSeq
  <2>2. k[i].id = l[i].id /\ k[i].dest = l[i].dest /\ k[i].pre = l[i].pre
    <3>1. k[i] = SendTo(l[i], Target(buses, l[i].dest))
      BY <1>3, <1>4
    <3>2. \A s, n : SendTo(s, n).id = s.id /\ SendTo(s, n).dest = s.dest /\ SendTo(s, n).pre = s.pre
      BY DEF SendTo
    <3> QED BY <3>1, <3>2
  <2>3. l[i].id = d[i].id /\ l[i].dest = d[i].dest /\ l[i].pre = d[i].pre
    BY <1>1, <1>3 DEF SameSend
  <2> QED BY <2>1, <2>2, <2>3 DEF SameSend
<1> QED BY <1>1, <1>3, <1>5 DEF Matches, k

LEMMA SortSame ==
  ASSUME NEW g, IsGraph(g), NEW p, IsDocument(p), Same(g, p)
  PROVE  Same(CacheSendIndices(g), p)
<1>0. /\ \A t \in DOMAIN p.tracks : p.tracks[t] \in Tracks
      /\ p.buses \in Seq(Buses)
      /\ \A t \in DOMAIN g.tracks : g.tracks[t] \in GraphTracks
      /\ g.buses \in Seq(GraphBuses)
  BY DEF IsDocument, IsGraph
<1>1. /\ DOMAIN g.tracks = DOMAIN p.tracks
      /\ \A t \in DOMAIN p.tracks : SameTrack(g.tracks[t], p.tracks[t])
      /\ Matches(SameBus, g.buses, p.buses)
      /\ SameInserts(g.master.inserts, p.master.inserts)
  BY DEF Same
<1> DEFINE h == CacheSendIndices(g)
<1>2. h.tracks = CacheTracks(g) /\ h.buses = CacheBuses(g.buses) /\ h.master = g.master
  BY DEF CacheSendIndices
<1>3. DOMAIN h.tracks = DOMAIN g.tracks
  BY <1>2 DEF CacheTracks
<1>4. ASSUME NEW t \in DOMAIN p.tracks PROVE SameTrack(h.tracks[t], p.tracks[t])
  <2>1. PICK x \in GraphTracks : x = g.tracks[t]
    BY <1>0, <1>1
  <2>2. PICK s \in Tracks : s = p.tracks[t]
    BY <1>0
  <2>3. SameTrack(x, s)
    BY <1>1, <2>1, <2>2
  <2>4. h.tracks[t] = Track(x, x.inserts, Cached(g.buses, x.sends), x.lanes)
    BY <1>1, <1>2, <2>1 DEF CacheTracks
  <2>5. x.sends \in Seq(GraphSends) /\ s.sends \in Seq(Sends)
    BY DEF GraphTracks, Tracks
  <2>6. Matches(SameSend, Cached(g.buses, x.sends), s.sends)
    BY <1>0, <2>3, <2>5, CachedSame DEF SameTrack
  <2> HIDE DEF h
  <2>7. SameTrack(h.tracks[t], s)
    BY <2>3, <2>4, <2>6 DEF SameTrack, Track
  <2> QED BY <2>2, <2>7
<1>5. Matches(SameBus, h.buses, p.buses)
  <2> DEFINE l == g.buses
             k == CacheBuses(l)
  <2>1. /\ DOMAIN l = 1..Len(l) /\ Len(l) \in Nat /\ \A i \in 1..Len(l) : l[i] \in GraphBuses
        /\ Len(l) = Len(p.buses) /\ \A i \in 1..Len(l) : <<l[i], p.buses[i]>> \in SameBus
        /\ \A i \in 1..Len(l) : p.buses[i] \in Buses
    BY <1>0, <1>1, LenProperties, ElementOfSeq DEF Matches
  <2>2. k \in Seq(GraphBuses) /\ DOMAIN k = 1..Len(l)
    <3>1. IsGraph(h)
      BY SortTyped
    <3>2. h.buses \in Seq(GraphBuses)
      BY <3>1 DEF IsGraph
    <3> QED BY <1>2, <2>1, <3>2 DEF CacheBuses
  <2>3. Len(k) = Len(l)
    <3>1. DOMAIN k = 1..Len(k) /\ Len(k) \in Nat
      BY <2>2, LenProperties
    <3> QED BY <2>1, <2>2, <3>1
  <2>4. \A i \in 1..Len(l) : k[i] = Bus(l[i], l[i].inserts, Cached(l, l[i].sends))
    BY <2>1 DEF CacheBuses
  <2> HIDE DEF k, l, h
  <2>5. ASSUME NEW i \in 1..Len(k) PROVE <<k[i], p.buses[i]>> \in SameBus
    <3>1. PICK b \in GraphBuses : b = l[i]
      BY <2>1, <2>3
    <3>2. PICK c \in Buses : c = p.buses[i]
      BY <2>1, <2>3
    <3>3. b.id = c.id /\ SameInserts(b.inserts, c.inserts) /\ Matches(SameSend, b.sends, c.sends)
      <4>1. <<b, c>> \in SameBus
        BY <2>1, <2>3, <3>1, <3>2
      <4> QED BY <4>1 DEF SameBus
    <3>4. b.sends \in Seq(GraphSends) /\ c.sends \in Seq(Sends)
      BY DEF GraphBuses, Buses
    <3>5. l \in Seq(GraphBuses)
      BY <1>0 DEF l
    <3>6. Matches(SameSend, Cached(l, b.sends), c.sends)
      BY <3>3, <3>4, <3>5, CachedSame
    <3>7. k[i].id = b.id /\ k[i].inserts = b.inserts /\ k[i].sends = Cached(l, b.sends)
      <4>1. k[i] = Bus(b, b.inserts, Cached(l, b.sends))
        BY <2>3, <2>4, <3>1
      <4>2. \A x, n, m : Bus(x, n, m).id = x.id /\ Bus(x, n, m).inserts = n /\ Bus(x, n, m).sends = m
        BY DEF Bus
      <4> QED BY <4>1, <4>2
    <3>8. k[i] \in GraphBuses
      BY <2>2, ElementOfSeq
    <3> QED BY <3>2, <3>3, <3>6, <3>7, <3>8 DEF SameBus
  <2>6. Matches(SameBus, k, p.buses)
    BY <2>1, <2>3, <2>5 DEF Matches
  <2> QED BY <1>2, <2>6 DEF k, l
<1> HIDE DEF h
<1>6. Same(h, p)
  BY <1>1, <1>2, <1>3, <1>4, <1>5 DEF Same
<1> QED BY <1>6 DEF h

LEMMA NoIndicesSame ==
  ASSUME NEW l \in Seq(GraphSends), NEW d \in Seq(Sends), Matches(SameSend, l, d)
  PROVE  NoIndices(l) = MakeSends(d)
<1>1. /\ DOMAIN l = 1..Len(l) /\ DOMAIN d = 1..Len(d)
      /\ Len(l) = Len(d) /\ \A i \in 1..Len(l) : <<l[i], d[i]>> \in SameSend
  BY LenProperties DEF Matches
<1>2. ASSUME NEW i \in 1..Len(l) PROVE [l[i] EXCEPT !.idx = None] = LiveSend(d[i])
  <2>1. PICK x \in GraphSends : x = l[i]
    BY ElementOfSeq
  <2>2. PICK y \in Sends : y = d[i]
    BY <1>1, ElementOfSeq
  <2>3. x.id = y.id /\ x.dest = y.dest /\ x.pre = y.pre
    BY <1>1, <2>1, <2>2 DEF SameSend
  <2>4. [x EXCEPT !.idx = None] = SendTo(x, None)
    BY DEF GraphSends, SendTo
  <2>5. SendTo(x, None) = SendTo(y, None)
    BY <2>3 DEF SendTo
  <2> QED BY <2>1, <2>2, <2>4, <2>5 DEF LiveSend
<1> QED BY <1>1, <1>2 DEF NoIndices, MakeSends

LEMMA InsertsSame ==
  ASSUME NEW l \in Seq(GraphNodes), NEW d \in Seq(Nodes), SameInserts(l, d)
  PROVE  l = MakeInserts(d)
<1> DEFINE kept == Only(d, Builtin)
<1>1. Len(l) = Len(kept) /\ \A i \in 1..Len(l) : <<l[i], kept[i]>> \in SameNode
  BY DEF SameInserts, Matches
<1>2. /\ MakeInserts(d) \in Seq(GraphNodes) /\ Len(MakeInserts(d)) = Len(kept)
      /\ \A i \in 1..Len(kept) : MakeInserts(d)[i] = LiveNode(kept[i])
  BY MadeInserts DEF Builtin
<1> HIDE DEF kept
<1>3. ASSUME NEW i \in 1..Len(l) PROVE l[i] = LiveNode(kept[i])
  <2>1. <<l[i], kept[i]>> \in SameNode
    BY <1>1
  <2> QED BY <2>1 DEF SameNode
<1>4. \A i \in 1..Len(l) : l[i] = MakeInserts(d)[i]
  BY <1>1, <1>2, <1>3
<1> QED BY <1>1, <1>2, <1>4, SeqEqual

\* Related to the document means equal to what is built from it.
LEMMA SameIsRebuilt ==
  ASSUME NEW g, IsGraph(g), NEW p, IsDocument(p), Same(g, p)
  PROVE  WithoutIndices(g) = Unsorted(p)
<1>0. /\ g = [tracks |-> g.tracks, buses |-> g.buses, master |-> g.master]
      /\ \A t \in DOMAIN g.tracks : g.tracks[t] \in GraphTracks
      /\ g.buses \in Seq(GraphBuses) /\ g.master \in GraphMaster
  BY DEF IsGraph
<1>1. /\ \A t \in DOMAIN p.tracks : p.tracks[t] \in Tracks
      /\ p.buses \in Seq(Buses) /\ p.master \in Master
  BY DEF IsDocument
<1>2. /\ DOMAIN g.tracks = DOMAIN p.tracks
      /\ \A t \in DOMAIN p.tracks : SameTrack(g.tracks[t], p.tracks[t])
      /\ Matches(SameBus, g.buses, p.buses)
      /\ SameInserts(g.master.inserts, p.master.inserts)
  BY DEF Same
<1>3. ASSUME NEW t \in DOMAIN g.tracks
      PROVE  [g.tracks[t] EXCEPT !.sends = NoIndices(@)] = MakeTrack(p.tracks[t])
  <2>1. PICK x \in GraphTracks : x = g.tracks[t]
    BY <1>0
  <2>2. PICK s \in Tracks : s = p.tracks[t]
    BY <1>1, <1>2
  <2>3. /\ x.mute = s.mute /\ x.solo = s.solo /\ SameInserts(x.inserts, s.inserts)
        /\ Matches(SameSend, x.sends, s.sends) /\ Matches(SameLane, x.lanes, s.lanes)
    BY <1>2, <2>1, <2>2 DEF SameTrack
  <2>4. /\ x.inserts \in Seq(GraphNodes) /\ x.sends \in Seq(GraphSends) /\ x.lanes \in Seq(GraphLanes)
        /\ s.inserts \in Seq(Nodes) /\ s.sends \in Seq(Sends) /\ s.lanes \in Seq(Lanes)
    BY DEF GraphTracks, Tracks
  <2>5. x.inserts = MakeInserts(s.inserts) /\ NoIndices(x.sends) = MakeSends(s.sends)
    BY <2>3, <2>4, InsertsSame, NoIndicesSame
  <2>6. x.lanes = [i \in DOMAIN s.lanes |-> LiveLane(s.lanes[i])]
    <3>1. /\ x.lanes = [i \in 1..Len(x.lanes) |-> x.lanes[i]]
          /\ DOMAIN s.lanes = 1..Len(s.lanes) /\ Len(x.lanes) = Len(s.lanes)
      BY <2>3, <2>4, LenProperties DEF Matches
    <3>2. \A i \in 1..Len(x.lanes) : x.lanes[i] = LiveLane(s.lanes[i])
      BY <2>3 DEF Matches, SameLane
    <3> QED BY <3>1, <3>2
  <2>7. [x EXCEPT !.sends = NoIndices(@)] = Track(x, x.inserts, NoIndices(x.sends), x.lanes)
    <3>1. x = [mute |-> x.mute, solo |-> x.solo,
               inserts |-> x.inserts, sends |-> x.sends, lanes |-> x.lanes]
      BY DEF GraphTracks
    <3> DEFINE n == NoIndices(x.sends)
    <3> HIDE DEF n
    <3>2. [x EXCEPT !.sends = n]
          = [mute |-> x.mute, solo |-> x.solo, inserts |-> x.inserts, sends |-> n, lanes |-> x.lanes]
      BY <3>1
    <3>3. [x EXCEPT !.sends = n] = Track(x, x.inserts, n, x.lanes)
      BY <3>2 DEF Track
    <3> QED BY <3>3 DEF n
  <2>8. [x EXCEPT !.sends = NoIndices(@)] = MakeTrack(s)
    BY <2>3, <2>5, <2>6, <2>7 DEF MakeTrack, Track
  <2> QED BY <2>1, <2>2, <2>8
<1>4. /\ DOMAIN g.buses = 1..Len(g.buses) /\ DOMAIN p.buses = 1..Len(p.buses)
      /\ Len(g.buses) = Len(p.buses)
      /\ \A i \in 1..Len(g.buses) : <<g.buses[i], p.buses[i]>> \in SameBus
  BY <1>0, <1>1, <1>2, LenProperties DEF Matches
<1>5. ASSUME NEW i \in 1..Len(g.buses)
      PROVE  [g.buses[i] EXCEPT !.sends = NoIndices(@)] = MakeBus(p.buses[i])
  <2>1. PICK b \in GraphBuses : b = g.buses[i]
    BY <1>0, ElementOfSeq
  <2>2. PICK c \in Buses : c = p.buses[i]
    BY <1>1, <1>4, ElementOfSeq
  <2>3. b.id = c.id /\ SameInserts(b.inserts, c.inserts) /\ Matches(SameSend, b.sends, c.sends)
    <3>1. <<b, c>> \in SameBus
      BY <1>4, <2>1, <2>2
    <3> QED BY <3>1 DEF SameBus
  <2>4. /\ b.inserts \in Seq(GraphNodes) /\ b.sends \in Seq(GraphSends)
        /\ c.inserts \in Seq(Nodes) /\ c.sends \in Seq(Sends)
    BY DEF GraphBuses, Buses
  <2>5. b.inserts = MakeInserts(c.inserts) /\ NoIndices(b.sends) = MakeSends(c.sends)
    BY <2>3, <2>4, InsertsSame, NoIndicesSame
  <2>6. [b EXCEPT !.sends = NoIndices(@)] = Bus(b, b.inserts, NoIndices(b.sends))
    BY DEF GraphBuses, Bus
  <2>7. [b EXCEPT !.sends = NoIndices(@)] = MakeBus(c)
    BY <2>3, <2>5, <2>6 DEF MakeBus, Bus
  <2> QED BY <2>1, <2>2, <2>7
<1>6. g.master = [inserts |-> MakeInserts(p.master.inserts)]
  <2>1. g.master.inserts \in Seq(GraphNodes) /\ p.master.inserts \in Seq(Nodes)
    BY <1>0, <1>1 DEF GraphMaster, Master
  <2>2. g.master = [inserts |-> g.master.inserts]
    BY <1>0 DEF GraphMaster
  <2>3. g.master.inserts = MakeInserts(p.master.inserts)
    BY <1>2, <2>1, InsertsSame
  <2> QED BY <2>2, <2>3
<1>7. WithoutIndices(g)
      = [tracks |-> [t \in DOMAIN g.tracks |-> [g.tracks[t] EXCEPT !.sends = NoIndices(@)]],
         buses |-> [i \in DOMAIN g.buses |-> [g.buses[i] EXCEPT !.sends = NoIndices(@)]],
         master |-> g.master]
  BY DEF WithoutIndices
<1>8. [t \in DOMAIN g.tracks |-> [g.tracks[t] EXCEPT !.sends = NoIndices(@)]]
      = [t \in DOMAIN p.tracks |-> MakeTrack(p.tracks[t])]
  BY <1>2, <1>3
<1>9. [i \in DOMAIN g.buses |-> [g.buses[i] EXCEPT !.sends = NoIndices(@)]]
      = [i \in DOMAIN p.buses |-> MakeBus(p.buses[i])]
  BY <1>4, <1>5
<1> QED BY <1>6, <1>7, <1>8, <1>9 DEF Unsorted

\* The inductive invariant: while the patchers agree they have refused the
\* same operations, and the graph is that of the document.
Mirrored == mirrored => Same(graph, project) /\ patching \in {{}, Patchers}

LEMMA FreshSame ==
  ASSUME NEW p, IsDocument(p) PROVE Same(Fresh(p), p)
BY UnsortedTyped, UnsortedSame, SortSame DEF Fresh

LEMMA MirroredInit == Init => Mirrored
BY FreshSame, LivePatchAssumption DEF Init, Mirrored

LEMMA MirroredKept == Typed /\ Mirrored /\ [Next]_vars => Mirrored'
<1> SUFFICES ASSUME Typed, Mirrored, [Next]_vars, mirrored'
             PROVE  Same(graph', project') /\ patching' \in {{}, Patchers}
  BY DEF Mirrored, Same
<1>0. IsDocument(project) /\ IsGraph(graph)
  BY DEF Typed
<1>1. CASE PatchBegin
  BY <1>1 DEF PatchBegin, Mirrored
<1>2. ASSUME NEW o \in Ops, PatchOp(o)
      PROVE  Same(graph', project') /\ patching' \in {{}, Patchers}
  <2> DEFINE live == IF "graph" \in patching THEN ApplyOne(graph, o) ELSE {}
             doc == IF "project" \in patching THEN ApplyOneProject(project, o) ELSE {}
  <2>1. /\ patching # {}
        /\ graph' \in (IF live = {} THEN {graph} ELSE live)
        /\ project' \in (IF doc = {} THEN {project} ELSE doc)
        /\ patching' = {x \in patching : IF x = "graph" THEN live # {} ELSE doc # {}}
        /\ mirrored' = (mirrored /\ ~Differs(project, o))
    BY <1>2 DEF PatchOp
  <2>2. mirrored /\ ~Differs(project, o) /\ Same(graph, project) /\ patching = Patchers
    BY <2>1 DEF Mirrored
  <2>3. live = ApplyOne(graph, o) /\ doc = ApplyOneProject(project, o)
    BY <2>2 DEF Patchers
  <2>4. Parses(o)
    BY LivePatchAssumption
  <2>5. /\ ApplyOne(graph, o) = {} <=> ApplyOneProject(project, o) = {}
        /\ \A h \in ApplyOne(graph, o), q \in ApplyOneProject(project, o) : Same(h, q)
    BY <1>0, <2>2, <2>4, ApplyMirrored
  <2> HIDE DEF live, doc
  <2>6. CASE live = {}
    <3>1. graph' = graph /\ project' = project /\ patching' = {}
      BY <2>1, <2>3, <2>5, <2>6
    <3> QED BY <2>2, <3>1
  <2>7. CASE live # {}
    <3>1. graph' \in live /\ project' \in doc /\ patching' = patching
      BY <2>1, <2>3, <2>5, <2>7
    <3> QED BY <2>2, <2>3, <2>5, <3>1
  <2> QED BY <2>6, <2>7
<1>3. CASE PatchEnd
  <2>1. /\ project' = project /\ mirrored' = mirrored /\ patching' = {}
        /\ graph' = graph \/ graph' = CacheSendIndices(graph)
    BY <1>3 DEF PatchEnd, Sort, SortFails
  <2>2. Same(graph, project)
    BY <2>1 DEF Mirrored
  <2> QED BY <1>0, <2>1, <2>2, SortSame
<1>4. CASE Rebuild
  <2>1. project' = project /\ graph' = Fresh(project) /\ patching' = {}
    BY <1>4 DEF Rebuild
  <2> QED BY <1>0, <2>1, FreshSame
<1>5. CASE UNCHANGED vars
  BY <1>5 DEF vars, Mirrored
<1> QED BY <1>1, <1>2, <1>3, <1>4, <1>5 DEF Next

\* After any document at any sample rate and any operations on which the
\* patchers are not known to differ, the patched graph is the one that would be
\* built from the patched document, down to the rate of its effects, and both
\* patchers have refused the same.
THEOREM PatchMirrors == Spec => []PatchedIsRebuilt
<1>1. Typed /\ Mirrored => PatchedIsRebuilt
  BY SameIsRebuilt DEF Typed, Mirrored, PatchedIsRebuilt
<1> QED
  BY <1>1, TypedInit, TypedKept, MirroredInit, MirroredKept, PTL DEF Spec

-----------------------------------------------------------------------------
(* Mixing a block *)

\* A set of positions has a last one.
LEMMA HasMax ==
  ASSUME NEW n \in Nat, NEW s \in SUBSET (1..n), s # {}
  PROVE  Max(s) \in s /\ \A y \in s : y <= Max(s)
<1> DEFINE back == {n - i : i \in s}
<1>1. back \in SUBSET Nat /\ back # {}
  <2>1. \A i \in s : n - i \in Nat
    OBVIOUS
  <2> QED BY <2>1
<1>2. PICK m \in back : \A k \in back : m <= k
  BY <1>1, HasMin
<1>3. PICK x \in s : m = n - x
  OBVIOUS
<1>4. ASSUME NEW y \in s PROVE x >= y
  <2>1. n - x <= n - y
    BY <1>2, <1>3
  <2> QED BY <2>1
<1>5. Max(s) \in s /\ \A y \in s : Max(s) >= y
  BY <1>3, <1>4 DEF Max
<1> QED BY <1>5

\* What a fold over the positions 1..n of an order is
Folds(g, o, n, f) ==
  f = [s \in SUBSET (1..n) |->
         IF s = {} THEN AfterTracks(g) ELSE MixBus(g, f[s \ {Max(s)}], o[Max(s)])]

LEMMA FoldExists ==
  ASSUME NEW g, NEW o, NEW n \in Nat PROVE \E f : Folds(g, o, n, f)
<1> DEFINE N == {m \in Nat : \E f : Folds(g, o, m, f)}
<1>1. 0 \in N
  <2> DEFINE f == [s \in SUBSET (1..0) |-> AfterTracks(g)]
  <2>1. \A s \in SUBSET (1..0) : s = {}
    OBVIOUS
  <2>2. Folds(g, o, 0, f)
    BY <2>1 DEF Folds
  <2> QED BY <2>2
<1>2. ASSUME NEW m \in Nat, m \in N PROVE m + 1 \in N
  <2>0. m + 1 \in Nat /\ m + 1 > m
    OBVIOUS
  <2>1. PICK f : Folds(g, o, m, f)
    BY <1>2
  <2>2. \A s \in SUBSET (1..m) :
          f[s] = IF s = {} THEN AfterTracks(g) ELSE MixBus(g, f[s \ {Max(s)}], o[Max(s)])
    BY <2>1 DEF Folds
  <2> DEFINE h == [s \in SUBSET (1..(m + 1)) |->
                     IF m + 1 \in s THEN MixBus(g, f[s \ {m + 1}], o[m + 1]) ELSE f[s]]
  <2>3. ASSUME NEW s \in SUBSET (1..(m + 1))
        PROVE  h[s] = IF s = {} THEN AfterTracks(g) ELSE MixBus(g, h[s \ {Max(s)}], o[Max(s)])
    <3>1. CASE m + 1 \in s
      <4>1. Max(s) \in s /\ \A y \in s : y <= Max(s)
        BY <2>0, <3>1, HasMax
      <4>2. Max(s) = m + 1
        <5>1. Max(s) \in 1..(m + 1) /\ m + 1 <= Max(s)
          BY <3>1, <4>1
        <5> QED BY <5>1
      <4>3. s \ {m + 1} \in SUBSET (1..(m + 1)) /\ m + 1 \notin s \ {m + 1}
        OBVIOUS
      <4>4. h[s \ {m + 1}] = f[s \ {m + 1}]
        BY <4>3
      <4>5. h[s] = MixBus(g, f[s \ {m + 1}], o[m + 1])
        BY <3>1
      <4> QED BY <3>1, <4>2, <4>4, <4>5
    <3>2. CASE m + 1 \notin s
      <4>1. s \in SUBSET (1..m)
        BY <3>2
      <4>2. h[s] = f[s]
        BY <3>2
      <4>3. CASE s = {}
        BY <2>2, <4>1, <4>2, <4>3
      <4>4. CASE s # {}
        <5>1. s \ {Max(s)} \in SUBSET (1..(m + 1)) /\ m + 1 \notin s \ {Max(s)}
          BY <3>2
        <5>2. h[s \ {Max(s)}] = f[s \ {Max(s)}]
          BY <5>1
        <5> QED BY <2>2, <4>1, <4>2, <4>4, <5>2
      <4> QED BY <4>3, <4>4
    <3> QED BY <3>1, <3>2
  <2>4. h = [s \in SUBSET (1..(m + 1)) |-> h[s]]
    OBVIOUS
  <2> HIDE DEF h
  <2>5. Folds(g, o, m + 1, h)
    BY <2>3, <2>4 DEF Folds
  <2> QED BY <2>0, <2>5
<1>3. Nat \subseteq N
  <2> HIDE DEF N
  <2> QED BY <1>1, <1>2, Induction
<1> QED BY <1>3

\* The mix after n buses of an order is mix[n].
Mixes(g, o, mix) ==
  /\ mix[0] = AfterTracks(g)
  /\ \A n \in 1..Len(o) : mix[n] = MixBus(g, mix[n - 1], o[n])

\* The mix of a block, bus by bus
LEMMA MixFolds ==
  ASSUME NEW A, NEW g, NEW o \in Seq(A)
  PROVE  \E mix : Mixes(g, o, mix) /\ Mix(g, o) = mix[Len(o)]
<1> DEFINE D == 1..Len(o)
           iter[s \in SUBSET D] ==
             IF s = {} THEN AfterTracks(g) ELSE MixBus(g, iter[s \ {Max(s)}], o[Max(s)])
<1>0. Len(o) \in Nat /\ DOMAIN o = D
  BY LenProperties
<1>1. Mix(g, o) = iter[D]
  BY <1>0 DEF Mix, FoldLeft, MapThenFoldSet
<1>2. iter = CHOOSE f : f = [s \in SUBSET D |->
        IF s = {} THEN AfterTracks(g) ELSE MixBus(g, f[s \ {Max(s)}], o[Max(s)])]
  BY DEF iter
<1> HIDE DEF iter
<1>3. PICK f : Folds(g, o, Len(o), f)
  BY <1>0, FoldExists
<1>4. iter = [s \in SUBSET D |->
        IF s = {} THEN AfterTracks(g) ELSE MixBus(g, iter[s \ {Max(s)}], o[Max(s)])]
  BY <1>2, <1>3 DEF Folds
<1> DEFINE mix == [n \in 0..Len(o) |-> iter[1..n]]
<1>5. mix[0] = AfterTracks(g)
  <2>1. 1..0 = {} /\ 0 \in 0..Len(o)
    BY <1>0
  <2> QED BY <1>4, <2>1
<1>6. ASSUME NEW n \in 1..Len(o) PROVE mix[n] = MixBus(g, mix[n - 1], o[n])
  <2>1. 1..n \in SUBSET D /\ n \in 1..n /\ n \in Nat
    BY <1>0
  <2>2. Max(1..n) \in 1..n /\ \A y \in 1..n : y <= Max(1..n)
    BY <2>1, HasMax
  <2>3. Max(1..n) = n
    BY <2>1, <2>2
  <2>4. (1..n) \ {n} = 1..(n - 1)
    BY <2>1
  <2>5. n \in 0..Len(o) /\ n - 1 \in 0..Len(o)
    BY <1>0
  <2>6. iter[1..n] = MixBus(g, iter[1..(n - 1)], o[n])
    BY <1>4, <2>1, <2>3, <2>4
  <2> QED BY <2>5, <2>6
<1>7. mix[Len(o)] = iter[D]
  BY <1>0
<1> HIDE DEF mix
<1>8. Mixes(g, o, mix) /\ Mix(g, o) = mix[Len(o)]
  BY <1>1, <1>5, <1>6, <1>7 DEF Mixes
<1> QED BY <1>8

\* Bus i sends to bus j.
Feeds(g, i, j) == \E k \in DOMAIN g.buses[i].sends : g.buses[i].sends[k].idx = j

\* Every bus is rendered, and before the buses it feeds.
SourcesFirst(g, o) ==
  /\ Len(o) \in Nat /\ \A x \in 1..Len(o) : o[x] \in DOMAIN g.buses
  /\ \A i \in DOMAIN g.buses : \E x \in 1..Len(o) : o[x] = i
  /\ \A x, y \in 1..Len(o) : Feeds(g, o[x], o[y]) => x < y

\* in[n][j] is heard on bus j, and out[n] on the master, after n buses.
Mixing(g, o, in, out) ==
  /\ \A j \in DOMAIN g.buses : in[0][j] = FedByTracks(g, j)
  /\ out[0] = {t \in DOMAIN g.tracks : ~Silenced(g, t)}
  /\ \A n \in 1..Len(o), j \in DOMAIN g.buses :
       in[n][j] = in[n - 1][j] \cup (IF Feeds(g, o[n], j) THEN in[n - 1][o[n]] ELSE {})
  /\ \A n \in 1..Len(o) : out[n] = out[n - 1] \cup in[n - 1][o[n]]

\* x is the mix after bus i, if m is the one before.
Mixed(g, m, i, x) ==
  /\ DOMAIN x.input = DOMAIN m.input
  /\ \A j \in DOMAIN m.input : x.input[j] =
       IF j # i /\ Feeds(g, i, j) THEN m.input[j] \cup m.input[i] ELSE m.input[j]
  /\ x.master = m.master \cup m.input[i]

LEMMA BusMixed ==
  ASSUME NEW g, NEW m, NEW i PROVE Mixed(g, m, i, MixBus(g, m, i))
BY DEF MixBus, Mixed, Feeds

\* The same without the records
LEMMA MixIsMixing ==
  ASSUME NEW A, NEW g, NEW o \in Seq(A), SourcesFirst(g, o)
  PROVE  \E in, out :
           /\ Mixing(g, o, in, out)
           /\ \A j \in DOMAIN g.buses : Mix(g, o).input[j] = in[Len(o)][j]
           /\ Mix(g, o).master = out[Len(o)]
<1>1. PICK mix : Mixes(g, o, mix) /\ Mix(g, o) = mix[Len(o)]
  BY MixFolds
<1>0. Len(o) \in Nat
  BY DEF SourcesFirst
<1> DEFINE N == {n \in Nat : n <= Len(o) => DOMAIN mix[n].input = DOMAIN g.buses}
<1>2. 0 \in N
  <2>1. mix[0] = AfterTracks(g)
    BY <1>1 DEF Mixes
  <2> QED BY <2>1 DEF AfterTracks
<1>3. ASSUME NEW n \in Nat, n \in N PROVE n + 1 \in N
  <2> SUFFICES ASSUME NEW m, m = n + 1, m <= Len(o) PROVE DOMAIN mix[m].input = DOMAIN g.buses
    OBVIOUS
  <2>1. m \in 1..Len(o) /\ m - 1 = n
    BY <1>0
  <2>2. mix[m] = MixBus(g, mix[n], o[m])
    BY <1>1, <2>1 DEF Mixes
  <2>3. DOMAIN mix[n].input = DOMAIN g.buses
    BY <1>3, <2>1, <1>0
  <2>4. Mixed(g, mix[n], o[m], mix[m])
    BY <2>2, BusMixed
  <2> QED BY <2>3, <2>4 DEF Mixed
<1>4. Nat \subseteq N
  <2> HIDE DEF N
  <2> QED BY <1>2, <1>3, Induction
<1>5. \A n \in 0..Len(o) : DOMAIN mix[n].input = DOMAIN g.buses
  BY <1>0, <1>4
<1> DEFINE in == [n \in 0..Len(o) |-> mix[n].input]
           out == [n \in 0..Len(o) |-> mix[n].master]
<1>6. in[Len(o)] = mix[Len(o)].input /\ out[Len(o)] = mix[Len(o)].master
  BY <1>0
<1>7. /\ \A j \in DOMAIN g.buses : in[0][j] = FedByTracks(g, j)
      /\ out[0] = {t \in DOMAIN g.tracks : ~Silenced(g, t)}
  <2>1. in[0] = mix[0].input /\ out[0] = mix[0].master
    BY <1>0
  <2>2. mix[0] = AfterTracks(g)
    BY <1>1 DEF Mixes
  <2> QED BY <2>1, <2>2 DEF AfterTracks
<1>8. ASSUME NEW n \in 1..Len(o)
      PROVE  /\ \A j \in DOMAIN g.buses :
                  in[n][j] = in[n - 1][j] \cup (IF Feeds(g, o[n], j) THEN in[n - 1][o[n]] ELSE {})
             /\ out[n] = out[n - 1] \cup in[n - 1][o[n]]
  <2>1. n \in 0..Len(o) /\ n - 1 \in 0..Len(o)
    BY <1>0
  <2>2. /\ in[n] = mix[n].input /\ in[n - 1] = mix[n - 1].input
        /\ out[n] = mix[n].master /\ out[n - 1] = mix[n - 1].master
    BY <2>1
  <2>3. mix[n] = MixBus(g, mix[n - 1], o[n])
    BY <1>1 DEF Mixes
  <2>4. DOMAIN mix[n - 1].input = DOMAIN g.buses
    BY <1>5, <2>1
  <2> HIDE DEF in, out
  <2>5. /\ \A j \in DOMAIN g.buses : in[n][j] =
             IF j # o[n] /\ Feeds(g, o[n], j) THEN in[n - 1][j] \cup in[n - 1][o[n]] ELSE in[n - 1][j]
        /\ out[n] = out[n - 1] \cup in[n - 1][o[n]]
    <3> DEFINE x == mix[n]
               m == mix[n - 1]
               i == o[n]
    <3>1. Mixed(g, m, i, x) /\ DOMAIN m.input = DOMAIN g.buses
      BY <2>3, <2>4, BusMixed
    <3>2. in[n] = x.input /\ in[n - 1] = m.input /\ out[n] = x.master /\ out[n - 1] = m.master
      BY <2>2
    <3> HIDE DEF x, m, i
    <3>3. /\ \A j \in DOMAIN g.buses : x.input[j] =
               IF j # i /\ Feeds(g, i, j) THEN m.input[j] \cup m.input[i] ELSE m.input[j]
          /\ x.master = m.master \cup m.input[i]
      BY <3>1 DEF Mixed
    <3> QED BY <3>2, <3>3 DEF i
  <2>6. ~Feeds(g, o[n], o[n])
    <3>1. n \in Nat /\ ~(n < n)
      BY <1>0
    <3> QED BY <3>1 DEF SourcesFirst
  <2> QED BY <2>5, <2>6
<1> HIDE DEF in, out
<1>9. Mixing(g, o, in, out)
  BY <1>7, <1>8 DEF Mixing
<1> QED BY <1>1, <1>6, <1>9

\* What is heard stays heard.
LEMMA MixGrows ==
  ASSUME NEW g, NEW o, SourcesFirst(g, o), NEW in, NEW out, Mixing(g, o, in, out),
         NEW m \in 0..Len(o), NEW n \in 0..Len(o), m <= n
  PROVE  /\ \A j \in DOMAIN g.buses : in[m][j] \subseteq in[n][j]
         /\ out[m] \subseteq out[n]
<1> DEFINE N == {d \in Nat : m + d <= Len(o) =>
                   /\ \A j \in DOMAIN g.buses : in[m][j] \subseteq in[m + d][j]
                   /\ out[m] \subseteq out[m + d]}
<1>0. Len(o) \in Nat /\ m \in Nat /\ n \in Nat
  BY DEF SourcesFirst
<1>1. 0 \in N
  <2>1. m + 0 = m
    BY <1>0
  <2> QED BY <2>1
<1>2. ASSUME NEW d \in Nat, d \in N PROVE d + 1 \in N
  <2> SUFFICES ASSUME NEW q, q = m + (d + 1), q <= Len(o)
               PROVE  /\ \A j \in DOMAIN g.buses : in[m][j] \subseteq in[q][j]
                      /\ out[m] \subseteq out[q]
    BY <1>0
  <2>1. q \in 1..Len(o) /\ q - 1 = m + d /\ m + d <= Len(o)
    BY <1>0
  <2>2. /\ \A j \in DOMAIN g.buses : in[m][j] \subseteq in[m + d][j]
        /\ out[m] \subseteq out[m + d]
    BY <1>2, <2>1
  <2>3. /\ \A j \in DOMAIN g.buses : in[m + d][j] \subseteq in[q][j]
        /\ out[m + d] \subseteq out[q]
    <3>1. /\ \A j \in DOMAIN g.buses :
               in[q][j] = in[q - 1][j] \cup (IF Feeds(g, o[q], j) THEN in[q - 1][o[q]] ELSE {})
          /\ out[q] = out[q - 1] \cup in[q - 1][o[q]]
      BY <2>1 DEF Mixing
    <3> QED BY <2>1, <3>1
  <2> QED BY <2>2, <2>3
<1>3. Nat \subseteq N
  <2> HIDE DEF N
  <2> QED BY <1>1, <1>2, Induction
<1>4. n - m \in Nat /\ m + (n - m) = n /\ n <= Len(o)
  BY <1>0
<1>5. n - m \in N
  BY <1>3, <1>4
<1> QED BY <1>4, <1>5

\* A bus is fed by those rendered before it, and by none after.
LEMMA MixSettles ==
  ASSUME NEW g, NEW o, SourcesFirst(g, o), NEW in, NEW out, Mixing(g, o, in, out),
         NEW x \in 1..Len(o)
  PROVE  in[Len(o)][o[x]] = in[x - 1][o[x]]
<1> DEFINE N == {d \in Nat : x - 1 + d <= Len(o) => in[x - 1 + d][o[x]] = in[x - 1][o[x]]}
<1>0. Len(o) \in Nat /\ x \in Nat /\ o[x] \in DOMAIN g.buses
  BY DEF SourcesFirst
<1>1. 0 \in N
  <2>1. x - 1 + 0 = x - 1
    BY <1>0
  <2> QED BY <2>1
<1>2. ASSUME NEW d \in Nat, d \in N PROVE d + 1 \in N
  <2> SUFFICES ASSUME NEW q, q = x - 1 + (d + 1), q <= Len(o)
               PROVE  in[q][o[x]] = in[x - 1][o[x]]
    BY <1>0
  <2>1. q \in 1..Len(o) /\ q - 1 = x - 1 + d /\ x - 1 + d <= Len(o) /\ ~(q < x)
    BY <1>0
  <2>2. in[x - 1 + d][o[x]] = in[x - 1][o[x]]
    BY <1>2, <2>1
  <2>3. ~Feeds(g, o[q], o[x])
    BY <2>1 DEF SourcesFirst
  <2>4. in[q][o[x]] = in[q - 1][o[x]] \cup (IF Feeds(g, o[q], o[x]) THEN in[q - 1][o[q]] ELSE {})
    BY <1>0, <2>1 DEF Mixing
  <2> QED BY <2>1, <2>2, <2>3, <2>4
<1>3. Nat \subseteq N
  <2> HIDE DEF N
  <2> QED BY <1>1, <1>2, Induction
<1>4. Len(o) - (x - 1) \in Nat /\ x - 1 + (Len(o) - (x - 1)) = Len(o)
  BY <1>0
<1>5. Len(o) - (x - 1) \in N
  BY <1>3, <1>4
<1> QED BY <1>0, <1>4, <1>5

\* The index of a send is that of the buses its destination names.
Pointed(g, sends) ==
  \A k \in DOMAIN sends, i \in DOMAIN g.buses : sends[k].idx = i <=> g.buses[i].id = sends[k].dest

AllPointed(g) ==
  /\ \A t \in DOMAIN g.tracks : Pointed(g, g.tracks[t].sends)
  /\ \A i \in DOMAIN g.buses : Pointed(g, g.buses[i].sends)

\* The buses a track is heard on are the fewest with those it feeds and those
\* they feed.
LEMMA Heard ==
  ASSUME NEW g, AllPointed(g), NEW t \in DOMAIN g.tracks, Silenced(g, t) <=> ~Audible(g, t)
  PROVE  /\ HeardOn(g, t) \subseteq DOMAIN g.buses
         /\ \A i \in DOMAIN g.buses : t \in FedByTracks(g, i) => i \in HeardOn(g, t)
         /\ \A i \in HeardOn(g, t), j \in DOMAIN g.buses : Feeds(g, i, j) => j \in HeardOn(g, t)
         /\ \A S \in SUBSET DOMAIN g.buses :
              /\ \A i \in DOMAIN g.buses : t \in FedByTracks(g, i) => i \in S
              /\ \A i \in S, j \in DOMAIN g.buses : Feeds(g, i, j) => j \in S
              => HeardOn(g, t) \subseteq S
<1> DEFINE D == DOMAIN g.buses
           sends == g.tracks[t].sends
           To(s) == {i \in D : g.buses[i].id = s.dest}
           first == UNION {To(sends[k]) : k \in {j \in DOMAIN sends : sends[j].pre \/ Audible(g, t)}}
           Closed(S) == \A i \in S : \A k \in DOMAIN g.buses[i].sends : To(g.buses[i].sends[k]) \subseteq S
<1>1. HeardOn(g, t) = {i \in D : \A S \in SUBSET D : first \subseteq S /\ Closed(S) => i \in S}
  BY DEF HeardOn
<1>2. ASSUME NEW i \in D PROVE i \in first <=> t \in FedByTracks(g, i)
  <2>1. \A k \in DOMAIN sends : i \in To(sends[k]) <=> sends[k].idx = i
    BY DEF AllPointed, Pointed
  <2>2. t \in FedByTracks(g, i) <=>
          \E k \in DOMAIN sends : sends[k].idx = i /\ (sends[k].pre \/ Audible(g, t))
    BY DEF FedByTracks
  <2>3. i \in first <=>
          \E k \in DOMAIN sends : i \in To(sends[k]) /\ (sends[k].pre \/ Audible(g, t))
    <3> HIDE DEF To, sends
    <3> QED OBVIOUS
  <2> HIDE DEF To, sends, first
  <2> QED BY <2>1, <2>2, <2>3
<1>3. first \subseteq D
  OBVIOUS
<1>4. ASSUME NEW S \in SUBSET D
      PROVE  Closed(S) <=> \A i \in S, j \in D : Feeds(g, i, j) => j \in S
  <2>1. ASSUME NEW i \in S, NEW j \in D
        PROVE  Feeds(g, i, j) <=> \E k \in DOMAIN g.buses[i].sends : j \in To(g.buses[i].sends[k])
    <3>1. \A k \in DOMAIN g.buses[i].sends :
            j \in To(g.buses[i].sends[k]) <=> g.buses[i].sends[k].idx = j
      BY DEF AllPointed, Pointed
    <3> HIDE DEF To
    <3> QED BY <3>1 DEF Feeds
  <2>2. \A s : To(s) \subseteq D
    OBVIOUS
  <2> HIDE DEF To
  <2> QED BY <2>1, <2>2
<1> HIDE DEF first, Closed, To, sends
<1> QED BY <1>1, <1>2, <1>3, <1>4

\* The mix carries every track where the sends take it.
LEMMA MixHeard ==
  ASSUME NEW A, NEW g, NEW o \in Seq(A), SourcesFirst(g, o), AllPointed(g),
         \A t \in DOMAIN g.tracks : Silenced(g, t) <=> ~Audible(g, t)
  PROVE  /\ \A i \in DOMAIN g.buses : Mix(g, o).input[i] = {t \in DOMAIN g.tracks : i \in HeardOn(g, t)}
         /\ Mix(g, o).master = {t \in DOMAIN g.tracks : Audible(g, t) \/ HeardOn(g, t) # {}}
<1> DEFINE L == Len(o)
           D == DOMAIN g.buses
           T == DOMAIN g.tracks
<1>0. L \in Nat /\ \A x \in 1..L : o[x] \in D
  BY DEF SourcesFirst
<1>1. PICK in, out :
        /\ Mixing(g, o, in, out)
        /\ \A j \in D : Mix(g, o).input[j] = in[L][j]
        /\ Mix(g, o).master = out[L]
  BY MixIsMixing
<1>2. ASSUME NEW t \in T
      PROVE  /\ HeardOn(g, t) \subseteq D
             /\ \A i \in D : t \in FedByTracks(g, i) => i \in HeardOn(g, t)
             /\ \A i \in HeardOn(g, t), j \in D : Feeds(g, i, j) => j \in HeardOn(g, t)
  BY Heard
<1> DEFINE Sound(n) ==
             /\ \A j \in D : \A t \in in[n][j] : t \in T /\ j \in HeardOn(g, t)
             /\ \A t \in out[n] : t \in T /\ (Audible(g, t) \/ HeardOn(g, t) # {})
           N == {n \in Nat : n <= L => Sound(n)}
<1>3. 0 \in N
  <2>1. /\ \A j \in D : in[0][j] = FedByTracks(g, j)
        /\ out[0] = {t \in T : ~Silenced(g, t)}
    BY <1>1 DEF Mixing
  <2>2. \A j \in D : FedByTracks(g, j) \subseteq T
    BY DEF FedByTracks
  <2> QED BY <1>2, <2>1, <2>2
<1>4. ASSUME NEW n \in Nat, n \in N PROVE n + 1 \in N
  <2> SUFFICES ASSUME NEW m, m = n + 1, m <= L PROVE Sound(m)
    OBVIOUS
  <2>1. m \in 1..L /\ m - 1 = n /\ n <= L /\ o[m] \in D
    BY <1>0
  <2>2. Sound(n)
    BY <1>4, <2>1
  <2>3. /\ \A j \in D : in[m][j] = in[n][j] \cup (IF Feeds(g, o[m], j) THEN in[n][o[m]] ELSE {})
        /\ out[m] = out[n] \cup in[n][o[m]]
    BY <1>1, <2>1 DEF Mixing
  <2>4. ASSUME NEW j \in D, NEW t \in in[m][j] PROVE t \in T /\ j \in HeardOn(g, t)
    BY <1>2, <2>1, <2>2, <2>3
  <2>5. ASSUME NEW t \in out[m] PROVE t \in T /\ (Audible(g, t) \/ HeardOn(g, t) # {})
    BY <2>1, <2>2, <2>3
  <2> QED BY <2>4, <2>5
<1>5. Nat \subseteq N
  <2> HIDE DEF N
  <2> QED BY <1>3, <1>4, Induction
<1>6. Sound(L)
  BY <1>0, <1>5
<1>7. ASSUME NEW x \in 1..L
      PROVE  /\ in[L][o[x]] = in[x - 1][o[x]]
             /\ \A j \in D : Feeds(g, o[x], j) => in[L][o[x]] \subseteq in[L][j]
             /\ in[L][o[x]] \subseteq out[L]
  <2>1. in[L][o[x]] = in[x - 1][o[x]]
    BY <1>1, MixSettles
  <2>2. /\ \A j \in D : in[x][j] = in[x - 1][j] \cup (IF Feeds(g, o[x], j) THEN in[x - 1][o[x]] ELSE {})
        /\ out[x] = out[x - 1] \cup in[x - 1][o[x]]
    BY <1>1 DEF Mixing
  <2>3. x \in 0..L /\ L \in 0..L /\ x <= L
    BY <1>0
  <2>4. (\A j \in D : in[x][j] \subseteq in[L][j]) /\ out[x] \subseteq out[L]
    BY <1>1, <2>3, MixGrows
  <2> QED BY <2>1, <2>2, <2>4
<1>8. (\A j \in D : in[0][j] \subseteq in[L][j]) /\ out[0] \subseteq out[L]
  <2>1. 0 \in 0..L /\ L \in 0..L /\ 0 <= L
    BY <1>0
  <2> QED BY <1>1, <2>1, MixGrows
<1>9. ASSUME NEW t \in T, NEW i \in HeardOn(g, t) PROVE t \in in[L][i]
  <2> DEFINE S == {j \in D : t \in in[L][j]}
  <2>1. ASSUME NEW j \in D, t \in FedByTracks(g, j) PROVE j \in S
    <3>1. in[0][j] = FedByTracks(g, j)
      BY <1>1 DEF Mixing
    <3> QED BY <1>8, <2>1, <3>1
  <2>2. ASSUME NEW h \in S, NEW j \in D, Feeds(g, h, j) PROVE j \in S
    <3>1. PICK x \in 1..L : o[x] = h
      BY DEF SourcesFirst
    <3> QED BY <1>7, <2>2, <3>1
  <2>3. S \in SUBSET D
    OBVIOUS
  <2> HIDE DEF S
  <2>4. HeardOn(g, t) \subseteq S
    BY <2>1, <2>2, <2>3, Heard
  <2> QED BY <2>4 DEF S
<1>10. ASSUME NEW t \in T, Audible(g, t) \/ HeardOn(g, t) # {} PROVE t \in out[L]
  <2>1. CASE Audible(g, t)
    <3>1. out[0] = {u \in T : ~Silenced(g, u)}
      BY <1>1 DEF Mixing
    <3> QED BY <1>8, <2>1, <3>1
  <2>2. CASE HeardOn(g, t) # {}
    <3>1. PICK i \in HeardOn(g, t) : i \in D
      BY <1>2, <2>2
    <3>2. t \in in[L][i]
      BY <1>9
    <3>3. PICK x \in 1..L : o[x] = i
      BY <3>1 DEF SourcesFirst
    <3> QED BY <1>7, <3>2, <3>3
  <2> QED BY <1>10, <2>1, <2>2
<1>11. ASSUME NEW i \in D PROVE in[L][i] = {t \in T : i \in HeardOn(g, t)}
  BY <1>6, <1>9
<1>12. out[L] = {t \in T : Audible(g, t) \/ HeardOn(g, t) # {}}
  BY <1>6, <1>10
<1> QED BY <1>1, <1>11, <1>12

\* If ids differ, a current index is that of the bus with the id.
LEMMA AllPointedAt ==
  ASSUME NEW g, g.buses \in Seq(GraphBuses), None \notin Nat,
         \A i, j \in DOMAIN g.buses : g.buses[i].id = g.buses[j].id => i = j,
         NEW sends, Current(g.buses, sends)
  PROVE  Pointed(g, sends)
<1> SUFFICES ASSUME NEW k \in DOMAIN sends, NEW i \in DOMAIN g.buses
             PROVE  sends[k].idx = i <=> g.buses[i].id = sends[k].dest
  BY DEF Pointed
<1> DEFINE id == sends[k].dest
<1>1. DOMAIN g.buses = 1..Len(g.buses) /\ Len(g.buses) \in Nat /\ i \in Nat
  <2>1. DOMAIN g.buses = 1..Len(g.buses) /\ Len(g.buses) \in Nat
    BY LenProperties
  <2> QED BY <2>1
<1>2. sends[k].idx = Target(g.buses, id)
  BY DEF Current
<1> HIDE DEF id
<1>3. CASE \E j \in DOMAIN g.buses : g.buses[j].id = id
  <2> DEFINE last == LastAt(Ids(g.buses), id)
  <2>1. Target(g.buses, id) = last
    BY <1>3 DEF Target
  <2>2. last \in 1..Len(g.buses) /\ g.buses[last].id = id
    BY <1>3, LastIs
  <2> HIDE DEF last
  <2>3. g.buses[i].id = id => i = last
    BY <1>1, <2>2
  <2> QED BY <1>2, <2>1, <2>2, <2>3 DEF id
<1>4. CASE ~\E j \in DOMAIN g.buses : g.buses[j].id = id
  <2>1. Target(g.buses, id) = None
    BY <1>4 DEF Target
  <2> QED BY <1>1, <1>2, <1>4, <2>1 DEF id
<1> QED BY <1>3, <1>4

\* An order of all the buses without repetition has each of them.
LEMMA OrderHasAll ==
  ASSUME NEW n \in Nat, NEW o \in [1..n -> 1..n],
         \A x, y \in 1..n : x # y => o[x] # o[y]
  PROVE  \A i \in 1..n : \E x \in 1..n : o[x] = i
<1>1. IsFiniteSet(1..n)
  BY FS_Interval
<1>2. o \in Injection(1..n, 1..n)
  BY DEF Injection, IsInjective
<1>3. o \in Surjection(1..n, 1..n)
  BY <1>1, <1>2, FS_Injection
<1> QED BY <1>3 DEF Surjection

LEMMA SameEnd ==
  ASSUME NEW a \in Nat, NEW b \in Nat, 1..a = 1..b PROVE a = b
<1>1. ~(a < b)
  <2>1. a < b => b \in 1..b /\ b \notin 1..a
    OBVIOUS
  <2> QED BY <2>1
<1>2. ~(b < a)
  <2>1. b < a => a \in 1..a /\ a \notin 1..b
    OBVIOUS
  <2> QED BY <2>1
<1> QED BY <1>1, <1>2

\* What the sort stores is an order to mix in.
LEMMA OrderIsSourcesFirst ==
  ASSUME NEW g, g.buses \in Seq(GraphBuses),
         \A i \in DOMAIN g.buses : Current(g.buses, g.buses[i].sends),
         NEW o \in Orders(g.buses)
  PROVE  o \in Seq(DOMAIN g.buses) /\ SourcesFirst(g, o)
<1> DEFINE n == Len(g.buses)
<1>1. DOMAIN g.buses = 1..n /\ n \in Nat
  BY LenProperties
<1>2. o \in [1..n -> 1..n] /\ IsOrder(o, g.buses)
  BY <1>1 DEF Orders
<1> HIDE DEF n
<1>3. o \in Seq(1..n) /\ Len(o) = n
  <2>1. o \in Seq(1..n)
    BY <1>1, <1>2, SeqDef
  <2>2. DOMAIN o = 1..Len(o) /\ Len(o) \in Nat
    BY <2>1, LenProperties
  <2>3. 1..Len(o) = 1..n
    BY <1>2, <2>2
  <2>4. Len(o) = n
    BY <1>1, <2>2, <2>3, SameEnd
  <2> QED BY <2>1, <2>4
<1>4. \A x, y \in 1..n : x # y => o[x] # o[y]
  BY <1>2 DEF IsOrder
<1>5. \A i \in 1..n : \E x \in 1..n : o[x] = i
  BY <1>1, <1>2, <1>4, OrderHasAll
<1>6. ASSUME NEW x \in 1..n, NEW y \in 1..n, Feeds(g, o[x], o[y]) PROVE x < y
  <2>1. PICK k \in DOMAIN g.buses[o[x]].sends : g.buses[o[x]].sends[k].idx = o[y]
    BY <1>6 DEF Feeds
  <2>2. o[x] \in DOMAIN g.buses /\ o[y] \in DOMAIN g.buses
    BY <1>1, <1>2
  <2>3. Target(g.buses, g.buses[o[x]].sends[k].dest) = o[y]
    BY <2>1, <2>2 DEF Current
  <2>4. <<o[x], o[y]>> \in BusSends(g.buses)
    BY <2>2, <2>3 DEF BusSends
  <2>5. x \in DOMAIN o /\ y \in DOMAIN o
    BY <1>2
  <2> QED BY <1>2, <2>4, <2>5 DEF IsOrder
<1> QED BY <1>1, <1>2, <1>3, <1>5, <1>6 DEF SourcesFirst

\* Changes to sort are left only while a batch is under way.
Settled == dirty => patching # {}

LEMMA SettledInit == Init => Settled
BY DEF Init, Settled

LEMMA SettledKept == Settled /\ [Next]_vars => Settled'
<1> SUFFICES ASSUME Settled, [Next]_vars PROVE Settled'
  OBVIOUS
<1>1. CASE PatchBegin
  BY <1>1 DEF PatchBegin, Patchers, Settled
<1>2. ASSUME NEW o \in Ops, PatchOp(o) PROVE Settled'
  <2> DEFINE live == IF "graph" \in patching THEN ApplyOne(graph, o) ELSE {}
             doc == IF "project" \in patching THEN ApplyOneProject(project, o) ELSE {}
  <2>1. /\ patching' = {x \in patching : IF x = "graph" THEN live # {} ELSE doc # {}}
        /\ dirty' = (live # {} /\ (dirty \/ Topological(o)))
    BY <1>2 DEF PatchOp
  <2>2. live # {} => "graph" \in patching
    OBVIOUS
  <2> HIDE DEF live, doc
  <2> QED BY <2>1, <2>2 DEF Settled
<1>3. CASE PatchEnd
  BY <1>3 DEF PatchEnd, Settled
<1>4. CASE Rebuild
  BY <1>4 DEF Rebuild, Settled
<1>5. CASE UNCHANGED vars
  BY <1>5 DEF vars, Settled
<1> QED BY <1>1, <1>2, <1>3, <1>4, <1>5 DEF Next

LEMMA RoutedMix == Inv /\ Typed /\ Settled => MixFollowsRouting
<1> SUFFICES ASSUME Inv, Typed, Settled, patching = {}, ~stale,
                    \A i, j \in DOMAIN graph.buses : graph.buses[i].id = graph.buses[j].id => i = j
             PROVE  /\ \A i \in DOMAIN graph.buses : Mix(graph, order).input[i]
                         = {t \in DOMAIN graph.tracks : i \in HeardOn(graph, t)}
                    /\ Mix(graph, order).master
                         = {t \in DOMAIN graph.tracks : Audible(graph, t) \/ HeardOn(graph, t) # {}}
  BY DEF MixFollowsRouting
<1>1. Routed(graph, order)
  BY DEF Inv, Settled
<1>2. graph.buses \in Seq(GraphBuses) /\ \A t \in DOMAIN graph.tracks : graph.tracks[t] \in GraphTracks
  BY DEF Typed, IsGraph
<1>3. AllPointed(graph)
  BY <1>1, <1>2, AllPointedAt, LivePatchAssumption DEF Routed, AllPointed
<1>4. order \in Seq(DOMAIN graph.buses) /\ SourcesFirst(graph, order)
  BY <1>1, <1>2, OrderIsSourcesFirst DEF Routed
<1>5. \A t \in DOMAIN graph.tracks : Silenced(graph, t) <=> ~Audible(graph, t)
  <2>1. \A t \in DOMAIN graph.tracks : graph.tracks[t].mute \in BOOLEAN /\ graph.tracks[t].solo \in BOOLEAN
    BY <1>2 DEF GraphTracks
  <2> QED BY <2>1 DEF Silenced, Audible
<1> QED BY <1>3, <1>4, <1>5, MixHeard

\* After any patches that left no stale route, the block of a graph whose buses
\* have different ids takes every track to the buses its sends lead to, directly
\* or through other buses, to no others, and to the master what is audible or on
\* a bus.
THEOREM MixFollows == Spec => []MixFollowsRouting
<1> QED
  BY InvInit, InvKept, TypedInit, TypedKept, SettledInit, SettledKept, RoutedMix, PTL DEF Spec
=============================================================================
