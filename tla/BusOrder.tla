------------------------------ MODULE BusOrder ------------------------------
(***************************************************************************)
(* The buses of one audio graph (bridge-plugin-host/graph.rs).             *)
(*                                                                         *)
(* recompute_bus_order sorts the buses topologically with Kahn's           *)
(* algorithm and refuses a routing that has no such order.  The audio      *)
(* callback then renders the buses in that order, block after block        *)
(* (Graph::process): each bus passes its signal on to the buses it sends   *)
(* to, which must not have been rendered yet.                              *)
(*                                                                         *)
(* Buses are numbered from 1, their ids need not be distinct, and a send   *)
(* may name a bus that does not exist.  A signal is the set of the buses   *)
(* that contribute to it; levels, gains and inserts are left out.          *)
(***************************************************************************)
EXTENDS Naturals, Sequences, FiniteSets, Routing

CONSTANTS
  Ids,          \* ids of buses
  Routings      \* the sequences of buses that are sorted

ASSUME RoutingsAssumption ==
  Routings \subseteq Seq([id : Ids, sends : Seq(Ids)])

VARIABLES
  buses,        \* Graph.buses
  inDegree,     \* in_degree
  queue,        \* the stack of buses all of whose sources are placed
  order,        \* order, and then Graph.bus_order
  current,      \* the bus whose sends are being walked, or 0
  next,         \* the next of its sends
  phase,        \* "sort", then "err", or "ready" and "block" in turns
  rendered,     \* how many buses of this block are rendered
  input         \* the input_buffer of each bus

sortVars   == <<inDegree, queue, order, current, next>>
renderVars == <<rendered, input>>
vars == <<buses, sortVars, phase, renderVars>>

N == Len(buses)

SendsOf(i) == 1..Len(buses[i].sends)

\* id_to_idx is collected in the order of the buses: of those with the same
\* id the last one receives.
Receives(i, k, j) ==
  /\ buses[j].id = buses[i].sends[k]
  /\ \A l \in (j + 1)..N : buses[l].id # buses[j].id

\* <<i, k, j>>: the k-th send of bus i goes to bus j.  Sends to unknown ids
\* are in no adjacency list.
Edges ==
  {e \in UNION {{i} \X SendsOf(i) \X (1..N) : i \in 1..N} :
     Receives(e[1], e[2], e[3])}

Into(j, edges) == {e \in edges : e[3] = j}

\* The number of sends into j, two from the same bus counted twice
DegreeOf_Distinct(j) == Cardinality({e[1] : e \in Into(j, Edges)})

DegreeOf(j) == Cardinality(Into(j, Edges))

\* The members of S, a set of numbers, in ascending order
IsAscending(q, S) ==
  /\ \A i, j \in DOMAIN q : i < j => q[i] < q[j]
  /\ \A s \in S : \E i \in DOMAIN q : q[i] = s

Sources == {i \in 1..N : inDegree[i] = 0}

Init ==
  /\ buses \in Routings
  /\ inDegree = [j \in 1..N |-> DegreeOf(j)]
  /\ queue \in [1..Cardinality(Sources) -> Sources]
  /\ IsAscending(queue, Sources)
  /\ order = <<>>
  /\ current = 0
  /\ next = 1
  /\ phase = "sort"
  /\ rendered = 0
  /\ input = [j \in 1..N |-> {}]
-----------------------------------------------------------------------------
(* recompute_bus_order *)

Walking == current # 0 /\ next \in SendsOf(current)

Pop ==
  /\ phase = "sort"
  /\ ~Walking
  /\ queue # <<>>
  /\ current' = queue[Len(queue)]
  /\ queue' = SubSeq(queue, 1, Len(queue) - 1)
  /\ order' = Append(order, current')
  /\ next' = 1
  /\ UNCHANGED <<buses, inDegree, phase, renderVars>>

Relax_Eager(j) ==
  /\ inDegree' = [inDegree EXCEPT ![j] = @ - 1]
  /\ queue' = IF inDegree[j] <= 2 THEN Append(queue, j) ELSE queue

Relax(j) ==
  /\ inDegree' = [inDegree EXCEPT ![j] = @ - 1]
  /\ queue' = IF inDegree[j] = 1 THEN Append(queue, j) ELSE queue

Walk ==
  /\ phase = "sort"
  /\ Walking
  /\ \/ \E j \in 1..N : <<current, next, j>> \in Edges /\ Relax(j)
     \/ /\ \A j \in 1..N : <<current, next, j>> \notin Edges
        /\ UNCHANGED <<inDegree, queue>>
  /\ next' = next + 1
  /\ UNCHANGED <<buses, order, current, phase, renderVars>>

\* Only a complete order is kept; otherwise the graph is not built.
Finish ==
  /\ phase = "sort"
  /\ ~Walking
  /\ queue = <<>>
  /\ phase' = IF Len(order) = N THEN "ready" ELSE "err"
  /\ UNCHANGED <<buses, sortVars, renderVars>>
-----------------------------------------------------------------------------
(* Graph::process *)

StartBlock ==
  /\ phase = "ready"
  /\ phase' = "block"
  /\ rendered' = 0
  /\ input' = [j \in 1..N |-> {}]
  /\ UNCHANGED <<buses, sortVars>>

\* The signal of bus i, itself included, is added to every bus it sends to.
Cascade(i) ==
  input' = [j \in 1..N |->
              IF j # i /\ \E k \in SendsOf(i) : <<i, k, j>> \in Edges
                THEN input[j] \cup input[i] \cup {i}
                ELSE input[j]]

RenderBus_AsListed ==
  /\ phase = "block"
  /\ rendered < Len(order)
  /\ Cascade(rendered + 1)
  /\ rendered' = rendered + 1
  /\ UNCHANGED <<buses, sortVars, phase>>

RenderBus ==
  /\ phase = "block"
  /\ rendered < Len(order)
  /\ Cascade(order[rendered + 1])
  /\ rendered' = rendered + 1
  /\ UNCHANGED <<buses, sortVars, phase>>

EndBlock ==
  /\ phase = "block"
  /\ rendered = Len(order)
  /\ phase' = "ready"
  /\ UNCHANGED <<buses, sortVars, renderVars>>

Next == Pop \/ Walk \/ Finish \/ StartBlock \/ RenderBus \/ EndBlock

Spec == Init /\ [][Next]_vars
-----------------------------------------------------------------------------
(* Properties *)

Bus == [id : Ids, sends : Seq(Ids)]

\* The type invariant.  in_degree is a usize: it is never taken below zero.
TypeOK ==
  /\ buses \in Seq(Bus)
  /\ inDegree \in [1..N -> Nat]
  /\ queue \in Seq(1..N)
  /\ order \in Seq(1..N)
  /\ current \in 0..N
  /\ next \in Nat \ {0}
  /\ phase \in {"sort", "err", "ready", "block"}
  /\ rendered \in 0..Len(order)
  /\ input \in [1..N -> SUBSET (1..N)]

Placed == {order[p] : p \in 1..Len(order)}

\* The sends the sort has not walked yet
Pending ==
  {e \in Edges : e[1] \notin Placed \/ (e[1] = current /\ e[2] >= next)}

\* No bus is placed twice, and none before a bus that sends to it.
SourcesFirst ==
  /\ \A p, q \in 1..Len(order) : order[p] = order[q] => p = q
  /\ \A e \in Edges : \A q \in 1..Len(order) :
       order[q] = e[3] => \E p \in 1..(q - 1) : order[p] = e[1]

Routes == {<<e[1], e[3]>> : e \in Edges}

\* The sort refuses exactly the routings that have no order: those in which
\* some buses feed each other in a circle (Graph::from_project, "Returns an
\* error if the bus topology contains a cycle").  Sends to unknown ids,
\* repeated sends and buses of the same id make no difference.
CyclesAreRefused ==
  phase # "sort" => (phase = "err" <=> Cyclic(1..N, Routes))

\* The sort and its refusal: an order with every source in front, unless the
\* buses feed each other in a circle (graph.rs recompute_bus_order).
SortsOrRefuses == SourcesFirst /\ CyclesAreRefused

\* S contains whatever feeds bus j, directly or through other buses.
Feeds(S, j) == \A e \in Edges : e[3] = j \/ e[3] \in S => e[1] \in S

\* In a finished block every bus has heard the buses that feed it, directly
\* or through others, all of them and no other: no send came after its
\* destination had been rendered (graph.rs process, "Buses (in topological
\* order)").
BusesHearTheirSources ==
  phase = "block" /\ rendered = Len(order)
    => \A j \in 1..N :
         /\ Feeds(input[j], j)
         /\ \A S \in SUBSET (1..N) : Feeds(S, j) => input[j] \subseteq S
=============================================================================
