------------------------------ MODULE LivePatch ------------------------------
(***************************************************************************)
(* The two JSON patchers of bridge-plugin-host/patch.rs side by side:      *)
(* apply_patch changes an audio graph in place, apply_patch_to_project     *)
(* changes the document a fresh graph is built from, and the second is     *)
(* said to mirror the first.  Every batch of operations goes to both, and  *)
(* the document may be rebuilt between batches.                            *)
(*                                                                         *)
(* An operation is a record: the root of its path, the id below it, the    *)
(* part it is about, a verb, what the verb needs, and what the text of the *)
(* path looks like before it is taken apart.  What an operation does to a  *)
(* list, a track, a graph or a document is the set of its outcomes: none   *)
(* when it is refused, else one.  Gains, pans, names and send levels are   *)
(* accepted and left out of the state.                                     *)
(***************************************************************************)
EXTENDS ProjectGraph, Automation

CONSTANTS
  Docs,         \* documents to start from
  Ops,          \* operations of patches
  Names,        \* ids, and names of parameters
  Rates,        \* sample rates
  MaxOps        \* bound: operations of a behaviour

(* What the JSON of a document and of an operation is parsed to *)

Nodes  == [id : Names, builtin : BOOLEAN, param : Int, bypass : BOOLEAN]
Sends  == [id : Names, dest : Names, pre : BOOLEAN]
Points == [id : Names, tick : Int, value : Int, curve : Curves]
Lanes  == [node : Names, param : Names, points : Seq(Points)]
Tracks == [mute : BOOLEAN, solo : BOOLEAN,
           inserts : Seq(Nodes), sends : Seq(Sends), lanes : Seq(Lanes)]
Buses  == [id : Names, inserts : Seq(Nodes), sends : Seq(Sends)]
Master == [inserts : Seq(Nodes)]

IsDocument(d) ==
  /\ d = [tracks |-> d.tracks, buses |-> d.buses, master |-> d.master]
  /\ DOMAIN d.tracks \subseteq Names /\ d.tracks \in [DOMAIN d.tracks -> Tracks]
  /\ d.buses \in Seq(Buses) /\ d.master \in Master

\* A value that does not parse is refused before it changes anything.  The
\* text of a path may begin with "/buses" (starts) and contain "/sends" (sends);
\* "buses/.." and "//buses/.." have the root "buses" too and do not begin so.
Parses(o) ==
  /\ o.starts \in BOOLEAN /\ o.sends \in BOOLEAN
  /\ o.part = "sends" => o.sends
  /\ o.part \in {"mute", "solo"} \/ o.verb \in {"bypass", "pre"} => o.flag \in BOOLEAN
  /\ o.part = "new" => o.bus \in Buses
  /\ o.part = "inserts" /\ o.verb = "append" => o.insert \in Nodes
  /\ o.part = "sends" /\ o.verb = "append" => o.send \in Sends
  /\ o.part = "lanes" /\ o.verb \in {"append", "setLane"} => o.lane \in Lanes
  /\ o.verb \in {"param", "tick", "value"} => o.level \in Int
  /\ o.verb = "dest" => o.dest \in Names
  /\ o.verb = "lanes" => o.lanes \in Seq(Lanes)
  /\ o.verb = "points" => o.points \in Seq(Points)
  /\ o.verb \in {"addPoint", "setPoint"} => o.point \in Points
  /\ o.verb = "curve" => o.curve \in Curves

ASSUME LivePatchAssumption ==
  /\ MaxOps \in Nat /\ None \notin Nat
  /\ Rates \subseteq Nat
  /\ \A d \in Docs : IsDocument(d)
  /\ \A o \in Ops : Parses(o)

VARIABLES
  rate,         \* the sample rate of the document and of the graph
  project,      \* the document
  graph,        \* Graph: tracks, buses, master
  order,        \* Graph.bus_order
  patching,     \* the patchers that still accept the batch under way
  dirty,        \* topo_dirty of apply_patch
  stale,        \* history: a change of the buses that no sort has followed
  mirrored,     \* no operation so far that the patchers are known to differ on
  count         \* operations so far

vars == <<rate, project, graph, order, patching, dirty, stale, mirrored, count>>

Patchers == {"graph", "project"}
-----------------------------------------------------------------------------
(* Lists of things with an id *)

Has(list, id) == \E i \in DOMAIN list : list[i].id = id

FirstAt(list, id) ==
  CHOOSE i \in DOMAIN list :
    /\ list[i].id = id
    /\ \A j \in DOMAIN list : list[j].id = id => i <= j

\* retain, refused if nothing was removed
Removed(list, id) ==
  IF Has(list, id) THEN {Only(list, {e \in Range(list) : e.id # id})} ELSE {}

\* find, refused if there is none
Changed(list, id, Change(_)) ==
  IF Has(list, id) THEN {[list EXCEPT ![FirstAt(list, id)] = Change(@)]} ELSE {}

\* Lanes are found by the node and the parameter they are for.
IsLane(lane, o) == lane.node = o.node /\ lane.param = o.param
-----------------------------------------------------------------------------
(* apply_patch: the graph *)

\* The rate an effect is made with
DefaultRate == 48000

\* An effect that is added keeps that rate, whatever the rate of the graph.
AddedNode(n) ==
  IF rate = DefaultRate THEN LiveNode(n) ELSE [LiveNode(n) EXCEPT !.tuned = FALSE]

LiveInserts(list, o) ==
  CASE o.verb = "append" -> IF o.insert.builtin THEN {Append(list, AddedNode(o.insert))} ELSE {}
    [] o.verb = "remove" -> Removed(list, o.item)
    [] o.verb = "param"  -> Changed(list, o.item, LAMBDA n : [n EXCEPT !.param = o.level])
    [] o.verb = "bypass" /\ o.root = "tracks" ->
         Changed(list, o.item, LAMBDA n : [n EXCEPT !.bypass = o.flag])
    [] OTHER -> {}

\* A changed destination keeps the index of the old one.
LiveSends(list, o) ==
  CASE o.verb = "append" -> {Append(list, LiveSend(o.send))}
    [] o.verb = "remove" -> Removed(list, o.item)
    [] o.verb = "level"  -> Changed(list, o.item, LAMBDA s : s)
    [] o.verb = "pre"    -> Changed(list, o.item, LAMBDA s : [s EXCEPT !.pre = o.flag])
    [] o.verb = "dest"   -> Changed(list, o.item, LAMBDA s : [s EXCEPT !.dest = o.dest])
    [] OTHER -> {}

\* A replacement is taken for the whole list of lanes wherever below the list
\* its path ends, and an empty list of points reads as an empty list of lanes.
LiveLanes(list, o) ==
  CASE o.verb = "append" -> {Append(list, LiveLane(o.lane))}
    [] o.verb = "lanes" /\ o.below ->
         {[i \in DOMAIN o.lanes |-> LiveLane(o.lanes[i])]}
    [] o.verb = "points" /\ o.points = <<>> -> {<<>>}
    [] OTHER -> {}

LiveTrack(t, o) ==
  CASE o.part = "gain"    -> {t}
    [] o.part = "mute"    -> {[t EXCEPT !.mute = o.flag]}
    [] o.part = "solo"    -> {[t EXCEPT !.solo = o.flag]}
    [] o.part = "inserts" -> {[t EXCEPT !.inserts = l] : l \in LiveInserts(t.inserts, o)}
    [] o.part = "sends"   -> {[t EXCEPT !.sends = l] : l \in LiveSends(t.sends, o)}
    [] o.part = "lanes"   -> {[t EXCEPT !.lanes = l] : l \in LiveLanes(t.lanes, o)}
    [] OTHER -> {}

LiveBus(b, o) ==
  CASE o.part = "gain"    -> {b}
    [] o.part = "inserts" -> {[b EXCEPT !.inserts = l] : l \in LiveInserts(b.inserts, o)}
    [] o.part = "sends"   -> {[b EXCEPT !.sends = l] : l \in LiveSends(b.sends, o)}
    [] OTHER -> {}

LiveBuses(list, o) ==
  CASE o.part = "new" -> {Append(list, MakeBus(o.bus))}
    [] o.part # "new" /\ ~Has(list, o.id) -> {}
    [] o.part = "gone" /\ Has(list, o.id) -> {RemoveAt(list, FirstAt(list, o.id))}
    [] OTHER -> {[list EXCEPT ![FirstAt(list, o.id)] = b] :
                   b \in LiveBus(list[FirstAt(list, o.id)], o)}

LiveMaster(master, o) ==
  CASE o.part = "gain"    -> {master}
    [] o.part = "inserts" -> {[master EXCEPT !.inserts = l] : l \in LiveInserts(master.inserts, o)}
    [] OTHER -> {}

ApplyOne(g, o) ==
  CASE o.root = "tracks" /\ o.id \in DOMAIN g.tracks ->
         {[g EXCEPT !.tracks[o.id] = t] : t \in LiveTrack(g.tracks[o.id], o)}
    [] o.root = "buses"  -> {[g EXCEPT !.buses = l] : l \in LiveBuses(g.buses, o)}
    [] o.root = "master" -> {[g EXCEPT !.master = x] : x \in LiveMaster(g.master, o)}
    [] OTHER -> {}

Topological_BusesOnly(o) == o.starts

\* Paths whose text begins with "/buses" or contains "/sends" are followed by
\* a sort.
Topological(o) == o.starts \/ o.sends

\* A bus added or removed by a path that is written otherwise is not.
Overlooked(o) == o.root = "buses" /\ o.part \in {"new", "gone"} /\ ~Topological(o)
-----------------------------------------------------------------------------
(* apply_patch_to_project: the document *)

ProjectInserts(list, o) ==
  CASE o.verb = "append" -> {Append(list, o.insert)}
    [] o.verb = "remove" -> Removed(list, o.item)
    [] o.verb = "param"  -> Changed(list, o.item, LAMBDA n : [n EXCEPT !.param = o.level])
    [] o.verb = "bypass" -> Changed(list, o.item, LAMBDA n : [n EXCEPT !.bypass = o.flag])
    [] OTHER -> {}

ProjectSends_KeepsDest(list, o) ==
  CASE o.verb = "append" -> {Append(list, o.send)}
    [] o.verb = "remove" -> Removed(list, o.item)
    [] OTHER -> Changed(list, o.item, LAMBDA s : s)

ProjectSends(list, o) ==
  CASE o.verb = "append" -> {Append(list, o.send)}
    [] o.verb = "remove" -> Removed(list, o.item)
    [] o.verb = "level"  -> Changed(list, o.item, LAMBDA s : s)
    [] o.verb = "pre"    -> Changed(list, o.item, LAMBDA s : [s EXCEPT !.pre = o.flag])
    [] o.verb = "dest"   -> Changed(list, o.item, LAMBDA s : [s EXCEPT !.dest = o.dest])
    [] OTHER -> {}

\* New points go to the end, and the tick of a point changes where it stands.
ProjectPoints(points, o) ==
  CASE o.verb = "points"    -> {o.points}
    [] o.verb = "addPoint"  -> {Append(points, o.point)}
    [] o.verb = "dropPoint" -> Removed(points, o.item)
    [] o.verb = "setPoint"  -> Changed(points, o.item, LAMBDA p : o.point)
    [] o.verb = "tick"      -> Changed(points, o.item, LAMBDA p : [p EXCEPT !.tick = o.level])
    [] o.verb = "value"     -> Changed(points, o.item, LAMBDA p : [p EXCEPT !.value = o.level])
    [] o.verb = "curve"     -> Changed(points, o.item, LAMBDA p : [p EXCEPT !.curve = o.curve])
    [] OTHER -> {}

\* Replacing a lane that is not there adds it.
ProjectLanes(list, o) ==
  LET at == {i \in DOMAIN list : IsLane(list[i], o)}
      first == CHOOSE i \in at : \A j \in at : i <= j
  IN  CASE o.verb = "lanes"  -> IF o.below THEN {} ELSE {o.lanes}
        [] o.verb = "append" -> {Append(list, o.lane)}
        [] o.verb = "setLane" /\ at = {} -> {Append(list, o.lane)}
        [] o.verb \notin {"lanes", "append", "setLane"} /\ at = {} -> {}
        [] o.verb = "setLane" /\ at # {} -> {[list EXCEPT ![first] = o.lane]}
        [] o.verb = "dropLane" /\ at # {} -> {Only(list, {l \in Range(list) : ~IsLane(l, o)})}
        [] OTHER -> {[list EXCEPT ![first].points = ps] : ps \in ProjectPoints(list[first].points, o)}

ProjectTrack(t, o) ==
  CASE o.part = "gain"    -> {t}
    [] o.part = "mute"    -> {[t EXCEPT !.mute = o.flag]}
    [] o.part = "solo"    -> {[t EXCEPT !.solo = o.flag]}
    [] o.part = "inserts" -> {[t EXCEPT !.inserts = l] : l \in ProjectInserts(t.inserts, o)}
    [] o.part = "sends"   -> {[t EXCEPT !.sends = l] : l \in ProjectSends(t.sends, o)}
    [] o.part = "lanes"   -> {[t EXCEPT !.lanes = l] : l \in ProjectLanes(t.lanes, o)}
    [] OTHER -> {}

ProjectBus(b, o) ==
  CASE o.part = "gain"    -> {b}
    [] o.part = "inserts" -> {[b EXCEPT !.inserts = l] : l \in ProjectInserts(b.inserts, o)}
    [] o.part = "sends"   -> {[b EXCEPT !.sends = l] : l \in ProjectSends(b.sends, o)}
    [] OTHER -> {}

ProjectBuses(list, o) ==
  CASE o.part = "new" -> {Append(list, o.bus)}
    [] o.part # "new" /\ ~Has(list, o.id) -> {}
    [] o.part = "gone" /\ Has(list, o.id) -> {RemoveAt(list, FirstAt(list, o.id))}
    [] OTHER -> {[list EXCEPT ![FirstAt(list, o.id)] = b] :
                   b \in ProjectBus(list[FirstAt(list, o.id)], o)}

ProjectMaster(master, o) ==
  CASE o.part = "gain"    -> {master}
    [] o.part = "inserts" -> {[master EXCEPT !.inserts = l] : l \in ProjectInserts(master.inserts, o)}
    [] OTHER -> {}

ApplyOneProject(p, o) ==
  CASE o.root = "tracks" /\ o.id \in DOMAIN p.tracks ->
         {[p EXCEPT !.tracks[o.id] = t] : t \in ProjectTrack(p.tracks[o.id], o)}
    [] o.root = "buses"  -> {[p EXCEPT !.buses = l] : l \in ProjectBuses(p.buses, o)}
    [] o.root = "master" -> {[p EXCEPT !.master = x] : x \in ProjectMaster(p.master, o)}
    [] OTHER -> {}
-----------------------------------------------------------------------------
(* What is said to be the same, and is not: a graph refuses nodes of other *)
(* formats, which a document takes and the graph built from it leaves out; *)
(* it bypasses nodes on tracks only; a node it is given runs at the rate   *)
(* effects are made with, one it is built with at its own; of the lanes it *)
(* has nothing but the append in common with the document.                 *)

LeftOut(list) == {list[i].id : i \in {j \in DOMAIN list : ~list[j].builtin}}

OtherFormats(p) ==
  UNION ({LeftOut(p.tracks[t].inserts) : t \in DOMAIN p.tracks}
           \cup {LeftOut(p.buses[i].inserts) : i \in DOMAIN p.buses}
           \cup {LeftOut(p.master.inserts)})

Differs(p, o) ==
  \/ /\ o.part = "inserts"
     /\ CASE o.verb = "append" -> ~o.insert.builtin \/ rate # DefaultRate
          [] o.verb = "bypass" -> o.root # "tracks" \/ o.item \in OtherFormats(p)
          [] o.verb \in {"remove", "param"} -> o.item \in OtherFormats(p)
          [] OTHER -> FALSE
  \/ o.part = "lanes" /\ o.verb # "append"
-----------------------------------------------------------------------------
Fresh(p) == CacheSendIndices(Unsorted(p))

Init ==
  /\ rate \in Rates /\ project \in Docs
  /\ Sortable(Unsorted(project).buses)
  /\ graph = Fresh(project)
  /\ order \in Orders(graph.buses)
  /\ patching = {} /\ dirty = FALSE /\ stale = FALSE /\ mirrored = TRUE
  /\ count = 0

\* Both patchers get the next batch.
PatchBegin ==
  /\ patching = {} /\ count < MaxOps
  /\ patching' = Patchers
  /\ UNCHANGED <<rate, project, graph, order, dirty, stale, mirrored, count>>

\* A patcher that refuses an operation ends its batch there and keeps what
\* it has done; apply_patch then skips the sort.
PatchOp(o) ==
  LET live == IF "graph" \in patching THEN ApplyOne(graph, o) ELSE {}
      doc  == IF "project" \in patching THEN ApplyOneProject(project, o) ELSE {}
  IN  /\ patching # {} /\ count < MaxOps
      /\ graph' \in (IF live = {} THEN {graph} ELSE live)
      /\ project' \in (IF doc = {} THEN {project} ELSE doc)
      /\ patching' = {x \in patching : IF x = "graph" THEN live # {} ELSE doc # {}}
      /\ dirty' = (live # {} /\ (dirty \/ Topological(o)))
      /\ stale' = (stale \/ (IF live = {} THEN dirty ELSE Overlooked(o)))
      /\ mirrored' = (mirrored /\ ~Differs(project, o))
      /\ count' = count + 1
      /\ UNCHANGED <<rate, order>>

\* recompute_bus_order refuses a circle before it stores anything.
SortFails ==
  /\ dirty /\ ~Sortable(graph.buses)
  /\ stale' = TRUE
  /\ UNCHANGED <<graph, order>>

Sort ==
  /\ dirty /\ Sortable(graph.buses)
  /\ graph' = CacheSendIndices(graph)
  /\ order' \in Orders(graph.buses)
  /\ stale' = FALSE

PatchEnd ==
  /\ patching # {}
  /\ \/ ~dirty /\ UNCHANGED <<graph, order, stale>>
     \/ Sort
     \/ SortFails
  /\ patching' = {} /\ dirty' = FALSE
  /\ UNCHANGED <<rate, project, mirrored, count>>

\* The document replaces the graph, unless it has a circle of buses.
Rebuild ==
  /\ patching = {} /\ Sortable(Unsorted(project).buses)
  /\ graph' = Fresh(project)
  /\ order' \in Orders(Unsorted(project).buses)
  /\ stale' = FALSE /\ mirrored' = TRUE
  /\ UNCHANGED <<rate, project, patching, dirty, count>>

Next == PatchBegin \/ (\E o \in Ops : PatchOp(o)) \/ PatchEnd \/ Rebuild

Spec == Init /\ [][Next]_vars
-----------------------------------------------------------------------------
NoIndices(sends) == [k \in DOMAIN sends |-> [sends[k] EXCEPT !.idx = None]]

WithoutIndices(g) ==
  [tracks |-> [t \in DOMAIN g.tracks |-> [g.tracks[t] EXCEPT !.sends = NoIndices(@)]],
   buses |-> [i \in DOMAIN g.buses |-> [g.buses[i] EXCEPT !.sends = NoIndices(@)]],
   master |-> g.master]

\* A graph that was patched is the graph that would be built from the patched
\* document, down to the rate its effects run at, and both patchers refuse the
\* same operations: apply_patch_to_project "mirrors apply_patch for Graph"
\* (patch.rs:485), except for the operations of Differs.
PatchedIsRebuilt ==
  mirrored =>
    /\ WithoutIndices(graph) = Unsorted(project)
    /\ patching \in {{}, Patchers}

Current(buses, sends) ==
  \A k \in DOMAIN sends : sends[k].idx = Target(buses, sends[k].dest)

\* The cached index of every send is where its bus stands now, and the buses
\* are rendered in an order of all of them with sources first, whatever was
\* added, removed, moved or refused.  That an index is "refreshed on graph
\* build / patch" (graph.rs:25) is not true of every patch: a batch that fails,
\* a circle, and a bus added or removed by a path such as "buses/-" or
\* "//buses/.." leave the indices as they were (stale), and sends may lead to
\* another bus or past the end of the list until buses are sorted again.
RoutesAreCurrent ==
  ~stale /\ ~dirty =>
    /\ \A t \in DOMAIN graph.tracks : Current(graph.buses, graph.tracks[t].sends)
    /\ \A i \in DOMAIN graph.buses : Current(graph.buses, graph.buses[i].sends)
    /\ order \in Orders(graph.buses)

Audible(g, t) ==
  ~g.tracks[t].mute /\ (g.tracks[t].solo \/ \A u \in DOMAIN g.tracks : ~g.tracks[u].solo)

\* The buses a track is heard on, by their ids: those it sends to, and those
\* they send to in turn.
HeardOn(g, t) ==
  LET sends == g.tracks[t].sends
      To(s) == {i \in DOMAIN g.buses : g.buses[i].id = s.dest}
      first == UNION {To(sends[k]) : k \in {j \in DOMAIN sends : sends[j].pre \/ Audible(g, t)}}
      Closed(S) == \A i \in S : \A k \in DOMAIN g.buses[i].sends : To(g.buses[i].sends[k]) \subseteq S
  IN  {i \in DOMAIN g.buses :
         \A S \in SUBSET DOMAIN g.buses : first \subseteq S /\ Closed(S) => i \in S}

\* A block of the patched graph carries every track to the buses its document
\* routes it to, and to no others, and to the master what is audible and what
\* is on a bus: mute, solo, sends before the fader and chains of buses alike.
\* This is Graph::process on current indices: on stale ones (RoutesAreCurrent
\* says when) a send is heard on the wrong bus, or the callback panics.
MixFollowsRouting ==
  LET buses == graph.buses
      mix == Mix(graph, order)
      heard == [t \in DOMAIN graph.tracks |-> HeardOn(graph, t)]
  IN  /\ patching = {} /\ ~stale
      /\ \A i, j \in DOMAIN buses : buses[i].id = buses[j].id => i = j
      => /\ \A i \in DOMAIN buses : mix.input[i] = {t \in DOMAIN graph.tracks : i \in heard[t]}
         /\ mix.master = {t \in DOMAIN graph.tracks : Audible(graph, t) \/ heard[t] # {}}

Around(points) == {2 * points[i].tick + d : i \in DOMAIN points, d \in {-1, 0, 1}}

Sampled(points) ==
  \A half \in Around(points) :
    LET v == ValueAt(points, half)
    IN  /\ \E i, j \in DOMAIN points :
             points[i].value * v.den <= v.num /\ v.num <= points[j].value * v.den
        /\ Sorted(points) =>
             \A i \in DOMAIN points :
               /\ half = 2 * points[i].tick
               /\ i \in {1, Len(points)} \/ points[i - 1].curve # "hold"
               => v.num = points[i].value * v.den

\* However the points of a lane were added, moved and removed, its value never
\* leaves the range of its points; if they are sorted by tick it is theirs
\* where they stand, except right at the end of a segment that holds.
AutomationFollowsPoints ==
  \A t \in DOMAIN graph.tracks :
    \A i \in DOMAIN graph.tracks[t].lanes : Sampled(graph.tracks[t].lanes[i].points)
=============================================================================
