---------------------------- MODULE ProjectGraph ----------------------------
(***************************************************************************)
(* A project document and the audio graph that is built from it            *)
(* (bridge-plugin-host/graph.rs).                                          *)
(*                                                                         *)
(* In the document a node of a chain may be of any plugin format, and a    *)
(* send names its bus by id.  The graph has the built-in nodes alone, and  *)
(* every send caches the index of its bus, refreshed when the buses are    *)
(* sorted.  Gains, pans and levels are left out; of the parameters of a    *)
(* node there is one.                                                      *)
(***************************************************************************)
EXTENDS Integers, SequencesExt, Routing

CONSTANT None   \* no bus

\* An effect of the graph; tuned: it runs at the sample rate of the graph, as
\* all effects do that a graph is built with
LiveNode(n) == [id |-> n.id, param |-> n.param, bypass |-> n.bypass, tuned |-> TRUE]

\* The elements of a list that are in S, in their order
Only(list, S) ==
  LET kept[n \in 0..Len(list)] ==
        IF n = 0 THEN <<>>
        ELSE IF list[n] \in S THEN Append(kept[n - 1], list[n]) ELSE kept[n - 1]
  IN  kept[Len(list)]

\* Nodes of other formats than builtin are left out without an error.
MakeInserts(specs) ==
  LET kept == Only(specs, {n \in Range(specs) : n.builtin})
  IN  [i \in DOMAIN kept |-> LiveNode(kept[i])]

SendTo(s, idx) == [id |-> s.id, dest |-> s.dest, pre |-> s.pre, idx |-> idx]

LiveSend(s) == SendTo(s, None)

MakeSends(specs) == [i \in DOMAIN specs |-> LiveSend(specs[i])]

\* The ids of points are for patches of the document only.
LivePoint(p) == [tick |-> p.tick, value |-> p.value, curve |-> p.curve]

LiveLane(l) ==
  [node |-> l.node, param |-> l.param,
   points |-> [i \in DOMAIN l.points |-> LivePoint(l.points[i])]]

Track(s, inserts, sends, lanes) ==
  [mute |-> s.mute, solo |-> s.solo, inserts |-> inserts, sends |-> sends, lanes |-> lanes]

MakeTrack(s) ==
  Track(s, MakeInserts(s.inserts), MakeSends(s.sends),
        [i \in DOMAIN s.lanes |-> LiveLane(s.lanes[i])])

Bus(b, inserts, sends) == [id |-> b.id, inserts |-> inserts, sends |-> sends]

MakeBus(b) == Bus(b, MakeInserts(b.inserts), MakeSends(b.sends))

\* Graph::from_project up to the sort of the buses
Unsorted(p) ==
  [tracks |-> [t \in DOMAIN p.tracks |-> MakeTrack(p.tracks[t])],
   buses |-> [i \in DOMAIN p.buses |-> MakeBus(p.buses[i])],
   master |-> [inserts |-> MakeInserts(p.master.inserts)]]
-----------------------------------------------------------------------------
(* recompute_bus_order, whose algorithm is in module BusOrder *)

Ids(buses) == [i \in DOMAIN buses |-> buses[i].id]

LastAt(ids, id) ==
  CHOOSE i \in DOMAIN ids : ids[i] = id /\ \A j \in DOMAIN ids : ids[j] = id => j <= i

\* id_to_idx: of several buses with one id the last
Target(buses, id) ==
  IF \E i \in DOMAIN buses : buses[i].id = id THEN LastAt(Ids(buses), id) ELSE None

Cached(buses, sends) ==
  [k \in DOMAIN sends |-> SendTo(sends[k], Target(buses, sends[k].dest))]

CacheTracks(g) ==
  [t \in DOMAIN g.tracks |->
     LET s == g.tracks[t] IN Track(s, s.inserts, Cached(g.buses, s.sends), s.lanes)]

CacheBuses(buses) ==
  [i \in DOMAIN buses |->
     LET b == buses[i] IN Bus(b, b.inserts, Cached(buses, b.sends))]

CacheSendIndices(g) ==
  [tracks |-> CacheTracks(g), buses |-> CacheBuses(g.buses), master |-> g.master]

BusSends(buses) ==
  {e \in (DOMAIN buses) \X (DOMAIN buses) :
     \E k \in DOMAIN buses[e[1]].sends :
       Target(buses, buses[e[1]].sends[k].dest) = e[2]}

Sortable(buses) == ~Cyclic(DOMAIN buses, BusSends(buses))

\* Any order of all buses with every source before the buses it feeds
IsOrder(order, buses) ==
  /\ \A x, y \in DOMAIN order : x # y => order[x] # order[y]
  /\ \A x, y \in DOMAIN order : <<order[x], order[y]>> \in BusSends(buses) => x < y

Orders(buses) == {o \in [DOMAIN buses -> DOMAIN buses] : IsOrder(o, buses)}
-----------------------------------------------------------------------------
(* Graph::process: which tracks are heard where in one block *)

Silenced_OwnMute(g, t) == g.tracks[t].mute

Silenced(g, t) ==
  \/ g.tracks[t].mute
  \/ /\ \E u \in DOMAIN g.tracks : g.tracks[u].solo
     /\ ~g.tracks[t].solo

\* A send before the fader passes on what its track plays, silenced or not.
FedByTracks(g, i) ==
  {t \in DOMAIN g.tracks :
     \E k \in DOMAIN g.tracks[t].sends :
       LET s == g.tracks[t].sends[k]
       IN  s.idx = i /\ (s.pre \/ ~Silenced(g, t))}

AfterTracks(g) ==
  [input |-> [i \in DOMAIN g.buses |-> FedByTracks(g, i)],
   master |-> {t \in DOMAIN g.tracks : ~Silenced(g, t)}]

\* One bus: its signal goes to the buses it sends to, other than itself, and
\* to the master.
MixBus(g, mix, i) ==
  [input |-> [j \in DOMAIN mix.input |->
                IF j # i /\ \E k \in DOMAIN g.buses[i].sends : g.buses[i].sends[k].idx = j
                  THEN mix.input[j] \cup mix.input[i]
                  ELSE mix.input[j]],
   master |-> mix.master \cup mix.input[i]]

Mix(g, order) ==
  FoldLeft(LAMBDA mix, i : MixBus(g, mix, i), AfterTracks(g), order)
=============================================================================
