----------------------------- MODULE MCLivePatch -----------------------------
(***************************************************************************)
(* One document of two tracks and two buses, one of which feeds the other, *)
(* with a node of another format and a lane of three points; operations of *)
(* every kind on it, wrong ids and paths without a slash among them.       *)
(***************************************************************************)
EXTENDS LivePatch

CONSTANTS t1, t2, b1, b2, b3, n1, n2, n3, p1, p2, p3, p4, gain

SmallNames == {t1, t2, b1, b2, b3, n1, n2, n3, p1, p2, p3, p4, gain}

Node(id, builtin)  == [id |-> id, builtin |-> builtin, param |-> 0, bypass |-> FALSE]
Send(id, dest)     == [id |-> id, dest |-> dest, pre |-> FALSE]
Point(id, tick, value, curve) == [id |-> id, tick |-> tick, value |-> value, curve |-> curve]
Lane(points)       == [node |-> n1, param |-> gain, points |-> points]

ThreePoints ==
  <<Point(p1, 0, 0, "linear"), Point(p2, 2, 6, "hold"), Point(p4, 4, 3, "linear")>>

SmallDocs ==
  {[tracks |-> (t1 :> [mute |-> FALSE, solo |-> FALSE, inserts |-> <<Node(n1, TRUE), Node(n2, FALSE)>>,
                       sends |-> <<Send(n1, b1)>>, lanes |-> <<Lane(ThreePoints)>>]
                @@ t2 :> [mute |-> FALSE, solo |-> FALSE, inserts |-> <<>>,
                          sends |-> <<>>, lanes |-> <<>>]),
    buses |-> <<[id |-> b1, inserts |-> <<>>, sends |-> <<Send(n1, b2)>>],
                [id |-> b2, inserts |-> <<Node(n1, TRUE)>>, sends |-> <<>>]>>,
    master |-> [inserts |-> <<>>]]}

\* The path as clients write it, and one that does not begin with a slash
On(root, id, part, verb) ==
  [root |-> root, id |-> id, part |-> part, verb |-> verb,
   starts |-> root = "buses", sends |-> part = "sends"]
Bare(op) == [op EXCEPT !.starts = FALSE]
T1(part, verb) == On("tracks", t1, part, verb)
OnBus(id, part, verb) == On("buses", id, part, verb)

TrackOps ==
  {T1("mute", "set") @@ [flag |-> TRUE], On("tracks", t2, "solo", "set") @@ [flag |-> TRUE],
   On("tracks", b3, "gain", "set"), T1("gain", "set"), T1("colour", "set"),
   T1("inserts", "remove") @@ [item |-> n1], T1("inserts", "remove") @@ [item |-> n2],
   T1("inserts", "bypass") @@ [item |-> n1, flag |-> TRUE],
   T1("inserts", "param") @@ [item |-> n1, level |-> 1],
   T1("inserts", "move") @@ [item |-> n1],
   On("tracks", t2, "inserts", "append") @@ [insert |-> Node(n3, TRUE)],
   On("tracks", t2, "inserts", "append") @@ [insert |-> Node(n3, FALSE)]}

SendOps ==
  {T1("sends", "dest") @@ [item |-> n1, dest |-> b3], T1("sends", "pre") @@ [item |-> n1, flag |-> TRUE],
   T1("sends", "remove") @@ [item |-> n1], T1("sends", "level") @@ [item |-> n3],
   T1("sends", "move") @@ [item |-> n1],
   On("tracks", t2, "sends", "append") @@ [send |-> Send(n3, b2)],
   OnBus(b2, "sends", "append") @@ [send |-> Send(n2, b1)],
   OnBus(b2, "sends", "dest") @@ [item |-> n2, dest |-> b3],
   OnBus(b1, "sends", "remove") @@ [item |-> n1]}

NewBus ==
  OnBus(b3, "new", "append") @@ [bus |-> [id |-> b3, inserts |-> <<Node(n3, FALSE)>>, sends |-> <<Send(n3, b1)>>]]

BusOps ==
  {NewBus, Bare(NewBus), Bare(OnBus(b1, "gone", "remove")), Bare(OnBus(b2, "gain", "set")),
   OnBus(b1, "gone", "remove"), OnBus(b2, "gone", "remove"), OnBus(b2, "gain", "set"), OnBus(b2, "colour", "set"),
   OnBus(b2, "inserts", "bypass") @@ [item |-> n1, flag |-> TRUE],
   OnBus(b2, "inserts", "param") @@ [item |-> n1, level |-> 1],
   On("master", None, "gain", "set"), On("master", None, "colour", "set"), On("tempo", None, "gain", "set"),
   On("master", None, "inserts", "append") @@ [insert |-> Node(n3, TRUE)]}

AtLane(verb) == T1("lanes", verb) @@ [node |-> n1, param |-> gain]

LaneOps ==
  {T1("lanes", "append") @@ [lane |-> Lane(<<Point(p3, 2, 3, "bezier")>>)],
   T1("lanes", "lanes") @@ [below |-> FALSE, lanes |-> <<>>],
   T1("lanes", "lanes") @@ [below |-> TRUE, lanes |-> <<Lane(ThreePoints), Lane(<<>>)>>],
   AtLane("points") @@ [points |-> <<>>], AtLane("points") @@ [points |-> ThreePoints],
   AtLane("dropLane"), AtLane("setLane") @@ [lane |-> Lane(<<Point(p3, 1, 2, "bezier")>>)],
   AtLane("addPoint") @@ [point |-> Point(p3, 2, 4, "bezier")],
   AtLane("dropPoint") @@ [item |-> p2], AtLane("dropPoint") @@ [item |-> p3],
   AtLane("setPoint") @@ [item |-> p2, point |-> Point(p2, 6, 1, "bezier")],
   AtLane("tick") @@ [item |-> p1, level |-> 5], AtLane("value") @@ [item |-> p2, level |-> 2],
   AtLane("curve") @@ [item |-> p1, curve |-> "bezier"], AtLane("move") @@ [item |-> p1]}

SmallOps == TrackOps \cup SendOps \cup BusOps \cup LaneOps
=============================================================================
