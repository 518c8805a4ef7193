----------------------------- MODULE MCBusOrder -----------------------------
(***************************************************************************)
(* All routings of three buses with at most two sends each: circles, self- *)
(* sends, repeated sends, chains and triangles among them.  Either the     *)
(* ids differ, or two buses have the same id and one id is unknown.        *)
(***************************************************************************)
EXTENDS BusOrder

CONSTANTS a, b, c

UpToTwo == UNION {[1..n -> {a, b, c}] : n \in 0..2}

SmallRoutings ==
  {[i \in 1..3 |-> [id |-> ids[i], sends |-> sends[i]]] :
     ids \in {<<a, b, c>>, <<a, b, a>>}, sends \in [1..3 -> UpToTwo]}
=============================================================================
