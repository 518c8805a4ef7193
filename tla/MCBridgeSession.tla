-------------------------- MODULE MCBridgeSession --------------------------
(***************************************************************************)
(* Small sessions: two tracks, two buses, one node in the documents and    *)
(* one that chain.addNode may produce.                                     *)
(***************************************************************************)
EXTENDS BridgeSession, TLC

CONSTANTS c1, c2, t1, t2, b1, b2, n1, n2

\* Two tracks; b1 feeds b2.  The other document has the second track alone,
\* so that its index is another, and the third routes in a circle.
Both   == [tracks |-> <<t1, t2>>, inserts |-> {<<t1, n1>>}, sends |-> {<<b1, b2>>}]
Second == [tracks |-> <<t2>>, inserts |-> {}, sends |-> {}]
Circle == [Both EXCEPT !.sends = {<<b1, b2>>, <<b2, b1>>}]

\* Patches that close and open the circle, that fail half way, and that
\* take away a node and go on.
CloseCircle == <<[op |-> "addSend", send |-> <<b2, b1>>]>>
OpenCircle  == <<[op |-> "removeSend", send |-> <<b2, b1>>]>>
HalfFails   == <<[op |-> "setTrack", track |-> t2], [op |-> "unsupported"]>>
TwoOps      == <<[op |-> "removeInsert", key |-> <<t1, n1>>],
                 [op |-> "addInsert", key |-> <<t2, n1>>]>>

AllDocs    == {Both, Second, Circle}
AllPatches == {CloseCircle, OpenCircle, HalfFails, TwoOps}

OneDoc     == {Both}
FewPatches == {CloseCircle, TwoOps}

\* One track and no node; the patches close the circle in two steps, open
\* it and fail then.
Lone        == [tracks |-> <<t1>>, inserts |-> {}, sends |-> {<<b1, b2>>}]
LoneDoc     == {Lone}
LonePatches == {<<[op |-> "setTrack", track |-> t1]>> \o CloseCircle,
                OpenCircle \o <<[op |-> "unsupported"]>>}

Symmetry == Permutations({c1, c2})
=============================================================================
