------------------------------ MODULE Routing ------------------------------
(***************************************************************************)
(* What a bus routing is, for every module that has to decide whether one  *)
(* can be ordered: a set of sends, each a pair <<from, to>> of buses.      *)
(*                                                                         *)
(* Graph::from_project rejects a project whose buses send in a circle.     *)
(* The code finds that out with Kahn's algorithm (module BusOrder); here   *)
(* is the condition itself.  BusOrderProofs proves that the two agree.     *)
(***************************************************************************)

\* Some of the buses feed each other in a circle: there is a nonempty set of
\* buses each of which receives a send from a bus of the set.
Cyclic(buses, sends) ==
  \E S \in SUBSET buses :
    /\ S # {}
    /\ \A b \in S : \E a \in S : <<a, b>> \in sends
=============================================================================
