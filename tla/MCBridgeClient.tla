--------------------------- MODULE MCBridgeClient ---------------------------
(***************************************************************************)
(* connect() calls are interchangeable, sockets and callers of send() too. *)
(***************************************************************************)
EXTENDS BridgeClient, TLC

Symmetry == Permutations(Sockets) \cup Permutations(Loops) \cup Permutations(Calls)
=============================================================================
