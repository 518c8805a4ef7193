---------------------------- MODULE MCEntitlement ----------------------------
(* Two clients, and times short enough for all of them to run out. *)
EXTENDS Entitlement

CONSTANTS c1, c2
=============================================================================
