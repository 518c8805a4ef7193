---------------------------- MODULE MCConnections ----------------------------
(* Two clients, queues of one message and a ring of two. *)
EXTENDS Connections

CONSTANTS c1, c2
=============================================================================
