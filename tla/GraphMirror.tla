---------------------------- MODULE GraphMirror ----------------------------
(***************************************************************************)
(* What the network thread promises the audio thread, in two numbers: the  *)
(* revision of the project and that of the graph which is rendered.  The   *)
(* project moves on one change at a time.  The graph may skip revisions,   *)
(* those of failed edits among them, and may lag behind, but it never      *)
(* passes the project and never goes back.                                 *)
(***************************************************************************)
EXTENDS Naturals

VARIABLES master, mirror

Init == master = 0 /\ mirror = 0

Change == master' = master + 1 /\ UNCHANGED mirror

Follow == mirror' \in (mirror + 1)..master /\ UNCHANGED master

Next == Change \/ Follow

Spec == Init /\ [][Next]_<<master, mirror>>
=============================================================================
