---------------------------- MODULE MCInstruments ----------------------------
(***************************************************************************)
(* Four voices for three pitches; three triggers whose hits last four      *)
(* samples; two instances of one CLAP bundle that has all its functions,   *)
(* or all but one, with blocks of two events.                              *)
(***************************************************************************)
EXTENDS Instruments, TLC

CONSTANTS p1, p2, p3, i1, i2

EventsOf == {[kind |-> "all", pitch |-> p1, offset |-> 0]}
              \cup [kind : {"on", "off"}, pitch : {p1, p2}, offset : {0, 1}]

Blocks == {<<d, e>> \in EventsOf \X EventsOf : d.offset <= e.offset}
=============================================================================
