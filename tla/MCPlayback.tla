----------------------------- MODULE MCPlayback -----------------------------
(***************************************************************************)
(* Two projects of different speed.  In the first two clips follow each    *)
(* other; p1 ends within its clip, starts again in the tick in which it    *)
(* ends, and p2 ends with its clip.                                        *)
(***************************************************************************)
EXTENDS Playback

CONSTANTS p1, p2

Note(p, start, length) == [pitch |-> p, start |-> start, length |-> length]
Clip(start, length, notes) == [start |-> start, length |-> length, notes |-> notes]

Slow == [spt |-> [num |-> 5, den |-> 2],
         clips |-> <<Clip(0, 4, <<Note(p1, 0, 2), Note(p1, 2, 1), Note(p2, 1, 3)>>),
                     Clip(4, 3, <<Note(p2, 1, 0)>>)>>]
Fast == [spt |-> [num |-> 4, den |-> 3],
         clips |-> <<Clip(1, 5, <<Note(p2, 0, 2), Note(p1, 1, 3)>>)>>]

MCDocs == {Slow, Fast}
MCSeeks == {-1, 0, 3}
=============================================================================
