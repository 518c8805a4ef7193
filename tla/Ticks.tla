-------------------------------- MODULE Ticks -------------------------------
(***************************************************************************)
(* Musical time against samples (transport.rs, and the block ranges of     *)
(* Graph::process).  Samples per tick is a fraction, [num, den]: 120 beats *)
(* per minute at 48 kHz are 50 samples a tick, at 44.1 kHz 735/16.  The    *)
(* code computes in f64; its rounding of the quotients is left out, its    *)
(* truncations are what this module is about.                              *)
(***************************************************************************)
EXTENDS Integers

Rates == [num : Nat \ {0}, den : Nat \ {0}]

\* Transport::position_tick
TickAt(position, spt) == (position * spt.den) \div spt.num

\* Transport::seek_tick: the position of a tick, not before the start
SampleAt(tick, spt) == ((IF tick < 0 THEN 0 ELSE tick) * spt.num) \div spt.den

\* Samples that cover a number of ticks, rounded up
SamplesFor(ticks, spt) == (ticks * spt.num + spt.den - 1) \div spt.den

TicksIn_RoundedDown(frames, spt) ==
  LET down == (frames * spt.den) \div spt.num IN IF down > 1 THEN down ELSE 1

TicksIn_OneMore(frames, spt) == 1 + (frames * spt.den + spt.num - 1) \div spt.num

\* Ticks of a block: rounded up, and never none
TicksIn(frames, spt) ==
  LET up == (frames * spt.den + spt.num - 1) \div spt.num IN IF up > 1 THEN up ELSE 1

\* Where in a block that starts in tick `from` the event of a tick goes
OffsetOf(tick, from, spt) == ((tick - from) * spt.num) \div spt.den
=============================================================================
