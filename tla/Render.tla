------------------------------- MODULE Render -------------------------------
(***************************************************************************)
(* Offline rendering (render_to_wav): a transport of its own is moved to   *)
(* the first tick and the graph is processed block after block until the   *)
(* last one, which is cut to what is left.  Ticks and positions are those  *)
(* of Ticks; the samples themselves are only counted.                      *)
(***************************************************************************)
EXTENDS Ticks

CONSTANTS
  RenderBlock,  \* frames of a block (512)
  AllRates,     \* samples per tick, as fractions
  MaxTick       \* bound of the ranges that are rendered

ASSUME RenderAssumption ==
  /\ RenderBlock \in Nat \ {0}
  /\ AllRates \subseteq Rates
  /\ MaxTick \in Nat

VARIABLES
  range,   \* from_tick and to_tick of the request
  spt,     \* samples per tick of the graph's tempo
  pos,     \* position of the transport
  frames,  \* frames_written
  status,  \* "rendering", "done", or "refused" for an empty range
  ticks    \* history: the ticks whose events the graph was asked for

renderVars == <<range, spt, pos, frames, status, ticks>>

RenderInit ==
  /\ range \in [from : -1..MaxTick, to : -1..MaxTick]
  /\ spt \in AllRates
  /\ pos = SampleAt(range.from, spt)
  /\ frames = 0
  /\ status = IF range.to <= range.from THEN "refused" ELSE "rendering"
  /\ ticks = {}

Remaining == SamplesFor(range.to - TickAt(pos, spt), spt)

Process(n) ==
  LET from == TickAt(pos, spt) IN
  /\ ticks' = ticks \cup from..(from + TicksIn(n, spt) - 1)
  /\ frames' = frames + n
  /\ pos' = pos + n
  /\ UNCHANGED <<range, spt>>

FullBlock ==
  /\ status = "rendering"
  /\ TickAt(pos, spt) < range.to
  /\ Remaining >= RenderBlock
  /\ Process(RenderBlock)
  /\ UNCHANGED status

PartialBlock_Uncut ==
  /\ status = "rendering"
  /\ TickAt(pos, spt) < range.to
  /\ Remaining < RenderBlock
  /\ Process(RenderBlock)
  /\ status' = "done"

PartialBlock ==
  /\ status = "rendering"
  /\ TickAt(pos, spt) < range.to
  /\ Remaining < RenderBlock
  /\ Process(IF Remaining > 1 THEN Remaining ELSE 1)
  /\ status' = "done"

AtEnd_OffByOne ==
  /\ status = "rendering"
  /\ TickAt(pos, spt) > range.to
  /\ status' = "done"
  /\ UNCHANGED <<range, spt, pos, frames, ticks>>

\* The last block ended just at the end of the range.
AtEnd ==
  /\ status = "rendering"
  /\ TickAt(pos, spt) >= range.to
  /\ status' = "done"
  /\ UNCHANGED <<range, spt, pos, frames, ticks>>

RenderNext == FullBlock \/ PartialBlock \/ AtEnd

RenderSpec == RenderInit /\ [][RenderNext]_renderVars

\* render_to_wav is a loop without waits: it runs on.
LiveSpec == RenderSpec /\ WF_renderVars(RenderNext)
-----------------------------------------------------------------------------
(* Properties *)

RenderTypeOK ==
  /\ range \in [from : Int, to : Int]
  /\ spt \in AllRates
  /\ pos \in Nat
  /\ frames \in Nat
  /\ status \in {"rendering", "done", "refused"}
  /\ ticks \subseteq Nat

\* The range, which cannot start before the song does
First == IF range.from < 0 THEN 0 ELSE range.from
Wanted == First..(range.to - 1)

\* A finished file has every tick of the range and lasts as long, though
\* blocks start and end within a tick (render.rs cur_tick,
\* max_remaining_frames).
RendersWholeRange ==
  status = "done" =>
    /\ Wanted \subseteq ticks
    /\ frames * spt.den >= (range.to - First) * spt.num

\* A file is longer than its range by less than a tick and two samples
\* (render.rs keep_going, max_remaining_frames).
NotMuchLonger ==
  status = "done" => frames * spt.den < (range.to - First + 1) * spt.num + 2 * spt.den

\* The loop ends (render.rs keep_going).
Finishes == <>(status # "rendering")

\* Rounding brings events of no more than one tick before the range and one
\* after it into the file (render.rs:20, "inclusive of from, exclusive of
\* to"), unless a tick is shorter than a sample.
HardlyBeyond ==
  spt.num >= spt.den => ticks \subseteq (First - 1)..range.to

\* A file has what was asked for and hardly more, for ranges, tempos and
\* blocks that do not fit each other (render.rs render_to_wav).
RendersItsRange == RendersWholeRange /\ NotMuchLonger /\ HardlyBeyond
=============================================================================
