----------------------------- MODULE Automation -----------------------------
(***************************************************************************)
(* Automation lanes (bridge-plugin-host/automation.rs): a lane is a list   *)
(* of points for one parameter, and value_at samples it at the playhead.   *)
(* Nothing sorts the points: patches append them at the end of the list    *)
(* and change ticks in place.                                              *)
(*                                                                         *)
(* Values and ticks are integers here; the playhead stands on half ticks,  *)
(* and a sampled value is a fraction.                                      *)
(***************************************************************************)
EXTENDS Integers, Sequences

Curves == {"linear", "hold", "bezier"}

Fraction(n, d) == [num |-> n, den |-> d]

\* a + (b - a) * w, where the weight w = n / d
Blend(a, b, n, d) == Fraction(a * d + (b - a) * n, d)

\* Bezier is the smoothstep 3t^2 - 2t^3, with t = n / d.
Interpolate(a, b, n, d, curve) ==
  CASE curve = "hold"   -> Fraction(a, 1)
    [] curve = "linear" -> Blend(a, b, n, d)
    [] curve = "bezier" -> Blend(a, b, n * n * (3 * d - 2 * n), d * d * d)

Segment_Open(points, half, i) ==
  /\ i \in 1..(Len(points) - 1)
  /\ 2 * points[i].tick <= half

\* The segment from point i to the next contains the playhead.
Segment(points, half, i) ==
  /\ i \in 1..(Len(points) - 1)
  /\ 2 * points[i].tick <= half
  /\ half <= 2 * points[i + 1].tick

\* The first such segment in the order of the list counts.
FirstSegment(points, half, i) ==
  /\ Segment(points, half, i)
  /\ \A j \in 1..(i - 1) : ~Segment(points, half, j)

InSegment(points, half, i) ==
  LET a == points[i]
      b == points[i + 1]
      span == 2 * (b.tick - a.tick)
  IN  IF span > 0
        THEN Interpolate(a.value, b.value, half - 2 * a.tick, span, a.curve)
        ELSE Interpolate(a.value, b.value, 0, 1, a.curve)

\* The value of a lane at `half` half ticks: before the first point of the
\* list and after the last one it is theirs, and so it is wherever no
\* segment contains the playhead.
ValueAt(points, half) ==
  LET last == points[Len(points)]
      at   == {i \in 1..(Len(points) - 1) : FirstSegment(points, half, i)}
  IN  CASE points = <<>>               -> Fraction(0, 1)
        [] Len(points) = 1             -> Fraction(points[1].value, 1)
        [] OTHER ->
             CASE half <= 2 * points[1].tick -> Fraction(points[1].value, 1)
               [] half > 2 * points[1].tick /\ half >= 2 * last.tick -> Fraction(last.value, 1)
               [] OTHER -> IF at = {} THEN Fraction(last.value, 1)
                           ELSE InSegment(points, half, CHOOSE i \in at : TRUE)

Sorted(points) ==
  \A i, j \in DOMAIN points : i < j => points[i].tick < points[j].tick
=============================================================================
