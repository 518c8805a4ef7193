------------------------------ MODULE MCRender ------------------------------
(***************************************************************************)
(* Samples per tick, as 48 kHz and 44.1 kHz give them, only smaller.       *)
(***************************************************************************)
EXTENDS Render

Rate(n, d) == [num |-> n, den |-> d]
MCRates == {Rate(3, 1), Rate(5, 2), Rate(7, 3), Rate(16, 5), Rate(9, 7)}
=============================================================================
