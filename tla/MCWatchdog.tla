----------------------------- MODULE MCWatchdog -----------------------------
(***************************************************************************)
(* The watchdog with the pauses of BACKOFF_SECS.                           *)
(***************************************************************************)
EXTENDS Watchdog

DefaultSchedule == <<1, 2, 5, 10, 30>>
=============================================================================
