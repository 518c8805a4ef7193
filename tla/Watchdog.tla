------------------------------ MODULE Watchdog ------------------------------
(***************************************************************************)
(* The watchdog process (bin/cadenza-watchdog): run_loop starts the bridge *)
(* as its child, waits for it to exit and starts it again after a pause    *)
(* that grows with every failure.  The bridge exits with success when the  *)
(* user chooses Quit, and then the watchdog ends too.                      *)
(*                                                                         *)
(* A pause and a run are numbers of seconds; time itself does not pass.    *)
(*                                                                         *)
(* Its definitions bear its name, so that the module can stand beside      *)
(* another one.                                                            *)
(***************************************************************************)
EXTENDS Naturals, Sequences

CONSTANTS
  Schedule,     \* the pauses, BACKOFF_SECS
  ResetAfter,   \* CLEAN_RUN_RESET_SECS
  RunTimes,     \* how long the bridge may run before it exits
  Limit,        \* Config.max_restarts
  NoLimit       \* its value None

ASSUME WatchdogAssumption ==
  /\ Schedule \in Seq(Nat)
  /\ Schedule # <<>>
  /\ ResetAfter \in Nat
  /\ RunTimes \subseteq Nat
  /\ NoLimit \notin Nat
  /\ Limit \in Nat \cup {NoLimit}

VARIABLES
  state,        \* "spawn", "running", "pause" or "returned"
  outcome,      \* what run_loop returned: "none", "ok" or "err"
  restarts,     \* restarts
  backoff,      \* backoff_idx, counted from 1
  delay,        \* the pause that was last begun
  attempts,     \* history: spawns tried
  streak        \* history: failures since the bridge last ran long enough

watchVars == <<state, outcome, restarts, backoff, delay, attempts, streak>>

WatchInit ==
  /\ state = "spawn"
  /\ outcome = "none"
  /\ restarts = 0
  /\ backoff = 1
  /\ delay = 0
  /\ attempts = 0
  /\ streak = 0

\* The next step of the schedule; its last step repeats.
Advance(b) == IF b < Len(Schedule) THEN b + 1 ELSE b

Spawn ==
  /\ state = "spawn"
  /\ state' = "running"
  /\ attempts' = attempts + 1
  /\ UNCHANGED <<outcome, restarts, backoff, delay, streak>>

\* A bridge that cannot be started counts like one that exits at once.
SpawnFails ==
  /\ state = "spawn"
  /\ state' = "pause"
  /\ attempts' = attempts + 1
  /\ delay' = Schedule[backoff]
  /\ backoff' = Advance(backoff)
  /\ streak' = streak + 1
  /\ UNCHANGED <<outcome, restarts>>

ExitClean ==
  /\ state = "running"
  /\ state' = "returned"
  /\ outcome' = "ok"
  /\ UNCHANGED <<restarts, backoff, delay, attempts, streak>>

\* child.wait() itself fails; run_loop gives up.
WaitFails ==
  /\ state = "running"
  /\ state' = "returned"
  /\ outcome' = "err"
  /\ UNCHANGED <<restarts, backoff, delay, attempts, streak>>

Crash_ResetsLate(ran) ==
  /\ state = "running"
  /\ state' = "pause"
  /\ delay' = Schedule[backoff]
  /\ backoff' = IF ran >= ResetAfter THEN 1 ELSE Advance(backoff)
  /\ streak' = IF ran >= ResetAfter THEN 1 ELSE streak + 1
  /\ UNCHANGED <<outcome, restarts, attempts>>

\* The bridge exits with an error or is killed, after `ran` seconds.
Crash(ran) ==
  /\ state = "running"
  /\ state' = "pause"
  /\ LET from == IF ran >= ResetAfter THEN 1 ELSE backoff IN
     /\ delay' = Schedule[from]
     /\ backoff' = Advance(from)
  /\ streak' = IF ran >= ResetAfter THEN 1 ELSE streak + 1
  /\ UNCHANGED <<outcome, restarts, attempts>>

Wake_CountsLate ==
  /\ state = "pause"
  /\ restarts' = restarts + 1
  /\ IF Limit # NoLimit /\ restarts >= Limit
       THEN state' = "returned" /\ outcome' = "ok"
       ELSE state' = "spawn" /\ UNCHANGED outcome
  /\ UNCHANGED <<backoff, delay, attempts, streak>>

Wake ==
  /\ state = "pause"
  /\ restarts' = restarts + 1
  /\ IF Limit # NoLimit /\ restarts' >= Limit
       THEN state' = "returned" /\ outcome' = "ok"
       ELSE state' = "spawn" /\ UNCHANGED outcome
  /\ UNCHANGED <<backoff, delay, attempts, streak>>

WatchNext ==
  \/ Spawn \/ SpawnFails
  \/ ExitClean \/ WaitFails \/ \E ran \in RunTimes : Crash(ran)
  \/ Wake

WatchSpec == WatchInit /\ [][WatchNext]_watchVars
-----------------------------------------------------------------------------
(* Properties *)

\* The type invariant.  The schedule is never indexed out of bounds.
WatchTypeOK ==
  /\ state \in {"spawn", "running", "pause", "returned"}
  /\ outcome \in {"none", "ok", "err"}
  /\ outcome = "none" <=> state # "returned"
  /\ restarts \in Nat
  /\ backoff \in 1..Len(Schedule)
  /\ delay \in Nat
  /\ attempts \in Nat
  /\ streak \in Nat

\* "The loop advances one step for every failure and resets to the first
\* step after a clean-run threshold" (lib.rs:13-15): the pause after the
\* n-th failure in a row is the n-th of the schedule or else its last,
\* whether the bridge crashed or could not be started.
PauseFollowsFailures ==
  state = "pause" =>
    /\ streak > 0
    /\ delay = Schedule[IF streak < Len(Schedule) THEN streak ELSE Len(Schedule)]

\* With a limit the bridge is started no more than Limit times, or once if that
\* is 0, and exactly so often when run_loop gives up (a clean exit is told from
\* that by its start, which no restart was counted for).  So it is restarted
\* once less than the comment says, "stop after this many total restarts"
\* (lib.rs:28), and the test, "respawns it the configured number of times"
\* (respawn.rs:2-3): the restart that reaches the limit is announced in the log,
\* waited for and counted in the result, and not made.
GivesUpAtLimit ==
  LET starts == IF Limit = 0 THEN 1 ELSE Limit
      gaveUp == state = "returned" /\ outcome = "ok" /\ restarts = attempts
  IN  Limit # NoLimit =>
        /\ attempts <= starts
        /\ gaveUp => attempts = starts
=============================================================================
