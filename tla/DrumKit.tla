------------------------------- MODULE DrumKit ------------------------------
(***************************************************************************)
(* The triggers of DrumKitInstrument: a hit takes a free one, or the one   *)
(* that is oldest by its count of samples, and each ends by itself after   *)
(* two seconds.  Note-offs and all-notes-off do nothing here.              *)
(***************************************************************************)
EXTENDS Naturals

CONSTANTS
  N,     \* triggers (MAX_DRUM_TRIGGERS)
  Life,  \* samples a hit lasts (two seconds)
  None

Triggers == 1..N

VARIABLES
  active,  \* DrumTrigger.active
  age,     \* DrumTrigger.age
  hits,    \* history: the triggers in use, with the samples since the hit
  taken    \* history: the hit that the last one has cut short, and the
           \* samples since then of the one that was hit first

vars == <<active, age, hits, taken>>

Init ==
  /\ active = [t \in Triggers |-> FALSE]
  /\ age = [t \in Triggers |-> 0]
  /\ hits = {}
  /\ taken = None

FirstOf(S) == CHOOSE t \in S : \A u \in S : t <= u

Oldest == FirstOf({t \in Triggers : \A u \in Triggers : age[u] <= age[t]})

Restart_KeepsAge(t) ==
  /\ active' = [active EXCEPT ![t] = TRUE]
  /\ age' = IF active[t] THEN age ELSE [age EXCEPT ![t] = 0]

Restart(t) ==
  /\ active' = [active EXCEPT ![t] = TRUE]
  /\ age' = [age EXCEPT ![t] = 0]

HitOf(t) == CHOOSE h \in hits : h.trigger = t

FirstHit == CHOOSE h \in hits : \A g \in hits : g.since <= h.since

HitOn(t) ==
  /\ Restart(t)
  /\ hits' = {h \in hits : h.trigger # t} \cup {[trigger |-> t, since |-> 0]}
  /\ taken' = IF active[t] THEN [since |-> HitOf(t).since, oldest |-> FirstHit.since] ELSE None

Hit ==
  LET free == {t \in Triggers : ~active[t]} IN
  HitOn(IF free # {} THEN FirstOf(free) ELSE Oldest)

Ends_Late(t) == active[t] /\ age[t] > Life

Ends(t) == active[t] /\ age[t] + 1 > Life

\* One sample
Sample ==
  /\ \E t \in Triggers : active[t]
  /\ active' = [t \in Triggers |-> active[t] /\ ~Ends(t)]
  /\ age' = [t \in Triggers |-> IF active[t] THEN age[t] + 1 ELSE age[t]]
  /\ hits' = {[h EXCEPT !.since = @ + 1] : h \in {g \in hits : active'[g.trigger]}}
  /\ UNCHANGED taken

Next == Hit \/ Sample

Spec == Init /\ [][Next]_vars
-----------------------------------------------------------------------------
(* Properties *)

TypeOK ==
  /\ active \in [Triggers -> BOOLEAN]
  /\ age \in [Triggers -> 0..(Life + 1)]

\* "Steal oldest" (instruments.rs:691): the hit that is cut short is never
\* younger than another, after any number of steals and ends.
OldestIsStolen == taken # None => taken.since = taken.oldest
=============================================================================
