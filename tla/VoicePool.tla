------------------------------ MODULE VoicePool -----------------------------
(***************************************************************************)
(* The voices of the built-in synthesisers (SineInstrument; SuperSaw and   *)
(* SubBass allocate and release in the same way): a fixed pool from which  *)
(* a note takes a voice, or steals one.  The attack, decay and sustain of  *)
(* an envelope are one stage here, "on": they differ in level only.        *)
(***************************************************************************)
EXTENDS Naturals, FiniteSets

CONSTANTS
  N,        \* voices of the pool (MAX_VOICES)
  Pitches,
  MaxDown,  \* bound: note-ons of a pitch before its note-off
  None

Voices == 1..N

VARIABLES
  note,     \* pitch of each voice
  stage,    \* stage of each voice's envelope
  down,     \* history: note-ons of each pitch since its last note-off
  crowded   \* history: more notes are down than there are voices, or were
            \* at some time since all keys were up

vars == <<note, stage, down, crowded>>

IsActive(v) == stage[v] # "idle"
IsReleased(v) == stage[v] \in {"release", "idle"}

FirstOf(S) == CHOOSE v \in S : \A w \in S : v <= w

AllocateVoice_AnyActive ==
  LET free == {v \in Voices : ~IsActive(v)} IN
  IF free # {} THEN FirstOf(free) ELSE 1

AllocateVoice ==
  LET free == {v \in Voices : ~IsActive(v)}
      released == {v \in Voices : IsReleased(v)} IN
  IF free # {} THEN FirstOf(free)
  ELSE IF released # {} THEN FirstOf(released)
  ELSE 1

\* The notes that are down: a key counts once for each of its note-ons.
NotesDown == {k \in Pitches \X (1..MaxDown) : k[2] <= down[k[1]]}

Init ==
  /\ note = [v \in Voices |-> None]
  /\ stage = [v \in Voices |-> "idle"]
  /\ down = [p \in Pitches |-> 0]
  /\ crowded = FALSE

NoteOn(p) ==
  LET v == AllocateVoice IN
  /\ down[p] < MaxDown
  /\ note' = [note EXCEPT ![v] = p]
  /\ stage' = [stage EXCEPT ![v] = "on"]
  /\ down' = [down EXCEPT ![p] = @ + 1]
  /\ crowded' = (crowded \/ Cardinality(NotesDown) >= N)

AfterOff(keys) ==
  /\ down' = keys
  /\ crowded' = (crowded /\ \E p \in Pitches : keys[p] # 0)
  /\ UNCHANGED note

NoteOff_First(p) ==
  LET mine == {v \in Voices : note[v] = p /\ ~IsReleased(v)} IN
  /\ stage' = IF mine = {} THEN stage ELSE [stage EXCEPT ![FirstOf(mine)] = "release"]
  /\ AfterOff([down EXCEPT ![p] = 0])

\* A note-off releases all voices of its pitch.
NoteOff(p) ==
  /\ stage' = [v \in Voices |-> IF note[v] = p /\ IsActive(v) /\ ~IsReleased(v)
                                  THEN "release" ELSE stage[v]]
  /\ AfterOff([down EXCEPT ![p] = 0])

\* Idle voices are released as well; their next sample makes them idle again.
AllOff ==
  /\ stage' = [v \in Voices |-> "release"]
  /\ AfterOff([p \in Pitches |-> 0])

\* A sample: a released voice may have faded out.
Step(v) ==
  /\ stage[v] = "release"
  /\ stage' = [stage EXCEPT ![v] = "idle"]
  /\ UNCHANGED <<note, down, crowded>>

Next ==
  \/ \E p \in Pitches : NoteOn(p) \/ NoteOff(p)
  \/ AllOff
  \/ \E v \in Voices : Step(v)

Spec == Init /\ [][Next]_vars
-----------------------------------------------------------------------------
(* Properties *)

TypeOK ==
  /\ note \in [Voices -> Pitches \cup {None}]
  /\ stage \in [Voices -> {"idle", "on", "release"}]
  /\ down \in [Pitches -> 0..MaxDown]
  /\ crowded \in BOOLEAN

\* No note sticks: a voice is on only while its key is down, through steals
\* and repeated note-ons of one pitch (instruments.rs NoteOff, AllOff).
NothingSticks == \A v \in Voices : stage[v] = "on" => down[note[v]] > 0

\* While no more notes are down than there are voices, each has one of its
\* own: a voice that fades out is taken before one that is held
\* (instruments.rs allocate_voice).
HeldNotesSound ==
  ~crowded => \A p \in Pitches :
    down[p] = Cardinality({v \in Voices : stage[v] = "on" /\ note[v] = p})
=============================================================================
