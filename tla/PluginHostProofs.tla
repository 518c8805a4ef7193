-------------------------- MODULE PluginHostProofs --------------------------
(***************************************************************************)
(* Proofs about the instruments of a track and about rendering.            *)
(*                                                                         *)
(* Instruments, for any number of voices, triggers, keys and instances,    *)
(* any life of a hit and any blocks of events: no note sticks or is lost,  *)
(* the oldest hit is stolen, and the calls to a CLAP bundle are balanced.  *)
(*                                                                         *)
(* Render, for every range, tempo, sample rate and block size: a file that *)
(* is finished has the whole range and little more.                        *)
(***************************************************************************)
EXTENDS Instruments, Render, FiniteSetTheorems, SequenceTheorems, WellFoundedInduction, TLAPS

\* A set of numbers has a least one.
LEMMA HasLeast ==
  ASSUME NEW S, S \subseteq Nat, S # {}
  PROVE  \E v \in S : \A w \in S : v <= w
<1>1. PICK m \in S : \A k \in S : ~(<<k, m>> \in OpToRel(<, Nat))
  BY NatLessThanWellFounded, WFMin
<1>2. ASSUME NEW k \in S, k < m PROVE FALSE
  <2>1. k \in Nat /\ m \in Nat
    OBVIOUS
  <2>2. <<k, m>> \in OpToRel(<, Nat)
    BY <1>2, <2>1 DEF OpToRel
  <2> QED BY <1>1, <2>2
<1>3. \A k \in S : m <= k
  BY <1>2
<1> QED BY <1>3

\* A set of numbers with a bound has a greatest one.
LEMMA HasGreatest ==
  ASSUME NEW S, S \subseteq Nat, S # {}, NEW b \in Nat, \A x \in S : x <= b
  PROVE  \E v \in S : \A w \in S : w <= v
<1> DEFINE T == {b - x : x \in S}
<1>1. T \subseteq Nat /\ T # {}
  <2>1. \A x \in S : b - x \in Nat
    OBVIOUS
  <2> QED BY <2>1
<1>2. PICK t \in T : \A u \in T : t <= u
  BY <1>1, HasLeast
<1>3. PICK v \in S : t = b - v
  BY <1>2
<1>4. ASSUME NEW w \in S PROVE w <= v
  <2>1. b - v <= b - w
    BY <1>2, <1>3
  <2> QED BY <2>1
<1> QED BY <1>4

\* What the proofs need of the constants
LEMMA Sizes ==
  /\ 1 \in Synth!Voices /\ Synth!Voices \subseteq Nat
  /\ 1 \in Drums!Triggers /\ Drums!Triggers \subseteq Nat
  /\ 0 \in 0..MaxDown /\ MaxDown \in Nat
  /\ 0 \in 0..(Life + 1) /\ Life + 1 \in Nat /\ Life \in Nat /\ 0 <= Life
  BY InstrumentsAssumption DEF Synth!Voices, Drums!Triggers

\* FiniteSets is there once for each module that uses it.
LEMMA SameCardinality ==
  \A S : Synth!Cardinality(S) = Cardinality(S)
  BY DEF Synth!Cardinality, Cardinality
-----------------------------------------------------------------------------
(* The synthesisers *)

LEMMA FirstVoice ==
  ASSUME NEW S, S \subseteq Synth!Voices, S # {}
  PROVE  Synth!FirstOf(S) \in S
<1>1. \E v \in S : \A w \in S : v <= w
  BY Sizes, HasLeast
<1> QED BY <1>1 DEF Synth!FirstOf

LEMMA VoiceAllocated ==
  /\ Synth!AllocateVoice \in Synth!Voices
  /\ (\E v \in Synth!Voices : stage[v] # "on") /\ Synth!TypeOK
       => stage[Synth!AllocateVoice] # "on"
<1> DEFINE free == {v \in Synth!Voices : ~Synth!IsActive(v)}
           released == {v \in Synth!Voices : Synth!IsReleased(v)}
<1>1. Synth!AllocateVoice =
        IF free # {} THEN Synth!FirstOf(free)
        ELSE IF released # {} THEN Synth!FirstOf(released) ELSE 1
  BY DEF Synth!AllocateVoice
<1>2. 1 \in Synth!Voices
  BY Sizes
<1>3. free # {} => Synth!FirstOf(free) \in free
  BY FirstVoice
<1>4. released # {} => Synth!FirstOf(released) \in released
  BY FirstVoice
<1>5. Synth!TypeOK => \A v \in Synth!Voices : stage[v] # "on" => v \in released
  BY DEF Synth!TypeOK, Synth!IsReleased
<1>6. \A v \in free \cup released : v \in Synth!Voices /\ stage[v] # "on"
  BY DEF Synth!IsActive, Synth!IsReleased
<1> HIDE DEF free, released
<1> QED BY <1>1, <1>2, <1>3, <1>4, <1>5, <1>6

\* What is inductive with NothingSticks: a voice that is on has a note.
SynthInv ==
  /\ Synth!TypeOK
  /\ \A v \in Synth!Voices : stage[v] = "on" => note[v] \in Pitches
  /\ Synth!NothingSticks

LEMMA SynthBegins == Synth!Init => SynthInv
<1> SUFFICES ASSUME Synth!Init PROVE SynthInv
  OBVIOUS
<1>1. Synth!TypeOK
  BY Sizes DEF Synth!Init, Synth!TypeOK
<1>2. \A v \in Synth!Voices : stage[v] # "on"
  BY DEF Synth!Init
<1> QED BY <1>1, <1>2 DEF SynthInv, Synth!NothingSticks

LEMMA SynthKept == SynthInv /\ [Synth!Next]_synthVars => SynthInv'
<1> SUFFICES ASSUME SynthInv, [Synth!Next]_synthVars PROVE SynthInv'
  OBVIOUS
<1> USE DEF SynthInv
<1>1. ASSUME NEW p \in Pitches, Synth!NoteOn(p) PROVE SynthInv'
  <2> DEFINE v == Synth!AllocateVoice
  <2>1. v \in Synth!Voices
    BY VoiceAllocated
  <2>2. /\ down[p] < MaxDown /\ down[p] \in 0..MaxDown
        /\ note' = [note EXCEPT ![v] = p] /\ stage' = [stage EXCEPT ![v] = "on"]
        /\ down' = [down EXCEPT ![p] = @ + 1] /\ crowded' \in BOOLEAN
    BY <1>1 DEF Synth!NoteOn, Synth!TypeOK
  <2> HIDE DEF v
  <2>3. down[p] + 1 \in 0..MaxDown /\ down[p] + 1 > 0
    BY <2>2, InstrumentsAssumption
  <2>4. Synth!TypeOK'
    BY <2>1, <2>2, <2>3 DEF Synth!TypeOK
  <2>5. \A q \in Pitches : down[q] > 0 => down'[q] > 0
    BY <2>2, <2>3 DEF Synth!TypeOK
  <2>6. down'[p] > 0
    BY <2>2, <2>3 DEF Synth!TypeOK
  <2>7. ASSUME NEW w \in Synth!Voices, stage'[w] = "on"
        PROVE  note'[w] \in Pitches /\ down'[note'[w]] > 0
    <3>1. CASE w = v
      <4>1. note'[w] = p
        BY <2>1, <2>2, <3>1 DEF Synth!TypeOK
      <4> QED BY <4>1, <2>6
    <3>2. CASE w # v
      <4>1. note'[w] = note[w] /\ stage[w] = "on"
        BY <2>2, <2>7, <3>2 DEF Synth!TypeOK
      <4>2. note[w] \in Pitches /\ down[note[w]] > 0
        BY <4>1 DEF Synth!NothingSticks
      <4> QED BY <4>1, <4>2, <2>5
    <3> QED BY <3>1, <3>2
  <2> QED BY <2>4, <2>7 DEF Synth!NothingSticks
<1>2. ASSUME NEW p \in Pitches, Synth!NoteOff(p) PROVE SynthInv'
  <2>1. /\ stage' = [v \in Synth!Voices |->
                       IF note[v] = p /\ Synth!IsActive(v) /\ ~Synth!IsReleased(v)
                         THEN "release" ELSE stage[v]]
        /\ down' = [down EXCEPT ![p] = 0] /\ note' = note /\ crowded' \in BOOLEAN
    BY <1>2 DEF Synth!NoteOff, Synth!AfterOff, Synth!TypeOK
  <2>2. Synth!TypeOK'
    BY <2>1, Sizes DEF Synth!TypeOK
  <2>3. ASSUME NEW w \in Synth!Voices, stage'[w] = "on"
        PROVE  note'[w] \in Pitches /\ down'[note'[w]] > 0
    <3>1. stage[w] = "on" /\ note[w] # p
      BY <2>1, <2>3 DEF Synth!IsActive, Synth!IsReleased
    <3>2. note[w] \in Pitches /\ down[note[w]] > 0
      BY <3>1 DEF Synth!NothingSticks
    <3> QED BY <2>1, <3>1, <3>2 DEF Synth!TypeOK
  <2> QED BY <2>2, <2>3 DEF Synth!NothingSticks
<1>3. ASSUME Synth!AllOff PROVE SynthInv'
  <2>1. /\ stage' = [v \in Synth!Voices |-> "release"] /\ down' = [p \in Pitches |-> 0]
        /\ note' = note /\ crowded' \in BOOLEAN
    BY <1>3 DEF Synth!AllOff, Synth!AfterOff, Synth!TypeOK
  <2>2. Synth!TypeOK'
    BY <2>1, Sizes DEF Synth!TypeOK
  <2>3. \A w \in Synth!Voices : stage'[w] # "on"
    BY <2>1
  <2> QED BY <2>2, <2>3 DEF Synth!NothingSticks
<1>4. ASSUME NEW v \in Synth!Voices, Synth!Step(v) PROVE SynthInv'
  <2>1. /\ stage' = [stage EXCEPT ![v] = "idle"]
        /\ note' = note /\ down' = down /\ crowded' = crowded
    BY <1>4 DEF Synth!Step
  <2>2. Synth!TypeOK'
    BY <2>1 DEF Synth!TypeOK
  <2>3. \A w \in Synth!Voices : stage'[w] = "on" => stage[w] = "on"
    BY <2>1 DEF Synth!TypeOK
  <2> QED BY <2>1, <2>2, <2>3 DEF Synth!NothingSticks
<1>5. CASE UNCHANGED synthVars
  BY <1>5 DEF synthVars, Synth!TypeOK, Synth!NothingSticks
<1> QED BY <1>1, <1>2, <1>3, <1>4, <1>5 DEF Synth!Next
\* The voices that sound a pitch, and those of them up to one
On(p) == {v \in Synth!Voices : stage[v] = "on" /\ note[v] = p}
OnUpTo(v) == {w \in On(note[v]) : w <= v}

KeysAreHeard == \A p \in Pitches : down[p] = Cardinality(On(p))

LEMMA OnFinite ==
  ASSUME NEW p
  PROVE  IsFiniteSet(On(p)) /\ Cardinality(On(p)) \in Nat
<1>1. IsFiniteSet(Synth!Voices)
  BY InstrumentsAssumption, FS_Interval DEF Synth!Voices
<1>2. On(p) \in SUBSET Synth!Voices
  BY DEF On
<1>3. IsFiniteSet(On(p))
  BY <1>1, <1>2, FS_Subset
<1> QED BY <1>3, FS_CardinalityType

\* Among the voices of a pitch each has a number of its own.
LEMMA OnNumbered ==
  ASSUME NEW v \in Synth!Voices, stage[v] = "on"
  PROVE  /\ Cardinality(OnUpTo(v)) \in 1..Cardinality(On(note[v]))
         /\ \A w \in Synth!Voices :
              stage[w] = "on" /\ note[w] = note[v] /\ w < v
                => Cardinality(OnUpTo(w)) # Cardinality(OnUpTo(v))
<1>0. v \in Nat /\ IsFiniteSet(On(note[v])) /\ Cardinality(On(note[v])) \in Nat
  BY OnFinite, Sizes
<1>1. OnUpTo(v) \in SUBSET On(note[v]) /\ v \in OnUpTo(v)
  BY <1>0 DEF OnUpTo, On
<1>2. IsFiniteSet(OnUpTo(v)) /\ Cardinality(OnUpTo(v)) <= Cardinality(On(note[v]))
  BY <1>0, <1>1, FS_Subset
<1>3. Cardinality(OnUpTo(v)) \in Nat /\ Cardinality(OnUpTo(v)) # 0
  BY <1>1, <1>2, FS_CardinalityType, FS_EmptySet
<1>4. Cardinality(OnUpTo(v)) \in 1..Cardinality(On(note[v]))
  BY <1>0, <1>2, <1>3
<1>5. ASSUME NEW w \in Synth!Voices, stage[w] = "on", note[w] = note[v], w < v
      PROVE  Cardinality(OnUpTo(w)) # Cardinality(OnUpTo(v))
  <2>0. w \in Nat
    BY Sizes
  <2>1. \A u \in Nat : u <= w => u <= v
    BY <1>0, <1>5, <2>0
  <2>2. OnUpTo(w) \in SUBSET OnUpTo(v)
    BY <1>5, <2>1, Sizes DEF OnUpTo, On
  <2>3. v \notin OnUpTo(w)
    BY <1>0, <1>5, <2>0 DEF OnUpTo
  <2> QED BY <1>1, <1>2, <2>2, <2>3, FS_Subset
<1> QED BY <1>4, <1>5

LEMMA NotesDownFinite ==
  IsFiniteSet(Synth!NotesDown) /\ Cardinality(Synth!NotesDown) \in Nat
<1>1. IsFiniteSet(1..MaxDown) /\ IsFiniteSet(Pitches)
  BY InstrumentsAssumption, FS_Interval
<1>2. IsFiniteSet(Pitches \X (1..MaxDown))
  BY <1>1, FS_Product
<1>3. Synth!NotesDown \in SUBSET (Pitches \X (1..MaxDown))
  BY DEF Synth!NotesDown
<1>4. IsFiniteSet(Synth!NotesDown)
  BY <1>2, <1>3, FS_Subset
<1> QED BY <1>4, FS_CardinalityType

\* When all voices are on, so many notes are down.
LEMMA NotesFillVoices ==
  ASSUME SynthInv, KeysAreHeard, \A v \in Synth!Voices : stage[v] = "on"
  PROVE  MaxVoices <= Cardinality(Synth!NotesDown)
<1> DEFINE f == [v \in Synth!Voices |-> <<note[v], Cardinality(OnUpTo(v))>>]
<1>1. ASSUME NEW v \in Synth!Voices PROVE f[v] \in Synth!NotesDown
  <2>1. note[v] \in Pitches
    BY DEF SynthInv
  <2>2. down[note[v]] = Cardinality(On(note[v])) /\ down[note[v]] \in 0..MaxDown
    BY <2>1 DEF KeysAreHeard, SynthInv, Synth!TypeOK
  <2>3. Cardinality(OnUpTo(v)) \in 1..down[note[v]]
    BY <2>2, OnNumbered
  <2>4. Cardinality(OnUpTo(v)) \in 1..MaxDown /\ Cardinality(OnUpTo(v)) <= down[note[v]]
    BY <2>2, <2>3, Sizes
  <2> QED BY <2>1, <2>4 DEF Synth!NotesDown
<1>2. ASSUME NEW v \in Synth!Voices, NEW w \in Synth!Voices, f[v] = f[w] PROVE v = w
  <2>1. note[v] = note[w] /\ Cardinality(OnUpTo(v)) = Cardinality(OnUpTo(w))
    BY <1>2
  <2>2. ~(v < w) /\ ~(w < v)
    BY <2>1, OnNumbered
  <2> QED BY <2>2, Sizes
<1>3. f \in [Synth!Voices -> Synth!NotesDown]
  BY <1>1
<1> HIDE DEF f
<1>4. f \in Injection(Synth!Voices, Synth!NotesDown)
  BY <1>2, <1>3 DEF Injection, IsInjective
<1>5. Cardinality(Synth!Voices) <= Cardinality(Synth!NotesDown)
  BY <1>4, NotesDownFinite, FS_Injection
<1>6. Cardinality(Synth!Voices) = MaxVoices
  BY InstrumentsAssumption, FS_Interval DEF Synth!Voices
<1> QED BY <1>5, <1>6

HeldInv == ~crowded => KeysAreHeard

LEMMA HeldBegins == Synth!Init => HeldInv
<1> SUFFICES ASSUME Synth!Init PROVE KeysAreHeard
  BY DEF HeldInv
<1>1. \A p \in Pitches : On(p) = {} /\ down[p] = 0
  BY DEF Synth!Init, On
<1> QED BY <1>1, FS_EmptySet DEF KeysAreHeard

\* A new note gets a voice that was not on.
LEMMA HeldNoteOn ==
  ASSUME SynthInv, HeldInv, NEW p \in Pitches, Synth!NoteOn(p)
  PROVE  HeldInv'
<1> SUFFICES ASSUME ~crowded' PROVE KeysAreHeard'
  BY DEF HeldInv
<1> DEFINE v == Synth!AllocateVoice
<1>0. Synth!TypeOK
  BY DEF SynthInv
<1>1. /\ note' = [note EXCEPT ![v] = p] /\ stage' = [stage EXCEPT ![v] = "on"]
      /\ down' = [down EXCEPT ![p] = @ + 1]
      /\ ~crowded /\ ~(Cardinality(Synth!NotesDown) >= MaxVoices)
  BY SameCardinality DEF Synth!NoteOn
<1>2. KeysAreHeard
  BY <1>1 DEF HeldInv
<1>3. \E w \in Synth!Voices : stage[w] # "on"
  BY <1>1, <1>2, NotesFillVoices, NotesDownFinite, InstrumentsAssumption
<1>4. v \in Synth!Voices /\ stage[v] # "on"
  BY <1>0, <1>3, VoiceAllocated
<1> HIDE DEF v
<1>5. /\ note'[v] = p /\ stage'[v] = "on"
      /\ \A w \in Synth!Voices : w # v => note'[w] = note[w] /\ stage'[w] = stage[w]
  BY <1>0, <1>1, <1>4 DEF Synth!TypeOK
<1>6. ASSUME NEW q \in Pitches PROVE down'[q] = Cardinality(On(q)')
  <2>1. CASE q = p
    <3>1. On(p)' = On(p) \cup {v} /\ v \notin On(p)
      BY <1>4, <1>5 DEF On
    <3>2. Cardinality(On(p) \cup {v}) = Cardinality(On(p)) + 1
      BY <3>1, OnFinite, FS_AddElement
    <3>3. down'[p] = down[p] + 1
      BY <1>0, <1>1 DEF Synth!TypeOK
    <3> QED BY <1>2, <2>1, <3>1, <3>2, <3>3 DEF KeysAreHeard
  <2>2. CASE q # p
    <3>1. On(q)' = On(q)
      BY <1>4, <1>5, <2>2 DEF On
    <3>2. down'[q] = down[q]
      BY <1>0, <1>1, <2>2 DEF Synth!TypeOK
    <3> QED BY <1>2, <3>1, <3>2 DEF KeysAreHeard
  <2> QED BY <2>1, <2>2
<1> QED BY <1>6 DEF KeysAreHeard

\* When no note is down any more, no voice is on.
LEMMA HeldOff ==
  ASSUME SynthInv, SynthInv', HeldInv, NEW keysDown, Synth!AfterOff(keysDown),
         keysDown \in [Pitches -> Nat],
         \A q \in Pitches : keysDown[q] = 0 \/ (keysDown[q] = down[q] /\ On(q)' = On(q))
  PROVE  HeldInv'
<1> SUFFICES ASSUME ~crowded', NEW q \in Pitches PROVE down'[q] = Cardinality(On(q)')
  BY DEF HeldInv, KeysAreHeard
<1>1. down' = keysDown /\ (~crowded \/ \A p \in Pitches : keysDown[p] = 0)
  BY DEF Synth!AfterOff
<1>2. CASE keysDown[q] = 0
  <2>1. On(q)' = {}
    BY <1>1, <1>2 DEF On, SynthInv, Synth!NothingSticks
  <2> QED BY <1>1, <1>2, <2>1, FS_EmptySet
<1>3. CASE keysDown[q] # 0
  <2>1. ~crowded /\ keysDown[q] = down[q] /\ On(q)' = On(q)
    BY <1>1, <1>3
  <2> QED BY <1>1, <2>1 DEF HeldInv, KeysAreHeard
<1> QED BY <1>2, <1>3

LEMMA HeldKept == SynthInv /\ SynthInv' /\ HeldInv /\ [Synth!Next]_synthVars => HeldInv'
<1> SUFFICES ASSUME SynthInv, SynthInv', HeldInv, [Synth!Next]_synthVars PROVE HeldInv'
  OBVIOUS
<1>0. Synth!TypeOK /\ \A q \in Pitches : down[q] \in Nat
  BY Sizes DEF SynthInv, Synth!TypeOK
<1>1. ASSUME NEW p \in Pitches, Synth!NoteOn(p) PROVE HeldInv'
  BY <1>1, HeldNoteOn
<1>2. ASSUME NEW p \in Pitches, Synth!NoteOff(p) PROVE HeldInv'
  <2> DEFINE keysDown == [down EXCEPT ![p] = 0]
  <2>1. Synth!AfterOff(keysDown) /\ note' = note
    BY <1>2 DEF Synth!NoteOff, Synth!AfterOff
  <2>2. keysDown \in [Pitches -> Nat] /\ keysDown[p] = 0
        /\ \A q \in Pitches : q # p => keysDown[q] = down[q]
    BY <1>0 DEF Synth!TypeOK
  <2>3. ASSUME NEW q \in Pitches, q # p PROVE On(q)' = On(q)
    <3>1. \A v \in Synth!Voices :
            stage'[v] = "on" /\ note[v] = q <=> stage[v] = "on" /\ note[v] = q
      BY <1>2, <2>3 DEF Synth!NoteOff
    <3> QED BY <2>1, <3>1 DEF On
  <2> HIDE DEF keysDown
  <2> QED BY <2>1, <2>2, <2>3, HeldOff
<1>3. ASSUME Synth!AllOff PROVE HeldInv'
  <2> DEFINE keysDown == [p \in Pitches |-> 0]
  <2>1. Synth!AfterOff(keysDown)
    BY <1>3 DEF Synth!AllOff
  <2>2. keysDown \in [Pitches -> Nat] /\ \A q \in Pitches : keysDown[q] = 0
    OBVIOUS
  <2> HIDE DEF keysDown
  <2> QED BY <2>1, <2>2, HeldOff
<1>4. ASSUME NEW v \in Synth!Voices, Synth!Step(v) PROVE HeldInv'
  <2>1. /\ stage[v] = "release" /\ stage' = [stage EXCEPT ![v] = "idle"]
        /\ note' = note /\ down' = down /\ crowded' = crowded
    BY <1>4 DEF Synth!Step
  <2>2. \A w \in Synth!Voices : stage'[w] = "on" <=> stage[w] = "on"
    BY <1>0, <2>1 DEF Synth!TypeOK
  <2>3. \A q : On(q)' = On(q)
    BY <2>1, <2>2 DEF On
  <2> QED BY <2>1, <2>3 DEF HeldInv, KeysAreHeard
<1>5. CASE UNCHANGED synthVars
  <2>1. \A q : On(q)' = On(q)
    BY <1>5 DEF synthVars, On
  <2> QED BY <1>5, <2>1 DEF synthVars, HeldInv, KeysAreHeard
<1> QED BY <1>1, <1>2, <1>3, <1>4, <1>5 DEF Synth!Next

LEMMA HeldIsHeld == HeldInv => Synth!HeldNotesSound
  BY SameCardinality DEF HeldInv, KeysAreHeard, On, Synth!HeldNotesSound
-----------------------------------------------------------------------------
(* The drum kit *)

\* What is inductive with OldestIsStolen: the count of samples of a trigger
\* in use is the time since its hit, and no hit has outlived its time.
DrumsInv ==
  /\ Drums!TypeOK
  /\ \A t \in Drums!Triggers : active[t] => age[t] <= Life
  /\ hits = {[trigger |-> t, since |-> age[t]] : t \in {u \in Drums!Triggers : active[u]}}
  /\ Drums!OldestIsStolen

LEMMA DrumsBegin == Drums!Init => DrumsInv
<1> SUFFICES ASSUME Drums!Init PROVE DrumsInv
  OBVIOUS
<1>1. \A t \in Drums!Triggers : active[t] = FALSE
  BY DEF Drums!Init
<1>2. Drums!TypeOK
  BY Sizes DEF Drums!Init, Drums!TypeOK
<1>3. hits = {} /\ taken = None
  BY DEF Drums!Init
<1> QED BY <1>1, <1>2, <1>3 DEF DrumsInv, Drums!OldestIsStolen

LEMMA FirstTrigger ==
  ASSUME NEW S, S \subseteq Drums!Triggers, S # {}
  PROVE  Drums!FirstOf(S) \in S
<1>1. \E v \in S : \A w \in S : v <= w
  BY Sizes, HasLeast
<1> QED BY <1>1 DEF Drums!FirstOf

\* The trigger that is taken from a kit in full use has the greatest age.
LEMMA OldestTrigger ==
  ASSUME Drums!TypeOK
  PROVE  /\ Drums!Oldest \in Drums!Triggers
         /\ \A u \in Drums!Triggers : age[u] <= age[Drums!Oldest]
<1> DEFINE ages == {age[t] : t \in Drums!Triggers}
           old == {t \in Drums!Triggers : \A u \in Drums!Triggers : age[u] <= age[t]}
<1>1. \A t \in Drums!Triggers : age[t] \in 0..(Life + 1)
  BY DEF Drums!TypeOK
<1>2. 1 \in Drums!Triggers
  BY Sizes
<1>3. ages \subseteq Nat /\ ages # {} /\ Life + 1 \in Nat /\ \A x \in ages : x <= Life + 1
  BY <1>1, <1>2, InstrumentsAssumption
<1>4. PICK x \in ages : \A y \in ages : y <= x
  BY <1>3, HasGreatest
<1>5. old # {}
  BY <1>4
<1>6. Drums!FirstOf(old) \in old
  BY <1>5, FirstTrigger
<1>7. Drums!Oldest = Drums!FirstOf(old)
  BY DEF Drums!Oldest
<1> QED BY <1>6, <1>7

LEMMA HitKept == DrumsInv /\ Drums!Hit => DrumsInv'
<1> SUFFICES ASSUME DrumsInv, Drums!Hit PROVE DrumsInv'
  OBVIOUS
<1> DEFINE free == {u \in Drums!Triggers : ~active[u]}
<1>0. Drums!TypeOK
  BY DEF DrumsInv
<1>1. PICK t : t = (IF free # {} THEN Drums!FirstOf(free) ELSE Drums!Oldest)
  OBVIOUS
<1>2. Drums!HitOn(t)
  BY <1>1 DEF Drums!Hit
<1>3. free # {} => t \in free
  BY <1>1, FirstTrigger
<1>4. free = {} => t \in Drums!Triggers /\ \A u \in Drums!Triggers : age[u] <= age[t]
  BY <1>0, <1>1, OldestTrigger
<1>5. t \in Drums!Triggers
  BY <1>3, <1>4
<1>6. active[t] => /\ \A u \in Drums!Triggers : active[u]
                   /\ \A u \in Drums!Triggers : age[u] <= age[t]
  BY <1>3, <1>4
<1> HIDE DEF free
<1>7. active' = [active EXCEPT ![t] = TRUE] /\ age' = [age EXCEPT ![t] = 0]
  BY <1>2 DEF Drums!HitOn, Drums!Restart
<1>8. Drums!TypeOK'
  BY <1>0, <1>7, Sizes DEF Drums!TypeOK
<1>9. /\ age'[t] = 0 /\ active'[t]
      /\ \A u \in Drums!Triggers : u # t => age'[u] = age[u] /\ active'[u] = active[u]
  BY <1>0, <1>5, <1>7 DEF Drums!TypeOK
<1>10. \A u \in Drums!Triggers : active'[u] => age'[u] <= Life
  BY <1>9, Sizes DEF DrumsInv
<1>11. hits' = {h \in hits : h.trigger # t} \cup {[trigger |-> t, since |-> 0]}
  BY <1>2 DEF Drums!HitOn
<1>12. hits' = {[trigger |-> u, since |-> age'[u]] : u \in {w \in Drums!Triggers : active'[w]}}
  <2> DEFINE A == {w \in Drums!Triggers : active[w]}
             B == {w \in Drums!Triggers : active'[w]}
  <2>1. B = (A \ {t}) \cup {t}
    BY <1>5, <1>9
  <2>2. {h \in hits : h.trigger # t} = {[trigger |-> u, since |-> age[u]] : u \in A \ {t}}
    BY DEF DrumsInv
  <2>3. {[trigger |-> u, since |-> age[u]] : u \in A \ {t}}
          = {[trigger |-> u, since |-> age'[u]] : u \in A \ {t}}
    BY <1>9
  <2>4. {[trigger |-> t, since |-> 0]} = {[trigger |-> u, since |-> age'[u]] : u \in {t}}
    BY <1>9
  <2> HIDE DEF A, B
  <2>5. {[trigger |-> u, since |-> age'[u]] : u \in (A \ {t}) \cup {t}}
          = {[trigger |-> u, since |-> age'[u]] : u \in A \ {t}}
              \cup {[trigger |-> u, since |-> age'[u]] : u \in {t}}
    OBVIOUS
  <2>6. hits' = {[trigger |-> u, since |-> age'[u]] : u \in B}
    BY <1>11, <2>1, <2>2, <2>3, <2>4, <2>5
  <2> QED BY <2>6 DEF B
<1>13. Drums!OldestIsStolen'
  <2>1. CASE active[t]
    <3> DEFINE h == [trigger |-> t, since |-> age[t]]
    <3>1. h \in hits /\ \A g \in hits : g.trigger = t => g = h
      BY <1>5, <2>1 DEF DrumsInv
    <3>2. h.trigger = t /\ h.since = age[t]
      OBVIOUS
    <3>3. \A g \in hits : g.since <= age[t] /\ (g.since = age[t] \/ ~(h.since <= g.since))
      <4> TAKE g \in hits
      <4>1. PICK u \in Drums!Triggers : g = [trigger |-> u, since |-> age[u]]
        BY DEF DrumsInv
      <4>2. g.since = age[u] /\ age[u] \in Nat /\ age[t] \in Nat
        BY <1>0, <1>5, <4>1, Sizes DEF Drums!TypeOK
      <4>3. age[u] <= age[t]
        BY <1>6, <2>1
      <4> QED BY <3>2, <4>2, <4>3
    <3> HIDE DEF h
    <3>4. Drums!HitOf(t) = h
      BY <3>1, <3>2 DEF Drums!HitOf
    <3>5. Drums!FirstHit \in hits /\ \A g \in hits : g.since <= Drums!FirstHit.since
      <4>1. \E f \in hits : \A g \in hits : g.since <= f.since
        BY <3>1, <3>2, <3>3
      <4> QED BY <4>1 DEF Drums!FirstHit
    <3>6. Drums!FirstHit.since = age[t]
      BY <3>1, <3>2, <3>3, <3>5
    <3>7. taken' = [since |-> Drums!HitOf(t).since, oldest |-> Drums!FirstHit.since]
      BY <1>2, <2>1 DEF Drums!HitOn
    <3> QED BY <3>2, <3>4, <3>6, <3>7 DEF Drums!OldestIsStolen
  <2>2. CASE ~active[t]
    BY <1>2, <2>2 DEF Drums!HitOn, Drums!OldestIsStolen
  <2> QED BY <2>1, <2>2
<1> QED BY <1>8, <1>10, <1>12, <1>13 DEF DrumsInv

LEMMA SampleKept == DrumsInv /\ Drums!Sample => DrumsInv'
<1> SUFFICES ASSUME DrumsInv, Drums!Sample PROVE DrumsInv'
  OBVIOUS
<1> DEFINE A == {w \in Drums!Triggers : active[w]}
           B == {w \in Drums!Triggers : active'[w]}
<1>0. Drums!TypeOK /\ \A t \in Drums!Triggers : age[t] \in Nat /\ active[t] \in BOOLEAN
  BY Sizes DEF DrumsInv, Drums!TypeOK
<1>1. /\ active' = [t \in Drums!Triggers |-> active[t] /\ ~Drums!Ends(t)]
      /\ age' = [t \in Drums!Triggers |-> IF active[t] THEN age[t] + 1 ELSE age[t]]
  BY DEF Drums!Sample
<1>2. \A t \in Drums!Triggers : active[t] => age[t] + 1 \in 0..(Life + 1)
  <2> TAKE t \in Drums!Triggers
  <2> HAVE active[t]
  <2>1. age[t] \in Nat /\ age[t] <= Life /\ Life \in Nat
    BY <1>0, Sizes DEF DrumsInv
  <2> QED BY <2>1
<1>3. age' \in [Drums!Triggers -> 0..(Life + 1)]
  BY <1>1, <1>2 DEF DrumsInv, Drums!TypeOK
<1>4. active' \in [Drums!Triggers -> BOOLEAN]
  BY <1>1
<1>5. \A t \in Drums!Triggers : active'[t] => active[t] /\ age'[t] = age[t] + 1
  BY <1>1
<1>6. \A t \in Drums!Triggers : active'[t] => age'[t] <= Life
  <2> TAKE t \in Drums!Triggers
  <2> HAVE active'[t]
  <2>1. active[t] /\ ~(age[t] + 1 > Life) /\ age'[t] = age[t] + 1 /\ age[t] \in Nat
    BY <1>0, <1>1 DEF Drums!Ends
  <2> QED BY <2>1, Sizes
<1>7. hits' = {[trigger |-> u, since |-> age'[u]] : u \in B}
  <2>1. hits' = {[h EXCEPT !.since = @ + 1] : h \in {g \in hits : active'[g.trigger]}}
    BY DEF Drums!Sample
  <2>2. hits = {[trigger |-> u, since |-> age[u]] : u \in A}
    BY DEF DrumsInv
  <2>3. B \subseteq A
    BY <1>5
  <2>4. {g \in hits : active'[g.trigger]} = {[trigger |-> u, since |-> age[u]] : u \in B}
    BY <2>2, <2>3
  <2>5. \A u \in B : [[trigger |-> u, since |-> age[u]] EXCEPT !.since = @ + 1]
                       = [trigger |-> u, since |-> age'[u]]
    BY <1>5
  <2>6. \A u \in B : [trigger |-> u, since |-> age'[u]] \in hits'
    <3> TAKE u \in B
    <3> DEFINE h == [trigger |-> u, since |-> age[u]]
    <3>1. h \in {g \in hits : active'[g.trigger]}
      BY <2>4
    <3>2. [h EXCEPT !.since = @ + 1] \in hits'
      BY <2>1, <3>1
    <3> QED BY <2>5, <3>2
  <2>7. ASSUME NEW x \in hits' PROVE \E u \in B : x = [trigger |-> u, since |-> age'[u]]
    <3>1. PICK h \in {g \in hits : active'[g.trigger]} : x = [h EXCEPT !.since = @ + 1]
      BY <2>1
    <3>2. PICK u \in B : h = [trigger |-> u, since |-> age[u]]
      BY <2>4, <3>1
    <3> QED BY <2>5, <3>1, <3>2
  <2> HIDE DEF B
  <2> QED BY <2>6, <2>7
<1>8. Drums!OldestIsStolen'
  BY DEF DrumsInv, Drums!OldestIsStolen, Drums!Sample
<1> QED BY <1>3, <1>4, <1>6, <1>7, <1>8 DEF DrumsInv, Drums!TypeOK

LEMMA DrumsKept == DrumsInv /\ [Drums!Next]_drumVars => DrumsInv'
<1> SUFFICES ASSUME DrumsInv, [Drums!Next]_drumVars PROVE DrumsInv'
  OBVIOUS
<1>1. CASE UNCHANGED drumVars
  BY <1>1 DEF drumVars, DrumsInv, Drums!TypeOK, Drums!OldestIsStolen
<1> QED BY <1>1, HitKept, SampleKept DEF Drums!Next
-----------------------------------------------------------------------------
(* CLAP instruments: the calls *)

LEMMA SameFinite ==
  \A S : Clap!Cardinality(S) = Cardinality(S)
  BY DEF Clap!Cardinality, Cardinality

States == {"none", "created", "ready", "active", "processing"}

\* The rests of the calls that undo a load
UndoLists ==
  {<<>>, <<"deinit">>, <<"destroy", "deinit">>, <<"deactivate", "destroy", "deinit">>,
   <<"stop_processing", "deactivate", "destroy", "deinit">>}

\* The state of a plug-in after so many calls of load
Loaded(n) ==
  CASE n < 4 -> "none" [] n = 4 -> "created" [] n = 5 -> "ready" [] n = 6 -> "active"
    [] OTHER -> "processing"

\* The states in which a list of calls may begin
Undoable(list) == IF list = <<>> THEN {"none"} ELSE Clap!Before(Head(list))

\* What holds of one instance: phase, calls made and calls to make fit, and
\* in a bundle with all its functions so does the plug-in.
Fits(ph, made, list, state) ==
  /\ ph # "undoing" => list = <<>>
  /\ ph = "new" => made = 0
  /\ ph = "live" => made = 7
  /\ lacks = None =>
       state \in CASE ph = "undoing"            -> Undoable(list)
                   [] ph \in {"loading", "live"} -> {Loaded(made)}
                   [] OTHER                      -> {"none"}

\* An instance uses the entry from its init to its deinit.
Uses(ph, made, list) ==
  \/ ph \in {"loading", "live"} /\ made > 0
  \/ ph = "undoing" /\ list # <<>>

Users == {i \in Instances : Uses(phase[i], done[i], undo[i])}

ClapTypes ==
  /\ phase \in [Instances -> {"new", "loading", "live", "undoing", "gone"}]
  /\ done \in [Instances -> 0..7]
  /\ undo \in [Instances -> UndoLists]
  /\ plugin \in [Instances -> States]
  /\ entries \in Nat

\* A use may be left over only where a function is missing.
EntryCounted ==
  /\ Cardinality(Users) <= entries
  /\ lacks = None => Cardinality(Users) = entries

CallsInv ==
  /\ ClapTypes
  /\ \A i \in Instances : Fits(phase[i], done[i], undo[i], plugin[i])
  /\ EntryCounted

LEMMA LoadCalls ==
  /\ Len(Clap!Loading) = 7
  /\ \A n \in 0..6 : Clap!Loading[n + 1] # None
  /\ None \notin Clap!Undoing
<1>1. Len(Clap!Loading) = 7 /\ DOMAIN Clap!Loading = 1..7
  BY DEF Clap!Loading
<1>2. \A k \in 1..7 : Clap!Loading[k] \in Clap!ToSet(Clap!Loading)
  BY <1>1 DEF Clap!ToSet
<1>3. None \notin Clap!ToSet(Clap!Loading) /\ None \notin Clap!Undoing
  BY InstrumentsAssumption DEF Clap!Functions
<1>4. \A n \in 0..6 : n + 1 \in 1..7
  OBVIOUS
<1> QED BY <1>1, <1>2, <1>3, <1>4

LEMMA UsersFinite ==
  /\ IsFiniteSet(Users) /\ Cardinality(Users) \in Nat
  /\ IsFiniteSet(Users') /\ Cardinality(Users') \in Nat
<1>1. Users \in SUBSET Instances /\ Users' \in SUBSET Instances /\ IsFiniteSet(Instances)
  BY InstrumentsAssumption DEF Users
<1>2. IsFiniteSet(Users) /\ IsFiniteSet(Users')
  BY <1>1, FS_Subset
<1> QED BY <1>2, FS_CardinalityType

\* A step of one instance, and what has to be shown of it
Becomes(i, ph, made, list, state, count) ==
  /\ phase' = [phase EXCEPT ![i] = ph] /\ done' = [done EXCEPT ![i] = made]
  /\ undo' = [undo EXCEPT ![i] = list] /\ plugin' = [plugin EXCEPT ![i] = state]
  /\ entries' = count /\ lacks' = lacks

LEMMA InstanceSteps ==
  ASSUME CallsInv, NEW i \in Instances,
         NEW ph \in {"new", "loading", "live", "undoing", "gone"}, NEW made \in 0..7,
         NEW list \in UndoLists, NEW state \in States, NEW count,
         Becomes(i, ph, made, list, state, count),
         Fits(ph, made, list, state),
         \/ count = entries /\ (Uses(ph, made, list) <=> i \in Users)
         \/ count = entries /\ i \in Users /\ ~Uses(ph, made, list) /\ lacks # None
         \/ count = entries + 1 /\ i \notin Users /\ Uses(ph, made, list)
         \/ count = entries - 1 /\ i \in Users /\ ~Uses(ph, made, list)
  PROVE  CallsInv'
<1>1. ClapTypes /\ EntryCounted /\ \A j \in Instances : Fits(phase[j], done[j], undo[j], plugin[j])
  BY DEF CallsInv
<1>2. /\ phase'[i] = ph /\ done'[i] = made /\ undo'[i] = list /\ plugin'[i] = state
      /\ \A j \in Instances : j # i =>
           /\ phase'[j] = phase[j] /\ done'[j] = done[j]
           /\ undo'[j] = undo[j] /\ plugin'[j] = plugin[j]
      /\ entries' = count /\ lacks' = lacks
  BY <1>1 DEF Becomes, ClapTypes
<1>3. /\ phase' \in [Instances -> {"new", "loading", "live", "undoing", "gone"}]
      /\ done' \in [Instances -> 0..7]
      /\ undo' \in [Instances -> UndoLists] /\ plugin' \in [Instances -> States]
  BY <1>1 DEF Becomes, ClapTypes
<1>4. \A j \in Instances : Fits(phase[j], done[j], undo[j], plugin[j])'
  BY <1>1, <1>2 DEF Fits
<1>5. Users' = IF Uses(ph, made, list) THEN Users \cup {i} ELSE Users \ {i}
  BY <1>2 DEF Users, Uses
<1>6. entries \in Nat /\ IsFiniteSet(Users) /\ Cardinality(Users) \in Nat
  BY <1>1, UsersFinite DEF ClapTypes
<1>7. CASE count = entries /\ (Uses(ph, made, list) <=> i \in Users)
  <2>1. Users' = Users
    BY <1>5, <1>7
  <2> QED BY <1>1, <1>2, <1>3, <1>4, <1>7, <2>1 DEF CallsInv, ClapTypes, EntryCounted
<1>8. CASE count = entries /\ i \in Users /\ ~Uses(ph, made, list) /\ lacks # None
  <2>1. Users' = Users \ {i} /\ Cardinality(Users \ {i}) = Cardinality(Users) - 1
    BY <1>5, <1>6, <1>8, FS_RemoveElement
  <2>2. EntryCounted'
    BY <1>1, <1>2, <1>6, <1>8, <2>1 DEF EntryCounted
  <2> QED BY <1>2, <1>3, <1>4, <1>6, <1>8, <2>2 DEF CallsInv, ClapTypes
<1>9. CASE count = entries + 1 /\ i \notin Users /\ Uses(ph, made, list)
  <2>1. Users' = Users \cup {i} /\ Cardinality(Users \cup {i}) = Cardinality(Users) + 1
    BY <1>5, <1>6, <1>9, FS_AddElement
  <2>2. EntryCounted'
    BY <1>1, <1>2, <1>6, <1>9, <2>1 DEF EntryCounted
  <2>3. entries' \in Nat
    BY <1>2, <1>6, <1>9
  <2> QED BY <1>3, <1>4, <2>2, <2>3 DEF CallsInv, ClapTypes
<1>10. CASE count = entries - 1 /\ i \in Users /\ ~Uses(ph, made, list)
  <2>1. Users' = Users \ {i} /\ Cardinality(Users \ {i}) = Cardinality(Users) - 1
    BY <1>5, <1>6, <1>10, FS_RemoveElement
  <2>2. Cardinality(Users) # 0
    BY <1>6, <1>10, FS_EmptySet
  <2>3. entries' \in Nat
    BY <1>1, <1>2, <1>6, <1>10, <2>2 DEF EntryCounted
  <2>4. EntryCounted'
    BY <1>1, <1>2, <1>6, <1>10, <2>1 DEF EntryCounted
  <2> QED BY <1>3, <1>4, <2>3, <2>4 DEF CallsInv, ClapTypes
<1> QED BY <1>7, <1>8, <1>9, <1>10

LEMMA CallsBegin == Clap!Init => CallsInv
<1> SUFFICES ASSUME Clap!Init PROVE CallsInv
  OBVIOUS
<1>1. /\ phase = [i \in Instances |-> "new"] /\ done = [i \in Instances |-> 0]
      /\ undo = [i \in Instances |-> <<>>] /\ plugin = [i \in Instances |-> "none"]
      /\ entries = 0
  BY DEF Clap!Init
<1>2. ClapTypes
  BY <1>1 DEF ClapTypes, UndoLists, States
<1>3. \A i \in Instances : Fits(phase[i], done[i], undo[i], plugin[i])
  BY <1>1 DEF Fits
<1>4. Users = {}
  BY <1>1 DEF Users, Uses
<1> QED BY <1>1, <1>2, <1>3, <1>4, FS_EmptySet DEF CallsInv, EntryCounted
-----------------------------------------------------------------------------
(* One lemma for each step of an instance *)

LEMMA OpenKept == ASSUME CallsInv, NEW i \in Instances, Clap!Open(i) PROVE CallsInv'
<1>1. ClapTypes /\ phase[i] = "new" /\ Fits(phase[i], done[i], undo[i], plugin[i])
  BY DEF CallsInv, Clap!Open
<1>2. PICK ph \in {"loading", "gone"} : Clap!Goto(i, ph)
  BY DEF Clap!Open
<1>3. done[i] = 0 /\ undo[i] = <<>> /\ (lacks = None => plugin[i] = "none")
  BY <1>1 DEF Fits
<1>4. Becomes(i, ph, done[i], undo[i], plugin[i], entries)
  BY <1>1, <1>2 DEF Clap!Open, Clap!Goto, Becomes, ClapTypes
<1>5. Fits(ph, done[i], undo[i], plugin[i])
  BY <1>2, <1>3 DEF Fits, Loaded
<1>6. ~Uses(ph, done[i], undo[i]) /\ i \notin Users
  BY <1>1, <1>2, <1>3 DEF Uses, Users
<1>7. done[i] \in 0..7 /\ undo[i] \in UndoLists /\ plugin[i] \in States
  BY <1>1 DEF ClapTypes
<1> QED BY <1>2, <1>4, <1>5, <1>6, <1>7, InstanceSteps

\* A call of load takes the plug-in one state further.
LEMMA LoadedNext ==
  ASSUME NEW n \in 0..6, NEW state \in States, lacks = None => state = Loaded(n)
  PROVE  /\ Clap!After(Clap!Loading[n + 1], state) \in States
         /\ lacks = None => Clap!After(Clap!Loading[n + 1], state) = Loaded(n + 1)
<1>1. n \in {0, 1, 2, 3, 4, 5, 6}
  OBVIOUS
<1>2. /\ Clap!Loading[1] = "init" /\ Clap!Loading[2] = "get_factory"
      /\ Clap!Loading[3] = "get_plugin_descriptor" /\ Clap!Loading[4] = "create_plugin"
      /\ Clap!Loading[5] = "plugin.init" /\ Clap!Loading[6] = "activate"
      /\ Clap!Loading[7] = "start_processing"
  BY DEF Clap!Loading
<1>3. CASE n \in {0, 1, 2}
  <2>1. Clap!Loading[n + 1] \in {"init", "get_factory", "get_plugin_descriptor"}
    BY <1>2, <1>3
  <2>2. Clap!After(Clap!Loading[n + 1], state) = state
    BY <2>1 DEF Clap!After
  <2>3. Loaded(n) = "none" /\ Loaded(n + 1) = "none"
    BY <1>3 DEF Loaded
  <2> QED BY <2>2, <2>3
<1>4. CASE n = 3
  BY <1>2, <1>4 DEF Clap!After, Loaded, States
<1>5. CASE n = 4
  BY <1>2, <1>5 DEF Clap!After, Loaded, States
<1>6. CASE n = 5
  BY <1>2, <1>6 DEF Clap!After, Loaded, States
<1>7. CASE n = 6
  BY <1>2, <1>7 DEF Clap!After, Loaded, States
<1> QED BY <1>1, <1>3, <1>4, <1>5, <1>6, <1>7

LEMMA SucceedsKept == ASSUME CallsInv, NEW i \in Instances, Clap!Succeeds(i) PROVE CallsInv'
<1> DEFINE n == done[i]
           call == Clap!Loading[n + 1]
           state == Clap!After(call, plugin[i])
           count == IF n = 0 THEN entries + 1 ELSE entries
<1>1. /\ ClapTypes /\ phase[i] = "loading" /\ n \in 0..6 /\ plugin[i] \in States
      /\ undo[i] \in UndoLists /\ Fits(phase[i], n, undo[i], plugin[i])
  BY LoadCalls DEF CallsInv, ClapTypes, Clap!Succeeds
<1>2. /\ undo[i] = <<>> /\ (lacks = None => plugin[i] = Loaded(n))
  BY <1>1 DEF Fits
<1>3. state \in States /\ (lacks = None => state = Loaded(n + 1))
  BY <1>1, <1>2, LoadedNext
<1>4. call = "init" <=> n = 0
  BY <1>1 DEF Clap!Loading
<1>5. call # "deinit"
  BY <1>1 DEF Clap!Loading
<1>6. Becomes(i, "loading", n + 1, undo[i], state, count)
  <2>1. Clap!Made(i, call)
    BY DEF Clap!Succeeds, Clap!Call
  <2>2. entries' = count
    BY <1>4, <1>5, <2>1 DEF Clap!Made
  <2>3. plugin' = [plugin EXCEPT ![i] = state]
    BY <1>1, <2>1 DEF Clap!Made, ClapTypes
  <2>4. /\ done' = [done EXCEPT ![i] = n + 1] /\ lacks' = lacks
        /\ phase' = phase /\ undo' = undo
    BY DEF Clap!Succeeds
  <2>5. phase = [phase EXCEPT ![i] = "loading"] /\ undo = [undo EXCEPT ![i] = undo[i]]
    BY <1>1 DEF ClapTypes
  <2> QED BY <2>2, <2>3, <2>4, <2>5 DEF Becomes
<1>7. Fits("loading", n + 1, undo[i], state)
  BY <1>2, <1>3 DEF Fits
<1>8. Uses("loading", n + 1, undo[i]) /\ (i \in Users <=> n # 0)
  BY <1>1 DEF Uses, Users
<1>9. n + 1 \in 0..7
  BY <1>1
<1>10. (count = entries + 1 /\ i \notin Users) \/ (count = entries /\ i \in Users)
  BY <1>8
<1> HIDE DEF state, count, n
<1> QED BY <1>1, <1>3, <1>6, <1>7, <1>8, <1>9, <1>10, InstanceSteps

LEMMA StartsKept == ASSUME CallsInv, NEW i \in Instances, Clap!Starts(i) PROVE CallsInv'
<1>1. ClapTypes /\ phase[i] = "loading" /\ done[i] = 7
        /\ Fits(phase[i], done[i], undo[i], plugin[i])
  BY LoadCalls DEF CallsInv, Clap!Starts
<1>2. Becomes(i, "live", done[i], undo[i], plugin[i], entries)
  BY <1>1 DEF Clap!Starts, Clap!Goto, Becomes, ClapTypes
<1>3. Fits("live", done[i], undo[i], plugin[i])
  BY <1>1 DEF Fits
<1>4. Uses("live", done[i], undo[i]) /\ i \in Users
  BY <1>1 DEF Uses, Users
<1>5. done[i] \in 0..7 /\ undo[i] \in UndoLists /\ plugin[i] \in States
  BY <1>1 DEF ClapTypes
<1> QED BY <1>2, <1>3, <1>4, <1>5, InstanceSteps

\* What is undone after a call that failed fits the state it was made in.
LEMMA CleanupFits ==
  ASSUME NEW n \in 0..6
  PROVE  LET list == Clap!Cleanup(Clap!Loading[n + 1]) IN
         /\ list \in UndoLists
         /\ list = <<>> <=> n = 0
         /\ Loaded(n) \in Undoable(list)
<1> DEFINE list == Clap!Cleanup(Clap!Loading[n + 1])
<1>1. n \in {0, 1, 2, 3, 4, 5, 6}
  OBVIOUS
<1>2. /\ Clap!Loading[1] = "init" /\ Clap!Loading[2] = "get_factory"
      /\ Clap!Loading[3] = "get_plugin_descriptor" /\ Clap!Loading[4] = "create_plugin"
      /\ Clap!Loading[5] = "plugin.init" /\ Clap!Loading[6] = "activate"
      /\ Clap!Loading[7] = "start_processing"
  BY DEF Clap!Loading
<1>3. CASE n = 0
  <2>1. list = <<>> /\ Loaded(n) = "none"
    BY <1>2, <1>3 DEF Clap!Cleanup, Loaded
  <2> QED BY <1>3, <2>1 DEF UndoLists, Undoable
<1>4. CASE n \in {1, 2, 3}
  <2>0. Clap!Loading[n + 1] \in {"get_factory", "get_plugin_descriptor", "create_plugin"}
    BY <1>2, <1>4
  <2>1. list = <<"deinit">> /\ Loaded(n) = "none"
    BY <1>4, <2>0 DEF Clap!Cleanup, Loaded
  <2> HIDE DEF list
  <2>2. list # <<>> /\ Head(list) = "deinit"
    BY <2>1
  <2> QED BY <1>4, <2>1, <2>2 DEF UndoLists, Undoable, Clap!Before, list
<1>5. CASE n \in {4, 5}
  <2>0. Clap!Loading[n + 1] \in {"plugin.init", "activate"}
    BY <1>2, <1>5
  <2>1. list = <<"destroy", "deinit">> /\ Loaded(n) \in {"created", "ready"}
    BY <1>5, <2>0 DEF Clap!Cleanup, Loaded
  <2> HIDE DEF list
  <2>2. list # <<>> /\ Head(list) = "destroy"
    BY <2>1
  <2> QED BY <1>5, <2>1, <2>2 DEF UndoLists, Undoable, Clap!Before, list
<1>6. CASE n = 6
  <2>1. list = <<"deactivate", "destroy", "deinit">> /\ Loaded(n) = "active"
    BY <1>2, <1>6 DEF Clap!Cleanup, Loaded
  <2> HIDE DEF list
  <2>2. list # <<>> /\ Head(list) = "deactivate"
    BY <2>1
  <2> QED BY <1>6, <2>1, <2>2 DEF UndoLists, Undoable, Clap!Before, list
<1> QED BY <1>1, <1>3, <1>4, <1>5, <1>6

LEMMA FailsKept == ASSUME CallsInv, NEW i \in Instances, Clap!Fails(i) PROVE CallsInv'
<1> DEFINE list == Clap!Cleanup(Clap!Loading[done[i] + 1])
<1>1. /\ ClapTypes /\ phase[i] = "loading" /\ done[i] \in 0..6 /\ plugin[i] \in States
      /\ Fits(phase[i], done[i], undo[i], plugin[i])
  BY LoadCalls DEF CallsInv, ClapTypes, Clap!Fails
<1>2. list \in UndoLists /\ (list = <<>> <=> done[i] = 0) /\ Loaded(done[i]) \in Undoable(list)
  BY <1>1, CleanupFits
<1>3. undo' = [undo EXCEPT ![i] = list]
  BY DEF Clap!Fails, Clap!Call
<1> HIDE DEF list
<1>4. Becomes(i, "undoing", done[i], list, plugin[i], entries)
  BY <1>1, <1>3 DEF Clap!Fails, Clap!Goto, Becomes, ClapTypes
<1>5. Fits("undoing", done[i], list, plugin[i])
  BY <1>1, <1>2 DEF Fits
<1>6. Uses("undoing", done[i], list) <=> i \in Users
  BY <1>1, <1>2 DEF Uses, Users
<1>7. done[i] \in 0..7
  BY <1>1
<1> QED BY <1>1, <1>2, <1>4, <1>5, <1>6, <1>7, InstanceSteps

LEMMA MissesKept == ASSUME CallsInv, NEW i \in Instances, Clap!Misses(i) PROVE CallsInv'
<1>1. /\ ClapTypes /\ phase[i] = "loading" /\ done[i] \in 0..6
      /\ plugin[i] \in States /\ undo[i] \in UndoLists
      /\ Fits(phase[i], done[i], undo[i], plugin[i])
  BY LoadCalls DEF CallsInv, ClapTypes, Clap!Misses
<1>2. lacks # None
  <2>1. lacks = Clap!Loading[done[i] + 1]
    BY DEF Clap!Misses, Clap!Call
  <2> QED BY <1>1, <2>1, LoadCalls
<1>3. undo[i] = <<>>
  BY <1>1 DEF Fits
<1>4. Becomes(i, "gone", done[i], undo[i], plugin[i], entries)
  BY <1>1 DEF Clap!Misses, Clap!Goto, Becomes, ClapTypes
<1>5. Fits("gone", done[i], undo[i], plugin[i])
  BY <1>2, <1>3 DEF Fits
<1>6. ~Uses("gone", done[i], undo[i])
  BY DEF Uses
<1>7. done[i] \in 0..7
  BY <1>1
<1> QED BY <1>1, <1>2, <1>4, <1>5, <1>6, <1>7, InstanceSteps

LEMMA DropKept == ASSUME CallsInv, NEW i \in Instances, Clap!Drop(i) PROVE CallsInv'
<1> DEFINE list == <<"stop_processing", "deactivate", "destroy", "deinit">>
<1>1. /\ ClapTypes /\ phase[i] = "live" /\ done[i] \in 0..7 /\ plugin[i] \in States
      /\ Fits(phase[i], done[i], undo[i], plugin[i])
  BY DEF CallsInv, ClapTypes, Clap!Drop
<1>2. list \in UndoLists /\ list # <<>> /\ Head(list) = "stop_processing"
  BY DEF UndoLists
<1>3. undo' = [undo EXCEPT ![i] = list]
  BY DEF Clap!Drop
<1> HIDE DEF list
<1>4. Becomes(i, "undoing", done[i], list, plugin[i], entries)
  BY <1>1, <1>3 DEF Clap!Drop, Clap!Goto, Becomes, ClapTypes
<1>5. Loaded(7) = "processing" /\ Undoable(list) = {"processing"}
  BY <1>2 DEF Loaded, Undoable, Clap!Before
<1>6. Fits("undoing", done[i], list, plugin[i])
  BY <1>1, <1>5 DEF Fits
<1>7. Uses("undoing", done[i], list) /\ i \in Users
  BY <1>1, <1>2 DEF Uses, Users, Fits
<1> QED BY <1>1, <1>2, <1>4, <1>6, <1>7, InstanceSteps

\* A call that undoes another leaves the plug-in where the next may be made.
LEMMA UndoSteps ==
  ASSUME NEW list \in UndoLists, list # <<>>, NEW state \in States
  PROVE  LET after == Clap!After(Head(list), state) IN
         /\ Head(list) \in Clap!Undoing /\ Tail(list) \in UndoLists
         /\ after \in States
         /\ Tail(list) = <<>> <=> Head(list) = "deinit"
         /\ state \in Undoable(list) => after \in Undoable(Tail(list))
<1> DEFINE after == Clap!After(Head(list), state)
<1>1. CASE list = <<"deinit">>
  <2>1. Head(list) = "deinit" /\ Tail(list) = <<>>
    BY <1>1
  <2>2. after = state
    BY <2>1 DEF Clap!After
  <2>3. Undoable(list) = {"none"} /\ Undoable(<<>>) = {"none"}
    BY <1>1, <2>1 DEF Undoable, Clap!Before
  <2> QED BY <2>1, <2>2, <2>3 DEF Clap!Undoing, UndoLists
<1>2. CASE list = <<"destroy", "deinit">>
  <2>1. Head(list) = "destroy" /\ Tail(list) = <<"deinit">>
    BY <1>2
  <2>2. after = "none"
    BY <2>1 DEF Clap!After
  <2>3. <<"deinit">> # <<>> /\ Head(<<"deinit">>) = "deinit"
    OBVIOUS
  <2>4. Undoable(<<"deinit">>) = {"none"}
    BY <2>3 DEF Undoable, Clap!Before
  <2> QED BY <2>1, <2>2, <2>3, <2>4 DEF Clap!Undoing, UndoLists, States
<1>3. CASE list = <<"deactivate", "destroy", "deinit">>
  <2>1. Head(list) = "deactivate" /\ Tail(list) = <<"destroy", "deinit">>
    BY <1>3
  <2>2. after = "ready"
    BY <2>1 DEF Clap!After
  <2>3. <<"destroy", "deinit">> # <<>> /\ Head(<<"destroy", "deinit">>) = "destroy"
    OBVIOUS
  <2>4. Undoable(<<"destroy", "deinit">>) = {"created", "ready"}
    BY <2>3 DEF Undoable, Clap!Before
  <2> QED BY <2>1, <2>2, <2>3, <2>4 DEF Clap!Undoing, UndoLists, States
<1>4. CASE list = <<"stop_processing", "deactivate", "destroy", "deinit">>
  <2>1. Head(list) = "stop_processing" /\ Tail(list) = <<"deactivate", "destroy", "deinit">>
    BY <1>4
  <2>2. after = "active"
    BY <2>1 DEF Clap!After
  <2>3. /\ <<"deactivate", "destroy", "deinit">> # <<>>
        /\ Head(<<"deactivate", "destroy", "deinit">>) = "deactivate"
    OBVIOUS
  <2>4. Undoable(<<"deactivate", "destroy", "deinit">>) = {"active"}
    BY <2>3 DEF Undoable, Clap!Before
  <2> QED BY <2>1, <2>2, <2>3, <2>4 DEF Clap!Undoing, UndoLists, States
<1> QED BY <1>1, <1>2, <1>3, <1>4 DEF UndoLists

LEMMA UndoKept == ASSUME CallsInv, NEW i \in Instances, Clap!Undo(i) PROVE CallsInv'
<1>1. /\ ClapTypes /\ phase[i] = "undoing" /\ done[i] \in 0..7 /\ plugin[i] \in States
      /\ undo[i] \in UndoLists /\ Fits(phase[i], done[i], undo[i], plugin[i])
  BY DEF CallsInv, ClapTypes, Clap!Undo
<1>2. CASE undo[i] = <<>>
  <2>1. Becomes(i, "gone", done[i], undo[i], plugin[i], entries)
    BY <1>1, <1>2 DEF Clap!Undo, Clap!Goto, Becomes, ClapTypes
  <2>2. Fits("gone", done[i], undo[i], plugin[i])
    BY <1>1, <1>2 DEF Fits, Undoable
  <2>3. ~Uses("gone", done[i], undo[i]) /\ i \notin Users
    BY <1>1, <1>2 DEF Uses, Users
  <2> QED BY <1>1, <2>1, <2>2, <2>3, InstanceSteps
<1>3. CASE undo[i] # <<>>
  <2> DEFINE call == Head(undo[i])
             rest == Tail(undo[i])
             after == Clap!After(call, plugin[i])
             state == IF call = lacks THEN plugin[i] ELSE after
             count == IF call = lacks \/ call # "deinit" THEN entries ELSE entries - 1
  <2>1. /\ call \in Clap!Undoing /\ rest \in UndoLists /\ after \in States
        /\ rest = <<>> <=> call = "deinit"
        /\ plugin[i] \in Undoable(undo[i]) => after \in Undoable(rest)
    BY <1>1, <1>3, UndoSteps
  <2>2. call # None
    BY <2>1, LoadCalls
  <2>3. /\ undo' = [undo EXCEPT ![i] = rest] /\ phase' = phase
        /\ done' = done /\ lacks' = lacks
    BY <1>1, <1>3 DEF Clap!Undo, ClapTypes
  <2>4. plugin' = [plugin EXCEPT ![i] = state] /\ entries' = count
    <3>1. CASE call = lacks
      <4>1. plugin' = plugin /\ entries' = entries
        BY <1>3, <3>1 DEF Clap!Undo
      <4> QED BY <1>1, <3>1, <4>1 DEF ClapTypes
    <3>2. CASE call # lacks
      <4>1. Clap!Made(i, call)
        BY <1>3, <3>2 DEF Clap!Undo
      <4>2. call # "init"
        BY <2>1 DEF Clap!Undoing
      <4> QED BY <1>1, <3>2, <4>1, <4>2 DEF Clap!Made, ClapTypes
    <3> QED BY <3>1, <3>2
  <2>5. phase = [phase EXCEPT ![i] = "undoing"] /\ done = [done EXCEPT ![i] = done[i]]
    BY <1>1 DEF ClapTypes
  <2> HIDE DEF call, rest, after
  <2>6. Becomes(i, "undoing", done[i], rest, state, count)
    BY <2>3, <2>4, <2>5 DEF Becomes
  <2>7. Fits("undoing", done[i], rest, state)
    <3> SUFFICES ASSUME lacks = None PROVE state \in Undoable(rest)
      BY DEF Fits
    <3>1. state = after
      BY <2>2
    <3>2. plugin[i] \in Undoable(undo[i])
      BY <1>1 DEF Fits
    <3> QED BY <2>1, <3>1, <3>2
  <2>8. i \in Users /\ (Uses("undoing", done[i], rest) <=> call # "deinit")
    BY <1>1, <1>3, <2>1 DEF Uses, Users
  <2>9. state \in States
    BY <1>1, <2>1
  <2>10. \/ count = entries /\ Uses("undoing", done[i], rest)
         \/ count = entries /\ ~Uses("undoing", done[i], rest) /\ lacks # None
         \/ count = entries - 1 /\ ~Uses("undoing", done[i], rest)
    BY <2>2, <2>8
  <2> HIDE DEF state, count
  <2> QED BY <1>1, <2>1, <2>6, <2>7, <2>8, <2>9, <2>10, InstanceSteps
<1> QED BY <1>2, <1>3

LEMMA CallsStay ==
  ASSUME CallsInv, UNCHANGED <<lacks, phase, done, undo, plugin, entries>>
  PROVE  CallsInv'
<1>1. Users' = Users
  BY DEF Users
<1> QED BY <1>1 DEF CallsInv, ClapTypes, EntryCounted, Fits

LEMMA CallsKept == CallsInv /\ [Clap!Next]_clapVars => CallsInv'
<1> SUFFICES ASSUME CallsInv, [Clap!Next]_clapVars PROVE CallsInv'
  OBVIOUS
<1>1. ASSUME NEW i \in Instances, NEW midi \in Midi, Clap!Process(i, midi) PROVE CallsInv'
  BY <1>1, CallsStay DEF Clap!Process
<1>2. CASE UNCHANGED clapVars
  BY <1>2, CallsStay DEF clapVars
<1>3. ASSUME NEW i \in Instances,
             \/ Clap!Open(i) \/ Clap!Succeeds(i) \/ Clap!Starts(i) \/ Clap!Fails(i)
             \/ Clap!Misses(i) \/ Clap!Drop(i) \/ Clap!Undo(i)
      PROVE  CallsInv'
  BY <1>3, OpenKept, SucceedsKept, StartsKept, FailsKept, MissesKept, DropKept, UndoKept
<1> QED BY <1>1, <1>2, <1>3 DEF Clap!Next

LEMMA CallsBalance == CallsInv => Clap!CallsAreBalanced
<1> SUFFICES ASSUME CallsInv, lacks = None PROVE Clap!CallsAreBalanced
  BY DEF Clap!CallsAreBalanced
<1>1. ASSUME NEW i \in Instances
      PROVE  /\ undo[i] # <<>> => plugin[i] \in Clap!Before(Head(undo[i]))
             /\ phase[i] = "gone" => plugin[i] = "none"
             /\ plugin[i] # "none" => entries > 0
  <2>0. /\ ClapTypes /\ Fits(phase[i], done[i], undo[i], plugin[i])
        /\ phase[i] \in {"new", "loading", "live", "undoing", "gone"} /\ done[i] \in 0..7
        /\ entries \in Nat /\ Cardinality(Users) = entries
    BY DEF CallsInv, ClapTypes, EntryCounted
  <2>1. undo[i] # <<>> => plugin[i] \in Clap!Before(Head(undo[i]))
    BY <2>0 DEF Fits, Undoable
  <2>2. phase[i] = "gone" => plugin[i] = "none"
    BY <2>0 DEF Fits
  <2>3. plugin[i] # "none" => i \in Users
    <3> HAVE plugin[i] # "none"
    <3>1. CASE phase[i] = "undoing"
      BY <2>0, <3>1 DEF Fits, Undoable, Users, Uses
    <3>2. CASE phase[i] \in {"loading", "live"}
      <4>1. Loaded(done[i]) # "none"
        BY <2>0, <3>2 DEF Fits
      <4>2. done[i] > 0
        BY <2>0, <4>1 DEF Loaded
      <4> QED BY <3>2, <4>2 DEF Users, Uses
    <3> QED BY <2>0, <3>1, <3>2 DEF Fits
  <2>4. i \in Users => entries > 0
    BY <2>0, UsersFinite, FS_EmptySet
  <2> QED BY <2>1, <2>2, <2>3, <2>4
<1>2. (\A i \in Instances : phase[i] = "gone") => entries = 0
  <2> HAVE \A i \in Instances : phase[i] = "gone"
  <2>1. Users = {}
    BY DEF Users, Uses
  <2> QED BY <2>1, FS_EmptySet DEF CallsInv, EntryCounted
<1> QED BY <1>1, <1>2 DEF Clap!CallsAreBalanced
-----------------------------------------------------------------------------
(* CLAP instruments: the events of a block *)

\* Induction over the naturals, for the set of those that have a property.
LEMMA Induction ==
  ASSUME NEW S, 0 \in S, \A n \in Nat : n \in S => n + 1 \in S
  PROVE  Nat \subseteq S
<1> SUFFICES ASSUME NEW T, T = Nat \ S, T # {} PROVE FALSE
  OBVIOUS
<1>1. PICK m \in T : \A k \in T : ~(<<k, m>> \in OpToRel(<, Nat))
  BY NatLessThanWellFounded, WFMin
<1>2. m \in Nat /\ m # 0
  OBVIOUS
<1>3. m - 1 \in Nat /\ m - 1 \notin S
  BY <1>2
<1>4. <<m - 1, m>> \in OpToRel(<, Nat)
  BY <1>2, <1>3 DEF OpToRel
<1> QED BY <1>1, <1>3, <1>4

\* The recursion that FlattenSeq is defined by
Joins(ss, f, n) == \A i \in 1..n : f[i] = IF i = 1 THEN ss[i] ELSE f[i - 1] \o ss[i]

LEMMA JoinsExist ==
  ASSUME NEW S, NEW ss \in Seq(Seq(S))
  PROVE  \E f \in [1..Len(ss) -> Seq(S)] : Joins(ss, f, Len(ss))
<1> DEFINE N == {n \in Nat : n <= Len(ss) => \E f \in [1..n -> Seq(S)] : Joins(ss, f, n)}
<1>0. Len(ss) \in Nat /\ \A i \in 1..Len(ss) : ss[i] \in Seq(S)
  BY LenProperties, ElementOfSeq
<1>1. 0 \in N
  <2> DEFINE f == [i \in 1..0 |-> <<>>]
  <2>1. f \in [1..0 -> Seq(S)] /\ Joins(ss, f, 0)
    BY DEF Joins
  <2> QED BY <2>1
<1>2. ASSUME NEW n \in Nat, n \in N PROVE n + 1 \in N
  <2> SUFFICES ASSUME n + 1 <= Len(ss) PROVE \E f \in [1..(n + 1) -> Seq(S)] : Joins(ss, f, n + 1)
    OBVIOUS
  <2>1. PICK f \in [1..n -> Seq(S)] : Joins(ss, f, n)
    BY <1>0, <1>2
  <2> DEFINE last == IF n = 0 THEN ss[1] ELSE f[n] \o ss[n + 1]
             g == [i \in 1..(n + 1) |-> IF i = n + 1 THEN last ELSE f[i]]
  <2>2. last \in Seq(S)
    <3>1. CASE n = 0
      BY <1>0, <3>1
    <3>2. CASE n # 0
      BY <1>0, <3>2, ConcatProperties
    <3> QED BY <3>1, <3>2
  <2>3. g \in [1..(n + 1) -> Seq(S)]
    BY <2>2
  <2>4. Joins(ss, g, n + 1)
    <3> SUFFICES ASSUME NEW i \in 1..(n + 1)
                 PROVE  g[i] = IF i = 1 THEN ss[i] ELSE g[i - 1] \o ss[i]
      BY DEF Joins
    <3>1. CASE i = n + 1
      <4>1. g[i] = last /\ (n # 0 => g[n] = f[n])
        BY <3>1
      <4> QED BY <3>1, <4>1
    <3>2. CASE i # n + 1
      <4>1. i \in 1..n /\ g[i] = f[i] /\ (i # 1 => g[i - 1] = f[i - 1])
        BY <3>2
      <4> QED BY <2>1, <4>1 DEF Joins
    <3> QED BY <3>1, <3>2
  <2> QED BY <2>3, <2>4
<1>3. Nat \subseteq N
  BY <1>1, <1>2, Induction
<1> QED BY <1>0, <1>3

LEMMA FlattenJoins ==
  ASSUME NEW S, NEW ss \in Seq(Seq(S)), Len(ss) # 0
  PROVE  \E f : Joins(ss, f, Len(ss)) /\ Clap!FlattenSeq(ss) = f[Len(ss)]
<1> DEFINE flatten[i \in 1..Len(ss)] == IF i = 1 THEN ss[i] ELSE flatten[i-1] \o ss[i]
<1>1. Clap!FlattenSeq(ss) = flatten[Len(ss)]
  BY DEF Clap!FlattenSeq
<1>2. flatten = CHOOSE f : f = [i \in 1..Len(ss) |-> IF i = 1 THEN ss[i] ELSE f[i - 1] \o ss[i]]
  BY DEF flatten
<1>3. PICK g \in [1..Len(ss) -> Seq(S)] : Joins(ss, g, Len(ss))
  BY JoinsExist
<1>4. g = [i \in 1..Len(ss) |-> IF i = 1 THEN ss[i] ELSE g[i - 1] \o ss[i]]
  BY <1>3 DEF Joins
<1> HIDE DEF flatten
<1>5. flatten = [i \in 1..Len(ss) |-> IF i = 1 THEN ss[i] ELSE flatten[i - 1] \o ss[i]]
  BY <1>2, <1>4
<1>6. Joins(ss, flatten, Len(ss))
  BY <1>5 DEF Joins
<1> QED BY <1>1, <1>6

ClapEvents == [on : BOOLEAN, pitch : Pitches, offset : Nat]

\* Sorted by offset, none later than the last
IsSorted(es, last) ==
  /\ es \in Seq(ClapEvents)
  /\ \A j, k \in DOMAIN es : j < k => es[j].offset <= es[k].offset
  /\ \A j \in DOMAIN es : es[j].offset <= last

\* What is sorted stays as it is: the sort is stable.
LEMMA SortedStays ==
  ASSUME NEW es, NEW last, IsSorted(es, last)
  PROVE  Clap!ByOffset(es) = es
<1>1. Len(es) \in Nat /\ DOMAIN es = 1..Len(es) /\ es \in [1..Len(es) -> ClapEvents]
  BY LenProperties DEF IsSorted
<1>2. \A k \in DOMAIN es : es[k].offset \in Nat
  BY <1>1 DEF ClapEvents
<1>3. ASSUME NEW k \in DOMAIN es PROVE Clap!Place(es, k) = k
  <2> DEFINE before == {j \in DOMAIN es : \/ es[j].offset < es[k].offset
                                          \/ es[j].offset = es[k].offset /\ j <= k}
  <2>1. \A j \in DOMAIN es : j \in before <=> j <= k
    <3> TAKE j \in DOMAIN es
    <3>1. j \in Nat /\ k \in Nat /\ es[j].offset \in Nat /\ es[k].offset \in Nat
      BY <1>1, <1>2
    <3>2. CASE j = k
      BY <3>1, <3>2
    <3>3. CASE j < k
      <4>1. es[j].offset <= es[k].offset
        BY <3>3 DEF IsSorted
      <4> QED BY <3>1, <3>3, <4>1
    <3>4. CASE k < j
      <4>1. es[k].offset <= es[j].offset
        BY <3>4 DEF IsSorted
      <4> QED BY <3>1, <3>4, <4>1
    <3> QED BY <3>1, <3>2, <3>3, <3>4
  <2>2. before \subseteq DOMAIN es
    OBVIOUS
  <2>3. Clap!Place(es, k) = Cardinality(before)
    BY SameFinite DEF Clap!Place
  <2> HIDE DEF before
  <2>4. before = 1..k
    <3>1. \A j \in 1..k : j \in DOMAIN es /\ j <= k
      BY <1>1
    <3>2. \A j \in DOMAIN es : j <= k => j \in 1..k
      BY <1>1
    <3> QED BY <2>1, <2>2, <3>1, <3>2
  <2>5. Cardinality(1..k) = k
    BY <1>1, FS_Interval
  <2> QED BY <2>3, <2>4, <2>5
<1>4. \A n \in DOMAIN es : (CHOOSE k \in DOMAIN es : Clap!Place(es, k) = n) = n
  BY <1>3
<1>5. Clap!ByOffset(es) = [n \in DOMAIN es |-> es[n]]
  <2> DEFINE Which(n) == CHOOSE k \in DOMAIN es : Clap!Place(es, k) = n
  <2>1. Clap!ByOffset(es) = [n \in DOMAIN es |-> es[Which(n)]]
    BY DEF Clap!ByOffset
  <2>2. \A n \in DOMAIN es : Which(n) = n
    BY <1>4
  <2> HIDE DEF Which
  <2> QED BY <2>1, <2>2
<1> QED BY <1>1, <1>5

LEMMA LastIs ==
  ASSUME NEW S, S \subseteq Nat, NEW m \in S, \A j \in S : j <= m
  PROVE  Clap!LastOf(S) = m
<1>1. Clap!LastOf(S) \in S /\ \A j \in S : j <= Clap!LastOf(S)
  BY DEF Clap!LastOf
<1>2. \A a, b \in Nat : a <= b /\ b <= a => a = b
  OBVIOUS
<1> QED BY <1>1, <1>2

LEMMA LastIn ==
  ASSUME NEW S, S \subseteq Nat, S # {}, NEW b \in Nat, \A j \in S : j <= b
  PROVE  Clap!LastOf(S) \in S /\ \A j \in S : j <= Clap!LastOf(S)
<1>1. \E v \in S : \A w \in S : w <= v
  BY HasGreatest
<1> QED BY <1>1 DEF Clap!LastOf

\* The list of all keys has every key.
LEMMA AllKeys ==
  /\ Clap!SetToSeq(Pitches) \in Seq(Pitches)
  /\ \A p \in Pitches : \E k \in DOMAIN Clap!SetToSeq(Pitches) : Clap!SetToSeq(Pitches)[k] = p
<1> DEFINE n == Cardinality(Pitches)
           Lists == {f \in [1..n -> Pitches] : Clap!IsInjective(f)}
<1>1. n \in Nat /\ IsFiniteSet(Pitches) /\ Bijection(1..n, Pitches) # {}
  BY InstrumentsAssumption, FS_CardinalityType DEF ExistsBijection
<1>2. Clap!SetToSeq(Pitches) = CHOOSE f \in [1..n -> Pitches] : Clap!IsInjective(f)
  BY SameFinite DEF Clap!SetToSeq
<1>3. \E f \in [1..n -> Pitches] : Clap!IsInjective(f)
  <2>1. PICK f \in Bijection(1..n, Pitches) : TRUE
    BY <1>1
  <2>2. f \in [1..n -> Pitches] /\ Clap!IsInjective(f)
    BY <2>1 DEF Bijection, Injection, IsInjective, Clap!IsInjective
  <2> QED BY <2>2
<1>4. PICK f : /\ f = Clap!SetToSeq(Pitches)
               /\ f \in [1..n -> Pitches] /\ Clap!IsInjective(f)
  BY <1>2, <1>3
<1>5. f \in Injection(1..n, Pitches)
  BY <1>4 DEF Injection, IsInjective, Clap!IsInjective
<1>6. Cardinality(1..n) = n
  BY <1>1, FS_Interval
<1> HIDE DEF n
<1>7. f \in Surjection(1..n, Pitches)
  <2>1. Cardinality(Pitches) = n
    BY DEF n
  <2> QED BY <1>1, <1>5, <1>6, <2>1, FS_Injection
<1>8. f \in Seq(Pitches) /\ DOMAIN f = 1..n
  BY <1>1, <1>4
<1>9. \A p \in Pitches : \E k \in 1..n : f[k] = p
  BY <1>7 DEF Surjection
<1> QED BY <1>4, <1>8, <1>9

\* The events of a note
OwnEvents(es, p) == {k \in DOMAIN es : es[k].pitch = p}
OnBy(held, es, p) ==
  IF OwnEvents(es, p) = {} THEN p \in held ELSE es[Clap!LastOf(OwnEvents(es, p))].on

\* The notes of a block that concern a key, up to one of them
OwnNotes(midi, n, p) == {k \in 1..n : midi[k].kind = "all" \/ midi[k].pitch = p}
DownBy(held, midi, n, p) ==
  IF OwnNotes(midi, n, p) = {} THEN p \in held
  ELSE midi[Clap!LastOf(OwnNotes(midi, n, p))].kind = "on"

\* One note of a block: its events are at its time, and turn a key on or off
\* that it concerns.
LEMMA NoteIsPlayed ==
  ASSUME NEW ev \in Clap!MidiEvents
  PROVE  /\ Clap!NoteEvents(ev) \in Seq(ClapEvents)
         /\ \A k \in DOMAIN Clap!NoteEvents(ev) :
              /\ Clap!NoteEvents(ev)[k].offset = ev.offset
              /\ Clap!NoteEvents(ev)[k].on <=> ev.kind = "on"
         /\ \A p \in Pitches : OwnEvents(Clap!NoteEvents(ev), p) # {}
                                 <=> ev.kind = "all" \/ ev.pitch = p
<1>1. ev.kind \in {"on", "off", "all"} /\ ev.pitch \in Pitches /\ ev.offset \in Nat
  BY DEF Clap!MidiEvents
<1>2. CASE ev.kind \in {"on", "off"}
  <2> DEFINE e == [on |-> (ev.kind = "on"), pitch |-> ev.pitch, offset |-> ev.offset]
  <2>1. Clap!NoteEvents(ev) = <<e>>
    <3>1. CASE ev.kind = "on"
      BY <3>1 DEF Clap!NoteEvents, Clap!Event
    <3>2. CASE ev.kind = "off"
      BY <3>2 DEF Clap!NoteEvents, Clap!Event
    <3> QED BY <1>2, <3>1, <3>2
  <2>2. e \in ClapEvents
    BY <1>1 DEF ClapEvents
  <2>3. <<e>> \in Seq(ClapEvents) /\ DOMAIN <<e>> = {1} /\ <<e>>[1] = e
    BY <2>2
  <2>4. e.offset = ev.offset /\ (e.on <=> ev.kind = "on") /\ e.pitch = ev.pitch
    OBVIOUS
  <2> HIDE DEF e
  <2>5. \A p : OwnEvents(<<e>>, p) # {} <=> ev.pitch = p
    BY <2>3, <2>4 DEF OwnEvents
  <2> QED BY <1>2, <2>1, <2>3, <2>4, <2>5
<1>3. CASE ev.kind = "all"
  <2> DEFINE s == Clap!SetToSeq(Pitches)
             es == [k \in DOMAIN s |-> [on |-> FALSE, pitch |-> s[k], offset |-> ev.offset]]
  <2>1. Clap!NoteEvents(ev) = es
    BY <1>3 DEF Clap!NoteEvents, Clap!Event
  <2>2. Len(s) \in Nat /\ DOMAIN s = 1..Len(s) /\ \A k \in DOMAIN s : s[k] \in Pitches
    BY AllKeys, LenProperties, ElementOfSeq
  <2>3. \A p \in Pitches : \E k \in DOMAIN s : s[k] = p
    BY AllKeys
  <2> HIDE DEF s
  <2>4. es \in Seq(ClapEvents) /\ DOMAIN es = DOMAIN s
    <3>1. \A k \in 1..Len(s) :
            [on |-> FALSE, pitch |-> s[k], offset |-> ev.offset] \in ClapEvents
      BY <1>1, <2>2 DEF ClapEvents
    <3>2. es \in [1..Len(s) -> ClapEvents]
      BY <2>2, <3>1
    <3> QED BY <2>2, <3>2
  <2>5. \A k \in DOMAIN s : es[k].offset = ev.offset /\ es[k].on = FALSE /\ es[k].pitch = s[k]
    OBVIOUS
  <2> HIDE DEF es
  <2>6. \A p \in Pitches : OwnEvents(es, p) # {}
    BY <2>3, <2>4, <2>5 DEF OwnEvents
  <2> QED BY <1>3, <2>1, <2>4, <2>5, <2>6
<1> QED BY <1>1, <1>2, <1>3

\* With more events behind, a key is on by those if they concern it.
LEMMA OnByJoined ==
  ASSUME NEW a \in Seq(ClapEvents), NEW b \in Seq(ClapEvents), NEW held, NEW p
  PROVE  OnBy(held, a \o b, p) =
           IF OwnEvents(b, p) = {} THEN OnBy(held, a, p)
           ELSE b[Clap!LastOf(OwnEvents(b, p))].on
<1> DEFINE c == a \o b
           m == Len(a)
           n == Len(b)
<1>1. m \in Nat /\ n \in Nat /\ DOMAIN a = 1..m /\ DOMAIN b = 1..n
  BY LenProperties
<1>2. /\ c \in Seq(ClapEvents) /\ Len(c) = m + n
      /\ \A i \in 1..(m + n) : c[i] = IF i <= m THEN a[i] ELSE b[i - m]
  BY ConcatProperties
<1>3. DOMAIN c = 1..(m + n)
  BY <1>2, LenProperties
<1> HIDE DEF c, m, n
<1>4. \A k \in 1..m : k \in 1..(m + n) /\ c[k] = a[k]
  BY <1>1, <1>2
<1>5. \A k \in 1..n : m + k \in 1..(m + n) /\ c[m + k] = b[k]
  BY <1>1, <1>2
<1>6. \A k \in 1..(m + n) : k \in 1..m \/ \E l \in 1..n : k = m + l
  <2> TAKE k \in 1..(m + n)
  <2>1. CASE k <= m
    BY <1>1, <2>1
  <2>2. CASE ~(k <= m)
    <3>1. k - m \in 1..n /\ k = m + (k - m)
      BY <1>1, <2>2
    <3> QED BY <3>1
  <2> QED BY <2>1, <2>2
<1>7. OwnEvents(a, p) \subseteq 1..m /\ OwnEvents(b, p) \subseteq 1..n
        /\ OwnEvents(c, p) \subseteq 1..(m + n)
  BY <1>1, <1>3 DEF OwnEvents
<1>8. CASE OwnEvents(b, p) = {}
  <2>1. OwnEvents(c, p) = OwnEvents(a, p)
    <3>1. ASSUME NEW k \in OwnEvents(a, p) PROVE k \in OwnEvents(c, p)
      BY <1>1, <1>3, <1>4 DEF OwnEvents
    <3>2. ASSUME NEW k \in OwnEvents(c, p) PROVE k \in OwnEvents(a, p)
      <4>1. k \in 1..(m + n) /\ c[k].pitch = p
        BY <1>3 DEF OwnEvents
      <4>2. CASE k \in 1..m
        BY <1>1, <1>4, <4>1, <4>2 DEF OwnEvents
      <4>3. ASSUME NEW l \in 1..n, k = m + l PROVE FALSE
        <5>1. b[l].pitch = p
          BY <1>5, <4>1, <4>3
        <5> QED BY <1>1, <1>8, <5>1 DEF OwnEvents
      <4> QED BY <1>6, <4>1, <4>2, <4>3
    <3> QED BY <3>1, <3>2
  <2>2. OwnEvents(a, p) # {} => Clap!LastOf(OwnEvents(a, p)) \in OwnEvents(a, p)
    <3>1. OwnEvents(a, p) \subseteq Nat /\ \A j \in OwnEvents(a, p) : j <= m
      BY <1>1, <1>7
    <3> QED BY <1>1, <3>1, LastIn
  <2> QED BY <1>4, <1>7, <1>8, <2>1, <2>2 DEF OnBy, c
<1>9. CASE OwnEvents(b, p) # {}
  <2> DEFINE l == Clap!LastOf(OwnEvents(b, p))
  <2>1. l \in OwnEvents(b, p) /\ \A j \in OwnEvents(b, p) : j <= l
    <3>1. OwnEvents(b, p) \subseteq Nat /\ \A j \in OwnEvents(b, p) : j <= n
      BY <1>1, <1>7
    <3> QED BY <1>1, <1>9, <3>1, LastIn
  <2>2. l \in 1..n /\ b[l].pitch = p
    BY <1>1, <2>1 DEF OwnEvents
  <2> HIDE DEF l
  <2>3. m + l \in OwnEvents(c, p)
    BY <1>3, <1>5, <2>2 DEF OwnEvents
  <2>4. ASSUME NEW j \in OwnEvents(c, p) PROVE j <= m + l
    <3>1. CASE j \in 1..m
      BY <1>1, <2>2, <3>1
    <3>2. CASE j \notin 1..m
      <4>1. PICK i \in 1..n : j = m + i
        BY <1>6, <1>7, <3>2
      <4>2. i \in OwnEvents(b, p)
        BY <1>1, <1>5, <4>1 DEF OwnEvents
      <4> QED BY <1>1, <2>1, <2>2, <4>1, <4>2
    <3> QED BY <3>1, <3>2
  <2>5. OwnEvents(c, p) \subseteq Nat
    BY <1>1, <1>7
  <2>6. Clap!LastOf(OwnEvents(c, p)) = m + l
    BY <2>3, <2>4, <2>5, LastIs
  <2>7. OnBy(held, c, p) = b[l].on
    BY <1>5, <2>2, <2>3, <2>6 DEF OnBy
  <2> QED BY <1>9, <2>7 DEF c, l
<1> QED BY <1>8, <1>9

LEMMA DownByNext ==
  ASSUME NEW midi, NEW n \in Nat, NEW held, NEW p
  PROVE  DownBy(held, midi, n + 1, p) =
           IF midi[n + 1].kind = "all" \/ midi[n + 1].pitch = p THEN midi[n + 1].kind = "on"
           ELSE DownBy(held, midi, n, p)
<1>0. \A k \in Nat : k \in 1..(n + 1) <=> k \in 1..n \/ k = n + 1
  OBVIOUS
<1>1. n + 1 \in 1..(n + 1) /\ n + 1 \in Nat /\ n + 1 \notin 1..n /\ 1..(n + 1) \subseteq Nat
  OBVIOUS
<1>2. CASE midi[n + 1].kind = "all" \/ midi[n + 1].pitch = p
  <2>1. n + 1 \in OwnNotes(midi, n + 1, p) /\ OwnNotes(midi, n + 1, p) \subseteq 1..(n + 1)
    BY <1>1, <1>2 DEF OwnNotes
  <2>2. OwnNotes(midi, n + 1, p) \subseteq Nat /\ \A j \in OwnNotes(midi, n + 1, p) : j <= n + 1
    BY <2>1
  <2>3. Clap!LastOf(OwnNotes(midi, n + 1, p)) = n + 1
    BY <2>1, <2>2, LastIs
  <2> QED BY <1>2, <2>1, <2>3 DEF DownBy
<1>3. CASE ~(midi[n + 1].kind = "all" \/ midi[n + 1].pitch = p)
  <2>1. OwnNotes(midi, n + 1, p) = OwnNotes(midi, n, p)
    BY <1>0, <1>1, <1>3 DEF OwnNotes
  <2> QED BY <1>3, <2>1 DEF DownBy
<1> QED BY <1>2, <1>3

\* What the first n notes of a block have been turned into
Played(midi, es, n, held) ==
  /\ IsSorted(es, midi[n].offset)
  /\ \A p \in Pitches : OnBy(held, es, p) <=> DownBy(held, midi, n, p)

LEMMA PlayedNext ==
  ASSUME NEW midi, Clap!IsBlock(midi), NEW n \in Nat, n + 1 \in DOMAIN midi, NEW held,
         NEW es, es \in Seq(ClapEvents),
         n = 0 => es = <<>>, n # 0 => Played(midi, es, n, held),
         NEW part, part = Clap!NoteEvents(midi[n + 1])
  PROVE  es \o part \in Seq(ClapEvents) /\ Played(midi, es \o part, n + 1, held)
<1>1. /\ Len(midi) \in Nat /\ DOMAIN midi = 1..Len(midi)
      /\ \A k \in DOMAIN midi : midi[k] \in Clap!MidiEvents /\ midi[k].offset \in Nat
  <2>1. midi \in Seq(Clap!MidiEvents)
    BY DEF Clap!IsBlock
  <2>2. /\ Len(midi) \in Nat /\ DOMAIN midi = 1..Len(midi)
        /\ \A k \in DOMAIN midi : midi[k] \in Clap!MidiEvents
    BY <2>1, LenProperties, ElementOfSeq
  <2>3. \A ev \in Clap!MidiEvents : ev.offset \in Nat
    BY DEF Clap!MidiEvents
  <2> QED BY <2>2, <2>3
<1> DEFINE last == midi[n + 1].offset
<1>2. /\ part \in Seq(ClapEvents) /\ last \in Nat
      /\ \A k \in DOMAIN part :
           part[k].offset = last /\ (part[k].on <=> midi[n + 1].kind = "on")
      /\ \A p \in Pitches : OwnEvents(part, p) # {}
                              <=> midi[n + 1].kind = "all" \/ midi[n + 1].pitch = p
  BY <1>1, NoteIsPlayed
<1>3. /\ \A j, k \in DOMAIN es : j < k => es[j].offset <= es[k].offset
      /\ \A j \in DOMAIN es : es[j].offset <= last
  <2>1. CASE n = 0
    <3>1. DOMAIN es = {}
      BY <2>1
    <3> QED BY <3>1
  <2>2. CASE n # 0
    <3>1. n \in DOMAIN midi /\ n < n + 1
      BY <1>1, <2>2
    <3>2. midi[n].offset <= last /\ midi[n].offset \in Nat /\ last \in Nat
      BY <1>1, <3>1 DEF Clap!IsBlock
    <3>3. IsSorted(es, midi[n].offset)
      BY <2>2 DEF Played
    <3>4. \A j \in DOMAIN es : es[j].offset \in Nat
      <4>1. \A j \in DOMAIN es : es[j] \in ClapEvents
        BY LenProperties, ElementOfSeq
      <4> QED BY <4>1 DEF ClapEvents
    <3> HIDE DEF last
    <3>5. \A j \in DOMAIN es : es[j].offset <= last
      BY <3>2, <3>3, <3>4 DEF IsSorted
    <3> QED BY <3>3, <3>5 DEF IsSorted
  <2> QED BY <2>1, <2>2
<1> HIDE DEF last
<1>4. /\ Len(es) \in Nat /\ DOMAIN es = 1..Len(es)
      /\ Len(part) \in Nat /\ DOMAIN part = 1..Len(part)
  BY <1>2, LenProperties
<1>5. /\ es \o part \in Seq(ClapEvents) /\ Len(es \o part) = Len(es) + Len(part)
      /\ \A i \in 1..(Len(es) + Len(part)) :
           (es \o part)[i] = IF i <= Len(es) THEN es[i] ELSE part[i - Len(es)]
  BY <1>2, ConcatProperties
<1> DEFINE c == es \o part
<1>6. DOMAIN c = 1..(Len(es) + Len(part))
  BY <1>5, LenProperties
<1>7. \A i \in DOMAIN c : \/ i \in DOMAIN es /\ c[i] = es[i]
                          \/ i > Len(es) /\ c[i].offset = last
  <2> TAKE i \in DOMAIN c
  <2>1. CASE i <= Len(es)
    BY <1>4, <1>5, <1>6, <2>1
  <2>2. CASE ~(i <= Len(es))
    <3>1. i - Len(es) \in DOMAIN part /\ c[i] = part[i - Len(es)]
      BY <1>4, <1>5, <1>6, <2>2
    <3> QED BY <1>2, <1>4, <1>6, <2>2, <3>1
  <2> QED BY <2>1, <2>2
<1>8. c \in Seq(ClapEvents)
  BY <1>5
<1> HIDE DEF c
<1>9. IsSorted(c, last)
  <2>1. ASSUME NEW j \in DOMAIN c PROVE c[j].offset <= last
    BY <1>2, <1>3, <1>7
  <2>2. ASSUME NEW j \in DOMAIN c, NEW k \in DOMAIN c, j < k PROVE c[j].offset <= c[k].offset
    <3>1. CASE k \in DOMAIN es /\ c[k] = es[k]
      <4>1. j \in DOMAIN es /\ c[j] = es[j]
        BY <1>4, <1>6, <1>7, <2>2, <3>1
      <4> QED BY <1>3, <2>2, <3>1, <4>1
    <3>2. CASE c[k].offset = last
      BY <2>1, <3>2
    <3> QED BY <1>7, <3>1, <3>2
  <2> QED BY <1>8, <2>1, <2>2 DEF IsSorted
<1>10. ASSUME NEW p \in Pitches PROVE OnBy(held, c, p) <=> DownBy(held, midi, n + 1, p)
  <2>1. OnBy(held, c, p) = IF OwnEvents(part, p) = {} THEN OnBy(held, es, p)
                           ELSE part[Clap!LastOf(OwnEvents(part, p))].on
    BY <1>2, OnByJoined DEF c
  <2>2. OnBy(held, es, p) <=> DownBy(held, midi, n, p)
    <3>1. CASE n = 0
      <4>1. OwnEvents(es, p) = {} /\ OwnNotes(midi, n, p) = {}
        BY <3>1 DEF OwnEvents, OwnNotes
      <4> QED BY <4>1 DEF OnBy, DownBy
    <3>2. CASE n # 0
      BY <3>2 DEF Played
    <3> QED BY <3>1, <3>2
  <2>3. CASE OwnEvents(part, p) = {}
    <3>1. ~(midi[n + 1].kind = "all" \/ midi[n + 1].pitch = p)
      BY <1>2, <2>3
    <3> QED BY <2>1, <2>2, <2>3, <3>1, DownByNext
  <2>4. CASE OwnEvents(part, p) # {}
    <3>1. midi[n + 1].kind = "all" \/ midi[n + 1].pitch = p
      BY <1>2, <2>4
    <3>2. DownBy(held, midi, n + 1, p) <=> midi[n + 1].kind = "on"
      BY <3>1, DownByNext
    <3>3. OwnEvents(part, p) \subseteq DOMAIN part
      BY DEF OwnEvents
    <3>4. Clap!LastOf(OwnEvents(part, p)) \in DOMAIN part
      <4>1. OwnEvents(part, p) \subseteq Nat /\ \A j \in OwnEvents(part, p) : j <= Len(part)
        BY <1>4, <3>3
      <4> QED BY <1>4, <2>4, <3>3, <4>1, LastIn
    <3>5. part[Clap!LastOf(OwnEvents(part, p))].on <=> midi[n + 1].kind = "on"
      BY <1>2, <3>4
    <3> QED BY <2>1, <2>4, <3>2, <3>5
  <2> QED BY <2>3, <2>4
<1> QED BY <1>8, <1>9, <1>10 DEF Played, c, last

\* A block is played as its events say.
LEMMA BlockIsPlayed ==
  ASSUME NEW midi, Clap!IsBlock(midi), NEW held
  PROVE  Clap!Press(held, Clap!FillEvents(midi)) = Clap!Follow(held, midi)
<1> DEFINE parts == [k \in DOMAIN midi |-> Clap!NoteEvents(midi[k])]
           es == Clap!FlattenSeq(parts)
           len == Len(midi)
<1>1. /\ len \in Nat /\ DOMAIN midi = 1..len
      /\ \A k \in DOMAIN midi : midi[k] \in Clap!MidiEvents
  BY LenProperties, ElementOfSeq DEF Clap!IsBlock
<1>2. \A k \in DOMAIN midi : parts[k] = Clap!NoteEvents(midi[k]) /\ parts[k] \in Seq(ClapEvents)
  BY <1>1, NoteIsPlayed
<1>3. parts \in Seq(Seq(ClapEvents)) /\ Len(parts) = len
  <2>1. parts \in [1..len -> Seq(ClapEvents)]
    BY <1>1, <1>2
  <2> QED BY <1>1, <2>1
<1>4. Clap!FillEvents(midi) = Clap!ByOffset(es)
  BY DEF Clap!FillEvents
<1>5. Clap!Press(held, es) = {p \in Pitches : OnBy(held, es, p)}
  BY DEF Clap!Press, OnBy, OwnEvents
<1>6. Clap!Follow(held, midi) = {p \in Pitches : DownBy(held, midi, len, p)}
  BY <1>1 DEF Clap!Follow, DownBy, OwnNotes
<1>7. /\ \E last : IsSorted(es, last)
      /\ \A p \in Pitches : OnBy(held, es, p) <=> DownBy(held, midi, len, p)
  <2>1. CASE len = 0
    <3>1. parts = <<>>
      BY <1>3, <2>1, EmptySeq
    <3>2. es = <<>>
      BY <1>3, <2>1, <3>1 DEF Clap!FlattenSeq
    <3> HIDE DEF es, parts
    <3>3. IsSorted(<<>>, 0)
      BY EmptySeq DEF IsSorted
    <3>4. \A p : OwnEvents(<<>>, p) = {} /\ OwnNotes(midi, 0, p) = {}
      BY DEF OwnEvents, OwnNotes
    <3> QED BY <2>1, <3>2, <3>3, <3>4 DEF OnBy, DownBy
  <2>2. CASE len # 0
    <3>1. PICK f : Joins(parts, f, len) /\ es = f[len]
      BY <1>3, <2>2, FlattenJoins
    <3> HIDE DEF es, parts, len
    <3> DEFINE N == {n \in Nat : n + 1 \in DOMAIN midi =>
                       f[n + 1] \in Seq(ClapEvents) /\ Played(midi, f[n + 1], n + 1, held)}
    <3>2. 0 \in N
      <4> SUFFICES f[1] \in Seq(ClapEvents) /\ Played(midi, f[1], 1, held)
        OBVIOUS
      <4>1. f[1] = parts[1] /\ 1 \in DOMAIN midi
        BY <1>1, <2>2, <3>1 DEF Joins
      <4>2. parts[1] = Clap!NoteEvents(midi[0 + 1]) /\ parts[1] \in Seq(ClapEvents)
        BY <1>2, <4>1
      <4>3. /\ <<>> \o parts[1] \in Seq(ClapEvents)
            /\ Played(midi, <<>> \o parts[1], 0 + 1, held)
        <5>1. /\ 0 \in Nat /\ 0 + 1 \in DOMAIN midi /\ <<>> \in Seq(ClapEvents)
              /\ 0 # 0 => Played(midi, <<>>, 0, held)
          BY <4>1, EmptySeq
        <5>2. parts[1] = Clap!NoteEvents(midi[0 + 1])
          BY <4>2
        <5> QED BY <5>1, <5>2, PlayedNext
      <4>4. <<>> \o parts[1] = parts[1]
        BY <4>2, ConcatEmptySeq
      <4>5. 0 + 1 = 1
        OBVIOUS
      <4> QED BY <4>1, <4>3, <4>4, <4>5
    <3>3. ASSUME NEW n \in Nat, n \in N PROVE n + 1 \in N
      <4> SUFFICES ASSUME NEW m, m = n + 1, m + 1 \in DOMAIN midi
                   PROVE  f[m + 1] \in Seq(ClapEvents) /\ Played(midi, f[m + 1], m + 1, held)
        OBVIOUS
      <4>1. m \in Nat /\ m # 0 /\ m \in DOMAIN midi /\ m + 1 \in 1..len /\ m + 1 # 1
              /\ (m + 1) - 1 = m
        BY <1>1
      <4>2. f[m] \in Seq(ClapEvents) /\ Played(midi, f[m], m, held)
        BY <3>3, <4>1
      <4>3. f[m + 1] = f[m] \o parts[m + 1]
        BY <3>1, <4>1 DEF Joins
      <4>4. parts[m + 1] = Clap!NoteEvents(midi[m + 1])
        BY <1>2
      <4> QED BY <4>1, <4>2, <4>3, <4>4, PlayedNext
    <3>4. Nat \subseteq N
      BY <3>2, <3>3, Induction
    <3>5. len - 1 \in N /\ (len - 1) + 1 = len /\ len \in DOMAIN midi
      BY <1>1, <2>2, <3>4
    <3>6. Played(midi, es, len, held)
      BY <3>1, <3>5
    <3> QED BY <3>6 DEF Played
  <2> QED BY <2>1, <2>2
<1> HIDE DEF es, parts, len
<1>8. Clap!ByOffset(es) = es
  BY <1>7, SortedStays
<1> QED BY <1>4, <1>5, <1>6, <1>7, <1>8

LEMMA KeysKept == Clap!KeysFollowEvents /\ [Clap!Next]_clapVars => Clap!KeysFollowEvents'
<1> SUFFICES ASSUME keys = played, [Clap!Next]_clapVars PROVE keys' = played'
  BY DEF Clap!KeysFollowEvents
<1>1. ASSUME NEW i \in Instances, NEW midi \in Midi, Clap!Process(i, midi)
      PROVE  keys' = played'
  <2>1. Clap!IsBlock(midi)
    BY InstrumentsAssumption
  <2>2. Clap!Press(keys[i], Clap!FillEvents(midi)) = Clap!Follow(played[i], midi)
    BY <2>1, BlockIsPlayed
  <2> QED BY <1>1, <2>2 DEF Clap!Process
<1>2. ASSUME NEW i \in Instances,
             \/ Clap!Open(i) \/ Clap!Succeeds(i) \/ Clap!Starts(i) \/ Clap!Fails(i)
             \/ Clap!Misses(i) \/ Clap!Drop(i) \/ Clap!Undo(i)
      PROVE  keys' = played'
  BY <1>2 DEF Clap!Open, Clap!Succeeds, Clap!Starts, Clap!Fails, Clap!Misses, Clap!Drop, Clap!Undo
<1>3. CASE UNCHANGED clapVars
  BY <1>3 DEF clapVars
<1> QED BY <1>1, <1>2, <1>3 DEF Clap!Next
-----------------------------------------------------------------------------
(* The instruments together *)

InstrumentsInv ==
  /\ kind \in Kinds
  /\ SynthInv /\ HeldInv
  /\ DrumsInv
  /\ CallsInv /\ Clap!KeysFollowEvents

LEMMA InstrumentsBegin == Init => InstrumentsInv
<1> SUFFICES ASSUME Init PROVE InstrumentsInv
  OBVIOUS
<1>1. Synth!Init /\ Drums!Init /\ Clap!Init /\ kind \in Kinds
  BY DEF Init
<1>2. Clap!KeysFollowEvents
  BY <1>1 DEF Clap!Init, Clap!KeysFollowEvents
<1> QED
  BY <1>1, <1>2, SynthBegins, HeldBegins, DrumsBegin, CallsBegin DEF InstrumentsInv

\* A step is one of the instrument that a track has; the others stay.
LEMMA InstrumentsKept == InstrumentsInv /\ [Next]_vars => InstrumentsInv'
<1> SUFFICES ASSUME InstrumentsInv, [Next]_vars PROVE InstrumentsInv'
  OBVIOUS
<1>1. /\ [Synth!Next]_synthVars /\ [Drums!Next]_drumVars /\ [Clap!Next]_clapVars
      /\ kind' = kind
  BY DEF Next, vars
<1>2. SynthInv'
  BY <1>1, SynthKept DEF InstrumentsInv
<1>3. HeldInv'
  BY <1>1, <1>2, HeldKept DEF InstrumentsInv
<1>4. DrumsInv'
  BY <1>1, DrumsKept DEF InstrumentsInv
<1>5. CallsInv' /\ Clap!KeysFollowEvents'
  BY <1>1, CallsKept, KeysKept DEF InstrumentsInv
<1> QED BY <1>1, <1>2, <1>3, <1>4, <1>5 DEF InstrumentsInv

LEMMA InstrumentsInvHolds == Spec => []InstrumentsInv
  BY InstrumentsBegin, InstrumentsKept, PTL DEF Spec

\* Voices, triggers and the phases of instances have their types: none counts
\* past the life of a hit by more than a sample, the entry never below zero
\* (instruments.rs trigger; plugin.rs load, drop).
THEOREM InstrumentTypes == Spec => []TypeOK
<1>1. InstrumentsInv => TypeOK
  BY DEF InstrumentsInv, SynthInv, DrumsInv, CallsInv, ClapTypes, TypeOK
<1> QED BY <1>1, InstrumentsInvHolds, PTL

\* A voice is on only while its key is down, through steals and repeated
\* note-ons of one pitch (instruments.rs NoteOff, AllOff).
THEOREM NoNoteSticks == Spec => []NothingSticks
<1>1. InstrumentsInv => NothingSticks
  BY DEF InstrumentsInv, SynthInv, NothingSticks
<1> QED BY <1>1, InstrumentsInvHolds, PTL

\* While no more notes are down than there are voices each has its own, and a
\* CLAP plug-in hears the keys go down and up as the events of the blocks say
\* (instruments.rs allocate_voice; plugin.rs fill_events).
THEOREM HeldNotesAreHeard == Spec => []HeldNotesSound
<1>1. InstrumentsInv => HeldNotesSound
  BY HeldIsHeld DEF InstrumentsInv, HeldNotesSound
<1> QED BY <1>1, InstrumentsInvHolds, PTL

\* The hit that is cut short is never younger than another (instruments.rs
\* trigger).
THEOREM OldestHitIsStolen == Spec => []OldestIsStolen
<1>1. InstrumentsInv => OldestIsStolen
  BY DEF InstrumentsInv, DrumsInv, OldestIsStolen
<1> QED BY <1>1, InstrumentsInvHolds, PTL

\* Every call to a bundle that has all its functions is made where it may be,
\* and the entry is in use just as long as an instance is there (plugin.rs
\* load, drop).
THEOREM CallsBalanced == Spec => []CallsAreBalanced
<1>1. InstrumentsInv => CallsAreBalanced
  BY CallsBalance DEF InstrumentsInv, CallsAreBalanced
<1> QED BY <1>1, InstrumentsInvHolds, PTL
-----------------------------------------------------------------------------
(* Rendering *)

\* What rounding down means.
LEMMA Division ==
  ASSUME NEW a \in Nat, NEW d \in Nat \ {0}
  PROVE  /\ a \div d \in Nat
         /\ (a \div d) * d <= a
         /\ a < (a \div d) * d + d
  BY SMT

\* A tick begins at or before the position it belongs to and ends after it.
LEMMA TickBounds ==
  ASSUME NEW p \in Nat, NEW s \in Rates
  PROVE  /\ TickAt(p, s) \in Nat
         /\ TickAt(p, s) * s.num <= p * s.den
         /\ p * s.den < TickAt(p, s) * s.num + s.num
<1>1. p * s.den \in Nat /\ s.num \in Nat \ {0}
  BY DEF Rates
<1> QED
  BY <1>1, Division DEF TickAt

\* The first sample of a tick
LEMMA SampleBounds ==
  ASSUME NEW t \in Nat, NEW s \in Rates
  PROVE  /\ SampleAt(t, s) \in Nat
         /\ SampleAt(t, s) * s.den <= t * s.num
         /\ t * s.num < SampleAt(t, s) * s.den + s.den
<1>1. t * s.num \in Nat /\ s.den \in Nat \ {0}
  BY DEF Rates
<1>2. SampleAt(t, s) = (t * s.num) \div s.den
  BY DEF SampleAt
<1> QED
  BY <1>1, <1>2, Division

\* Samples that cover some ticks
LEMMA SamplesBounds ==
  ASSUME NEW t \in Nat, NEW s \in Rates
  PROVE  /\ SamplesFor(t, s) \in Nat
         /\ t * s.num <= SamplesFor(t, s) * s.den
         /\ SamplesFor(t, s) * s.den < t * s.num + s.den
<1>1. t * s.num + s.den - 1 \in Nat /\ t * s.num \in Nat /\ s.den \in Nat \ {0}
  BY DEF Rates
<1>2. /\ SamplesFor(t, s) \in Nat
      /\ SamplesFor(t, s) * s.den <= t * s.num + s.den - 1
      /\ t * s.num + s.den - 1 < SamplesFor(t, s) * s.den + s.den
  BY <1>1, Division DEF SamplesFor
<1>3. SamplesFor(t, s) * s.den \in Nat
  BY <1>1, <1>2
<1> QED
  BY <1>1, <1>2, <1>3

\* Ticks that cover a block
LEMMA TicksBounds ==
  ASSUME NEW n \in Nat, NEW s \in Rates
  PROVE  TicksIn(n, s) \in Nat /\ n * s.den <= TicksIn(n, s) * s.num
<1> DEFINE up == (n * s.den + s.num - 1) \div s.num
<1>0. s.num \in Nat \ {0} /\ s.den \in Nat
  BY DEF Rates
<1>1. n * s.den + s.num - 1 \in Nat /\ n * s.den \in Nat /\ s.num \in Nat \ {0}
  <2>1. n * s.den \in Nat
    BY <1>0
  <2> QED
    BY <1>0, <2>1
<1>2. up \in Nat /\ n * s.den + s.num - 1 < up * s.num + s.num
  BY <1>1, Division
<1>3. TicksIn(n, s) = IF up > 1 THEN up ELSE 1
  BY DEF TicksIn
<1> HIDE DEF up
<1>4. up * s.num \in Nat
  BY <1>1, <1>2
<1>5. n * s.den <= up * s.num
  BY <1>1, <1>2, <1>4
<1>6. TicksIn(n, s) \in Nat /\ up <= TicksIn(n, s)
  BY <1>2, <1>3
<1>7. up * s.num <= TicksIn(n, s) * s.num
  BY <1>1, <1>2, <1>6, SMT
<1>8. TicksIn(n, s) * s.num \in Nat
  BY <1>1, <1>6
<1> QED
  BY <1>1, <1>4, <1>5, <1>6, <1>7, <1>8

\* Products respect the order.
LEMMA Cancel ==
  ASSUME NEW a \in Int, NEW b \in Int, NEW d \in Nat \ {0}, a * d <= b * d
  PROVE  a <= b
  BY SMT

LEMMA Times ==
  ASSUME NEW a \in Int, NEW b \in Int, NEW d \in Nat, a <= b
  PROVE  a * d <= b * d
  BY SMT

LEMMA Distribute ==
  ASSUME NEW a \in Int, NEW b \in Int, NEW d \in Int
  PROVE  (a + b) * d = a * d + b * d /\ (a - b) * d = a * d - b * d
  BY SMT
-----------------------------------------------------------------------------
Start == SampleAt(First, spt)

\* While it renders, the file has every tick before the current one, and the
\* transport has not left the range by more than a block may overlap it.
RenderInv ==
  /\ RenderTypeOK
  /\ RendersWholeRange
  /\ NotMuchLonger
  /\ status # "refused" => range.to >= First
  /\ status = "rendering" =>
       /\ pos = Start + frames
       /\ First..(TickAt(pos, spt) - 1) \subseteq ticks
       /\ pos * spt.den < (range.to + 1) * spt.num + spt.den

\* What the steps need to know of a file that is being rendered
LEMMA RenderFacts ==
  ASSUME RenderTypeOK
  PROVE  /\ First \in Nat
         /\ Start \in Nat
         /\ spt \in Rates
         /\ TickAt(pos, spt) \in Nat
         /\ Start * spt.den <= First * spt.num
         /\ First * spt.num < Start * spt.den + spt.den
         /\ TickAt(pos, spt) * spt.num <= pos * spt.den
         /\ pos * spt.den < TickAt(pos, spt) * spt.num + spt.num
<1>1. First \in Nat /\ spt \in Rates /\ pos \in Nat
  BY RenderAssumption DEF RenderTypeOK, First
<1> QED
  BY <1>1, SampleBounds, TickBounds DEF Start

LEMMA RenderBegins == RenderInit => RenderInv
<1> SUFFICES ASSUME RenderInit PROVE RenderInv
  OBVIOUS
<1>1. spt \in Rates /\ range.from \in Int /\ range.to \in Int /\ range.from >= -1
  BY RenderAssumption DEF RenderInit
<1>2. First \in Nat /\ pos = Start
  BY <1>1 DEF RenderInit, First, Start, SampleAt
<1>3. pos \in Nat
  BY <1>1, <1>2, SampleBounds DEF Start
<1>4. RenderTypeOK
  BY <1>1, <1>3 DEF RenderInit, RenderTypeOK
<1>5. status # "done" /\ (status # "refused" => range.to >= First)
  BY <1>1 DEF RenderInit, First
<1>6. CASE status # "rendering"
  BY <1>4, <1>5, <1>6 DEF RenderInv, RendersWholeRange, NotMuchLonger
<1>7. CASE status = "rendering"
  <2>1. pos = Start + frames
    BY <1>2, <1>3 DEF RenderInit
  <2>2. TickAt(pos, spt) * spt.num <= First * spt.num /\ TickAt(pos, spt) \in Nat /\ spt.num \in Nat \ {0}
    <3>1. TickAt(pos, spt) * spt.num \in Nat /\ pos * spt.den \in Nat /\ First * spt.num \in Nat
      BY <1>2, <1>3, <1>4, RenderFacts DEF Rates
    <3> QED
      BY <1>2, <1>4, <3>1, RenderFacts DEF Rates
  <2>3. TickAt(pos, spt) <= First
    BY <1>2, <2>2, Cancel
  <2>4. First..(TickAt(pos, spt) - 1) \subseteq ticks
    BY <1>2, <2>2, <2>3
  <2>5. First * spt.num <= range.to * spt.num
    BY <1>1, <1>2, <1>5, <1>7, <2>2, Times
  <2>6. (range.to + 1) * spt.num = range.to * spt.num + spt.num
    BY <1>1, <2>2, Distribute
  <2>7. /\ pos * spt.den \in Nat /\ First * spt.num \in Nat /\ range.to * spt.num \in Int
        /\ spt.den \in Nat \ {0}
    BY <1>1, <1>2, <1>3, <2>2 DEF Rates
  <2>8. pos * spt.den < (range.to + 1) * spt.num + spt.den
    BY <1>2, <1>4, <2>2, <2>5, <2>6, <2>7, RenderFacts
  <2> QED
    BY <1>4, <1>5, <1>7, <2>1, <2>4, <2>8 DEF RenderInv, RendersWholeRange, NotMuchLonger
<1> QED
  BY <1>6, <1>7
-----------------------------------------------------------------------------
LEMMA CancelStrictly ==
  ASSUME NEW a \in Int, NEW b \in Int, NEW d \in Nat \ {0}, a * d < b * d
  PROVE  a < b
  BY SMT

\* A block adds the ticks it covers, and leaves none before the new position.
LEMMA BlockTicks ==
  ASSUME RenderInv, status = "rendering", TickAt(pos, spt) < range.to,
         NEW n \in Nat, Process(n)
  PROVE  /\ status' \in {"rendering", "done"} => RenderTypeOK'
         /\ Start' = Start /\ First' = First
         /\ pos' = Start + frames'
         /\ frames' = frames + n /\ pos' = pos + n
         /\ ticks' = ticks \cup TickAt(pos, spt)..(TickAt(pos, spt) + TicksIn(n, spt) - 1)
         /\ First..(TickAt(pos', spt) - 1) \subseteq ticks'
<1> DEFINE T == TickAt(pos, spt)
           U == TickAt(pos', spt)
           K == TicksIn(n, spt)
<1>1. /\ pos' = pos + n /\ frames' = frames + n /\ UNCHANGED <<range, spt>>
      /\ ticks' = ticks \cup T..(T + K - 1)
  BY DEF Process
<1>2. pos \in Nat /\ frames \in Nat /\ ticks \subseteq Nat /\ spt \in Rates /\ T \in Nat
      /\ First \in Nat
  BY RenderFacts DEF RenderInv, RenderTypeOK
<1>3. pos' \in Nat /\ K \in Nat /\ U \in Nat /\ spt.num \in Nat \ {0} /\ spt.den \in Nat \ {0}
  BY <1>1, <1>2, TickBounds, TicksBounds DEF Rates
<1>4. U < T + 1 + K
  <2>1. U * spt.num <= (pos + n) * spt.den
    BY <1>1, <1>2, <1>3, TickBounds
  <2>2. (pos + n) * spt.den = pos * spt.den + n * spt.den
    BY <1>2, <1>3, Distribute
  <2>3. pos * spt.den < T * spt.num + spt.num
    BY RenderFacts DEF RenderInv
  <2>4. n * spt.den <= K * spt.num
    BY <1>2, TicksBounds
  <2>5. (T + 1 + K) * spt.num = T * spt.num + spt.num + K * spt.num
    BY <1>2, <1>3, SMT
  <2>6. /\ U * spt.num \in Nat /\ pos * spt.den \in Nat /\ n * spt.den \in Nat
        /\ T * spt.num \in Nat /\ K * spt.num \in Nat
    BY <1>2, <1>3
  <2>7. U * spt.num < (T + 1 + K) * spt.num
    BY <1>3, <2>1, <2>2, <2>3, <2>4, <2>5, <2>6
  <2> HIDE DEF T, U, K
  <2> QED
    BY <1>2, <1>3, <2>7, CancelStrictly
<1>5. Start' = Start /\ First' = First
  BY <1>1 DEF Start, First
<1>6. pos = Start + frames /\ First..(T - 1) \subseteq ticks
  BY DEF RenderInv
<1>7. Start \in Nat
  BY RenderFacts DEF RenderInv
<1> HIDE DEF T, U, K
<1>8. First..(U - 1) \subseteq ticks'
  BY <1>1, <1>2, <1>3, <1>4, <1>6
<1>9. ticks' \subseteq Nat
  BY <1>1, <1>2, <1>3
<1>10. range' \in [from : Int, to : Int] /\ spt' \in AllRates /\ pos' \in Nat /\ frames' \in Nat
  BY <1>1, <1>2, <1>3 DEF RenderInv, RenderTypeOK
<1> QED
  BY <1>1, <1>2, <1>5, <1>6, <1>7, <1>8, <1>9, <1>10 DEF RenderTypeOK, T, U, K
-----------------------------------------------------------------------------
\* The range in samples times spt.den, which the bounds below are about
LEMMA RangeProducts ==
  ASSUME RenderInv, status = "rendering"
  PROVE  /\ range.to \in Int /\ range.to - TickAt(pos, spt) \in Int
         /\ spt.num \in Nat \ {0} /\ spt.den \in Nat \ {0}
         /\ pos * spt.den \in Nat /\ Start * spt.den \in Nat
         /\ TickAt(pos, spt) * spt.num \in Nat /\ First * spt.num \in Nat
         /\ range.to * spt.num \in Int
         /\ frames * spt.den = pos * spt.den - Start * spt.den
         /\ (range.to - TickAt(pos, spt)) * spt.num
              = range.to * spt.num - TickAt(pos, spt) * spt.num
         /\ (range.to - First) * spt.num = range.to * spt.num - First * spt.num
         /\ (range.to + 1) * spt.num = range.to * spt.num + spt.num
         /\ (range.to - First + 1) * spt.num = range.to * spt.num - First * spt.num + spt.num
<1> DEFINE T == TickAt(pos, spt)
<1>1. /\ range.to \in Int /\ pos \in Nat /\ frames \in Nat /\ First \in Nat /\ Start \in Nat
      /\ T \in Nat /\ spt \in Rates
  BY RenderFacts DEF RenderInv, RenderTypeOK
<1>2. spt.num \in Nat \ {0} /\ spt.den \in Nat \ {0}
  BY <1>1 DEF Rates
<1>3. pos = Start + frames
  BY DEF RenderInv
<1> HIDE DEF T
<1>4. pos * spt.den = Start * spt.den + frames * spt.den
  BY <1>1, <1>2, <1>3, Distribute
<1>5. frames * spt.den \in Nat /\ pos * spt.den \in Nat /\ Start * spt.den \in Nat
  BY <1>1, <1>2
<1>6. (range.to - T) * spt.num = range.to * spt.num - T * spt.num
  BY <1>1, <1>2, Distribute
<1>7. (range.to - First) * spt.num = range.to * spt.num - First * spt.num
  BY <1>1, <1>2, Distribute
<1>8. (range.to + 1) * spt.num = range.to * spt.num + spt.num
  BY <1>1, <1>2, Distribute
<1>9. (range.to - First + 1) * spt.num = (range.to - First) * spt.num + spt.num
  <2>1. range.to - First \in Int
    BY <1>1
  <2> QED
    BY <1>1, <1>2, <2>1, Distribute
<1>10. T * spt.num \in Nat /\ First * spt.num \in Nat /\ range.to * spt.num \in Int
  BY <1>1, <1>2
<1> QED
  BY <1>1, <1>2, <1>4, <1>5, <1>6, <1>7, <1>8, <1>9, <1>10 DEF T

\* What is left, in samples, covers what is left in ticks and not one sample
\* more than it must.
LEMMA RemainingBounds ==
  ASSUME RenderInv, status = "rendering", TickAt(pos, spt) < range.to
  PROVE  /\ Remaining \in Nat \ {0}
         /\ (range.to - TickAt(pos, spt)) * spt.num <= Remaining * spt.den
         /\ Remaining * spt.den < (range.to - TickAt(pos, spt)) * spt.num + spt.den
<1> DEFINE left == range.to - TickAt(pos, spt)
<1>1. left \in Nat \ {0} /\ spt \in Rates /\ spt.num \in Nat \ {0} /\ spt.den \in Nat \ {0}
  BY RenderFacts DEF RenderInv, RenderTypeOK, Rates
<1>2. Remaining = SamplesFor(left, spt)
  BY DEF Remaining
<1> HIDE DEF left
<1>3. /\ Remaining \in Nat
      /\ left * spt.num <= Remaining * spt.den
      /\ Remaining * spt.den < left * spt.num + spt.den
  BY <1>1, <1>2, SamplesBounds
<1>4. left * spt.num > 0
  BY <1>1, SMT
<1>5. Remaining # 0
  BY <1>1, <1>3, <1>4, SMT
<1> QED
  BY <1>3, <1>5 DEF left

\* A whole block
LEMMA FullBlockInv == RenderInv /\ FullBlock => RenderInv'
<1> SUFFICES ASSUME RenderInv, FullBlock PROVE RenderInv'
  OBVIOUS
<1>1. /\ status = "rendering" /\ status' = "rendering" /\ TickAt(pos, spt) < range.to
      /\ RenderBlock <= Remaining /\ RenderBlock \in Nat /\ Process(RenderBlock)
      /\ UNCHANGED <<range, spt>>
  BY RenderAssumption, RemainingBounds DEF FullBlock, Process
<1>2. /\ RenderTypeOK' /\ Start' = Start /\ First' = First /\ pos' = Start + frames'
      /\ pos' = pos + RenderBlock /\ First..(TickAt(pos', spt) - 1) \subseteq ticks'
  BY <1>1, BlockTicks
<1>3. pos' * spt.den < (range.to + 1) * spt.num + spt.den
  <2>1. /\ pos \in Nat /\ spt.den \in Nat /\ Remaining \in Nat
        /\ RenderBlock * spt.den \in Nat /\ Remaining * spt.den \in Nat
    BY <1>1, RemainingBounds, RangeProducts DEF RenderInv, RenderTypeOK
  <2>2. pos' * spt.den = pos * spt.den + RenderBlock * spt.den
    <3>1. (pos + RenderBlock) * spt.den = pos * spt.den + RenderBlock * spt.den
      BY <1>1, <2>1, Distribute
    <3> QED
      BY <1>2, <3>1
  <2>3. RenderBlock * spt.den <= Remaining * spt.den
    BY <1>1, <2>1, Times
  <2>4. pos * spt.den < TickAt(pos, spt) * spt.num + spt.num
    BY RenderFacts DEF RenderInv
  <2> QED
    BY <1>1, <2>1, <2>2, <2>3, <2>4, RangeProducts, RemainingBounds
<1>4. range.to >= First
  BY <1>1 DEF RenderInv
<1> QED
  BY <1>1, <1>2, <1>3, <1>4 DEF RenderInv, RendersWholeRange, NotMuchLonger

\* The last block
LEMMA PartialBlockInv == RenderInv /\ PartialBlock => RenderInv'
<1> DEFINE T == TickAt(pos, spt)
           K == TicksIn(Remaining, spt)
<1> SUFFICES ASSUME RenderInv, PartialBlock PROVE RenderInv'
  OBVIOUS
<1>1. /\ status = "rendering" /\ status' = "done" /\ T < range.to
      /\ Remaining \in Nat \ {0} /\ UNCHANGED <<range, spt>>
  BY RemainingBounds DEF PartialBlock, Process
<1>2. (IF Remaining > 1 THEN Remaining ELSE 1) = Remaining
  BY <1>1
<1>3. Process(Remaining)
  BY <1>2 DEF PartialBlock
<1>4. /\ RenderTypeOK' /\ First' = First /\ frames' = frames + Remaining
      /\ ticks' = ticks \cup T..(T + K - 1)
  BY <1>1, <1>3, BlockTicks
<1>5. frames' * spt.den = pos * spt.den - Start * spt.den + Remaining * spt.den
  <2>1. /\ frames \in Nat /\ spt.den \in Nat /\ frames * spt.den = pos * spt.den - Start * spt.den
        /\ pos * spt.den \in Nat /\ Start * spt.den \in Nat /\ Remaining * spt.den \in Nat
    BY <1>1, RangeProducts DEF RenderInv, RenderTypeOK
  <2>2. (frames + Remaining) * spt.den = frames * spt.den + Remaining * spt.den
    BY <1>1, <2>1, Distribute
  <2> QED
    BY <1>4, <2>1, <2>2
<1>6. Remaining * spt.den \in Nat /\ K \in Nat /\ Remaining * spt.den <= K * spt.num
      /\ K * spt.num \in Nat
  <2>1. spt \in Rates
    BY RenderFacts DEF RenderInv
  <2> QED
    BY <1>1, <2>1, RangeProducts, TicksBounds
<1>7. range.to - T <= K
  <2>1. (range.to - T) * spt.num <= K * spt.num
    BY <1>1, <1>6, RangeProducts, RemainingBounds
  <2>2. range.to - T \in Int /\ spt.num \in Nat \ {0}
    BY <1>1, RangeProducts
  <2> HIDE DEF T, K
  <2> QED
    BY <1>6, <2>1, <2>2, Cancel
<1>8. First..(range.to - 1) \subseteq ticks'
  <2>1. First..(T - 1) \subseteq ticks /\ T \in Nat /\ First \in Nat /\ range.to \in Int
    BY <1>1, RenderFacts DEF RenderInv, RenderTypeOK
  <2> HIDE DEF T, K
  <2> QED
    BY <1>4, <1>6, <1>7, <2>1
<1>9. frames' * spt.den >= (range.to - First) * spt.num
  BY <1>1, <1>5, <1>6, RenderFacts, RangeProducts, RemainingBounds DEF RenderInv
<1>10. frames' * spt.den < (range.to - First + 1) * spt.num + 2 * spt.den
  BY <1>1, <1>5, <1>6, RenderFacts, RangeProducts, RemainingBounds DEF RenderInv
<1>11. range.to >= First
  BY <1>1 DEF RenderInv
<1> HIDE DEF T, K
<1> QED
  BY <1>1, <1>4, <1>8, <1>9, <1>10, <1>11 DEF RenderInv, RendersWholeRange, NotMuchLonger, Wanted

\* No block is left
LEMMA AtEndInv == RenderInv /\ AtEnd => RenderInv'
<1> DEFINE T == TickAt(pos, spt)
<1> SUFFICES ASSUME RenderInv, AtEnd PROVE RenderInv'
  OBVIOUS
<1>1. /\ status = "rendering" /\ status' = "done" /\ T >= range.to
      /\ UNCHANGED <<range, spt, pos, frames, ticks>>
  BY DEF AtEnd
<1>2. RenderTypeOK' /\ First' = First
  BY <1>1 DEF RenderInv, RenderTypeOK, First
<1>3. /\ First..(T - 1) \subseteq ticks /\ T \in Nat /\ First \in Nat /\ range.to \in Int
      /\ range.to >= First /\ pos * spt.den < (range.to + 1) * spt.num + spt.den
  BY <1>1, RenderFacts DEF RenderInv, RenderTypeOK
<1>4. First..(range.to - 1) \subseteq ticks
  BY <1>1, <1>3
<1>5. range.to * spt.num <= T * spt.num
  BY <1>1, <1>3, RangeProducts, Times
<1>6. frames * spt.den >= (range.to - First) * spt.num
  BY <1>1, <1>5, RenderFacts, RangeProducts DEF RenderInv
<1>7. frames * spt.den < (range.to - First + 1) * spt.num + 2 * spt.den
  BY <1>1, <1>3, RenderFacts, RangeProducts DEF RenderInv
<1> QED
  BY <1>1, <1>2, <1>3, <1>4, <1>6, <1>7 DEF RenderInv, RendersWholeRange, NotMuchLonger, Wanted
-----------------------------------------------------------------------------
LEMMA RenderInvHolds == RenderSpec => []RenderInv
<1>1. RenderInv /\ [RenderNext]_renderVars => RenderInv'
  <2>1. RenderInv /\ UNCHANGED renderVars => RenderInv'
    BY DEF renderVars, RenderInv, RenderTypeOK, RendersWholeRange, NotMuchLonger, Wanted, First, Start
  <2> QED
    BY <2>1, FullBlockInv, PartialBlockInv, AtEndInv DEF RenderNext
<1> QED
  BY <1>1, RenderBegins, PTL DEF RenderSpec

\* A finished file has every tick of the range and lasts as long
\* (render.rs cur_tick, max_remaining_frames).
THEOREM WholeRange == RenderSpec => []RendersWholeRange
<1>1. RenderInv => RendersWholeRange
  BY DEF RenderInv
<1> QED
  BY <1>1, RenderInvHolds, PTL

\* A finished file is longer than the range by less than a tick and two
\* samples (render.rs keep_going, max_remaining_frames).
THEOREM LittleMore == RenderSpec => []NotMuchLonger
<1>1. RenderInv => NotMuchLonger
  BY DEF RenderInv
<1> QED
  BY <1>1, RenderInvHolds, PTL

\* The transport and the counters of a rendering have their types
\* (render.rs frames_written, transport).
THEOREM RenderTypes == RenderSpec => []RenderTypeOK
<1>1. RenderInv => RenderTypeOK
  BY DEF RenderInv
<1> QED
  BY <1>1, RenderInvHolds, PTL
-----------------------------------------------------------------------------
\* A block covers no tick more than it must.
LEMMA TicksAreNeeded ==
  ASSUME NEW n \in Nat, NEW s \in Rates, TicksIn(n, s) # 1
  PROVE  (TicksIn(n, s) - 1) * s.num < n * s.den
<1> DEFINE up == (n * s.den + s.num - 1) \div s.num
<1>0. s.num \in Nat \ {0} /\ s.den \in Nat
  BY DEF Rates
<1>1. n * s.den + s.num - 1 \in Nat /\ n * s.den \in Nat /\ s.num \in Nat \ {0}
  <2>1. n * s.den \in Nat
    BY <1>0
  <2> QED
    BY <1>0, <2>1
<1>2. up \in Nat /\ up * s.num <= n * s.den + s.num - 1
  BY <1>1, Division
<1>3. TicksIn(n, s) = up
  BY DEF TicksIn
<1> HIDE DEF up
<1>4. (up - 1) * s.num = up * s.num - 1 * s.num
  BY <1>1, <1>2, Distribute
<1>5. up * s.num \in Nat
  BY <1>1, <1>2
<1>6. (up - 1) * s.num < n * s.den
  BY <1>1, <1>2, <1>4, <1>5
<1> QED
  BY <1>3, <1>6

\* A block adds no tick but those HardlyBeyond allows.
LEMMA BlockIsNear ==
  ASSUME RenderInv, status = "rendering", TickAt(pos, spt) < range.to, spt.num >= spt.den,
         NEW n \in Nat, n <= Remaining
  PROVE  TickAt(pos, spt)..(TickAt(pos, spt) + TicksIn(n, spt) - 1)
           \subseteq (First - 1)..range.to
<1> DEFINE T == TickAt(pos, spt)
           K == TicksIn(n, spt)
<1>1. /\ First \in Nat /\ Start \in Nat /\ T \in Nat /\ range.to \in Int /\ pos \in Nat
      /\ frames \in Nat /\ spt \in Rates /\ spt.num \in Nat \ {0} /\ spt.den \in Nat \ {0}
      /\ pos = Start + frames /\ T < range.to
  BY RenderFacts, RangeProducts DEF RenderInv, RenderTypeOK
<1>2. K \in Nat
  BY <1>1, TicksBounds
<1>3. First - 1 <= T
  <2>1. Start * spt.den <= pos * spt.den
    BY <1>1, Times
  <2>2. (First - 1) * spt.num = First * spt.num - 1 * spt.num
    BY <1>1, Distribute
  <2>3. (T + 1) * spt.num = T * spt.num + 1 * spt.num
    <3> HIDE DEF T, K
    <3> QED
      BY <1>1, Distribute
  <2>4. (First - 1) * spt.num < (T + 1) * spt.num
    BY <1>1, <2>1, <2>2, <2>3, RenderFacts, RangeProducts DEF RenderInv
  <2> HIDE DEF T, K
  <2>5. First - 1 < T + 1
    BY <1>1, <2>4, CancelStrictly
  <2> QED
    BY <1>1, <2>5
<1>4. T + K - 1 <= range.to
  <2>1. CASE K = 1
    BY <1>1, <2>1
  <2>2. CASE K # 1
    <3>1. (K - 1) * spt.num < n * spt.den
      BY <1>1, <2>2, TicksAreNeeded
    <3>2. Remaining \in Nat /\ Remaining * spt.den < (range.to - T) * spt.num + spt.den
      BY <1>1, RemainingBounds
    <3>3. n * spt.den <= Remaining * spt.den
      BY <1>1, <3>2, Times
    <3>4. (range.to - T + 1) * spt.num = (range.to - T) * spt.num + 1 * spt.num
      <4>1. range.to - T \in Int
        BY <1>1
      <4> QED
        BY <1>1, <4>1, Distribute
    <3> HIDE DEF T, K
    <3>5. /\ (K - 1) * spt.num \in Int /\ n * spt.den \in Nat /\ Remaining * spt.den \in Nat
          /\ (range.to - T) * spt.num \in Int
      BY <1>1, <1>2, <3>2
    <3>6. (K - 1) * spt.num < (range.to - T + 1) * spt.num
      BY <1>1, <3>1, <3>2, <3>3, <3>4, <3>5
    <3>7. K - 1 < range.to - T + 1
      BY <1>1, <1>2, <3>6, CancelStrictly
    <3> QED
      BY <1>1, <1>2, <3>7
  <2> QED
    BY <2>1, <2>2
<1> HIDE DEF T, K
<1>5. T..(T + K - 1) \subseteq (First - 1)..range.to
  BY <1>1, <1>2, <1>3, <1>4
<1> QED
  BY <1>5 DEF T, K

\* No event of a tick further than one from the range is in the file
\* (render.rs cur_tick, max_remaining_frames; graph.rs range_end).
THEOREM HardlyMore == RenderSpec => []HardlyBeyond
<1>1. RenderInit => HardlyBeyond
  BY DEF RenderInit, HardlyBeyond
<1>2. RenderInv /\ HardlyBeyond /\ [RenderNext]_renderVars => HardlyBeyond'
  <2> SUFFICES ASSUME RenderInv, HardlyBeyond, [RenderNext]_renderVars PROVE HardlyBeyond'
    OBVIOUS
  <2>1. ASSUME FullBlock \/ PartialBlock PROVE HardlyBeyond'
    <3>1. PICK n \in Nat : n <= Remaining /\ Process(n)
      BY <2>1, RemainingBounds, RenderAssumption DEF FullBlock, PartialBlock
    <3>2. /\ status = "rendering" /\ TickAt(pos, spt) < range.to
          /\ UNCHANGED <<range, spt>> /\ First' = First
          /\ ticks' = ticks \cup TickAt(pos, spt)..(TickAt(pos, spt) + TicksIn(n, spt) - 1)
      BY <2>1, <3>1 DEF FullBlock, PartialBlock, Process, First
    <3> QED
      BY <3>1, <3>2, BlockIsNear DEF HardlyBeyond
  <2>2. CASE AtEnd
    BY <2>2 DEF AtEnd, HardlyBeyond, First
  <2>3. CASE UNCHANGED renderVars
    BY <2>3 DEF renderVars, HardlyBeyond, First
  <2> QED
    BY <2>1, <2>2, <2>3 DEF RenderNext
<1> QED
  BY <1>1, <1>2, RenderInvHolds, PTL DEF RenderSpec

\* A finished file has all of its range and hardly more.
THEOREM RangeIsRendered == RenderSpec => []RendersItsRange
  BY WholeRange, LittleMore, HardlyMore, PTL DEF RendersItsRange
=============================================================================
