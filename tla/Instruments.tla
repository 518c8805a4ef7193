----------------------------- MODULE Instruments -----------------------------
(***************************************************************************)
(* The instrument of a track: which one it is, when a graph is built from  *)
(* a project (SessionState::build_graph, the factories of the formats),    *)
(* and then the life of that one.  A built-in synthesiser has a pool of    *)
(* voices (module VoicePool), the drum kit a set of triggers (DrumKit), an *)
(* instrument of a CLAP bundle is loaded and may fail (ClapInstrument).    *)
(* What has no format, no plug-in or does not load is silent.              *)
(***************************************************************************)
EXTENDS Naturals, FiniteSets

CONSTANTS
  MaxVoices,        \* MAX_VOICES
  MaxDrumTriggers,  \* MAX_DRUM_TRIGGERS
  Life,             \* samples a drum hit lasts
  Pitches, MaxDown, Instances, Midi, None

VARIABLES
  kind,                                     \* the instrument of the track
  note, stage, down, crowded,               \* of VoicePool
  active, age, hits, taken,                 \* of DrumKit
  lacks, phase, done, undo, plugin, entries, keys, played   \* of ClapInstrument

Synth == INSTANCE VoicePool WITH N <- MaxVoices
Drums == INSTANCE DrumKit WITH N <- MaxDrumTriggers
Clap  == INSTANCE ClapInstrument

ASSUME InstrumentsAssumption ==
  /\ MaxVoices \in Nat \ {0} /\ MaxDrumTriggers \in Nat \ {0} /\ Life \in Nat \ {0}
  /\ MaxDown \in Nat
  /\ IsFiniteSet(Pitches) /\ IsFiniteSet(Instances)
  /\ \A midi \in Midi : Clap!IsBlock(midi)
  /\ None \notin Pitches \cup Nat \cup Clap!Functions

synthVars == <<note, stage, down, crowded>>
drumVars  == <<active, age, hits, taken>>
clapVars  == <<lacks, phase, done, undo, plugin, entries, keys, played>>

vars == <<kind, synthVars, drumVars, clapVars>>

\* A format and an id that are known; everything else is silence.
Kinds == {"synth", "drums", "clap", "silent"}

Init == kind \in Kinds /\ Synth!Init /\ Drums!Init /\ Clap!Init

Next ==
  \/ kind = "synth" /\ Synth!Next /\ UNCHANGED <<kind, drumVars, clapVars>>
  \/ kind = "drums" /\ Drums!Next /\ UNCHANGED <<kind, synthVars, clapVars>>
  \/ kind = "clap"  /\ Clap!Next  /\ UNCHANGED <<kind, synthVars, drumVars>>

Spec == Init /\ [][Next]_vars
-----------------------------------------------------------------------------
TypeOK ==
  /\ kind \in Kinds
  /\ Synth!TypeOK /\ Drums!TypeOK
  /\ phase \in [Instances -> {"new", "loading", "live", "undoing", "gone"}]
  /\ entries \in Nat

\* No note sticks: a voice is on only while its key is down, through steals
\* and repeated note-ons of one pitch (instruments.rs NoteOff, AllOff).
NothingSticks == Synth!NothingSticks

\* While no more notes are down than there are voices, each has one of its own
\* (instruments.rs allocate_voice), and a CLAP plug-in hears every key go down
\* and up as the events of the blocks say, those of one frame in their order
\* (plugin.rs fill_events).
HeldNotesSound == Synth!HeldNotesSound /\ Clap!KeysFollowEvents

\* "Steal oldest" (instruments.rs:691): the hit that is cut short is never
\* younger than another, after any number of steals and ends.
OldestIsStolen == Drums!OldestIsStolen

\* A bundle with all its functions is used as CLAP asks, whichever call of
\* which instance fails: every call is made where it may be, no instance is
\* left behind, and the entry is initialised as long as one is there
\* (plugin.rs load, drop).
CallsAreBalanced == Clap!CallsAreBalanced
=============================================================================
