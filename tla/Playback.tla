------------------------------ MODULE Playback ------------------------------
(***************************************************************************)
(* What the audio callback plays: run_callback and apply_rt of             *)
(* bridge-audio, the transport, and the part of Graph::process that turns  *)
(* clips into note events and hands them to the instrument of a track.     *)
(*                                                                         *)
(* The tracks do not influence each other here, so there is one.  Commands *)
(* reach the callback through the ring that BridgeSession models and are   *)
(* applied one by one before a block is rendered; each is an action.  The  *)
(* instrument is the set of pitches that are held on: VoicePool models the *)
(* voices behind them.                                                     *)
(***************************************************************************)
EXTENDS Ticks, Sequences, SequencesExt

CONSTANTS
  Docs,       \* projects: [clips, spt]
  Frames,     \* block sizes the device asks for
  MaxFrames,  \* frames the callback renders at most (1024)
  Seeks,      \* ticks a client may ask for
  LiveNote,   \* the pitch that live notes use, and no clip
  MaxPos,     \* bound: samples played
  MaxLive,    \* bound: events queued for a track between two blocks
  None

ClipPitches(c) == {c.notes[i].pitch : i \in DOMAIN c.notes}

Pitches == {LiveNote} \cup
  UNION {UNION {ClipPitches(c) : c \in Range(d.clips)} : d \in Docs}

\* The protocol's fields are i64; the editor counts the ticks of a note from
\* the start of its clip and never gives it a negative length.
Notes == [pitch : Pitches, start : Nat, length : Nat]

Clips == [start : Int, length : Int, notes : Seq(Notes)]

ASSUME PlaybackAssumption ==
  /\ Docs \subseteq [spt : Rates, clips : Seq(Clips)]
  /\ Frames \subseteq Nat \ {0}
  /\ MaxFrames \in Nat \ {0}
  /\ Seeks \subseteq Int
  /\ None \notin Docs \cup Int

VARIABLES
  graph,     \* EngineState.graph: the project it was built from
  spt,       \* transport.samples_per_tick
  pos,       \* transport.position_samples
  playing,   \* transport.playing
  sine,      \* EngineState.sine_on
  live,      \* live_events of the track
  sounding,  \* pitches held on
  block,     \* the last rendered block: its range, frames and events
  heardTo,   \* history: the end of the range the playback has just gone
             \* through without a jump, or None
  jumped     \* history: the position has jumped while notes were on

vars == <<graph, spt, pos, playing, sine, live, sounding, block, heardTo, jumped>>

On(p) == [kind |-> "on", pitch |-> p]
Off(p) == [kind |-> "off", pitch |-> p]
AllOff == [kind |-> "alloff", pitch |-> None]
At(offset, e) == [at |-> offset, event |-> e]

NoBlock == [from |-> 0, to |-> 0, frames |-> 0, events |-> <<>>]

Init ==
  /\ graph = None
  /\ spt \in {d.spt : d \in Docs}
  /\ pos = 0
  /\ playing = FALSE
  /\ sine = FALSE
  /\ live = <<>>
  /\ sounding = {}
  /\ block = NoBlock
  /\ heardTo = None
  /\ jumped = FALSE
-----------------------------------------------------------------------------
(* Commands *)

SetGraph(d) ==
  /\ graph' = d
  /\ spt' = d.spt
  /\ live' = <<>>
  /\ sounding' = {}
  /\ heardTo' = IF spt' = spt THEN heardTo ELSE None
  /\ jumped' = FALSE
  /\ UNCHANGED <<pos, playing, sine, block>>

SeekTo(tick) ==
  /\ pos' = SampleAt(tick, spt)
  /\ pos' <= MaxPos
  /\ heardTo' = None
  /\ jumped' = (jumped \/ sounding # {})

\* "from" is a tick, or None to go on from where the transport is.
Play(from) ==
  /\ playing' = TRUE
  /\ sine' = FALSE
  /\ IF from = None THEN UNCHANGED <<pos, heardTo, jumped>> ELSE SeekTo(from)
  /\ UNCHANGED <<graph, spt, live, sounding, block>>

Seek(tick) ==
  /\ SeekTo(tick)
  /\ UNCHANGED <<graph, spt, playing, sine, live, sounding, block>>

\* push_live, and all_notes_off: there is no track without a graph
Push(e) == IF graph = None THEN UNCHANGED live
                           ELSE Len(live) < MaxLive /\ live' = Append(live, e)

Stop_KeepsNotes ==
  /\ UNCHANGED live
  /\ playing' = FALSE
  /\ pos' = 0
  /\ heardTo' = None
  /\ UNCHANGED <<graph, spt, sine, sounding, block, jumped>>

Stop ==
  /\ Push(AllOff)
  /\ playing' = FALSE
  /\ pos' = 0
  /\ heardTo' = None
  /\ UNCHANGED <<graph, spt, sine, sounding, block, jumped>>

LiveNotes ==
  /\ Push(On(LiveNote)) \/ Push(Off(LiveNote))
  /\ UNCHANGED <<graph, spt, pos, playing, sine, sounding, block, heardTo, jumped>>

SineDebug(on) ==
  /\ sine' = on
  /\ UNCHANGED <<graph, spt, pos, playing, live, sounding, block, heardTo, jumped>>
-----------------------------------------------------------------------------
(* A block *)

ClipEnd(c) == c.start + c.length
NoteOn(c, n) == c.start + n.start
NoteOff(c, n) == NoteOn(c, n) + n.length

When(cond, e) == IF cond THEN <<e>> ELSE <<>>

EventsInRange_OffWithOn(c, from, to) ==
  IF to <= c.start \/ from >= ClipEnd(c) THEN <<>>
  ELSE FlattenSeq([i \in DOMAIN c.notes |->
         LET n == c.notes[i]
             on == NoteOn(c, n)
             off == NoteOff(c, n) IN
         IF on >= from /\ on < to
           THEN <<At(OffsetOf(on, from, spt), On(n.pitch))>>
                \o When(off < to, At(OffsetOf(off, from, spt), Off(n.pitch)))
           ELSE <<>>])

\* MidiClip::events_in_range
EventsInRange(c, from, to) ==
  IF to <= c.start \/ from >= ClipEnd(c) THEN <<>>
  ELSE FlattenSeq([i \in DOMAIN c.notes |->
         LET n == c.notes[i]
             on == NoteOn(c, n)
             off == NoteOff(c, n) IN
         When(on >= from /\ on < to, At(OffsetOf(on, from, spt), On(n.pitch)))
         \o When(off >= from /\ off < to, At(OffsetOf(off, from, spt), Off(n.pitch)))])

\* The events an instrument handles in `frames` frames, in their order: sorted
\* by offset, first come first served.  What lies beyond the last frame is lost.
InOrder(events, frames) ==
  FlattenSeq([f \in 1..frames |->
    FlattenSeq([i \in DOMAIN events |-> When(events[i].at = f - 1, events[i])])])

Handle(notes, e) ==
  CASE e.event.kind = "on"     -> notes \cup {e.event.pitch}
    [] e.event.kind = "off"    -> notes \ {e.event.pitch}
    [] e.event.kind = "alloff" -> {}

Used(n) == IF n < MaxFrames THEN n ELSE MaxFrames

\* Graph::process
Process(frames) ==
  LET from == IF playing THEN TickAt(pos, spt) ELSE 0
      to == IF playing THEN from + TicksIn(frames, spt) ELSE 0
      fromClips == IF playing
                     THEN FlattenSeq([i \in DOMAIN graph.clips |->
                            EventsInRange(graph.clips[i], from, to)])
                     ELSE <<>>
      fromKeys == [i \in DOMAIN live |-> At(0, live[i])]
      events == fromKeys \o fromClips
  IN /\ sounding' = FoldLeft(Handle, sounding, InOrder(events, frames))
     /\ live' = <<>>
     /\ block' = [from |-> from, to |-> to, frames |-> frames,
                  events |-> fromClips]
     /\ heardTo' = IF playing THEN to ELSE None
     /\ jumped' = (jumped /\ AllOff \notin Range(live))

Skip ==
  /\ block' = NoBlock
  /\ heardTo' = None
  /\ jumped' = (jumped \/ (playing /\ sounding # {}))
  /\ UNCHANGED <<live, sounding>>

\* run_callback after it has applied the commands
Block(n) ==
  /\ pos + Used(n) <= MaxPos
  /\ IF ~sine /\ graph # None THEN Process(Used(n)) ELSE Skip
  /\ pos' = IF playing THEN pos + Used(n) ELSE pos
  /\ UNCHANGED <<graph, spt, playing, sine>>

Next ==
  \/ \E d \in Docs : SetGraph(d)
  \/ \E from \in Seeks \cup {None} : Play(from)
  \/ \E tick \in Seeks : Seek(tick)
  \/ Stop
  \/ LiveNotes
  \/ \E on \in BOOLEAN : SineDebug(on)
  \/ \E n \in Frames : Block(n)

Spec == Init /\ [][Next]_vars
-----------------------------------------------------------------------------
(* Properties *)

TypeOK ==
  /\ graph \in Docs \cup {None}
  /\ spt \in {d.spt : d \in Docs}
  /\ pos \in Nat
  /\ playing \in BOOLEAN
  /\ sine \in BOOLEAN
  /\ live \in Seq({On(LiveNote), Off(LiveNote), AllOff})
  /\ sounding \subseteq Pitches
  /\ heardTo \in Nat \cup {None}
  /\ jumped \in BOOLEAN

\* Consecutive blocks leave no tick out, whatever their sizes: the position
\* is rounded down to a tick and the length of a block up, the callback cuts
\* a block at MaxFrames, and the transport moves by samples (graph.rs
\* range_start, range_end; run_callback).
NoTickIsSkipped == heardTo # None => TickAt(pos, spt) <= heardTo

\* No event of a block lies beyond its last frame, where the instruments
\* would drop it (graph.rs range_end, clip.rs sample_offset).
EventsFitTheBlock ==
  \A i \in DOMAIN block.events : block.events[i].at \in 0..(block.frames - 1)

\* A note whose end has been played through is off, across blocks of any
\* size, new projects, and a Stop or another note in between.  Not if the
\* position has jumped while it was on, and not if it ends with its clip or
\* beyond: a block that starts where a clip ends passes the clip over, its
\* last note-offs too (clip.rs:58), unless the block before overlapped it.
PlayedNotesEnd ==
  heardTo # None /\ ~jumped =>
    \A p \in sounding \ {LiveNote} :
      \E i \in DOMAIN graph.clips : \E j \in DOMAIN graph.clips[i].notes :
        LET c == graph.clips[i]
            n == c.notes[j] IN
        /\ n.pitch = p
        /\ NoteOn(c, n) < heardTo
        /\ NoteOff(c, n) >= heardTo \/ NoteOff(c, n) >= ClipEnd(c)

\* "Send all notes off to every track. Used on stop" (graph.rs:657): after a
\* Stop no note of a clip sounds once a block is rendered, whatever commands
\* came with it.
StopSilences ==
  ~playing /\ AllOff \notin Range(live) => sounding \subseteq {LiveNote}
=============================================================================
