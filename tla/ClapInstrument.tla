---------------------------- MODULE ClapInstrument ---------------------------
(***************************************************************************)
(* Instruments from CLAP plug-ins (bridge-clap/plugin.rs): the calls that  *)
(* load one, the calls that undo them when one fails or when the graph is  *)
(* dropped, and the notes it is sent.  Instances of one bundle share its   *)
(* entry, which counts its users; graphs are built in the handlers of      *)
(* several connections and dropped by the audio thread, so that the calls  *)
(* of instances mingle.                                                    *)
(***************************************************************************)
EXTENDS Naturals, FiniteSets, Sequences, SequencesExt

CONSTANTS
  Instances,    \* instances of one bundle
  Pitches,
  Midi,         \* what a block may bring: sequences of events by offset
  None

VARIABLES
  lacks,        \* a function the bundle has not, or None
  phase,        \* of an instance: "new", "loading", "live", "undoing" or "gone"
  done,         \* calls of load() so far
  undo,         \* calls still to make to undo them
  plugin,       \* the state of the plug-in itself
  entries,      \* how often the entry is in use: init less deinit
  keys,         \* the keys that are down in the plug-in
  played        \* history: the keys that are down by the events of the blocks

vars == <<lacks, phase, done, undo, plugin, entries, keys, played>>

Loading == <<"init", "get_factory", "get_plugin_descriptor", "create_plugin",
             "plugin.init", "activate", "start_processing">>
Undoing == {"stop_processing", "deactivate", "destroy", "deinit"}
Functions == ToSet(Loading) \cup Undoing \cup {"process"}

\* What a call leaves a plug-in in that was in a state
After(call, was) ==
  CASE call = "create_plugin" -> "created"
    [] call \in {"plugin.init", "deactivate"} -> "ready"
    [] call \in {"activate", "stop_processing"} -> "active"
    [] call = "start_processing" -> "processing"
    [] call = "destroy" -> "none"
    [] OTHER -> was

\* What it has to be in before a call that undoes another
Before(call) ==
  CASE call = "stop_processing" -> {"processing"}
    [] call = "deactivate" -> {"active"}
    [] call = "destroy" -> {"created", "ready"}
    [] call = "deinit" -> {"none"}

Init ==
  /\ lacks \in {None} \cup Functions
  /\ phase = [i \in Instances |-> "new"]
  /\ done = [i \in Instances |-> 0] /\ undo = [i \in Instances |-> <<>>]
  /\ plugin = [i \in Instances |-> "none"] /\ entries = 0
  /\ keys = [i \in Instances |-> {}] /\ played = [i \in Instances |-> {}]

\* What a graph passes on: the events of a block, sorted by offset
MidiEvents == [kind : {"on", "off", "all"}, pitch : Pitches, offset : Nat]
IsBlock(midi) ==
  /\ midi \in Seq(MidiEvents)
  /\ \A j, k \in DOMAIN midi : j < k => midi[j].offset <= midi[k].offset

\* The effect of a call on the plug-in; the getters have none.
Made(i, call) ==
  /\ plugin' = [plugin EXCEPT ![i] = After(call, @)]
  /\ entries' = CASE call = "init"   -> entries + 1
                  [] call = "deinit" -> entries - 1
                  [] OTHER           -> entries

Goto(i, to) == phase' = [phase EXCEPT ![i] = to]
-----------------------------------------------------------------------------
\* The bundle opens and has an entry, or there is nothing to undo.
Open(i) ==
  /\ phase[i] = "new"
  /\ Goto(i, "loading") \/ Goto(i, "gone")
  /\ UNCHANGED <<lacks, done, undo, plugin, entries, keys, played>>

Call(i) == Loading[done[i] + 1]

Succeeds(i) ==
  /\ phase[i] = "loading" /\ done[i] < Len(Loading) /\ Call(i) # lacks
  /\ Made(i, Call(i))
  /\ done' = [done EXCEPT ![i] = @ + 1]
  /\ UNCHANGED <<lacks, phase, undo, keys, played>>

Starts(i) ==
  /\ phase[i] = "loading" /\ done[i] = Len(Loading)
  /\ Goto(i, "live")
  /\ UNCHANGED <<lacks, done, undo, plugin, entries, keys, played>>

Cleanup_NoDeinit(call) ==
  CASE call \in {"plugin.init", "activate"} -> <<"destroy">>
    [] call = "start_processing" -> <<"deactivate", "destroy", "deinit">>
    [] OTHER -> <<>>

\* What load() undoes when a call returns false or nothing
Cleanup(call) ==
  CASE call = "init" -> <<>>
    [] call \in {"get_factory", "get_plugin_descriptor", "create_plugin"} -> <<"deinit">>
    [] call \in {"plugin.init", "activate"} -> <<"destroy", "deinit">>
    [] call = "start_processing" -> <<"deactivate", "destroy", "deinit">>

Fails(i) ==
  /\ phase[i] = "loading" /\ done[i] < Len(Loading) /\ Call(i) # lacks
  /\ Goto(i, "undoing")
  /\ undo' = [undo EXCEPT ![i] = Cleanup(Call(i))]
  /\ UNCHANGED <<lacks, done, plugin, entries, keys, played>>

\* A function that is missing makes load() return at once.
Misses(i) ==
  /\ phase[i] = "loading" /\ done[i] < Len(Loading) /\ Call(i) = lacks
  /\ Goto(i, "gone")
  /\ UNCHANGED <<lacks, done, undo, plugin, entries, keys, played>>

\* Another graph takes the place of the instrument's.
Drop(i) ==
  /\ phase[i] = "live"
  /\ Goto(i, "undoing")
  /\ undo' = [undo EXCEPT ![i] = <<"stop_processing", "deactivate", "destroy", "deinit">>]
  /\ UNCHANGED <<lacks, done, plugin, entries, keys, played>>

Undo(i) ==
  /\ phase[i] = "undoing"
  /\ IF undo[i] = <<>>
       THEN Goto(i, "gone") /\ UNCHANGED <<undo, plugin, entries>>
       ELSE /\ undo' = [undo EXCEPT ![i] = Tail(@)]
            /\ IF Head(undo[i]) = lacks THEN UNCHANGED <<plugin, entries>>
               ELSE Made(i, Head(undo[i]))
            /\ UNCHANGED phase
  /\ UNCHANGED <<lacks, done, keys, played>>
-----------------------------------------------------------------------------
(* fill_events and process *)

Event(on, pitch, offset) == [on |-> on, pitch |-> pitch, offset |-> offset]

\* CLAP has no all-notes-off: it becomes a note-off for every key.
NoteEvents(ev) ==
  CASE ev.kind = "on"  -> <<Event(TRUE, ev.pitch, ev.offset)>>
    [] ev.kind = "off" -> <<Event(FALSE, ev.pitch, ev.offset)>>
    [] ev.kind = "all" -> LET p == SetToSeq(Pitches)
                          IN  [k \in DOMAIN p |-> Event(FALSE, p[k], ev.offset)]

Place_Backwards(events, k) ==
  Cardinality({j \in DOMAIN events : \/ events[j].offset < events[k].offset
                                     \/ events[j].offset = events[k].offset /\ j >= k})

\* Where the sort by offset, which is stable, puts an event
Place(events, k) ==
  Cardinality({j \in DOMAIN events : \/ events[j].offset < events[k].offset
                                     \/ events[j].offset = events[k].offset /\ j <= k})

ByOffset(events) ==
  [n \in DOMAIN events |-> events[CHOOSE k \in DOMAIN events : Place(events, k) = n]]

FillEvents(midi) == ByOffset(FlattenSeq([k \in DOMAIN midi |-> NoteEvents(midi[k])]))

LastOf(S) == CHOOSE k \in S : \A j \in S : j <= k

\* A key is down if its last event was a note-on.
Press(down, events) ==
  {p \in Pitches : LET own == {k \in DOMAIN events : events[k].pitch = p} IN
                     IF own = {} THEN p \in down ELSE events[LastOf(own)].on}

\* The keys that are down by the events themselves
Follow(down, midi) ==
  {p \in Pitches :
     LET own == {k \in DOMAIN midi : midi[k].kind = "all" \/ midi[k].pitch = p} IN
       IF own = {} THEN p \in down ELSE midi[LastOf(own)].kind = "on"}

Process(i, midi) ==
  /\ phase[i] = "live" /\ lacks # "process"
  /\ keys' = [keys EXCEPT ![i] = Press(@, FillEvents(midi))]
  /\ played' = [played EXCEPT ![i] = Follow(@, midi)]
  /\ UNCHANGED <<lacks, phase, done, undo, plugin, entries>>

Next ==
  \E i \in Instances :
    \/ Open(i) \/ Succeeds(i) \/ Starts(i) \/ Fails(i) \/ Misses(i) \/ Drop(i) \/ Undo(i)
    \/ \E midi \in Midi : Process(i, midi)

Spec == Init /\ [][Next]_vars
-----------------------------------------------------------------------------
\* A bundle with all its functions is used as CLAP asks, whichever call of
\* which instance fails: every call finds the plug-in where it may be made,
\* no instance is left behind and the entry is initialised while one is there,
\* and no more than it is deinitialised in the end: "dropping this cleanly
\* stops, deactivates, destroys and deinits in the correct order".
CallsAreBalanced ==
  lacks = None =>
    /\ \A i \in Instances :
         /\ undo[i] # <<>> => plugin[i] \in Before(Head(undo[i]))
         /\ phase[i] = "gone" => plugin[i] = "none"
         /\ plugin[i] # "none" => entries > 0
    /\ (\A i \in Instances : phase[i] = "gone") => entries = 0

\* The plug-in hears the keys go down and up as the events of the blocks say,
\* those of one frame in their order.
KeysFollowEvents == keys = played
=============================================================================
