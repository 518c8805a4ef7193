--------------------------- MODULE BridgeSession ---------------------------
(***************************************************************************)
(* The session of the Cadenza bridge (bridge-core/session.rs): one         *)
(* SessionState shared by the reader tasks of all WebSocket connections,   *)
(* which run on the threads of a multi-threaded runtime, and the ring of   *)
(* real-time commands that feeds the audio callback                        *)
(* (bridge-audio/lib.rs).                                                  *)
(*                                                                         *)
(* A connection handles one request at a time, from start to reply.  Its   *)
(* handler takes several locks one after the other, and never one lock     *)
(* for the whole request: each critical section is one action here, and    *)
(* the handlers of different connections interleave between them.          *)
(*                                                                         *)
(* Names, parameters and samples are abstracted: a project is its track    *)
(* order, its insert nodes and its bus sends.  `rev` numbers the edits of  *)
(* the project; it is a history variable the code does not have.           *)
(***************************************************************************)
EXTENDS Naturals, Sequences, Routing

CONSTANTS
  Conns,        \* connections, each with its reader task
  Tracks,       \* track ids
  Buses,        \* bus ids
  NodeIds,      \* ids of insert nodes
  FreshIds,     \* those of NodeIds that uuid_like may still produce
  LoadDocs,     \* the documents clients load
  Patches,      \* the JSON patches clients send
  RingCap,      \* RT_CMD_CAPACITY
  MaxRev,       \* bound: no edit starts once the project has this revision
  None          \* no project, no graph, no lock holder, no work

\* An insert node is addressed by its track and its id, a send is a pair of buses.
Keys == Tracks \X NodeIds

Sends == Buses \X Buses

Doc == [tracks : Seq(Tracks), inserts : SUBSET Keys, sends : SUBSET Sends]

Project == [rev : Nat, doc : Doc]

Op == [op : {"addInsert", "removeInsert"}, key : Keys]
        \cup [op : {"addSend", "removeSend"}, send : Sends]
        \cup [op : {"setTrack"}, track : Tracks]
        \cup [op : {"unsupported"}]

\* What a handler pushes.  The track a live note is meant for, and whether
\* the last edit had succeeded when its index was looked up, are history:
\* the code sends the index alone.
Cmd == [kind : {"SetGraph"}, graph : Project]
         \cup [kind : {"LiveNote"}, idx : Nat, track : Tracks, trusted : BOOLEAN]
         \cup [kind : {"Transport"}]

ASSUME SessionAssumption ==
  /\ FreshIds \subseteq NodeIds
  /\ LoadDocs \subseteq Doc
  /\ Patches \subseteq Seq(Op)
  /\ RingCap \in Nat \ {0}
  /\ MaxRev \in Nat
  /\ None \notin Conns \cup Project

VARIABLES
  project,      \* SessionState.project
  lock,         \* the connection that holds the project mutex over steps
  trackIndex,   \* SessionState.track_index
  editors,      \* keys of SessionState.editors
  minted,       \* ids chain.addNode has produced
  pc,           \* where the handler of each connection stands
  work,         \* what that handler carries to its next step
  reply,        \* the last reply each connection got
  lastEdit,     \* the reply to the last project edit of all connections
  engine,       \* WorkerState: "cold", "running" or "headless"
  ring,         \* real-time commands not yet popped by the callback
  graph         \* EngineState.graph

vars == <<project, lock, trackIndex, editors, minted, pc, work, reply,
          lastEdit, engine, ring, graph>>

sessionVars == <<project, lock, trackIndex, editors, minted>>
audioVars   == <<engine, ring, graph>>

Rev == IF project = None THEN 0 ELSE project.rev

HasRoom_OffByOne == Len(ring) <= RingCap

HasRoom == Len(ring) < RingCap

HasTrack(d, t) == \E i \in 1..Len(d.tracks) : d.tracks[i] = t

IsPosition_FromOne(ids, t, i) ==
  /\ i \in 1..Len(ids)
  /\ ids[i] = t
  /\ \A j \in 1..(i - 1) : ids[j] # t

\* TrackIndex::position: the first place of t, counted from 0
IsPosition(ids, t, i) ==
  /\ i + 1 \in 1..Len(ids)
  /\ ids[i + 1] = t
  /\ \A j \in 1..i : ids[j] # t

\* build_graph succeeds: no other part of it can fail
Buildable(d) == ~Cyclic(Buses, d.sends)

\* Steps of a handler
Goto(c, where, what) ==
  /\ pc' = [pc EXCEPT ![c] = where]
  /\ work' = [work EXCEPT ![c] = what]
  /\ UNCHANGED <<reply, lastEdit>>

Answer(c, r) ==
  /\ pc' = [pc EXCEPT ![c] = "idle"]
  /\ work' = [work EXCEPT ![c] = None]
  /\ reply' = [reply EXCEPT ![c] = r]
  /\ UNCHANGED lastEdit

AnswerEdit(c, r) ==
  /\ pc' = [pc EXCEPT ![c] = "idle"]
  /\ work' = [work EXCEPT ![c] = None]
  /\ reply' = [reply EXCEPT ![c] = r]
  /\ lastEdit' = r

Init ==
  /\ project = None
  /\ lock = None
  /\ trackIndex = <<>>
  /\ editors = {}
  /\ minted = {}
  /\ pc = [c \in Conns |-> "idle"]
  /\ work = [c \in Conns |-> None]
  /\ reply = [c \in Conns |-> "none"]
  /\ lastEdit = "none"
  /\ engine = "cold"
  /\ ring = <<>>
  /\ graph = None
-----------------------------------------------------------------------------
(* project.load *)

\* The graph is built first: a circular routing changes nothing.
LoadBuild(c, d) ==
  /\ pc[c] = "idle"
  /\ Rev < MaxRev
  /\ IF Buildable(d) THEN Goto(c, "loadIndex", [doc |-> d]) ELSE AnswerEdit(c, "err")
  /\ UNCHANGED <<sessionVars, audioVars>>

LoadIndex_Forgotten(c) ==
  /\ pc[c] = "loadIndex"
  /\ Goto(c, "loadStore", work[c])
  /\ UNCHANGED <<sessionVars, audioVars>>

LoadIndex(c) ==
  /\ pc[c] = "loadIndex"
  /\ trackIndex' = work[c].doc.tracks
  /\ Goto(c, "loadStore", work[c])
  /\ UNCHANGED <<project, lock, editors, minted, audioVars>>

LoadStore(c) ==
  /\ pc[c] = "loadStore"
  /\ lock = None
  /\ project' = [rev |-> Rev + 1, doc |-> work[c].doc]
  /\ Goto(c, "send", [kind |-> "SetGraph", graph |-> project'])
  /\ UNCHANGED <<lock, trackIndex, editors, minted, audioVars>>
-----------------------------------------------------------------------------
(* mutate_project: project.patch and the chain.* edits *)

\* The end of the critical section: the index is refreshed and the project
\* cloned before the mutex is released.
Commit(c, p) ==
  /\ trackIndex' = p.doc.tracks
  /\ Goto(c, "rebuild", [snapshot |-> p])

\* The other two ways out of it: no project is loaded, or the edit fails.
RefuseEdit(c) ==
  /\ AnswerEdit(c, "err")
  /\ UNCHANGED trackIndex

\* A request refused before it touches the project: a premium feature
\* without entitlement, an unsupported plugin format.
EditRefused(c) ==
  /\ pc[c] = "idle"
  /\ AnswerEdit(c, "err")
  /\ UNCHANGED <<sessionVars, audioVars>>

PatchBegin(c, ops) ==
  /\ pc[c] = "idle"
  /\ Rev < MaxRev
  /\ lock = None
  /\ IF project = None
       THEN /\ AnswerEdit(c, "err")
            /\ UNCHANGED <<project, lock>>
       ELSE /\ Goto(c, "patch", [ops |-> ops])
            /\ lock' = c
            /\ project' = [project EXCEPT !.rev = @ + 1]
  /\ UNCHANGED <<trackIndex, editors, minted, audioVars>>

OpApplies(d, o) ==
  CASE o.op = "addInsert"    -> HasTrack(d, o.key[1])
    [] o.op = "removeInsert" -> HasTrack(d, o.key[1]) /\ o.key \in d.inserts
    [] o.op = "addSend"      -> TRUE
    [] o.op = "removeSend"   -> o.send \in d.sends
    [] o.op = "setTrack"     -> HasTrack(d, o.track)
    [] OTHER                 -> FALSE

OpResult(d, o) ==
  CASE o.op = "addInsert"    -> [d EXCEPT !.inserts = @ \cup {o.key}]
    [] o.op = "removeInsert" -> [d EXCEPT !.inserts = @ \ {o.key}]
    [] o.op = "addSend"      -> [d EXCEPT !.sends = @ \cup {o.send}]
    [] o.op = "removeSend"   -> [d EXCEPT !.sends = @ \ {o.send}]
    [] OTHER                 -> d

PatchFails_Silently(c) ==
  /\ AnswerEdit(c, "ok")
  /\ lock' = None
  /\ UNCHANGED project

PatchFails_KeepsLock(c) ==
  /\ AnswerEdit(c, "err")
  /\ UNCHANGED <<lock, project>>

\* The error path of a patch: the project keeps what the ops so far did.
PatchFails(c) ==
  /\ AnswerEdit(c, "err")
  /\ lock' = None
  /\ UNCHANGED project

\* The ops are applied in order.  The first that fails aborts the patch, and
\* what the ops before it did to the project stays.
PatchOp(c) ==
  /\ pc[c] = "patch"
  /\ work[c].ops # <<>>
  /\ LET o == Head(work[c].ops) IN
     IF OpApplies(project.doc, o)
       THEN /\ project' = [project EXCEPT !.doc = OpResult(@, o)]
            /\ Goto(c, "patch", [ops |-> Tail(work[c].ops)])
            /\ UNCHANGED lock
       ELSE PatchFails(c)
  /\ UNCHANGED <<trackIndex, editors, minted, audioVars>>

PatchEnd(c) ==
  /\ pc[c] = "patch"
  /\ work[c].ops = <<>>
  /\ Commit(c, project)
  /\ lock' = None
  /\ UNCHANGED <<project, editors, minted, audioVars>>

\* The one mutation of a chain.* edit under the project mutex
Edit(c, applies, d) ==
  /\ lock = None
  /\ IF project # None /\ applies
       THEN /\ project' = [rev |-> project.rev + 1, doc |-> d]
            /\ Commit(c, project')
       ELSE RefuseEdit(c) /\ UNCHANGED project
  /\ UNCHANGED <<lock, editors, audioVars>>

\* The id is produced first, whether or not the track turns out to exist.
ChainAddNode(c, t, n) ==
  /\ pc[c] = "idle"
  /\ Rev < MaxRev
  /\ minted' = minted \cup {n}
  /\ Edit(c, HasTrack(project.doc, t),
          [project.doc EXCEPT !.inserts = @ \cup {<<t, n>>}])

ChainRemoveNode(c, t, n) ==
  /\ pc[c] = "idle"
  /\ Rev < MaxRev
  /\ Edit(c, HasTrack(project.doc, t) /\ <<t, n>> \in project.doc.inserts,
          [project.doc EXCEPT !.inserts = @ \ {<<t, n>>}])
  /\ UNCHANGED minted

ChainSetParam(c, t, n) ==
  /\ pc[c] = "idle"
  /\ Rev < MaxRev
  /\ Edit(c, HasTrack(project.doc, t) /\ <<t, n>> \in project.doc.inserts,
          project.doc)
  /\ UNCHANGED minted

Rebuild_Unchecked(c) ==
  /\ pc[c] = "rebuild"
  /\ Goto(c, "send", [kind |-> "SetGraph", graph |-> work[c].snapshot])
  /\ UNCHANGED <<sessionVars, audioVars>>

Rebuild_FromProject(c) ==
  /\ pc[c] = "rebuild"
  /\ IF Buildable(project.doc)
       THEN Goto(c, "send", [kind |-> "SetGraph", graph |-> project])
       ELSE AnswerEdit(c, "err")
  /\ UNCHANGED <<sessionVars, audioVars>>

\* After the mutex is released the graph is built from the clone.  A circle
\* is an error now, and the project keeps it.
Rebuild(c) ==
  /\ pc[c] = "rebuild"
  /\ IF Buildable(work[c].snapshot.doc)
       THEN Goto(c, "send", [kind |-> "SetGraph", graph |-> work[c].snapshot])
       ELSE AnswerEdit(c, "err")
  /\ UNCHANGED <<sessionVars, audioVars>>
-----------------------------------------------------------------------------
(* Other requests *)

\* transport.*, debug.sine: a command that carries nothing of the project
Transport(c) ==
  /\ pc[c] = "idle"
  /\ Goto(c, "send", [kind |-> "Transport"])
  /\ UNCHANGED <<sessionVars, audioVars>>

\* midi.noteOn, midi.noteOff: the index is looked up, and only the index sent
MidiNote(c, t) ==
  /\ pc[c] = "idle"
  /\ \/ \E i \in 0..Len(trackIndex) :
          /\ IsPosition(trackIndex, t, i)
          /\ Goto(c, "send", [kind |-> "LiveNote", idx |-> i, track |-> t,
                              trusted |-> lastEdit = "ok"])
     \/ /\ \A i \in 0..Len(trackIndex) : ~IsPosition(trackIndex, t, i)
        /\ Answer(c, "err")
  /\ UNCHANGED <<sessionVars, audioVars>>

\* project.hash and render.wav read the project under its mutex.  A render
\* builds a graph of its own and works offline; it may also be refused
\* without entitlement, or fail to write its file.
ReadProject(c, render) ==
  /\ pc[c] = "idle"
  /\ lock = None
  /\ \/ /\ project # None
        /\ render => Buildable(project.doc)
        /\ Answer(c, "ok")
     \/ /\ project = None \/ render
        /\ Answer(c, "err")
  /\ UNCHANGED <<sessionVars, audioVars>>

ShowEditor_AnyNode(c, t, n) ==
  /\ pc[c] = "idle"
  /\ lock = None
  /\ IF project # None /\ HasTrack(project.doc, t)
       THEN Goto(c, "showEditor", [key |-> <<t, n>>])
       ELSE Answer(c, "err")
  /\ UNCHANGED <<sessionVars, audioVars>>

ShowEditor(c, t, n) ==
  /\ pc[c] = "idle"
  /\ lock = None
  /\ IF /\ project # None
        /\ HasTrack(project.doc, t)
        /\ <<t, n>> \in project.doc.inserts
       THEN Goto(c, "showEditor", [key |-> <<t, n>>])
       ELSE Answer(c, "err")
  /\ UNCHANGED <<sessionVars, audioVars>>

\* The editors map has a mutex of its own.
OpenEditor(c) ==
  /\ pc[c] = "showEditor"
  /\ editors' = editors \cup {work[c].key}
  /\ Answer(c, "ok")
  /\ UNCHANGED <<project, lock, trackIndex, minted, audioVars>>

HideEditor(c, t, n) ==
  /\ pc[c] = "idle"
  /\ editors' = editors \ {<<t, n>>}
  /\ Answer(c, "ok")
  /\ UNCHANGED <<project, lock, trackIndex, minted, audioVars>>
-----------------------------------------------------------------------------
(* AudioHandle::send_rt and the callback *)

\* The first command of all starts the engine.  Without a device the worker
\* goes headless, still reports success, and nobody pops the ring any more.
SendRt(c) ==
  /\ pc[c] = "send"
  /\ IF engine = "cold" THEN engine' \in {"running", "headless"}
                        ELSE UNCHANGED engine
  /\ LET r == IF HasRoom THEN "ok" ELSE "err" IN
     /\ ring' = IF r = "ok" THEN Append(ring, work[c]) ELSE ring
     /\ IF work[c].kind = "SetGraph" THEN AnswerEdit(c, r) ELSE Answer(c, r)
  /\ UNCHANGED <<sessionVars, graph>>

Callback_NewestFirst ==
  /\ engine = "running"
  /\ ring # <<>>
  /\ LET newest == ring[Len(ring)] IN
     /\ ring' = SubSeq(ring, 1, Len(ring) - 1)
     /\ graph' = IF newest.kind = "SetGraph" THEN newest.graph ELSE graph
  /\ UNCHANGED <<sessionVars, pc, work, reply, lastEdit, engine>>

Callback_KeepsFirst ==
  /\ engine = "running"
  /\ ring # <<>>
  /\ ring' = Tail(ring)
  /\ graph' = IF Head(ring).kind = "SetGraph" /\ graph = None
                THEN Head(ring).graph ELSE graph
  /\ UNCHANGED <<sessionVars, pc, work, reply, lastEdit, engine>>

\* run_callback pops every command, oldest first, and apply_rt installs a
\* graph.  Live notes and transport commands leave the graph what it is.
Callback ==
  /\ engine = "running"
  /\ ring # <<>>
  /\ ring' = Tail(ring)
  /\ graph' = IF Head(ring).kind = "SetGraph" THEN Head(ring).graph ELSE graph
  /\ UNCHANGED <<sessionVars, pc, work, reply, lastEdit, engine>>

Handler(c) ==
  \/ LoadIndex(c) \/ LoadStore(c)
  \/ PatchOp(c) \/ PatchEnd(c)
  \/ Rebuild(c) \/ SendRt(c) \/ OpenEditor(c)

Request(c) ==
  \/ \E d \in LoadDocs : LoadBuild(c, d)
  \/ \E ops \in Patches : PatchBegin(c, ops)
  \/ \E t \in Tracks, n \in FreshIds \ minted : ChainAddNode(c, t, n)
  \/ \E t \in Tracks, n \in NodeIds :
       \/ ChainRemoveNode(c, t, n) \/ ChainSetParam(c, t, n)
       \/ ShowEditor(c, t, n) \/ HideEditor(c, t, n)
  \/ \E t \in Tracks : MidiNote(c, t)
  \/ \E render \in BOOLEAN : ReadProject(c, render)
  \/ EditRefused(c)
  \/ Transport(c)

Next == Callback \/ \E c \in Conns : Request(c) \/ Handler(c)

Spec == Init /\ [][Next]_vars
-----------------------------------------------------------------------------
(* Clients that take turns: no request starts while another connection's   *)
(* is under way.  One client does, and so would several under the rule of  *)
(* docs/bridge-architecture.md, principle 6, that the latest connection    *)
(* ends the ones before it.                                                *)

Busy(c) == pc[c] # "idle"

OneAtATime == \A c, d \in Conns : Busy(c) /\ Busy(d) => c = d

TakeTurns == OneAtATime'

\* The session such clients meet
TurnsSpec == Init /\ [][Next /\ TakeTurns]_vars

\* Handlers run to their reply, and the device calls back while it runs.  A
\* std Mutex has no queue, so an acquisition that is possible again and
\* again needs strong fairness to happen.
Fairness ==
  /\ \A c \in Conns : WF_vars(Handler(c)) /\ SF_vars(LoadStore(c))
  /\ WF_vars(Callback)

LiveSpec == Spec /\ Fairness
-----------------------------------------------------------------------------
(* Properties *)

\* What a handler that stands at `where` carries
Carries(where, what) ==
  CASE where \in {"loadIndex", "loadStore"} -> what \in [doc : Doc]
    [] where = "patch"                      -> what \in [ops : Seq(Op)]
    [] where = "rebuild"                    -> what \in [snapshot : Project]
    [] where = "send"                       -> what \in Cmd
    [] where = "showEditor"                 -> what \in [key : Keys]
    [] where = "idle"                       -> what = None

Places == {"idle", "loadIndex", "loadStore", "patch", "rebuild", "send",
           "showEditor"}

\* The type invariant.  It includes that the mutex is held over several
\* steps by the one handler that applies a patch, and then a project exists.
TypeOK ==
  /\ project \in Project \cup {None}
  /\ lock \in Conns \cup {None}
  /\ \A c \in Conns : pc[c] = "patch" <=> lock = c
  /\ lock # None => project # None
  /\ trackIndex \in Seq(Tracks)
  /\ editors \subseteq Keys
  /\ minted \subseteq FreshIds
  /\ pc \in [Conns -> Places]
  /\ DOMAIN work = Conns
  /\ \A c \in Conns : Carries(pc[c], work[c])
  /\ reply \in [Conns -> {"none", "ok", "err"}]
  /\ lastEdit \in {"none", "ok", "err"}
  /\ engine \in {"cold", "running", "headless"}
  /\ ring \in Seq(Cmd)
  /\ Len(ring) <= RingCap
  /\ graph \in Project \cup {None}

\* The snapshots that are on their way to the audio thread or there already
Pushing(c) == pc[c] = "send" /\ work[c].kind = "SetGraph"

InRing(i) == i \in 1..Len(ring) /\ ring[i].kind = "SetGraph"

\* No graph the audio callback renders, or is going to, routes buses in a
\* circle, although a patch can leave such a project behind: Graph::process
\* walks bus_order and would render the buses of a circle wrong or not at
\* all (session.rs build_graph, graph.rs from_project).
GraphsAreOrdered ==
  /\ graph # None => Buildable(graph.doc)
  /\ \A i \in 1..Len(ring) : InRing(i) => Buildable(ring[i].graph.doc)
  /\ \A c \in Conns : Pushing(c) => Buildable(work[c].graph.doc)

\* p is the whole project as an edit left it: none is ahead of the project,
\* the one with the project's number has its content, and none has the
\* number of a patch that is still being applied.
SnapshotOf(p, current, holder) ==
  /\ current # None
  /\ p.rev <= current.rev
  /\ p.rev = current.rev => p.doc = current.doc /\ holder = None

\* The audio callback never renders half a patch, nor a mixture of two
\* edits: every graph it renders or is going to was the project at the end
\* of one edit, although it is built from a clone after the mutex has been
\* released and other edits have begun (session.rs mutate_project).
SnapshotsAreCommitted ==
  /\ graph # None => SnapshotOf(graph, project, lock)
  /\ \A i \in 1..Len(ring) : InRing(i) => SnapshotOf(ring[i].graph, project, lock)
  /\ \A c \in Conns :
       /\ Pushing(c) => SnapshotOf(work[c].graph, project, lock)
       /\ pc[c] = "rebuild" => SnapshotOf(work[c].snapshot, project, lock)

Editing(c) ==
  pc[c] \in {"loadIndex", "loadStore", "patch", "rebuild"} \/ Pushing(c)

Quiet == (\A c \in Conns : ~Editing(c)) /\ ring = <<>>

\* "Every patch / chain.* command mutates this [the authoritative copy] and
\* then triggers a fresh Graph rebuild that gets pushed to the audio thread"
\* (session.rs:44-47): once all edits are answered, the last of them with
\* ok, and the ring is drained, the audio thread renders the project.
AudioFollowsProject == Quiet /\ lastEdit = "ok" => graph = project

\* "Snapshot of the currently loaded project's track ids, in order"
\* (session.rs:21-24), whenever no edit is under way.
IndexFollowsProject ==
  (\A c \in Conns : ~Editing(c)) /\ project # None
    => trackIndex = project.doc.tracks

\* A live note sounds on the track it was sent for, although only an index
\* travels and the graph it indexes may change on the way, unless the last
\* edit had failed when the index was looked up (session.rs midi_note_on,
\* graph.rs push_live).
NoteReachesItsTrack ==
  ring # <<>> /\ Head(ring).kind = "LiveNote" /\ Head(ring).trusted
    => /\ graph # None
       /\ Head(ring).idx + 1 \in 1..Len(graph.doc.tracks)
       /\ graph.doc.tracks[Head(ring).idx + 1] = Head(ring).track

\* An editor opens only on a node the project has: "returning ok for a bogus
\* node id would mask frontend bugs" (session.rs:384-387).
EditorOpensOnNode ==
  [][editors' \subseteq editors \cup (IF project = None THEN {} ELSE project.doc.inserts)]_editors

\* The abstract specification: a mirror that follows a counter.
Mirror ==
  INSTANCE GraphMirror WITH master <- Rev,
                            mirror <- IF graph = None THEN 0 ELSE graph.rev

\* With clients that take turns the audio thread's graph only ever moves
\* forward through the revisions of the project.
GraphMovesForward == Mirror!Spec

\* A request is answered in the end, also while other clients hold and
\* release the project mutex.
RequestsAreAnswered == \A c \in Conns : Busy(c) ~> ~Busy(c)

\* An edit a client was told succeeded is heard in the end: the callback
\* comes to render that revision or another graph pushed after it.
PushedGraphsAreHeard ==
  \A r \in 1..(MaxRev + 1) :
    (engine = "running" /\ \E i \in 1..Len(ring) : InRing(i) /\ ring[i].graph.rev = r)
       ~> (graph # None /\ graph.rev = r)
=============================================================================
