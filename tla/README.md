# A TLA+ model of the Cadenza bridge

Cadenza is a browser DAW (`tamekoma-night/`). Its sound can come from a native
process on the user's computer, the *bridge* (`cadenza-bridge/`): the browser
edits a project over a local WebSocket, the bridge keeps the authoritative copy,
builds an audio graph from it and hands that graph to the callback of the audio
device. A second process, the *watchdog*, restarts the bridge when it dies. The
other directories of the repository are small applications of their own.

These modules model the bridge and the browser's connection to it, because that
is where threads, locks, a lock-free ring, shared queues, a restart loop,
musical time, foreign plug-ins and reconnecting sockets meet. TLC checks them
on small instances; the theorems hold for every value of the constants and are checked by TLAPS.

## 1. Inventory

| Component | State | Operations | Interacts by |
| --- | --- | --- | --- |
| Session (`bridge-core/session.rs`, `handlers.rs`) | project, track index, editor windows, each behind a mutex of its own | `project.*`, `chain.*`, `transport.*`, `midi.*`, `render.wav`, editors | called by the reader task of every connection; pushes commands into the ring |
| Project patch (`plugin-host/patch.rs`) | the project it is applied to; in a second patcher the graph | JSON patch ops on tracks, inserts, sends, automation, buses, master | `apply_patch_to_project` is called under the project mutex, `apply_patch` by tests only |
| Audio engine (`bridge-audio/lib.rs`) | worker state, command ring, telemetry ring, engine state of the callback | start, `send_rt`, callback | the ring (network to audio), the telemetry ring (audio to network) |
| Graph (`plugin-host/graph.rs`) | tracks, buses, bus order, buffers | build from a project, sort buses, render a block | built on a network thread, owned by the callback afterwards |
| Watchdog (`bin/cadenza-watchdog`) | restart count, backoff index | spawn, wait, pause | parent of the bridge process |
| WebSocket server (`bridge-core/ws_server.rs`) | per connection: reader, telemetry and writer task, a channel of 256 messages | accept, read, write, close | session, telemetry ring |
| Entitlements (`bridge-core/entitlement.rs`) | the verified session and its expiry | verify, clear, read | HTTP to the backend; read by the gate in `handlers.rs` |
| Clips, transport, automation (`plugin-host`) | position, notes, points | events of a block, value at a tick | called by the graph in the callback |
| Offline render (`plugin-host/render.rs`) | a transport and a graph of its own | render a range of ticks to a file | called by the session with a graph built from the project |
| Instruments and effects (`plugin-host`, `bridge-clap`, `bridge-vst3`) | voices, filters, foreign plugins | load, process | called by the graph |
| Process, tray, updater, autostart | status cells | menu entries, poll | shared cells in `BridgeState` |
| Browser client (`frontend/src/lib/bridge`, `stores/bridge.svelte.ts`) | socket, state, pending requests, reconnect timer | connect, disconnect, send | WebSocket to the bridge |
| Song store and engines (`frontend/src/lib/stores`, `playback`) | current song, engine | local edit plus patch, save, load | client of the bridge, HTTP to the backend |
| Backend (`tamekoma-night/backend`) | song and thread documents | CRUD, tickets, language-model calls | HTTP |

What is hard in this code:

* *Interleaving.* A handler takes several locks in turn and never one for the
  whole request. `mutate_project` commits under the project mutex, then builds
  and pushes the graph without it; `project_load` uses two separate critical
  sections.
* *Partial failure.* A patch stops at its first failing op and keeps what the
  ops before it did. A circle of buses is found only after it is stored. A push
  into a full ring fails after the project has changed.
* *Staleness.* A live note travels as a track index; a graph is built from a
  clone; an editor opens after the lock that found its node is released.
* *Bounds.* The ring holds 256 commands, and without a device nobody empties it.
* *Ordering in the graph.* The bus order must put every source first for every
  routing, or a block is rendered without some of its signal.
* *Rounding.* Positions are counted in samples, notes in ticks, and samples per
  tick is a fraction. Blocks of any length are turned into ranges of whole ticks:
  no note may fall between two blocks or behind the last frame of one.
* *Pools.* A synthesiser has a fixed number of voices, the drum kit of triggers;
  a note that finds none free takes one away, and later note-offs must not hit
  the wrong note.
* *One handler for many sockets.* The browser client reacts to the close of any
  socket as if it were the current one, and nothing keeps two `connect()` calls
  from running at a time.
* *Restarts.* Backoff, clean-run reset and limit are advanced in two places.
* *Two of everything.* One patcher changes the document and another the graph;
  the document is sorted into a graph again, the graph in place. Sends cache the
  index of their bus, which moves when a bus is removed.
* *Tasks around a queue.* A connection has three tasks on one bounded queue, and
  each ends for reasons of its own; all connections take from one telemetry ring.
* *Shared verdicts.* One cache of entitlements serves all connections; answers of
  the backend arrive in any order, late, or not at all, while time passes.
* *Foreign code.* Loading a CLAP plug-in is seven calls, each with its own way out,
  on a bundle that several instances share.

What makes each component correct: the audio thread renders what the project
says once the edits have been answered, and meanwhile only graphs that were the
project at some time; a note sounds on its track; a patch is applied by one
handler alone; no rendered graph has a circle of buses; every request is
answered; every bus hears what feeds it; notes that are played are heard and
end; a rendered file has its whole range; no voice sticks; a patched graph is the
one its patched document gives, and every track is heard where its document
routes it; answers come once and in order, and no telemetry event is taken twice;
premium commands stop within a bounded time after a cancellation; every call to a
plug-in is undone; the browser's calls are all settled and its client never stops
trying to connect; the watchdog follows its schedule and its limit.

`PROJECT.json` lists the hazards line by line with the properties that cover them.

## 2. Modules

| Module | Models | Used by |
| --- | --- | --- |
| `Routing` | what a circular bus routing is | `BridgeSession`, `BusOrder`, `ProjectGraph` |
| `BridgeSession` | session, patches, command ring, installation of graphs | `MCBridgeSession`, `BridgeSessionProofs` |
| `GraphMirror` | abstract: an audio thread that follows the project's revisions | refined by `BridgeSession` |
| `BusOrder` | `recompute_bus_order` step by step, and the bus part of `Graph::process` | `MCBusOrder`, `BusOrderProofs` |
| `Ticks` | the conversions between ticks and samples, as functions | `Playback`, `Render` |
| `Playback` | the callback as a player: transport, commands, note events of blocks | `MCPlayback`, `PlaybackProofs` |
| `Render` | `render_to_wav` | `MCRender`, `PluginHostProofs` |
| `ProjectGraph` | a document, the graph built from it, its routing and one block of it | `LivePatch` |
| `Automation` | `value_at` of a lane, as functions | `LivePatch` |
| `LivePatch` | the two patchers, on a document and its graph | `MCLivePatch`, `LivePatchProofs` |
| `Connections` | the tasks and queues of the WebSocket connections, the telemetry ring | `MCConnections`, `ConnectionsProofs` |
| `Entitlement` | tickets, their verification, the cache, the gate | `MCEntitlement`, `GuardProofs` |
| `VoicePool`, `DrumKit`, `ClapInstrument` | voices of the synthesisers, triggers of the drum kit, the life and the notes of a CLAP plug-in | `Instruments` |
| `Instruments` | the instrument of a track, which is one of these | `MCInstruments`, `PluginHostProofs` |
| `BridgeClient` | the browser's `client.ts` | `MCBridgeClient`, `BridgeClientProofs` |
| `Watchdog` | `run_loop` | `MCWatchdog`, `GuardProofs` |

### BridgeSession

One action is one critical section, so the interleavings of the model are those
of the code. `pc[c]` says where the handler of connection `c` stands and
`work[c]` what it carries there:

| Code | Actions |
| --- | --- |
| `project_load` | `LoadBuild` (graph, refuses a circle), `LoadIndex`, `LoadStore`, `SendRt` |
| `project_patch` | `PatchBegin` (takes the mutex), `PatchOp` for each op, `PatchEnd` (index, clone, release), `Rebuild`, `SendRt` |
| `chain_add_node`, `chain_remove_node`, `chain_set_param` | `ChainAddNode`, `ChainRemoveNode`, `ChainSetParam` (one op under the mutex), `Rebuild`, `SendRt` |
| `midi_note_on`, `midi_note_off` | `MidiNote`, `SendRt` |
| `transport_*`, `set_sine` | `Transport`, `SendRt` |
| `project_hash`, `render_wav` | `ReadProject` |
| `chain_show_editor`, `chain_hide_editor` | `ShowEditor` then `OpenEditor`; `HideEditor` |
| `require_premium!`, unsupported formats | `EditRefused` |
| `start`, `start_engine`, `send_rt` | `SendRt` |
| `run_callback`, `apply_rt` | `Callback`, one command at a time |

A patch is applied op by op although the mutex hides the steps between from the
other handlers: that no half of a patch gets out is a property
(`SnapshotsAreCommitted`) and not an assumption. `lock` is therefore a variable
only for this one critical section; all others are single actions that require
`lock = None`.

Data: a project is its track order, its insert nodes and its bus sends. Volume,
pan, mute, solo, automation and the parameters of a node are one op that leaves
the document as it is but counts as an edit. The set of buses is fixed: adding
or removing one changes nothing these properties tell apart. `rev`, `lastEdit`
and, in a live note, `track` and `trusted` are history variables.

### BusOrder

`Init` picks a routing and counts in-degrees, `Pop` and `Walk` are the loop of
Kahn's algorithm with one send per step, `Finish` keeps the order or fails.
`StartBlock`, `RenderBus`, `EndBlock` are the bus part of `Graph::process`, block
after block; a signal is the set of buses that contribute to it. Bus ids may
coincide and sends may name unknown buses, as in the code.
The modules are tied together by `Routing!Cyclic`: `BridgeSession` and
`ProjectGraph` take it as the condition under which a graph cannot be built, and
`BusOrderProofs!SortOrRefuse` proves that the algorithm refuses exactly that.

### ProjectGraph, Automation, LivePatch

`ProjectGraph` has the document with what routing and patches depend on (nodes of
any format, sends by bus id, lanes of points) and `Fresh`, the graph of
`Graph::from_project`: built-in nodes only, and in every send the index of its bus
(`CacheSendIndices`). Nodes of a fresh graph are `tuned`: `from_project` sets the sample rate
of every one of them. The sort itself is abstract here: `Orders` is any order with
sources first, which `BusOrder` implements. `Mix` is one block of `Graph::process`
over sets of tracks instead of samples.

`LivePatch` applies every batch to both: `ApplyOne` is `apply_patch`, `ApplyOneProject`
is `apply_patch_to_project`, and below each there is one operator per function of
`patch.rs` (`LiveInserts` for `apply_track_inserts`, and so on) that maps a list and an
operation to the set of its outcomes, empty when it is refused. `PatchBegin`,
`PatchOp`, `PatchEnd` are the loop with its first failure and the sort at the end;
`Rebuild` is what the session does after every patch.

The two are meant to agree and do on all but the operations of `Differs`: nodes of
other formats than builtin, which the graph refuses and the document takes; bypass,
which the graph has for tracks only; nodes added to a graph at another `rate` than the
48000 an effect is made with, which `apply_patch` never tells the rate (`AddedNode`,
`patch.rs:101-103`; a node whose sound has no rate is counted with them); lanes, of which the
graph can only be given more. `PatchedIsRebuilt` is about all others. In production the document is
patched and the graph rebuilt, so the differences are not heard; `apply_patch` has
no caller but tests.

Whether a batch ends with a sort is decided by the text of its paths (`Topological`:
`starts_with("/buses")` or `contains("/sends")`), while `parse_path` also takes
`buses/-` and `//buses/..`. An operation therefore has two flags of its text besides
what the path means (`starts`, `sends`). A bus added or removed by such a path is `Overlooked`:
no sort follows, and the graph is `stale` until another operation brings one or it is
rebuilt. It is stale as well after a batch that failed behind a change of the buses and after
a circle (`SortFails`). `RoutesAreCurrent` and `MixFollowsRouting` are about
graphs that are not.

### Connections

| Code (`ws_server.rs`) | Actions |
| --- | --- |
| accept loop, `handle_connection` | `Accept` |
| reader task | `Handle` (a request to its end), `Answer` (one message into the queue), `ReaderEnds` (a close, the end of the stream, or a message that cannot be read) |
| telemetry task, `try_recv_batch` | `Poll`, `Forward` |
| writer | `Write`, `WriteToNobody`, `WriteFails` |
| `run_callback` | `Emit` |

A request is one step here, since the session's side of it is in `BridgeSession`;
its kinds differ in what they answer: `garbled` is text that does not parse, which is answered
with an error, `oversized` a message over the cap of 16 MB or one that breaks the protocol, which
gives a receive error and ends the reader alone (`Unreadable`). Messages carry numbers instead of contents.

### Entitlement

`IssueTicket` and `VerifyTicket` are the backend, `Refresh`, `ParseAndStore` and
`RequestFails` are `refresh_blocking` with its ways out, `Granted` is the gate.
Time is a `Tick` that ages tickets, requests, the cache and the cancellation
together; expiry is a comparison at the moment of use, as in the code.

`ToldIsGranted` states what the code does where its comments promise less: that
the cache reports the free shape when "verification failed" (`entitlement.rs:16-17`) and that `clear`
is "called on disconnect or explicit sign-out" (`:190-191`). `clear` has one caller, the answer of
the backend that a ticket is not valid; every other failure is told to the client as
`verify_failed` too and leaves the session as it is.

### Ticks, Playback, Render

`Ticks` has each conversion of the code as an operator over fractions
`[num, den]` of samples per tick. The code computes in `f64`; the models keep
what its truncations and `ceil` do and leave out the rounding of the quotients
themselves.

`Playback` has one action per command of `apply_rt` (`SetGraph`, `Play`, `Seek`,
`Stop`, `LiveNotes`, `SineDebug`) and `Block` for the rest of `run_callback`, with
`Process` for the note events of `Graph::process` and `EventsInRange` for
`MidiClip::events_in_range`. Commands that arrive together are several actions
before the next `Block`. There is one track, as tracks do not meet in this part
of the code; `sounding` is the set of pitches its instrument holds on.
`Render` is the loop of `render_to_wav`: `FullBlock`, `PartialBlock`, `AtEnd`, with
the ticks it has asked the graph for as a history variable; its definitions bear its
name (`RenderSpec`, `RenderInit`), so that `PluginHostProofs` can extend it together with
`Instruments`.

### VoicePool, DrumKit, ClapInstrument, Instruments

What `Playback` summarises as a set: which voice a note takes. The stages of an
envelope before the release are one, and a released voice may end at any
sample. The pool of `SineInstrument` stands for those of `SuperSawInstrument` and
`SubBassInstrument`, whose code is the same. `DrumKit` has `trigger` (`Hit`) and one
frame of `process` (`Sample`); the set `hits` is a history variable that knows, whatever
the code counts, how long ago each trigger in use was hit.

`ClapInstrument` makes the seven calls of `load` one by one (`Succeeds`), each of which
may return false or nothing (`Fails`, then the calls of `Cleanup`) or be missing
from the bundle (`Misses`, which returns at once). `Drop` and `Undo` are the drop of
the instrument. The calls of several instances of one bundle mingle, and what a
call does to the plug-in and to the shared entry (`After`, `Before`, `Made`) is the
CLAP interface as the code uses it. `FillEvents` turns the events of a block into those
of the plug-in and sorts them; `Place` is where the sort, which is stable, puts each.
That a block comes sorted by offset (`IsBlock`) is what `Graph::process`, the one
caller, does before it (`graph.rs:446`). `Instruments` is the choice `build_graph` makes for a track; a
track has one instrument, so that the parts do not meet.

### BridgeClient

Events of sockets, timers and calls of the page are tasks; what follows an
`await` is a microtask and comes before the next task, which `NoMicrotask`
expresses.

| Code | Actions |
| --- | --- |
| `connect` | `Connect`, then per port `TryOpen` or `FactoryThrows`; `GiveUp` after the last |
| `tryOpen`, `attach`, `performHandshake` | `OpenFails`, `Opens`; `HandshakeOk`, `HandshakeFails`, `AfterHandshakeFailed` |
| `send`, `sendRaw`, `handleMessage` | `Send`, `Reply`, `CallTimeout` |
| `handleClose`, `scheduleReconnect` | `HandleClose`, `ReconnectTimer` |
| `disconnect` | `Disconnect` |

A set of `connect()` calls can be running at once, because the guard at the top
of `connect` does not prevent it.

### Watchdog

`Spawn`, `SpawnFails`, `ExitClean`, `WaitFails`, `Crash` and `Wake` are the
branches of `run_loop`. Durations are numbers of seconds that `Crash` chooses;
no clock runs. The module's definitions bear its name (`WatchSpec`, `WatchInit`), so that
`GuardProofs` can extend it together with `Entitlement`.

`GivesUpAtLimit` states what the code does: with a limit of *n* the bridge is started *n*
times before `run_loop` gives up, that is restarted *n* - 1 times. The comment of the limit
("Stop after this many total restarts", `lib.rs:28`) and that of the test ("respawns it the
configured number of times", `respawn.rs:2-3`) say *n*; the last restart is announced in the log,
waited for and counted in the result, and not made.

## 3. Runs

| Run | Specification | Checks | Shows |
| --- | --- | --- | --- |
| `SessionTurns` | `Spec`, action constraint `TakeTurns` | `AudioFollowsProject`, `IndexFollowsProject`, `NoteReachesItsTrack`, `EditorOpensOnNode`, `GraphMovesForward` | with clients that take turns the audio thread ends up with the project, failures of every kind included, and the rendered graph implements `GraphMirror` |
| `Session` | `LiveSpec` | `TypeOK`, `GraphsAreOrdered`, `SnapshotsAreCommitted`, `RequestsAreAnswered`, `PushedGraphsAreHeard` | what holds for every interleaving of two handlers; nobody waits for ever, and a pushed graph is rendered |
| `LivePatch` | `Spec` | `PatchedIsRebuilt`, `RoutesAreCurrent`, `MixFollowsRouting`, `AutomationFollowsPoints` | after any batches the patched graph is the rebuilt one but for the operations of `Differs`; its sends point at their buses and every track is heard where its document routes it, unless the graph is `stale`; lanes follow their points |
| `Connections` | `Spec` | `AnswersInOrder`, `TelemetryReachesOne`, `RequestsAreAnswered` | answers come once and in order, and in the end for every request that no unreadable message is before, whatever telemetry fills the queue; a telemetry event is in one place or accounted for |
| `Entitlement` | `Spec` | `PremiumIsBounded`, `ToldIsGranted` | a cancelled plan is let through for a bounded time, and what a client was told holds, over requests that fail as well |
| `BusOrder` | `Spec` | `TypeOK`, `SortsOrRefuses`, `BusesHearTheirSources` | all routings of three buses, two sends each |
| `Playback` | `Spec` | `NoTickIsSkipped`, `EventsFitTheBlock`, `PlayedNotesEnd`, `StopSilences` | no note is lost between two blocks or in one, and notes end, whatever commands come in between |
| `Render` | `LiveSpec` | `RendersItsRange`, `Finishes` | a file has all of its range and little more, and it is finished |
| `Instruments` | `Spec` | `TypeOK`, `NothingSticks`, `HeldNotesSound`, `OldestIsStolen`, `CallsAreBalanced` | steals and repeated notes leave no voice on without its key; the hit that is cut short was hit first; whichever call of a plug-in fails, just what was done is undone |
| `Client` | `LiveSpec` | `TypeOK`, `NoneIsForgotten`, `KeepsTrying`, `CallsAreSettled`, `Reconnects` | whatever `connect()` calls and closes cross, nobody is forgotten, every call ends, and the client gets back to a bridge that is there |
| `Watchdog` | `WatchSpec` | `PauseFollowsFailures`, `GivesUpAtLimit` | the schedule 1, 2, 5, 10, 30 with a limit of 8: eight starts, seven restarts |

One more run shows where code and comment disagree:

| Run | Violated | What happens |
| --- | --- | --- |
| `SessionStaleGraph` | `AudioFollowsProject` | two interleaved edits push in the opposite order of their commits; the older graph stays |

The models also have behaviours that surprise and that no run is about:

* Two interleaved loads leave the track index of one document with the project
  of the other (`LoadIndex`, `LoadStore`).
* Without a device the ring fills for good; from then on every edit changes the
  project and is answered with an error (`SendRt`).
* A render can play the last sample's worth of a tick after its range, or the
  rest of the tick before it (`RendersItsRange` bounds both).
* When all voices are held it is always voice 0 that is stolen. After the first
  steal that is the newest, not the oldest that `instruments.rs:166` speaks of.
* A close during the handshake lets the reconnect timer start a second
  `connect()`; each may leave an open socket, of which the client uses the last.
* A block that starts in the tick where a clip ends passes the clip over
  (`ClipEnd`): if the block before did not overlap that tick, a note that ends with
  its clip has no note-off until Stop. `PlayedNotesEnd` holds for what was played
  through from a block that had the note-off in its range.
* The sessions that `Entitlement` caches outlive the client that verified them, and
  a ticket of one client that is rejected takes away what another was told. The
  browser verifies on connecting only (`bridge.svelte.ts:171`), although
  `entitlement.rs:71` has the bridge refresh every 15 minutes: after that a premium
  user is refused until the next connect.
* A client that closes ends the reader of its connection and nothing else. The
  telemetry task goes on taking events that the clients still there miss, until a
  write fails (`WriteToNobody`, `WriteFails`). A receive error ends only the reader too,
  with the client still there: it goes on getting telemetry, and its
  requests are never answered again (`Unreadable`, `CutOff`). A message that does not parse is
  answered without its id, so that its caller waits for the time-out.
* A plug-in function that is missing makes `load` return without `destroy` or
  `deinit` (`Misses`); `CallsAreBalanced` is about bundles that have them all.
* A graph that `apply_patch` has left halfway keeps stale indices and orders
  (`stale`), and so does one that was given or lost a bus by a path that does not begin with
  `/buses` (`Overlooked`); with a bus removed, an index may be past the end of the
  list, where the callback panics (`graph.rs:518`, `:552`).
* An effect that `apply_patch` adds to a graph runs at 48000, whatever the rate of the graph
  (`AddedNode`), until the graph is rebuilt.
* A request for a verification that fails keeps the premium session of an earlier one, although the
  comment of the cache says it reports the free tier then (`RequestFails`).
* `value_at` in the very tick where a segment that holds ends still has the value
  before it, and with unsorted points a segment earlier in the list wins.
* `run_loop` returns `Ok` on a clean exit too, and never makes the last restart
  it has counted and waited for (`Wake`): one fewer than its comment and its test say.

`AudioFollowsProject`, `IndexFollowsProject`, `NoteReachesItsTrack`,
`EditorOpensOnNode` and `GraphMovesForward` are checked for clients that take
turns, which is what one browser tab does most of the time and what principle 6
of `docs/bridge-architecture.md` asks for ("the latest connection wins"); the
server does not enforce it.

### Bounds

* Two connections: every hazard here is between two handlers. Two tracks, so
  that a track's index can change; two buses, the smallest circle; one node in
  the documents and one id that `chain.addNode` can still produce.
* `RingCap = 2` (1 in `Session`) instead of 256: the ring is full, empty and
  in between within a few steps.
* `MaxRev` bounds the edits that start: 2, and 3 in `Session`, so that
  one handler can stand between the end of its edit and its push while another
  is in the middle of a patch. Handlers that have begun before the bound is
  reached may pass it. To afford the third revision `Session` has one
  track and one node; nothing it checks depends on the place of a track.
* Documents and patches are chosen in `MCBridgeSession`: a circle, a patch that
  closes it and one that opens it, one that fails half way, one that moves a
  node, and a document in which a track has another index.
* Connections are interchangeable, hence `SYMMETRY` in the runs without liveness.
* `BusOrder`: three buses have every shape of two sends that matters (chain,
  diamond without a join, triangle, self-send, repeated send, unknown id,
  shared id); the theorems cover the rest.
* `Playback`: blocks of 1, 2 and 4 frames with `MaxFrames = 3`, so that one device
  block is cut; two projects with 5/2 and 4/3 samples per tick, so that blocks
  and ticks drift against each other; clips that follow each other, notes that
  touch, a note without length, one that ends with its clip. `MaxPos = 16`
  samples go past the end of both projects, `MaxLive = 2` events can wait.
  `NoTickIsSkipped` is proved for all values.
* `Render`: blocks of 4 frames, ranges within -1..8 ticks, five rates; the
  theorems cover all others.
* `LivePatch`: two tracks, two buses of which one feeds the other, a node of another
  format, a lane of three points; 50 operations, wrong ids, refused verbs and paths without
  their slash among them; the default sample rate and one other. `MaxOps = 3`, in any batches: a bus can be added, fed and removed again, a
  circle closed and opened, and what one batch leaves behind met by the next.
* `Connections`: two connections, one of which asks twice, the second time with a message that may be
  too long; queues of one message and
  a ring of two, so that every send may have to wait and events are dropped;
  `MaxEvents = 3` goes past the ring, `BatchSize = 2` past the queue.
* `Entitlement`: a session lasts three ticks, a ticket two and a request one, so
  that each can end within each; two clients, because one can undo the other.
  `PremiumIsBounded` is tight: with one tick less TLC finds a behaviour. Both
  properties are proved for any times and clients.
* `Instruments`: four voices, three pitches, each struck twice (`MaxDown = 2`): up
  to six note-ons for four voices. Three drum triggers that last four
  samples: they can all be in use, be stolen and end in any order. Two instances of
  a bundle that lacks no function or any one of them; blocks of two events, those
  of one frame in either order, all-notes-off among them.
* `Client`: two ports, two `connect()` calls, two sockets, one caller: an old
  socket can close after a new one is attached. When all sockets or loops of the
  model are in use, an action that needs another waits: the theorems hold for
  any number, and `Reconnects` excepts that state.
* `Watchdog`: the limit ends every behaviour, and eight failures go past the end
  of the schedule. Run times lie at 0 and on both sides of the threshold.

`CHECK_DEADLOCK FALSE` is set for `BusOrder`, where a refused graph ends the
behaviour, for the watchdog, which returns, for `Render`, which finishes, for
`Instruments`, whose plug-ins are gone in the end and where silence does nothing,
for `LivePatch`, where an operation may be the last of the bound and the document
have a circle, and for `Connections`, where all clients may have left.

### Fairness

Handlers run on runtime threads that the operating system schedules, so each
started handler has weak fairness. `LoadStore` needs a `std::sync::Mutex`, which
has no queue: it gets strong fairness, the assumption that a lock which is free
again and again is acquired in the end. The callback is weakly fair; its
action is enabled only while the device runs. No request is ever required to
start.

In `Connections` the readers have strong fairness: `tokio`'s bounded channel gives its
room to waiting senders in turn, so a reader whose queue has room again and again
gets its message in. The writers are weakly fair, which asks the network to
take frames of a client that is there. Nothing is asked of the telemetry task.

`Render` is one loop without waits: weak fairness of its steps. In the browser
microtasks run before anything else and timers go off; since tasks of other
kinds can come first again and again, the timers of calls and of the reconnect
have strong fairness. That an opened socket does open again and again is the
assumption of `Reconnects` that the bridge is there; `CallsAreSettled` does not
need it.

## 4. Theorems

A theorem holds for every value of the constants that the named `ASSUME` of its module
allows; TLC evaluates these assumptions in the passing runs.

### `BridgeSessionProofs`

For any sets of connections, tracks, buses, nodes, documents and patches and any
ring capacity. For every interleaving:

* `SessionTypes`: `Spec => []TypeOK`. It includes that the mutex is held over
  steps by exactly the handler in the middle of a patch, and the bound of the ring.
* `GraphsOrdered`: `Spec => []GraphsAreOrdered`. Inductive with `TypeOK`.
* `SnapshotsCommitted`: `Spec => []SnapshotsAreCommitted`. Inductive with
  `TypeOK`; the step that matters is that the project's revision moves
  whenever its content does, so a snapshot that is overtaken stays a committed
  one (`ProjectMoves`, `SnapshotKept`).

For clients that take turns the theorems are about `TurnsSpec`, which is `Spec` with
`TakeTurns` on every step, what the run `SessionTurns` has as an action constraint:
`AudioFollows`, `IndexFollows`, `NoteReaches`, `EditorOpens`, and `MovesForward`, the
refinement of `GraphMirror` step by step (its safety part: initial states and
steps). None of the five is inductive. `TurnsInv` is, together with the invariants
above, and says what a handler carries and what the ring holds in between:

| Part | Says | Needed because |
| --- | --- | --- |
| `OneAtATime` | one handler is busy | nothing it has read is overtaken |
| `ProjectIsPushed` | what is built and pushed is the project as it still is | the graph is built and sent after the mutex is released |
| `ProjectIsHeard` | after an edit that succeeded the last graph of all, in the ring or rendered, is the project | `AudioFollowsProject` speaks of an empty ring |
| `IndexIsCurrent` | the index is that of the project, or in the middle of a load that of the project to come | a load stores index and project in two critical sections |
| `NotesFit` | a note in the ring, or about to be sent, fits the graph it will find there | a note travels as an index, behind graphs that may move tracks |
| `NodesAreThere` | the node of a window about to open is in the project | the lock that found it is released |
| `GraphsInOrder` | graphs stand in the ring by revision, newer than the rendered one, older than one to come | a pop must not go back |

### `ConnectionsProofs`

For any number of clients, requests and events, and any size of queue, ring and batch:

* `AnswersOrdered`: `Spec => []AnswersInOrder`. The property equates one list, what the
  client has, what is queued and what is still to be queued, with the answers to the
  requests that were read. `RequestsInv` adds that the unread requests are the last
  ones and without a gap (`InOrder`), and that nothing is under way on a connection
  that was not accepted (`Accepted`). A step moves the border between the parts of the
  list or appends the answers to one more request.
* `TelemetryPlaced`: `Spec => []TelemetryReachesOne`. `TelemetryInv` has two parts:
  the events so far are divided among the connections, the ring and the lost (`Parted`,
  about three disjoint sets whatever lists they come from), and within a connection
  what the client has is older than its queue, that than its batch, and that than the
  ring (`OldestFirst`). The second is why the ring, which all connections take from,
  never gives a client an older event.
* `ConnectionTypes` has the types they rest on.

Functions on lists that are defined by recursion (`AnswersIn`, `AnswersTo`) are unfolded by
one lemma (`Recursion`), from the existence of such functions on the naturals.

### `PlaybackProofs`

For every song, tempo, sample rate, block size and order of commands: `NoneSkipped`,
`EventsFit`, `StopsSound`, `NotesEnd`. Assumed of songs is that a note starts no earlier than
its clip and has no negative length (`Notes`), which is how the editor counts them.

* Arithmetic of the truncations: `BlocksMeet` (a position rounded down plus a length
  rounded up reaches the position after the block, rounded down), `EventFits` (the offset
  of an event lies within the frames of its block) and `BlocksOverlapLittle` (blocks share a
  tick at most).
* What a block does with its events: where `FlattenSeq` puts the elements of its parts
  (`Flattened`, `Placed`), that `InOrder` has every event of the block once and by offset
  (`Ordered`), and that after a fold a pitch is on just if its last event is (`Folded`).
* What the clips give: each note has its on and its off among the events of a range
  that holds their ticks, and the off behind the on (`ClipServed`, `ClipsServed`).

`PlayInv` joins the four properties with what makes them inductive: the range played last
ends a tick after the position at most (`HeardAhead`, so that a note-off is not in a part
that two blocks share and both leave out), there is such a range only while the transport
plays (`HeardWhilePlaying`), nothing sounds without a graph (`NothingWithoutGraph`), and before
anything was played through only the keyboard's note may be on (`UnheardIsQuiet`).

### `LivePatchProofs`

For any documents that are well formed and any operations that parse, in any batches,
at any sample rates, with any refused:

* `RoutesCurrent`. The property is silent while a batch has changes to sort, and a sort
  restores it from any graph (`SortRestores`, with `SameTargets` and `SameOrders`: filling
  in the indices moves no bus). What remains is that an operation which asks for no sort
  and is not `Overlooked` leaves the list of buses, their ids and all sends alone (`RoutesStay`, with `BusKeepsSends`
  for a change of a bus by a path without its slash); for that `Inv` also keeps the shape
  of tracks.
* `PatchTypes`: document and graph stay well typed. From it `LanesFollow`: the blend of two
  integers by a weight between 0 and 1 lies between them, for each shape of a segment,
  the smooth one included, so that a lane's samples stay within its points.
* `PatchMirrors`. The property is an equation between two graphs; what is inductive is a
  relation, list by list (`Same`): equal sends but for their index, equal lanes, equal buses,
  and of the nodes those that are built in (`Only`), tuned alike. `Mirrored` adds that both patchers have
  refused the same. There is one lemma per kind of list and operation, and
  `SameIsRebuilt` gives the equation back.
* `MixFollows`. The fold over the order is unrolled bus by bus. A bus that is rendered
  after its sources has all it will have, so what is heard at the end is closed under the
  sends, and nothing is heard where no chain of sends leads. That the order visits every bus
  comes from its length and its distinct elements. `Settled` (changes to sort are left only
  while a batch is under way) joins this to `RoutesCurrent`.

### `BusOrderProofs`

For any routing of any length:

* `BusTypes` and `SortOrRefuse` (from `SourcesComeFirst` and `CyclesRefused`), from the invariant
  `Sorting`: the in-degree of a bus is the number of its sends not yet walked
  (`Counting`), the stack holds just the unplaced buses of in-degree zero
  (`Stack`), and no bus of a circle is ever placed (`CirclesWait`).
* `BusesHear`, from the invariant that after `k` buses every bus has heard
  exactly those among the first `k` that feed it.

### `PluginHostProofs`

The instruments, for any number of voices, triggers, keys and instances of a bundle, any life
of a hit and any blocks of events: `InstrumentTypes`, `NoNoteSticks`, `HeldNotesAreHeard`,
`OldestHitIsStolen`, `CallsBalanced`. Assumed are finitely many keys and instances, blocks
sorted by offset, and that `None` is not the name of a function. `InstrumentsInv` has a part
for each:

| Part | Says | Needed because |
| --- | --- | --- |
| `SynthInv` | a voice that is on has a note | a note-off looks for voices by their note, which idle voices keep |
| `HeldInv` | while it is not crowded each key has as many voices as note-ons | a note-on must find a voice that is not on: the notes that are down number the voices that are (`NotesFillVoices`), so that with fewer than `MaxVoices` of them one is left |
| `DrumsInv` | the hits are the triggers in use, each as old as its trigger counts, none past its life | the oldest count is the first hit only if no count was carried over |
| `CallsInv` | phase, calls made and calls to make of an instance fit its plug-in (`Fits`), and the entry counts the instances between init and deinit (`EntryCounted`) | the entry is shared: that it is in use while one is there is a count over all |
| `KeysFollowEvents` | a plug-in's keys are those of the events | inductive by `BlockIsPlayed` |

`EntryCounted` is an equation for bundles with all functions and an inequality for others,
where a use is left over; the types need the latter. `BlockIsPlayed` says what a whole
block does to the keys, by induction along the events: they stay sorted as they are turned
into note-ons and note-offs, all-notes-off into one for each key, so that the stable sort
moves none (`SortedStays`), and after each the last event of every key agrees (`OnByJoined`,
`DownByNext`).

Rendering, for every range, tempo, sample rate and block size: `RangeIsRendered`, which joins
`WholeRange`, `LittleMore` and `HardlyMore`, and `RenderTypes`, from the invariant that a
rendering that is under way has every tick before its position (`BlockTicks`) and is past
the end of its range by less than a tick and a sample (`FullBlockInv`).

### `BridgeClientProofs`

For any number of ports, sockets, `connect()` calls and callers: `ClientTypes`,
`NobodyForgotten`, `AlwaysTrying`, which are inductive together with `OpeningsAreApart` (no two
`connect()` calls wait for one socket, and nothing has been sent on it) and `IdleIsEmpty`
(after `disconnect()` nothing waits).

### `GuardProofs`

The entitlement cache, for any number of clients and any times: `PremiumEnds` and
`ToldIsTrue`. The age of a cancellation is bounded on every stage of a verification,
by the age of the ticket, then by the ticket's life and the wait for the answer,
then by what is left of the session (`TicketsAreRecent`, `AnswersAreRecent`,
`SessionIsRecent`); a client that was told its tier and the cache have one session
(`ToldIsCached`).

The watchdog, for every schedule, threshold and limit: `PausesFollowFailures` and
`WatchdogGivesUp`, from the index that is one step ahead of the failures in a row
(`BackoffInv`) and attempts that are counted like restarts (`AttemptsInv`); that it gives up after
exactly its limit of starts needs the second, since the code compares restarts.

### Model-checked only

* Liveness under fairness (`RequestsAreAnswered`, `PushedGraphsAreHeard`, `Finishes`,
  `CallsAreSettled`, `Reconnects`): what fairness enables is beyond the prover.
  `GraphMirror` has no liveness, so that `MovesForward` is the whole refinement.
* What `AudioFollowsProject` and its like say of clients that do not take turns: it
  is false, see `SessionStaleGraph`.

Where a proof needed it a filter is written as a recursive function instead of
`SelectSeq` (`Only` in `ProjectGraph`, `AnswersIn` in `Connections`); it selects the same.

## 5. What could come next

* One theorem from `Playback` to `Instruments`: the events of a block that `Playback` plays
  are a block of `Instruments` (`IsBlock`), which both modules now say on their own.
* That `Fresh` in `ProjectGraph` may take any order with sources first is joined to
  `BusOrder` by its statement only; the two could be one refinement.
* `BridgeStore` and `SongStore` over `BridgeClient`: optimistic edits, patches
  without a loaded project, late replies to saves.
* The flag of `set_sine`, which two threads store, and the content of telemetry.

## 6. Not modelled

* Signal processing: oscillators, filters, effects, gains, pans and the samples of
  a render are floating-point arithmetic without control. With them go parameters,
  names, levels, and the frame that holds sampled automation values of a block.
* The song store, the playback engines and the note generators of the browser:
  bound to Svelte state, the Tone.js clock and text; the races of the store are listed
  as a hazard.
* What a plug-in does inside its calls, and the directory scan. The VST3 host and the
  updater are stubs in this commit.
* The bridge process around the server: nothing waits for the thread that runs the
  server, so that when it fails the process goes on without one and the watchdog
  sees a healthy child. The tray, autostart and status cells have no control.
* An accept error, which ends the server while its status stays "listening", and
  the threads of the runtime: `session.verify` blocks one for as long as its request
  takes, up to ten seconds.
* The backend beyond its tickets, which keeps no state between requests; menus,
  installers, deployment, and the four other applications, which share nothing with
  the bridge.
