----------------------------- MODULE Connections -----------------------------
(***************************************************************************)
(* The WebSocket connections of the bridge (bridge-core/ws_server.rs) and  *)
(* the telemetry they share.                                               *)
(*                                                                         *)
(* Each connection has three tasks around a bounded queue: a reader, which *)
(* handles one request to its end before the next and queues its answer    *)
(* and the events that go with it; a telemetry task, which takes what is   *)
(* in the ring of the audio thread 30 times a second; and a writer, which  *)
(* passes the queue on to the client.  All connections take from one ring, *)
(* so that each of its events reaches one of them at most.                 *)
(*                                                                         *)
(* What a request does to the session is in module BridgeSession; here it  *)
(* is one step that makes an answer.                                       *)
(***************************************************************************)
EXTENDS Integers, Sequences

CONSTANTS
  Conns,        \* connections
  Kinds,        \* of requests: "plain", "withEvent", "garbled", "oversized"
  QueueSize,    \* capacity of the queue of a connection
  RingSize,     \* TELEMETRY_CAPACITY
  BatchSize,    \* what the telemetry task takes at once
  Askers,       \* bound: connections whose clients send requests
  MaxRequests,  \* bound: requests of a client
  MaxEvents     \* bound: telemetry events

ASSUME ConnectionsAssumption ==
  /\ Kinds \subseteq {"plain", "withEvent", "garbled", "oversized"}
  /\ QueueSize \in Nat \ {0} /\ RingSize \in Nat \ {0} /\ BatchSize \in Nat \ {0}
  /\ Askers \subseteq Conns /\ MaxRequests \in Nat /\ MaxEvents \in Nat

VARIABLES
  conn,         \* handle_connection has not begun, runs, or is over
  peer,         \* the client is there
  sent,         \* the requests of a client, by kind
  inbox,        \* its requests on their way to the reader
  reading,      \* the reader task runs
  todo,         \* what the reader has still to queue of its last answer
  batch,        \* what the telemetry task has still to queue of its batch
  out,          \* the queue of the connection
  replies,      \* the answers and their events the client has received
  heard,        \* the telemetry events it has received
  ring,         \* the telemetry ring
  emitted,      \* telemetry events so far
  lost          \* those that reach nobody

vars == <<conn, peer, sent, inbox, reading, todo, batch, out, replies, heard, ring, emitted, lost>>

ReplyTo(n)   == <<"reply", n>>
EventOf(n)   == <<"event", n>>
Telemetry(k) == <<"telemetry", k>>

IsAnswer(m) == m[1] # "telemetry"

ToSet(list) == {list[i] : i \in DOMAIN list}

\* The answers in a queue, in their order
AnswersIn(queue) ==
  LET kept[n \in 0..Len(queue)] ==
        IF n = 0 THEN <<>>
        ELSE IF IsAnswer(queue[n]) THEN Append(kept[n - 1], queue[n]) ELSE kept[n - 1]
  IN  kept[Len(queue)]

EventsIn(queue) == {m[2] : m \in {n \in ToSet(queue) : ~IsAnswer(n)}}

\* A text that does not parse is answered as well, if without its id.
HandleText(n, kind) ==
  IF kind = "withEvent" THEN <<ReplyTo(n), EventOf(n)>> ELSE <<ReplyTo(n)>>

-----------------------------------------------------------------------------
Init ==
  /\ conn = [c \in Conns |-> "none"]
  /\ peer = [c \in Conns |-> FALSE]
  /\ sent = [c \in Conns |-> <<>>] /\ inbox = [c \in Conns |-> <<>>]
  /\ reading = [c \in Conns |-> FALSE] /\ todo = [c \in Conns |-> <<>>]
  /\ batch = [c \in Conns |-> <<>>] /\ out = [c \in Conns |-> <<>>]
  /\ replies = [c \in Conns |-> <<>>] /\ heard = [c \in Conns |-> <<>>]
  /\ ring = <<>> /\ emitted = 0 /\ lost = {}

\* The accept loop takes a client and starts its tasks.
Accept(c) ==
  /\ conn[c] = "none"
  /\ conn' = [conn EXCEPT ![c] = "open"]
  /\ peer' = [peer EXCEPT ![c] = TRUE]
  /\ reading' = [reading EXCEPT ![c] = TRUE]
  /\ UNCHANGED <<sent, inbox, todo, batch, out, replies, heard, ring, emitted, lost>>

ClientSends(c, kind) ==
  /\ c \in Askers /\ peer[c] /\ Len(sent[c]) < MaxRequests
  /\ sent' = [sent EXCEPT ![c] = Append(@, kind)]
  /\ inbox' = [inbox EXCEPT ![c] = Append(@, Len(sent'[c]))]
  /\ UNCHANGED <<conn, peer, reading, todo, batch, out, replies, heard, ring, emitted, lost>>

\* With a close frame behind its requests, or with an error for the reader
ClientLeaves(c) ==
  /\ peer[c]
  /\ peer' = [peer EXCEPT ![c] = FALSE]
  /\ UNCHANGED <<conn, sent, inbox, reading, todo, batch, out, replies, heard, ring, emitted, lost>>

\* run_callback: an event for which the ring has no room is dropped.
Emit ==
  /\ emitted < MaxEvents
  /\ emitted' = emitted + 1
  /\ \/ Len(ring) < RingSize /\ ring' = Append(ring, emitted') /\ UNCHANGED lost
     \/ Len(ring) = RingSize /\ lost' = lost \cup {emitted'} /\ UNCHANGED ring
  /\ UNCHANGED <<conn, peer, sent, inbox, reading, todo, batch, out, replies, heard>>
-----------------------------------------------------------------------------
(* The reader *)

\* The next message gives a receive error: it is over the cap of the connection,
\* or breaks the protocol.
Unreadable(c) == inbox[c] # <<>> /\ sent[c][Head(inbox[c])] = "oversized"

Handle(c) ==
  /\ reading[c] /\ todo[c] = <<>> /\ inbox[c] # <<>> /\ ~Unreadable(c)
  /\ LET n == Head(inbox[c])
     IN  todo' = [todo EXCEPT ![c] = HandleText(n, sent[c][n])]
  /\ inbox' = [inbox EXCEPT ![c] = Tail(@)]
  /\ UNCHANGED <<conn, peer, sent, reading, batch, out, replies, heard, ring, emitted, lost>>

Queue_OrDrop(c, item) ==
  out' = [out EXCEPT ![c] = IF Len(@) < QueueSize THEN Append(@, item) ELSE @]

\* A queue without room keeps its senders waiting.
Queue(c, item) ==
  /\ Len(out[c]) < QueueSize
  /\ out' = [out EXCEPT ![c] = Append(@, item)]

Answer(c) ==
  /\ reading[c] /\ todo[c] # <<>>
  /\ Queue(c, Head(todo[c]))
  /\ todo' = [todo EXCEPT ![c] = Tail(@)]
  /\ UNCHANGED <<conn, peer, sent, inbox, reading, batch, replies, heard, ring, emitted, lost>>

ReaderEnds_OnGarbled(c) ==
  /\ reading[c] /\ todo[c] = <<>>
  /\ \/ ~peer[c]
     \/ inbox[c] # <<>> /\ sent[c][Head(inbox[c])] \in {"garbled", "oversized"}
  /\ reading' = [reading EXCEPT ![c] = FALSE]
  /\ UNCHANGED <<conn, peer, sent, inbox, todo, batch, out, replies, heard, ring, emitted, lost>>

\* A close frame behind the requests ends the reader, and so does a receive
\* error, with the client gone or a message that cannot be read; what is behind
\* it is lost.  Neither ends anything else: the writer and the telemetry task
\* of a client that is still there go on.
ReaderEnds(c) ==
  /\ reading[c] /\ todo[c] = <<>> /\ (~peer[c] \/ Unreadable(c))
  /\ reading' = [reading EXCEPT ![c] = FALSE]
  /\ UNCHANGED <<conn, peer, sent, inbox, todo, batch, out, replies, heard, ring, emitted, lost>>

Reader(c) == Handle(c) \/ Answer(c) \/ ReaderEnds(c)
-----------------------------------------------------------------------------
(* The telemetry task *)

AfterBatch_OffByOne(n) == SubSeq(ring, n, Len(ring))

AfterBatch(n) == SubSeq(ring, n + 1, Len(ring))

\* try_recv_batch takes its events from the ring one by one.
Poll(c) ==
  LET n == IF Len(ring) < BatchSize THEN Len(ring) ELSE BatchSize
  IN  /\ conn[c] = "open" /\ batch[c] = <<>> /\ ring # <<>>
      /\ batch' = [batch EXCEPT ![c] = SubSeq(ring, 1, n)]
      /\ ring' = AfterBatch(n)
      /\ UNCHANGED <<conn, peer, sent, inbox, reading, todo, out, replies, heard, emitted, lost>>

Forward(c) ==
  /\ conn[c] = "open" /\ batch[c] # <<>>
  /\ Queue(c, Telemetry(Head(batch[c])))
  /\ batch' = [batch EXCEPT ![c] = Tail(@)]
  /\ UNCHANGED <<conn, peer, sent, inbox, reading, todo, replies, heard, ring, emitted, lost>>
-----------------------------------------------------------------------------
(* The writer *)

Write(c) ==
  /\ conn[c] = "open" /\ out[c] # <<>> /\ peer[c]
  /\ LET m == Head(out[c])
     IN  IF IsAnswer(m)
           THEN replies' = [replies EXCEPT ![c] = Append(@, m)] /\ UNCHANGED heard
           ELSE heard' = [heard EXCEPT ![c] = Append(@, m[2])] /\ UNCHANGED replies
  /\ out' = [out EXCEPT ![c] = Tail(@)]
  /\ UNCHANGED <<conn, peer, sent, inbox, reading, todo, batch, ring, emitted, lost>>

\* The first frames to a client that has left may still be taken.
WriteToNobody(c) ==
  /\ conn[c] = "open" /\ out[c] # <<>> /\ ~peer[c]
  /\ out' = [out EXCEPT ![c] = Tail(@)]
  /\ lost' = lost \cup EventsIn(<<Head(out[c])>>)
  /\ UNCHANGED <<conn, peer, sent, inbox, reading, todo, batch, replies, heard, ring, emitted>>

\* A write that fails ends the connection and aborts its tasks.
WriteFails(c) ==
  /\ conn[c] = "open" /\ out[c] # <<>> /\ ~peer[c]
  /\ conn' = [conn EXCEPT ![c] = "over"]
  /\ reading' = [reading EXCEPT ![c] = FALSE]
  /\ lost' = lost \cup EventsIn(out[c]) \cup ToSet(batch[c])
  /\ out' = [out EXCEPT ![c] = <<>>]
  /\ todo' = [todo EXCEPT ![c] = <<>>]
  /\ batch' = [batch EXCEPT ![c] = <<>>]
  /\ UNCHANGED <<peer, sent, inbox, replies, heard, ring, emitted>>

Next ==
  \/ Emit
  \/ \E c \in Conns :
       \/ Accept(c) \/ ClientLeaves(c) \/ \E kind \in Kinds : ClientSends(c, kind)
       \/ Reader(c) \/ Poll(c) \/ Forward(c)
       \/ Write(c) \/ WriteToNobody(c) \/ WriteFails(c)

\* The runtime runs readers and writers that can go on, and a queue gives its
\* room to those that wait for it in turn.  Nothing is asked of the telemetry.
Fairness == \A c \in Conns : SF_vars(Reader(c)) /\ WF_vars(Write(c))

Spec == Init /\ [][Next]_vars /\ Fairness
-----------------------------------------------------------------------------
\* What the first n of these requests are answered with, in order
AnswersTo(requests, n) ==
  LET answers[k \in 0..Len(requests)] ==
        IF k = 0 THEN <<>> ELSE answers[k - 1] \o HandleText(k, requests[k])
  IN  answers[n]

\* Whatever telemetry comes in between and however full the queue is, the
\* answers a client has, those in its queue and those its reader has still to
\* queue are the answers to the requests its reader has taken: each once, in
\* their order, with their events behind them.
AnswersInOrder ==
  \A c \in Conns :
    conn[c] = "open" /\ peer[c] =>
      replies[c] \o AnswersIn(out[c]) \o todo[c]
        = AnswersTo(sent[c], Len(sent[c]) - Len(inbox[c]))

Upwards(list) == \A i, j \in DOMAIN list : i < j => list[i] < list[j]

Places(c) == <<ToSet(heard[c]), EventsIn(out[c]), ToSet(batch[c])>>

\* The events in one of them
At(x) == Places(x[1])[x[2]]

\* Every telemetry event is in one place: the ring, on its way through one
\* connection, with one client, or lost, because the ring was full or its
\* connection had no client any more.  No client gets two in the wrong order.
TelemetryReachesOne ==
  LET onTheWay == {x \in Conns \X (1..3) : At(x) # {}}
  IN  /\ (UNION {At(x) : x \in onTheWay}) \cup ToSet(ring) \cup lost = 1..emitted
      /\ \A x, y \in onTheWay : x # y => At(x) \cap At(y) = {}
      /\ \A x \in onTheWay : At(x) \cap (ToSet(ring) \cup lost) = {}
      /\ ToSet(ring) \cap lost = {}
      /\ \A c \in Conns : Upwards(heard[c])

Answered(c, n) == ReplyTo(n) \in ToSet(replies[c])

\* A message of the client, this one or one before it, cannot be read.
CutOff(c, n) == \E k \in DOMAIN sent[c] : k <= n /\ sent[c][k] = "oversized"

\* Every request of a client that stays is answered, however much telemetry
\* the audio thread emits and whatever the other clients do, as long as all its
\* messages can be read: behind one that cannot, nothing is answered any more,
\* although the client is still connected and told its telemetry.
RequestsAreAnswered ==
  \A c \in Conns : \A n \in 1..MaxRequests :
    Len(sent[c]) >= n ~> Answered(c, n) \/ ~peer[c] \/ CutOff(c, n)
=============================================================================
