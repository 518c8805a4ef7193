---------------------------- MODULE BridgeClient ----------------------------
(***************************************************************************)
(* The browser's client of the bridge (frontend/src/lib/bridge/client.ts): *)
(* one object that opens a WebSocket on one of several ports, performs a   *)
(* handshake, matches replies with the calls that wait for them, and       *)
(* connects again after a close.                                           *)
(*                                                                         *)
(* JavaScript runs one task at a time: an event of a socket, a timer, or a *)
(* call by the page.  The continuation of an await is a microtask, which   *)
(* runs before the next task: here the steps of a connect() that resumes,  *)
(* with the other actions held back while one is due (NoMicrotask).        *)
(*                                                                         *)
(* A running connect() is a loop over the ports.  The client's guards do   *)
(* not make sure there is only one, so there is a set of them; the sockets *)
(* that no longer exist are used again for new ones.                       *)
(***************************************************************************)
EXTENDS Naturals

CONSTANTS
  Ports,     \* number of ports a connect() tries, in order
  Loops,     \* connect() calls that can be running at a time
  Sockets,   \* WebSockets that can exist at a time
  Calls,     \* callers of send(), each with one call at a time
  None

\* A pending entry is keyed by the id of its request: a handshake of a loop
\* or a call.
Ids == Loops \cup Calls

ASSUME ClientAssumption ==
  /\ Ports \in Nat \ {0}
  /\ Loops \cap Calls = {}
  /\ None \notin Sockets

VARIABLES
  ws,        \* this.ws
  state,     \* this.state
  disposed,  \* this.disposed
  timer,     \* this.reconnectTimer is set
  pending,   \* keys of this.pending
  sock,      \* what became of each socket
  loop,      \* where each connect() stands
  via,       \* the socket that carries each pending request
  call       \* what each caller of send() has

vars == <<ws, state, disposed, timer, pending, sock, loop, via, call>>

Ended == [at |-> "none", port |-> 0, sock |-> None]

Running(l) == loop[l].at # "none"

\* A connect() that resumes is ahead of every other task.
NoMicrotask == \A l \in Loops : loop[l].at \notin {"next", "failed"}

Init ==
  /\ ws = None
  /\ state = "idle"
  /\ disposed = FALSE
  /\ timer = FALSE
  /\ pending = {}
  /\ sock = [s \in Sockets |-> "gone"]
  /\ loop = [l \in Loops |-> Ended]
  /\ via = [i \in Ids |-> None]
  /\ call = [c \in Calls |-> "none"]

\* scheduleReconnect: at most one timer, and none once disposed
Rearmed == timer \/ ~disposed

RejectAllPending_Silently ==
  /\ UNCHANGED <<call, loop>>
  /\ pending' = {}

\* rejectAllPending: every caller is told, and every handshake has failed.
RejectAllPending ==
  /\ call' = [c \in Calls |-> IF c \in pending THEN "rejected" ELSE call[c]]
  /\ loop' = [l \in Loops |-> IF l \in pending THEN [loop[l] EXCEPT !.at = "failed"]
                                               ELSE loop[l]]
  /\ pending' = {}

\* close() of a socket: the close event comes later
Closing(s) == IF s = None THEN sock ELSE [sock EXCEPT ![s] = "closing"]
-----------------------------------------------------------------------------
(* connect() *)

ConnectIsDue == ~disposed /\ state \notin {"connecting", "connected"}

StartLoop ==
  /\ \E l \in Loops : /\ ~Running(l)
                      /\ loop' = [loop EXCEPT ![l].at = "next"]
  /\ state' = "connecting"

\* The page calls connect(): when it loads, and from the retry button
Connect ==
  /\ NoMicrotask
  /\ ConnectIsDue
  /\ StartLoop
  /\ UNCHANGED <<ws, disposed, timer, pending, sock, via, call>>

ReconnectTimer ==
  /\ NoMicrotask
  /\ timer
  /\ timer' = FALSE
  /\ IF ConnectIsDue THEN StartLoop ELSE UNCHANGED <<loop, state>>
  /\ UNCHANGED <<ws, disposed, pending, sock, via, call>>

HasNextPort_OffByOne(l) == loop[l].at = "next" /\ loop[l].port <= Ports

HasNextPort(l) == loop[l].at = "next" /\ loop[l].port < Ports

TryOpen(l) ==
  /\ HasNextPort(l)
  /\ \E s \in Sockets :
       /\ sock[s] = "gone"
       /\ sock' = [sock EXCEPT ![s] = "opening"]
       /\ loop' = [loop EXCEPT ![l] = [at |-> "opening", port |-> @.port + 1, sock |-> s]]
  /\ UNCHANGED <<ws, state, disposed, timer, pending, via, call>>

\* The constructor of the socket throws.
FactoryThrows(l) ==
  /\ HasNextPort(l)
  /\ loop' = [loop EXCEPT ![l].port = @ + 1]
  /\ UNCHANGED <<ws, state, disposed, timer, pending, sock, via, call>>

\* All ports have failed.
GiveUp(l) ==
  /\ loop[l].at = "next"
  /\ loop[l].port = Ports
  /\ loop' = [loop EXCEPT ![l] = Ended]
  /\ state' = "disconnected"
  /\ timer' = Rearmed
  /\ UNCHANGED <<ws, disposed, pending, sock, via, call>>

OpenFails(l) ==
  /\ NoMicrotask
  /\ loop[l].at = "opening"
  /\ sock' = [sock EXCEPT ![loop[l].sock] = "gone"]
  /\ loop' = [loop EXCEPT ![l] = [@ EXCEPT !.at = "next", !.sock = None]]
  /\ UNCHANGED <<ws, state, disposed, timer, pending, via, call>>

\* The socket is attached, whatever happened since connect() was called, the
\* client counts as connected, and the handshake is sent.
Opens(l) ==
  /\ NoMicrotask
  /\ loop[l].at = "opening"
  /\ LET s == loop[l].sock IN
     /\ sock' = [sock EXCEPT ![s] = "open"]
     /\ ws' = s
     /\ via' = [via EXCEPT ![l] = s]
  /\ loop' = [loop EXCEPT ![l].at = "handshake"]
  /\ pending' = pending \cup {l}
  /\ state' = "connected"
  /\ UNCHANGED <<disposed, timer, call>>

\* The bridge accepts the handshake: connect() is done.
HandshakeOk(l) ==
  /\ NoMicrotask
  /\ l \in pending
  /\ sock[via[l]] = "open"
  /\ pending' = pending \ {l}
  /\ loop' = [loop EXCEPT ![l] = Ended]
  /\ UNCHANGED <<ws, state, disposed, timer, sock, via, call>>

\* Its time runs out, or the bridge answers with an error.
HandshakeFails(l) ==
  /\ NoMicrotask
  /\ l \in pending
  /\ pending' = pending \ {l}
  /\ loop' = [loop EXCEPT ![l].at = "failed"]
  /\ UNCHANGED <<ws, state, disposed, timer, sock, via, call>>

\* performHandshake closes this.ws, whichever socket that is by now, and
\* connect() goes on to the next port.
AfterHandshakeFailed(l) ==
  /\ loop[l].at = "failed"
  /\ sock' = Closing(ws)
  /\ loop' = [loop EXCEPT ![l] = [@ EXCEPT !.at = "next", !.sock = None]]
  /\ UNCHANGED <<ws, state, disposed, timer, pending, via, call>>
-----------------------------------------------------------------------------
(* Calls and events of the socket *)

Send(c) ==
  /\ NoMicrotask
  /\ call[c] # "pending"
  /\ IF ws # None /\ state = "connected"
       THEN /\ call' = [call EXCEPT ![c] = "pending"]
            /\ pending' = pending \cup {c}
            /\ via' = [via EXCEPT ![c] = ws]
       ELSE /\ call' = [call EXCEPT ![c] = "rejected"]
            /\ UNCHANGED <<pending, via>>
  /\ UNCHANGED <<ws, state, disposed, timer, sock, loop>>

\* A reply settles the call whose entry it finds.  A socket that closes
\* delivers none, and a reply that comes too late finds no entry.
Reply(c) ==
  /\ NoMicrotask
  /\ c \in pending
  /\ sock[via[c]] = "open"
  /\ \E r \in {"resolved", "rejected"} : call' = [call EXCEPT ![c] = r]
  /\ pending' = pending \ {c}
  /\ UNCHANGED <<ws, state, disposed, timer, sock, loop, via>>

CallTimeout_KeepsWaiting(c) ==
  /\ NoMicrotask
  /\ c \in pending
  /\ pending' = pending \ {c}
  /\ UNCHANGED <<ws, state, disposed, timer, sock, loop, via, call>>

CallTimeout(c) ==
  /\ NoMicrotask
  /\ c \in pending
  /\ call' = [call EXCEPT ![c] = "rejected"]
  /\ pending' = pending \ {c}
  /\ UNCHANGED <<ws, state, disposed, timer, sock, loop, via>>

PeerCloses(s) ==
  /\ NoMicrotask
  /\ sock[s] = "open"
  /\ sock' = [sock EXCEPT ![s] = "closing"]
  /\ UNCHANGED <<ws, state, disposed, timer, pending, loop, via, call>>

HandleClose_KeepsState(s) ==
  /\ NoMicrotask
  /\ sock[s] = "closing"
  /\ sock' = [sock EXCEPT ![s] = "gone"]
  /\ IF state = "idle"
       THEN UNCHANGED <<ws, timer, pending, loop, call>>
       ELSE /\ ws' = None
            /\ RejectAllPending
            /\ timer' = Rearmed
  /\ UNCHANGED <<disposed, via, state>>

HandleClose_NoReconnect(s) ==
  /\ NoMicrotask
  /\ sock[s] = "closing"
  /\ sock' = [sock EXCEPT ![s] = "gone"]
  /\ IF state = "idle"
       THEN UNCHANGED <<ws, state, timer, pending, loop, call>>
       ELSE /\ ws' = None
            /\ RejectAllPending
            /\ state' = "disconnected"
            /\ UNCHANGED timer
  /\ UNCHANGED <<disposed, via>>

\* The close event.  It acts on the client as a whole, whichever socket has
\* closed.
HandleClose(s) ==
  /\ NoMicrotask
  /\ sock[s] = "closing"
  /\ sock' = [sock EXCEPT ![s] = "gone"]
  /\ IF state = "idle"
       THEN UNCHANGED <<ws, state, timer, pending, loop, call>>
       ELSE /\ ws' = None
            /\ RejectAllPending
            /\ state' = "disconnected"
            /\ timer' = Rearmed
  /\ UNCHANGED <<disposed, via>>

Disconnect ==
  /\ NoMicrotask
  /\ disposed' = TRUE
  /\ timer' = FALSE
  /\ RejectAllPending
  /\ sock' = Closing(ws)
  /\ ws' = None
  /\ state' = "idle"
  /\ UNCHANGED via

\* connect() resumes, up to its next await.
Microtask(l) ==
  TryOpen(l) \/ FactoryThrows(l) \/ GiveUp(l) \/ AfterHandshakeFailed(l)

Next ==
  \/ Connect \/ ReconnectTimer \/ Disconnect
  \/ \E l \in Loops :
       \/ Microtask(l) \/ OpenFails(l) \/ Opens(l)
       \/ HandshakeOk(l) \/ HandshakeFails(l)
  \/ \E c \in Calls : Send(c) \/ Reply(c) \/ CallTimeout(c)
  \/ \E s \in Sockets : PeerCloses(s) \/ HandleClose(s)

Spec == Init /\ [][Next]_vars

\* Microtasks run and timers go off.  A task of one kind can be put off by
\* those of the others, each of which is due again and again: strong
\* fairness.  For Reconnects the bridge is there: of the sockets that are
\* opened again and again one does open.
Fairness ==
  /\ WF_vars(\E l \in Loops : Microtask(l))
  /\ SF_vars(\E l \in Loops : TryOpen(l))
  /\ SF_vars(\E l \in Loops : Opens(l))
  /\ SF_vars(\E l \in Loops : HandshakeOk(l) \/ HandshakeFails(l))
  /\ SF_vars(ReconnectTimer)
  /\ \A c \in Calls : SF_vars(CallTimeout(c))

LiveSpec == Spec /\ Fairness
-----------------------------------------------------------------------------
(* Properties *)

TypeOK ==
  /\ ws \in Sockets \cup {None}
  /\ state \in {"idle", "connecting", "connected", "disconnected"}
  /\ disposed \in BOOLEAN
  /\ timer \in BOOLEAN
  /\ pending \subseteq Ids
  /\ sock \in [Sockets -> {"gone", "opening", "open", "closing"}]
  /\ loop \in [Loops -> [at : {"none", "next", "opening", "handshake", "failed"},
                         port : 0..Ports, sock : Sockets \cup {None}]]
  /\ via \in [Ids -> Sockets \cup {None}]
  /\ call \in [Calls -> {"none", "pending", "resolved", "rejected"}]

\* Nobody waits for an answer that cannot come: whoever waits has an entry
\* in `pending`, whose timer or whose socket will settle it, and every entry
\* has somebody who waits, through timeouts, closes, reconnects and
\* disconnect() in any order (client.ts sendRaw, rejectAllPending).
NoneIsForgotten ==
  /\ \A c \in Calls : call[c] = "pending" <=> c \in pending
  /\ \A l \in Loops : loop[l].at = "handshake" <=> l \in pending
  /\ \A i \in pending : sock[via[i]] \in {"open", "closing"}

\* A client that was not disposed and has no connection is about to try.
AttemptIsComing ==
  ~disposed =>
    /\ state = "disconnected" => timer
    /\ state = "connecting" => \E l \in Loops : loop[l].at \in {"next", "opening"}

\* "ws is open; mark connected so send() works" (client.ts:175): whenever
\* the client says connected there is a socket whose close it will hear of.
ConnectedHasSocket ==
  /\ state = "connected" => ws # None
  /\ ws # None => sock[ws] \in {"open", "closing"}

\* "WS client (auto-reconnect ...)" (docs/bridge-architecture.md:37): a
\* client that was not disposed is about to try or has a socket that will
\* tell it to, also when several connect() calls and closes of old sockets
\* cross.
KeepsTrying == AttemptIsComing /\ ConnectedHasSocket

\* Every call is settled in the end (client.ts send).
CallsAreSettled == \A c \in Calls : call[c] = "pending" ~> call[c] # "pending"

\* A client without a connection gets one in the end when the bridge is
\* there.  The exceptions are disposal, and the model having no socket left
\* because the client has left them all open (client.ts scheduleReconnect).
Reconnects ==
  state \in {"connecting", "disconnected"}
    ~> \/ state = "connected" \/ disposed
       \/ \A s \in Sockets : sock[s] \in {"open", "closing"}
=============================================================================
