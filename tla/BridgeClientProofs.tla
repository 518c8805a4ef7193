------------------------- MODULE BridgeClientProofs -------------------------
(***************************************************************************)
(* Proofs about BridgeClient, for any number of ports, connect() calls,    *)
(* sockets and callers.                                                    *)
(*                                                                         *)
(* The three properties lean on each other: an entry's socket exists       *)
(* because a client that says connected has one, and that one is not a     *)
(* socket some loop is still opening.                                      *)
(***************************************************************************)
EXTENDS BridgeClient, TLAPS

\* A connect() that waits for a port to open has a socket of its own.
OpeningsAreApart ==
  \A l \in Loops : loop[l].at = "opening" =>
    /\ loop[l].sock \in Sockets
    /\ sock[loop[l].sock] = "opening"
    /\ \A k \in Loops : loop[k].at = "opening" /\ loop[k].sock = loop[l].sock => k = l

\* An idle client has nothing left that a close could take away.
IdleIsEmpty == state = "idle" => pending = {} /\ ws = None

Inv ==
  /\ TypeOK
  /\ NoneIsForgotten
  /\ AttemptIsComing
  /\ ConnectedHasSocket
  /\ OpeningsAreApart
  /\ IdleIsEmpty

\* Every step keeps the types.
LEMMA TypesKept == Inv /\ [Next]_vars => TypeOK'
<1> SUFFICES ASSUME Inv, [Next]_vars PROVE TypeOK'
  OBVIOUS
<1> USE ClientAssumption DEF Inv, TypeOK, Ids
<1>1. CASE Connect
  BY <1>1 DEF Connect, StartLoop, ConnectIsDue, Running
<1>2. CASE ReconnectTimer
  <2>1. CASE StartLoop
    <3>1. PICK l \in Loops : loop' = [loop EXCEPT ![l].at = "next"]
      BY <2>1 DEF StartLoop
    <3>2. loop' \in [Loops -> [at : {"none", "next", "opening", "handshake", "failed"},
                             port : 0..Ports, sock : Sockets \cup {None}]]
      BY <3>1
    <3>3. timer' = FALSE /\ state' = "connecting" /\ UNCHANGED <<ws, disposed, pending, sock, via, call>>
      BY <1>2, <2>1 DEF ReconnectTimer, StartLoop
    <3> QED
      BY <3>2, <3>3
  <2>2. CASE UNCHANGED <<loop, state>>
    BY <1>2, <2>2 DEF ReconnectTimer
  <2> QED
    BY <1>2, <2>1, <2>2 DEF ReconnectTimer
<1>3. CASE Disconnect
  BY <1>3 DEF Disconnect, RejectAllPending, Closing
<1>4. ASSUME NEW l \in Loops, TryOpen(l) PROVE TypeOK'
  BY <1>4 DEF TryOpen, HasNextPort
<1>5. ASSUME NEW l \in Loops, FactoryThrows(l) PROVE TypeOK'
  BY <1>5 DEF FactoryThrows, HasNextPort
<1>6. ASSUME NEW l \in Loops, GiveUp(l) PROVE TypeOK'
  BY <1>6 DEF GiveUp, Rearmed, Ended
<1>7. ASSUME NEW l \in Loops, AfterHandshakeFailed(l) PROVE TypeOK'
  BY <1>7 DEF AfterHandshakeFailed, Closing
<1>8. ASSUME NEW l \in Loops, OpenFails(l) PROVE TypeOK'
  BY <1>8 DEF OpenFails
<1>9. ASSUME NEW l \in Loops, Opens(l) PROVE TypeOK'
  BY <1>9 DEF Opens
<1>10. ASSUME NEW l \in Loops, HandshakeOk(l) PROVE TypeOK'
  BY <1>10 DEF HandshakeOk, Ended
<1>11. ASSUME NEW l \in Loops, HandshakeFails(l) PROVE TypeOK'
  BY <1>11 DEF HandshakeFails
<1>12. ASSUME NEW c \in Calls, Send(c) PROVE TypeOK'
  BY <1>12 DEF Send
<1>13. ASSUME NEW c \in Calls, Reply(c) PROVE TypeOK'
  BY <1>13 DEF Reply
<1>14. ASSUME NEW c \in Calls, CallTimeout(c) PROVE TypeOK'
  BY <1>14 DEF CallTimeout
<1>15. ASSUME NEW s \in Sockets, PeerCloses(s) PROVE TypeOK'
  BY <1>15 DEF PeerCloses
<1>16. ASSUME NEW s \in Sockets, HandleClose(s) PROVE TypeOK'
  <2>1. CASE state = "idle"
    BY <1>16, <2>1 DEF HandleClose
  <2>2. CASE state # "idle"
    <3>1. loop' \in [Loops -> [at : {"none", "next", "opening", "handshake", "failed"},
                             port : 0..Ports, sock : Sockets \cup {None}]]
      BY <1>16, <2>2 DEF HandleClose, RejectAllPending
    <3>2. call' \in [Calls -> {"none", "pending", "resolved", "rejected"}]
      BY <1>16, <2>2 DEF HandleClose, RejectAllPending
    <3>3. pending' = {} /\ timer' \in BOOLEAN /\ ws' = None /\ state' = "disconnected"
      BY <1>16, <2>2 DEF HandleClose, RejectAllPending, Rearmed
    <3>4. UNCHANGED <<disposed, via>> /\ sock' = [sock EXCEPT ![s] = "gone"]
      BY <1>16, <2>2 DEF HandleClose
    <3> QED
      BY <3>1, <3>2, <3>3, <3>4
  <2> QED
    BY <2>1, <2>2
<1>17. CASE UNCHANGED vars
  BY <1>17 DEF vars
<1> QED
  BY <1>1, <1>2, <1>3, <1>4, <1>5, <1>6, <1>7, <1>8, <1>9, <1>10, <1>11, <1>12, <1>13,
     <1>14, <1>15, <1>16, <1>17 DEF Next, Microtask

\* Every step keeps waiters and entries together.
LEMMA WaitersKept == Inv /\ [Next]_vars => NoneIsForgotten'
<1> SUFFICES ASSUME Inv, [Next]_vars PROVE NoneIsForgotten'
  OBVIOUS
<1> USE ClientAssumption DEF Inv, TypeOK, Ids, NoneIsForgotten, ConnectedHasSocket, OpeningsAreApart, IdleIsEmpty
<1>1. CASE Connect
  BY <1>1 DEF Connect, StartLoop, ConnectIsDue, Running
<1>2. CASE ReconnectTimer
  BY <1>2 DEF ReconnectTimer, StartLoop, ConnectIsDue, Running
<1>3. CASE Disconnect
  BY <1>3 DEF Disconnect, RejectAllPending, Closing
<1>4. ASSUME NEW l \in Loops, TryOpen(l) PROVE NoneIsForgotten'
  BY <1>4 DEF TryOpen, HasNextPort
<1>5. ASSUME NEW l \in Loops, FactoryThrows(l) PROVE NoneIsForgotten'
  BY <1>5 DEF FactoryThrows, HasNextPort
<1>6. ASSUME NEW l \in Loops, GiveUp(l) PROVE NoneIsForgotten'
  BY <1>6 DEF GiveUp, Rearmed, Ended
<1>7. ASSUME NEW l \in Loops, AfterHandshakeFailed(l) PROVE NoneIsForgotten'
  BY <1>7 DEF AfterHandshakeFailed, Closing
<1>8. ASSUME NEW l \in Loops, OpenFails(l) PROVE NoneIsForgotten'
  BY <1>8 DEF OpenFails
<1>9. ASSUME NEW l \in Loops, Opens(l) PROVE NoneIsForgotten'
  BY <1>9 DEF Opens
<1>10. ASSUME NEW l \in Loops, HandshakeOk(l) PROVE NoneIsForgotten'
  BY <1>10 DEF HandshakeOk, Ended
<1>11. ASSUME NEW l \in Loops, HandshakeFails(l) PROVE NoneIsForgotten'
  BY <1>11 DEF HandshakeFails
<1>12. ASSUME NEW c \in Calls, Send(c) PROVE NoneIsForgotten'
  BY <1>12 DEF Send
<1>13. ASSUME NEW c \in Calls, Reply(c) PROVE NoneIsForgotten'
  BY <1>13 DEF Reply
<1>14. ASSUME NEW c \in Calls, CallTimeout(c) PROVE NoneIsForgotten'
  BY <1>14 DEF CallTimeout
<1>15. ASSUME NEW s \in Sockets, PeerCloses(s) PROVE NoneIsForgotten'
  BY <1>15 DEF PeerCloses
<1>16. ASSUME NEW s \in Sockets, HandleClose(s) PROVE NoneIsForgotten'
  BY <1>16 DEF HandleClose, RejectAllPending, Rearmed
<1>17. CASE UNCHANGED vars
  BY <1>17 DEF vars
<1> QED
  BY <1>1, <1>2, <1>3, <1>4, <1>5, <1>6, <1>7, <1>8, <1>9, <1>10, <1>11, <1>12, <1>13,
     <1>14, <1>15, <1>16, <1>17 DEF Next, Microtask

\* No step leaves a client without an attempt to come.
LEMMA TryingKept == Inv /\ [Next]_vars => AttemptIsComing'
<1> SUFFICES ASSUME Inv, [Next]_vars PROVE AttemptIsComing'
  OBVIOUS
<1> USE ClientAssumption DEF Inv, TypeOK, Ids, NoneIsForgotten, AttemptIsComing
<1>1. CASE Connect
  BY <1>1 DEF Connect, StartLoop, ConnectIsDue, Running
<1>2. CASE ReconnectTimer
  BY <1>2 DEF ReconnectTimer, StartLoop, ConnectIsDue, Running
<1>3. CASE Disconnect
  BY <1>3 DEF Disconnect, RejectAllPending, Closing
<1>4. ASSUME NEW l \in Loops, TryOpen(l) PROVE AttemptIsComing'
  BY <1>4 DEF TryOpen, HasNextPort
<1>5. ASSUME NEW l \in Loops, FactoryThrows(l) PROVE AttemptIsComing'
  BY <1>5 DEF FactoryThrows, HasNextPort
<1>6. ASSUME NEW l \in Loops, GiveUp(l) PROVE AttemptIsComing'
  BY <1>6 DEF GiveUp, Rearmed, Ended
<1>7. ASSUME NEW l \in Loops, AfterHandshakeFailed(l) PROVE AttemptIsComing'
  BY <1>7 DEF AfterHandshakeFailed, Closing
<1>8. ASSUME NEW l \in Loops, OpenFails(l) PROVE AttemptIsComing'
  BY <1>8 DEF OpenFails
<1>9. ASSUME NEW l \in Loops, Opens(l) PROVE AttemptIsComing'
  BY <1>9 DEF Opens
<1>10. ASSUME NEW l \in Loops, HandshakeOk(l) PROVE AttemptIsComing'
  BY <1>10 DEF HandshakeOk, Ended
<1>11. ASSUME NEW l \in Loops, HandshakeFails(l) PROVE AttemptIsComing'
  BY <1>11 DEF HandshakeFails
<1>12. ASSUME NEW c \in Calls, Send(c) PROVE AttemptIsComing'
  BY <1>12 DEF Send
<1>13. ASSUME NEW c \in Calls, Reply(c) PROVE AttemptIsComing'
  BY <1>13 DEF Reply
<1>14. ASSUME NEW c \in Calls, CallTimeout(c) PROVE AttemptIsComing'
  BY <1>14 DEF CallTimeout
<1>15. ASSUME NEW s \in Sockets, PeerCloses(s) PROVE AttemptIsComing'
  BY <1>15 DEF PeerCloses
<1>16. ASSUME NEW s \in Sockets, HandleClose(s) PROVE AttemptIsComing'
  BY <1>16 DEF HandleClose, RejectAllPending, Rearmed
<1>17. CASE UNCHANGED vars
  BY <1>17 DEF vars
<1> QED
  BY <1>1, <1>2, <1>3, <1>4, <1>5, <1>6, <1>7, <1>8, <1>9, <1>10, <1>11, <1>12, <1>13,
     <1>14, <1>15, <1>16, <1>17 DEF Next, Microtask

\* No step leaves a connected client without a socket.
LEMMA SocketKept == Inv /\ [Next]_vars => ConnectedHasSocket'
<1> SUFFICES ASSUME Inv, [Next]_vars PROVE ConnectedHasSocket'
  OBVIOUS
<1> USE ClientAssumption DEF Inv, TypeOK, ConnectedHasSocket, OpeningsAreApart, IdleIsEmpty
<1>1. CASE Connect
  BY <1>1 DEF Connect, StartLoop, ConnectIsDue, Running
<1>2. CASE ReconnectTimer
  BY <1>2 DEF ReconnectTimer, StartLoop, ConnectIsDue, Running
<1>3. CASE Disconnect
  BY <1>3 DEF Disconnect, RejectAllPending, Closing
<1>4. ASSUME NEW l \in Loops, TryOpen(l) PROVE ConnectedHasSocket'
  BY <1>4 DEF TryOpen, HasNextPort
<1>5. ASSUME NEW l \in Loops, FactoryThrows(l) PROVE ConnectedHasSocket'
  BY <1>5 DEF FactoryThrows, HasNextPort
<1>6. ASSUME NEW l \in Loops, GiveUp(l) PROVE ConnectedHasSocket'
  BY <1>6 DEF GiveUp, Rearmed, Ended
<1>7. ASSUME NEW l \in Loops, AfterHandshakeFailed(l) PROVE ConnectedHasSocket'
  BY <1>7 DEF AfterHandshakeFailed, Closing
<1>8. ASSUME NEW l \in Loops, OpenFails(l) PROVE ConnectedHasSocket'
  BY <1>8 DEF OpenFails
<1>9. ASSUME NEW l \in Loops, Opens(l) PROVE ConnectedHasSocket'
  BY <1>9 DEF Opens
<1>10. ASSUME NEW l \in Loops, HandshakeOk(l) PROVE ConnectedHasSocket'
  BY <1>10 DEF HandshakeOk, Ended
<1>11. ASSUME NEW l \in Loops, HandshakeFails(l) PROVE ConnectedHasSocket'
  BY <1>11 DEF HandshakeFails
<1>12. ASSUME NEW c \in Calls, Send(c) PROVE ConnectedHasSocket'
  BY <1>12 DEF Send
<1>13. ASSUME NEW c \in Calls, Reply(c) PROVE ConnectedHasSocket'
  BY <1>13 DEF Reply
<1>14. ASSUME NEW c \in Calls, CallTimeout(c) PROVE ConnectedHasSocket'
  BY <1>14 DEF CallTimeout
<1>15. ASSUME NEW s \in Sockets, PeerCloses(s) PROVE ConnectedHasSocket'
  BY <1>15 DEF PeerCloses
<1>16. ASSUME NEW s \in Sockets, HandleClose(s) PROVE ConnectedHasSocket'
  BY <1>16 DEF HandleClose, RejectAllPending, Rearmed
<1>17. CASE UNCHANGED vars
  BY <1>17 DEF vars
<1> QED
  BY <1>1, <1>2, <1>3, <1>4, <1>5, <1>6, <1>7, <1>8, <1>9, <1>10, <1>11, <1>12, <1>13,
     <1>14, <1>15, <1>16, <1>17 DEF Next, Microtask

\* No step makes two loops wait for one socket, or for none.
LEMMA ApartKept == Inv /\ [Next]_vars => OpeningsAreApart'
<1> SUFFICES ASSUME Inv, [Next]_vars PROVE OpeningsAreApart'
  OBVIOUS
<1> USE ClientAssumption DEF Inv, TypeOK, Ids, NoneIsForgotten, ConnectedHasSocket, OpeningsAreApart
<1>1. CASE Connect
  BY <1>1 DEF Connect, StartLoop, ConnectIsDue, Running
<1>2. CASE ReconnectTimer
  BY <1>2 DEF ReconnectTimer, StartLoop, ConnectIsDue, Running
<1>3. CASE Disconnect
  BY <1>3 DEF Disconnect, RejectAllPending, Closing
<1>4. ASSUME NEW l \in Loops, TryOpen(l) PROVE OpeningsAreApart'
  BY <1>4 DEF TryOpen, HasNextPort
<1>5. ASSUME NEW l \in Loops, FactoryThrows(l) PROVE OpeningsAreApart'
  BY <1>5 DEF FactoryThrows, HasNextPort
<1>6. ASSUME NEW l \in Loops, GiveUp(l) PROVE OpeningsAreApart'
  BY <1>6 DEF GiveUp, Rearmed, Ended
<1>7. ASSUME NEW l \in Loops, AfterHandshakeFailed(l) PROVE OpeningsAreApart'
  BY <1>7 DEF AfterHandshakeFailed, Closing
<1>8. ASSUME NEW l \in Loops, OpenFails(l) PROVE OpeningsAreApart'
  BY <1>8 DEF OpenFails
<1>9. ASSUME NEW l \in Loops, Opens(l) PROVE OpeningsAreApart'
  BY <1>9 DEF Opens
<1>10. ASSUME NEW l \in Loops, HandshakeOk(l) PROVE OpeningsAreApart'
  BY <1>10 DEF HandshakeOk, Ended
<1>11. ASSUME NEW l \in Loops, HandshakeFails(l) PROVE OpeningsAreApart'
  BY <1>11 DEF HandshakeFails
<1>12. ASSUME NEW c \in Calls, Send(c) PROVE OpeningsAreApart'
  BY <1>12 DEF Send
<1>13. ASSUME NEW c \in Calls, Reply(c) PROVE OpeningsAreApart'
  BY <1>13 DEF Reply
<1>14. ASSUME NEW c \in Calls, CallTimeout(c) PROVE OpeningsAreApart'
  BY <1>14 DEF CallTimeout
<1>15. ASSUME NEW s \in Sockets, PeerCloses(s) PROVE OpeningsAreApart'
  BY <1>15 DEF PeerCloses
<1>16. ASSUME NEW s \in Sockets, HandleClose(s) PROVE OpeningsAreApart'
  BY <1>16 DEF HandleClose, RejectAllPending, Rearmed
<1>17. CASE UNCHANGED vars
  BY <1>17 DEF vars
<1> QED
  BY <1>1, <1>2, <1>3, <1>4, <1>5, <1>6, <1>7, <1>8, <1>9, <1>10, <1>11, <1>12, <1>13,
     <1>14, <1>15, <1>16, <1>17 DEF Next, Microtask

\* No step gives an idle client anything.
LEMMA IdleKept == Inv /\ [Next]_vars => IdleIsEmpty'
<1> SUFFICES ASSUME Inv, [Next]_vars PROVE IdleIsEmpty'
  OBVIOUS
<1> USE ClientAssumption DEF Inv, TypeOK, IdleIsEmpty
<1>1. CASE Connect
  BY <1>1 DEF Connect, StartLoop, ConnectIsDue, Running
<1>2. CASE ReconnectTimer
  BY <1>2 DEF ReconnectTimer, StartLoop, ConnectIsDue, Running
<1>3. CASE Disconnect
  BY <1>3 DEF Disconnect, RejectAllPending, Closing
<1>4. ASSUME NEW l \in Loops, TryOpen(l) PROVE IdleIsEmpty'
  BY <1>4 DEF TryOpen, HasNextPort
<1>5. ASSUME NEW l \in Loops, FactoryThrows(l) PROVE IdleIsEmpty'
  BY <1>5 DEF FactoryThrows, HasNextPort
<1>6. ASSUME NEW l \in Loops, GiveUp(l) PROVE IdleIsEmpty'
  BY <1>6 DEF GiveUp, Rearmed, Ended
<1>7. ASSUME NEW l \in Loops, AfterHandshakeFailed(l) PROVE IdleIsEmpty'
  BY <1>7 DEF AfterHandshakeFailed, Closing
<1>8. ASSUME NEW l \in Loops, OpenFails(l) PROVE IdleIsEmpty'
  BY <1>8 DEF OpenFails
<1>9. ASSUME NEW l \in Loops, Opens(l) PROVE IdleIsEmpty'
  BY <1>9 DEF Opens
<1>10. ASSUME NEW l \in Loops, HandshakeOk(l) PROVE IdleIsEmpty'
  BY <1>10 DEF HandshakeOk, Ended
<1>11. ASSUME NEW l \in Loops, HandshakeFails(l) PROVE IdleIsEmpty'
  BY <1>11 DEF HandshakeFails
<1>12. ASSUME NEW c \in Calls, Send(c) PROVE IdleIsEmpty'
  BY <1>12 DEF Send
<1>13. ASSUME NEW c \in Calls, Reply(c) PROVE IdleIsEmpty'
  BY <1>13 DEF Reply
<1>14. ASSUME NEW c \in Calls, CallTimeout(c) PROVE IdleIsEmpty'
  BY <1>14 DEF CallTimeout
<1>15. ASSUME NEW s \in Sockets, PeerCloses(s) PROVE IdleIsEmpty'
  BY <1>15 DEF PeerCloses
<1>16. ASSUME NEW s \in Sockets, HandleClose(s) PROVE IdleIsEmpty'
  BY <1>16 DEF HandleClose, RejectAllPending, Rearmed
<1>17. CASE UNCHANGED vars
  BY <1>17 DEF vars
<1> QED
  BY <1>1, <1>2, <1>3, <1>4, <1>5, <1>6, <1>7, <1>8, <1>9, <1>10, <1>11, <1>12, <1>13,
     <1>14, <1>15, <1>16, <1>17 DEF Next, Microtask

\* The invariant is inductive (client.ts as a whole).
THEOREM InvHolds == Spec => []Inv
<1>1. Init => Inv
  <2> SUFFICES ASSUME Init PROVE Inv
    OBVIOUS
  <2>1. TypeOK
    <3>1. Ended \in [at : {"none", "next", "opening", "handshake", "failed"},
                     port : 0..Ports, sock : Sockets \cup {None}]
      BY ClientAssumption DEF Ended
    <3> QED
      BY <3>1 DEF Init, TypeOK
  <2>2. NoneIsForgotten
    BY DEF Init, NoneIsForgotten, Ended
  <2>3. AttemptIsComing /\ ConnectedHasSocket /\ OpeningsAreApart /\ IdleIsEmpty
    BY DEF Init, AttemptIsComing, ConnectedHasSocket, OpeningsAreApart, IdleIsEmpty, Ended
  <2> QED
    BY <2>1, <2>2, <2>3 DEF Inv
<1>2. Inv /\ [Next]_vars => Inv'
  BY TypesKept, WaitersKept, TryingKept, SocketKept, ApartKept, IdleKept DEF Inv
<1> QED
  BY <1>1, <1>2, PTL DEF Spec

\* The state of the client is well typed: no port beyond the last is tried,
\* whatever attempts cross.
THEOREM ClientTypes == Spec => []TypeOK
  BY InvHolds, PTL DEF Inv

\* Whoever waits for a reply has an entry that its timer or its socket will
\* settle (sendRaw, rejectAllPending).
THEOREM NobodyForgotten == Spec => []NoneIsForgotten
  BY InvHolds, PTL DEF Inv

\* A client that was not disposed is about to try, or has a socket whose
\* close it will hear of (scheduleReconnect, connect, attach, handleClose).
THEOREM AlwaysTrying == Spec => []KeepsTrying
  BY InvHolds, PTL DEF Inv, KeepsTrying
=============================================================================
