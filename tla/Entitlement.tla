----------------------------- MODULE Entitlement -----------------------------
(***************************************************************************)
(* The entitlement cache of the bridge (bridge-core/entitlement.rs).       *)
(*                                                                         *)
(* A browser gets a ticket from the backend and hands it to the bridge,    *)
(* which posts it to the backend and keeps what comes back for CacheTtl.   *)
(* All connections share one cache: the verification that is answered last *)
(* decides, whatever order they began in.  One that fails on the way       *)
(* changes nothing, and neither does a client that disconnects.  Commands  *)
(* with a plug-in of another format and renders are refused unless the     *)
(* cache says premium.                                                     *)
(*                                                                         *)
(* Time passes in ticks.  A ticket says what the user was when it was      *)
(* issued, and the backend takes it for TicketLife, clock skew included.   *)
(***************************************************************************)
EXTENDS Integers

CONSTANTS
  Clients,
  CacheTtl,     \* CACHE_TTL
  TicketLife,   \* bridgeTicketLifetime and ClockSkew of the backend
  HttpTimeout   \* the timeout of the agent

ASSUME EntitlementAssumption ==
  CacheTtl \in Nat \ {0} /\ TicketLife \in Nat /\ HttpTimeout \in Nat

VARIABLES
  tier,         \* what the user is, according to the backend
  canceled,     \* time since the user was premium last, up to Longest
  doing,        \* what a client is at: "idle", "ticket" or "verifying"
  ticket,       \* its ticket: [tier, age]
  waiting,      \* time since its request was posted
  answer,       \* what the backend has answered: a tier, "invalid" or None
  cache,        \* the session in the cache: [tier, left]
  told          \* what a client was last told, and how long ago: [tier, age]

vars == <<tier, canceled, doing, ticket, waiting, answer, cache, told>>

Tiers == {"free", "premium"}
None  == "none"

\* The longest time from a cancellation to the end of a session that was
\* verified before it
Longest == TicketLife + HttpTimeout + CacheTtl

NoTicket  == [tier |-> None, age |-> 0]
NoSession == [tier |-> None, left |-> 0]
NotTold   == [tier |-> None, age |-> 0]

Capped(n, limit) == IF n < limit THEN n ELSE limit

TypeOK ==
  /\ tier \in Tiers /\ canceled \in 0..Longest
  /\ doing \in [Clients -> {"idle", "ticket", "verifying"}]
  /\ ticket \in [Clients -> [tier : Tiers \cup {None}, age : 0..(TicketLife + 1)]]
  /\ waiting \in [Clients -> 0..HttpTimeout]
  /\ answer \in [Clients -> Tiers \cup {"invalid", None}]
  /\ cache \in [tier : Tiers \cup {None}, left : 0..CacheTtl]
  /\ told \in [Clients -> [tier : Tiers \cup {None}, age : 0..CacheTtl]]

Init ==
  /\ tier \in Tiers /\ canceled = IF tier = "premium" THEN 0 ELSE Longest
  /\ doing = [c \in Clients |-> "idle"] /\ ticket = [c \in Clients |-> NoTicket]
  /\ waiting = [c \in Clients |-> 0] /\ answer = [c \in Clients |-> None]
  /\ cache = NoSession /\ told = [c \in Clients |-> NotTold]
-----------------------------------------------------------------------------
(* The user and the backend *)

ChangePlan ==
  /\ tier' \in Tiers \ {tier}
  /\ canceled' = 0
  /\ UNCHANGED <<doing, ticket, waiting, answer, cache, told>>

IssueTicket(c) ==
  /\ doing[c] = "idle"
  /\ doing' = [doing EXCEPT ![c] = "ticket"]
  /\ ticket' = [ticket EXCEPT ![c] = [tier |-> tier, age |-> 0]]
  /\ UNCHANGED <<tier, canceled, waiting, answer, cache, told>>

\* The tier of the answer is the one in the ticket.
VerifyTicket(c) ==
  /\ doing[c] = "verifying" /\ answer[c] = None
  /\ answer' = [answer EXCEPT ![c] =
                  IF ticket[c].age <= TicketLife THEN ticket[c].tier ELSE "invalid"]
  /\ UNCHANGED <<tier, canceled, doing, ticket, waiting, cache, told>>
-----------------------------------------------------------------------------
(* The bridge *)

\* session.verify posts the ticket.
Refresh(c) ==
  /\ doing[c] = "ticket"
  /\ doing' = [doing EXCEPT ![c] = "verifying"]
  /\ waiting' = [waiting EXCEPT ![c] = 0]
  /\ UNCHANGED <<tier, canceled, ticket, answer, cache, told>>

Idle(c) ==
  /\ doing' = [doing EXCEPT ![c] = "idle"]
  /\ ticket' = [ticket EXCEPT ![c] = NoTicket]
  /\ waiting' = [waiting EXCEPT ![c] = 0]
  /\ answer' = [answer EXCEPT ![c] = None]

\* What was told to the others no longer stands.
Tell(c, what) ==
  told' = [d \in Clients |-> IF d = c THEN [tier |-> what, age |-> 0] ELSE NotTold]

ParseAndStore_KeepsLive(c) ==
  /\ doing[c] = "verifying" /\ answer[c] # None
  /\ IF answer[c] \in Tiers
       THEN /\ cache' = IF cache.left > 0 THEN cache ELSE [tier |-> answer[c], left |-> CacheTtl]
            /\ Tell(c, answer[c])
       ELSE /\ cache' = NoSession
            /\ Tell(c, None)
  /\ Idle(c)
  /\ UNCHANGED <<tier, canceled>>

\* parse_and_store: a ticket that is not valid clears what another client had.
ParseAndStore(c) ==
  /\ doing[c] = "verifying" /\ answer[c] # None
  /\ \/ /\ answer[c] \in Tiers
        /\ cache' = [tier |-> answer[c], left |-> CacheTtl]
        /\ Tell(c, answer[c])
     \/ /\ answer[c] = "invalid"
        /\ cache' = NoSession
        /\ Tell(c, None)
  /\ Idle(c)
  /\ UNCHANGED <<tier, canceled>>

\* An error or the timeout, before or after the backend has answered.  The
\* session that was verified before stays in the cache.
RequestFails(c) ==
  /\ doing[c] = "verifying"
  /\ Idle(c)
  /\ UNCHANGED <<tier, canceled, cache, told>>

\* No request outlasts the timeout of the agent.
Tick ==
  /\ \A c \in Clients : doing[c] = "verifying" => waiting[c] < HttpTimeout
  /\ canceled' = IF tier = "premium" THEN 0 ELSE Capped(canceled + 1, Longest)
  /\ ticket' = [c \in Clients |-> [ticket[c] EXCEPT !.age =
                  IF doing[c] = "idle" THEN 0 ELSE Capped(@ + 1, TicketLife + 1)]]
  /\ waiting' = [c \in Clients |-> IF doing[c] = "verifying" THEN waiting[c] + 1 ELSE 0]
  /\ cache' = [cache EXCEPT !.left = IF @ > 0 THEN @ - 1 ELSE 0]
  /\ told' = [c \in Clients |-> [told[c] EXCEPT !.age = Capped(@ + 1, CacheTtl)]]
  /\ UNCHANGED <<tier, doing, answer>>

Next ==
  \/ ChangePlan \/ Tick
  \/ \E c \in Clients :
       IssueTicket(c) \/ Refresh(c) \/ VerifyTicket(c) \/ ParseAndStore(c) \/ RequestFails(c)

Spec == Init /\ [][Next]_vars
-----------------------------------------------------------------------------
Granted_NoExpiry == cache.tier = "premium"

\* require_premium lets a command through.
Granted == cache.tier = "premium" /\ cache.left > 0

\* Gated commands stop in time: "to stay in sync with subscription
\* cancellations" the cache expires, and with tickets and answers still on
\* their way, of several clients at once, no command is let through longer
\* after a cancellation than a ticket, a request and a session last together.
PremiumIsBounded ==
  Granted /\ tier = "free" => canceled < Longest

\* A client that was told premium is let through for as long as a session
\* lasts, unless another verification was answered since; nor is one told free
\* let through: requests that fail and the expiry of old sessions change
\* nothing.  The comments of the code promise less of it: that the cache
\* reports the free shape when "verification failed" (entitlement.rs:16-17) and
\* that clear is "called on disconnect or explicit sign-out" (:190-191).  In the
\* code a request that fails is reported as verify_failed and leaves the session
\* as it is, and only a ticket that the backend rejects clears it.
ToldIsGranted ==
  \A c \in Clients :
    told[c].tier # None /\ told[c].age < CacheTtl =>
      (Granted <=> told[c].tier = "premium")
=============================================================================
