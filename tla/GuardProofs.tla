---------------------------- MODULE GuardProofs ----------------------------
(***************************************************************************)
(* Proofs about the two guards of the bridge process: the entitlement      *)
(* cache, which decides what commands are let through, and the watchdog,   *)
(* which starts the process again.                                         *)
(*                                                                         *)
(* The entitlement cache, for any number of clients and any lives of       *)
(* tickets, requests and sessions: how long a cancelled subscription is    *)
(* let through, and that what a client is told holds.  Neither property is *)
(* inductive by itself: the age of a cancellation has to be bounded on     *)
(* every stage of a verification, from the ticket to the answer and to the *)
(* session in the cache.                                                   *)
(*                                                                         *)
(* The watchdog, for any schedule of pauses, reset time and limit of       *)
(* restarts.                                                               *)
(***************************************************************************)
EXTENDS Entitlement, Watchdog, SequenceTheorems, TLAPS
-----------------------------------------------------------------------------
(* The entitlement cache *)

\* A ticket that is still good, an answer on its way and a session in the
\* cache that say premium: how long ago the user may have cancelled
TicketsAreRecent ==
  \A c \in Clients :
    doing[c] # "idle" /\ ticket[c].tier = "premium" /\ ticket[c].age <= TicketLife
      => canceled <= ticket[c].age

AnswersAreAwaited ==
  \A c \in Clients : answer[c] # None => doing[c] = "verifying"

AnswersAreRecent ==
  \A c \in Clients :
    doing[c] = "verifying" /\ answer[c] = "premium" => canceled <= TicketLife + waiting[c]

SessionIsRecent ==
  cache.tier = "premium" /\ cache.left > 0 => canceled + cache.left <= Longest

\* A client that was told its tier and the cache have the same session.
ToldIsCached ==
  \A c \in Clients :
    told[c].tier # None => cache.tier = told[c].tier /\ cache.left + told[c].age = CacheTtl

Inv ==
  /\ TypeOK
  /\ AnswersAreAwaited
  /\ tier = "premium" => canceled = 0
  /\ tier = "free" => TicketsAreRecent /\ AnswersAreRecent /\ SessionIsRecent
  /\ ToldIsCached
-----------------------------------------------------------------------------
\* What the constants are, and with them the longest time
LEMMA Times ==
  /\ CacheTtl \in Nat \ {0} /\ TicketLife \in Nat /\ HttpTimeout \in Nat
  /\ Longest \in Nat /\ Longest = TicketLife + HttpTimeout + CacheTtl
BY EntitlementAssumption DEF Longest

LEMMA TypesKept == TypeOK /\ [Next]_vars => TypeOK'
<1> SUFFICES ASSUME TypeOK, [Next]_vars PROVE TypeOK'
  OBVIOUS
<1> USE Times DEF TypeOK, Tiers
<1>1. CASE ChangePlan
  BY <1>1 DEF ChangePlan
<1>2. CASE Tick
  <2>1. /\ tier' \in Tiers /\ doing' = doing /\ answer' = answer
        /\ canceled' \in 0..Longest
    BY <1>2 DEF Tick, Capped
  <2>2. ticket' \in [Clients -> [tier : Tiers \cup {None}, age : 0..(TicketLife + 1)]]
    <3>1. ASSUME NEW c \in Clients
          PROVE  [ticket[c] EXCEPT !.age = IF doing[c] = "idle" THEN 0
                                           ELSE Capped(@ + 1, TicketLife + 1)]
                   \in [tier : Tiers \cup {None}, age : 0..(TicketLife + 1)]
      BY DEF Capped
    <3> QED BY <1>2, <3>1 DEF Tick
  <2>3. waiting' \in [Clients -> 0..HttpTimeout]
    BY <1>2 DEF Tick
  <2>4. cache' \in [tier : Tiers \cup {None}, left : 0..CacheTtl]
    BY <1>2 DEF Tick
  <2>5. told' \in [Clients -> [tier : Tiers \cup {None}, age : 0..CacheTtl]]
    <3>1. ASSUME NEW c \in Clients
          PROVE  [told[c] EXCEPT !.age = Capped(@ + 1, CacheTtl)]
                   \in [tier : Tiers \cup {None}, age : 0..CacheTtl]
      BY DEF Capped
    <3> QED BY <1>2, <3>1 DEF Tick
  <2> QED BY <2>1, <2>2, <2>3, <2>4, <2>5
<1>3. ASSUME NEW c \in Clients, IssueTicket(c) PROVE TypeOK'
  BY <1>3 DEF IssueTicket
<1>4. ASSUME NEW c \in Clients, Refresh(c) PROVE TypeOK'
  BY <1>4 DEF Refresh
<1>5. ASSUME NEW c \in Clients, VerifyTicket(c) PROVE TypeOK'
  BY <1>5 DEF VerifyTicket
<1>6. ASSUME NEW c \in Clients, ParseAndStore(c) PROVE TypeOK'
  <2>1. cache' \in [tier : Tiers \cup {None}, left : 0..CacheTtl]
    BY <1>6 DEF ParseAndStore, NoSession
  <2>2. told' \in [Clients -> [tier : Tiers \cup {None}, age : 0..CacheTtl]]
    BY <1>6 DEF ParseAndStore, Tell, NotTold
  <2>3. ticket' \in [Clients -> [tier : Tiers \cup {None}, age : 0..(TicketLife + 1)]]
    BY <1>6 DEF ParseAndStore, Idle, NoTicket
  <2>4. /\ doing' \in [Clients -> {"idle", "ticket", "verifying"}]
        /\ waiting' \in [Clients -> 0..HttpTimeout]
        /\ answer' \in [Clients -> Tiers \cup {"invalid", None}]
        /\ tier' = tier /\ canceled' = canceled
    BY <1>6 DEF ParseAndStore, Idle
  <2> QED BY <2>1, <2>2, <2>3, <2>4
<1>7. ASSUME NEW c \in Clients, RequestFails(c) PROVE TypeOK'
  BY <1>7 DEF RequestFails, Idle, NoTicket
<1>8. CASE UNCHANGED vars
  BY <1>8 DEF vars
<1> QED BY <1>1, <1>2, <1>3, <1>4, <1>5, <1>6, <1>7, <1>8 DEF Next

\* A cancellation is no older than the ticket that came before it.
LEMMA TicketsKept == Inv /\ [Next]_vars /\ tier' = "free" => TicketsAreRecent'
<1> SUFFICES ASSUME Inv, [Next]_vars, tier' = "free", NEW d \in Clients,
                    doing'[d] # "idle", ticket'[d].tier = "premium",
                    ticket'[d].age <= TicketLife
             PROVE  canceled' <= ticket'[d].age
  BY DEF TicketsAreRecent
<1> USE Times DEF Inv, TypeOK, TicketsAreRecent
<1>1. CASE ChangePlan
  BY <1>1 DEF ChangePlan
<1>2. CASE Tick
  <2>1. /\ tier = "free" /\ doing[d] # "idle"
        /\ canceled' = Capped(canceled + 1, Longest)
    BY <1>2 DEF Tick
  <2>2. ticket'[d].tier = ticket[d].tier /\ ticket'[d].age = Capped(ticket[d].age + 1, TicketLife + 1)
    BY <1>2, <2>1 DEF Tick
  <2>3. ticket[d].age + 1 <= TicketLife /\ ticket'[d].age = ticket[d].age + 1
    BY <2>2 DEF Capped
  <2> QED BY <2>1, <2>2, <2>3 DEF Capped
<1>3. ASSUME NEW c \in Clients, IssueTicket(c) PROVE canceled' <= ticket'[d].age
  BY <1>3 DEF IssueTicket
<1>4. ASSUME NEW c \in Clients, Refresh(c) PROVE canceled' <= ticket'[d].age
  BY <1>4 DEF Refresh
<1>5. ASSUME NEW c \in Clients, VerifyTicket(c) PROVE canceled' <= ticket'[d].age
  BY <1>5 DEF VerifyTicket
<1>6. ASSUME NEW c \in Clients, ParseAndStore(c) \/ RequestFails(c)
      PROVE  canceled' <= ticket'[d].age
  BY <1>6 DEF ParseAndStore, RequestFails, Idle, NoTicket
<1>7. CASE UNCHANGED vars
  BY <1>7 DEF vars
<1> QED BY <1>1, <1>2, <1>3, <1>4, <1>5, <1>6, <1>7 DEF Next

\* An answer was given while its ticket was good.
LEMMA AnswersKept == Inv /\ [Next]_vars /\ tier' = "free" => AnswersAreRecent'
<1> SUFFICES ASSUME Inv, [Next]_vars, tier' = "free", NEW d \in Clients,
                    doing'[d] = "verifying", answer'[d] = "premium"
             PROVE  canceled' <= TicketLife + waiting'[d]
  BY DEF AnswersAreRecent
<1> USE Times DEF Inv, TypeOK, AnswersAreRecent
<1>0. (TypeOK)'
  BY TypesKept
<1>1. CASE ChangePlan
  BY <1>1 DEF ChangePlan
<1>2. CASE Tick
  <2>1. /\ tier = "free" /\ doing[d] = "verifying" /\ answer[d] = "premium"
        /\ canceled' = Capped(canceled + 1, Longest) /\ waiting'[d] = waiting[d] + 1
    BY <1>2 DEF Tick
  <2> QED BY <2>1 DEF Capped
<1>3. ASSUME NEW c \in Clients, IssueTicket(c) PROVE canceled' <= TicketLife + waiting'[d]
  BY <1>3 DEF IssueTicket
<1>4. ASSUME NEW c \in Clients, Refresh(c) PROVE canceled' <= TicketLife + waiting'[d]
  BY <1>4 DEF Refresh, AnswersAreAwaited, None
<1>5. ASSUME NEW c \in Clients, VerifyTicket(c) PROVE canceled' <= TicketLife + waiting'[d]
  <2>1. tier = "free" /\ TicketsAreRecent /\ canceled' = canceled /\ waiting' = waiting
    BY <1>5 DEF VerifyTicket
  <2>2. CASE d # c
    BY <1>5, <2>1, <2>2 DEF VerifyTicket
  <2>3. CASE d = c
    <3>1. doing[d] # "idle" /\ ticket[d].age <= TicketLife /\ ticket[d].tier = "premium"
      BY <1>5, <2>3 DEF VerifyTicket, Tiers
    <3>2. canceled <= ticket[d].age
      BY <2>1, <3>1 DEF TicketsAreRecent
    <3> QED BY <2>1, <3>1, <3>2
  <2> QED BY <2>2, <2>3
<1>6. ASSUME NEW c \in Clients, ParseAndStore(c) \/ RequestFails(c)
      PROVE  canceled' <= TicketLife + waiting'[d]
  BY <1>6 DEF ParseAndStore, RequestFails, Idle
<1>7. CASE UNCHANGED vars
  BY <1>7 DEF vars
<1> QED BY <1>1, <1>2, <1>3, <1>4, <1>5, <1>6, <1>7 DEF Next

\* A session was stored while its answer was on time.
LEMMA SessionKept == Inv /\ [Next]_vars /\ tier' = "free" => SessionIsRecent'
<1> SUFFICES ASSUME Inv, [Next]_vars, tier' = "free",
                    cache'.tier = "premium", cache'.left > 0
             PROVE  canceled' + cache'.left <= Longest
  BY DEF SessionIsRecent
<1> USE Times DEF Inv, TypeOK, SessionIsRecent
<1>1. CASE ChangePlan
  BY <1>1 DEF ChangePlan
<1>2. CASE Tick
  <2>1. /\ tier = "free" /\ canceled' = Capped(canceled + 1, Longest)
        /\ cache'.tier = cache.tier /\ cache'.left = (IF cache.left > 0 THEN cache.left - 1 ELSE 0)
    BY <1>2 DEF Tick
  <2> QED BY <2>1 DEF Capped
<1>3. ASSUME NEW c \in Clients, IssueTicket(c) \/ Refresh(c) \/ VerifyTicket(c) \/ RequestFails(c)
      PROVE  canceled' + cache'.left <= Longest
  BY <1>3 DEF IssueTicket, Refresh, VerifyTicket, RequestFails
<1>4. ASSUME NEW c \in Clients, ParseAndStore(c) PROVE canceled' + cache'.left <= Longest
  <2>1. answer[c] = "premium" /\ cache'.left = CacheTtl
    BY <1>4 DEF ParseAndStore, NoSession, None
  <2>2. canceled' = canceled /\ canceled <= TicketLife + waiting[c]
    BY <1>4, <2>1 DEF ParseAndStore, AnswersAreRecent
  <2> QED BY <2>1, <2>2
<1>5. CASE UNCHANGED vars
  BY <1>5 DEF vars
<1> QED BY <1>1, <1>2, <1>3, <1>4, <1>5 DEF Next

\* The time that is left and the time that has passed make one session.
LEMMA Countdown ==
  ASSUME NEW left \in 0..CacheTtl, NEW age \in 0..CacheTtl, left + age = CacheTtl
  PROVE  (IF left > 0 THEN left - 1 ELSE 0) + Capped(age + 1, CacheTtl) = CacheTtl
BY Times DEF Capped

\* Only a verification that is answered changes the session or what was told.
LEMMA ToldKept == Inv /\ [Next]_vars => ToldIsCached'
<1> SUFFICES ASSUME Inv, [Next]_vars, NEW d \in Clients, told'[d].tier # None
             PROVE  cache'.tier = told'[d].tier /\ cache'.left + told'[d].age = CacheTtl
  BY DEF ToldIsCached
<1> USE Times DEF Inv, TypeOK, ToldIsCached
<1>1. CASE ChangePlan
  BY <1>1 DEF ChangePlan
<1>2. CASE Tick
  <2>1. cache'.tier = cache.tier /\ cache'.left = (IF cache.left > 0 THEN cache.left - 1 ELSE 0)
    BY <1>2 DEF Tick
  <2>2. told'[d].tier = told[d].tier /\ told'[d].age = Capped(told[d].age + 1, CacheTtl)
    BY <1>2 DEF Tick
  <2>3. cache.left \in 0..CacheTtl /\ told[d].age \in 0..CacheTtl
    OBVIOUS
  <2>4. cache.tier = told[d].tier /\ cache.left + told[d].age = CacheTtl
    BY <2>2
  <2> QED BY <2>1, <2>2, <2>3, <2>4, Countdown
<1>3. ASSUME NEW c \in Clients, IssueTicket(c) \/ Refresh(c) \/ VerifyTicket(c) \/ RequestFails(c)
      PROVE  cache'.tier = told'[d].tier /\ cache'.left + told'[d].age = CacheTtl
  BY <1>3 DEF IssueTicket, Refresh, VerifyTicket, RequestFails
<1>4. ASSUME NEW c \in Clients, ParseAndStore(c)
      PROVE  cache'.tier = told'[d].tier /\ cache'.left + told'[d].age = CacheTtl
  BY <1>4 DEF ParseAndStore, Tell, NotTold, Tiers
<1>5. CASE UNCHANGED vars
  BY <1>5 DEF vars
<1> QED BY <1>1, <1>2, <1>3, <1>4, <1>5 DEF Next
-----------------------------------------------------------------------------
THEOREM InvHolds == Spec => []Inv
<1>1. Init => Inv
  <2> SUFFICES ASSUME Init PROVE Inv
    OBVIOUS
  <2> USE Times DEF Init
  <2>1. TypeOK
    BY DEF TypeOK, Tiers, NoTicket, NoSession, NotTold
  <2>2. tier = "premium" => canceled = 0
    OBVIOUS
  <2>3. TicketsAreRecent /\ AnswersAreRecent /\ AnswersAreAwaited
    BY DEF TicketsAreRecent, AnswersAreRecent, AnswersAreAwaited
  <2>4. SessionIsRecent /\ ToldIsCached
    BY DEF SessionIsRecent, ToldIsCached, NoSession, NotTold, None
  <2> QED BY <2>1, <2>2, <2>3, <2>4 DEF Inv
<1>2. Inv /\ [Next]_vars => Inv'
  <2> SUFFICES ASSUME Inv, [Next]_vars PROVE Inv'
    OBVIOUS
  <2>1. TypeOK'
    BY TypesKept DEF Inv
  <2>2. tier' = "premium" => canceled' = 0
    BY DEF Inv, Next, ChangePlan, Tick, IssueTicket, Refresh, VerifyTicket, ParseAndStore,
           RequestFails, vars
  <2>3. AnswersAreAwaited'
    BY DEF Inv, TypeOK, AnswersAreAwaited, Next, ChangePlan, Tick, IssueTicket, Refresh,
           VerifyTicket, ParseAndStore, RequestFails, Idle, vars
  <2> QED BY <2>1, <2>2, <2>3, TicketsKept, AnswersKept, SessionKept, ToldKept DEF Inv
<1> QED BY <1>1, <1>2, PTL DEF Spec

\* Every state of the cache and of its clients is well typed: no request
\* outlasts its timeout and no session its time to live.
THEOREM EntitlementTypes == Spec => []TypeOK
BY InvHolds, PTL DEF Inv

\* However tickets, requests and answers of several clients cross, a command
\* is let through after a cancellation for less time than a ticket, a request
\* and a session last together (entitlement.rs is_premium, parse_and_store).
THEOREM PremiumEnds == Spec => []PremiumIsBounded
<1>1. Inv => PremiumIsBounded
  BY Times DEF Inv, TypeOK, SessionIsRecent, PremiumIsBounded, Granted
<1> QED BY <1>1, InvHolds, PTL

\* What a client was told last is what the commands are let through by, for
\* as long as its session lasts (handlers.rs session.verify, require_premium).
THEOREM ToldIsTrue == Spec => []ToldIsGranted
<1>1. Inv => ToldIsGranted
  BY Times DEF Inv, TypeOK, ToldIsCached, ToldIsGranted, Granted
<1> QED BY <1>1, InvHolds, PTL
-----------------------------------------------------------------------------
(* The watchdog *)

StepOf(n) == IF n < Len(Schedule) THEN n ELSE Len(Schedule)

\* The schedule index is one step ahead of the failures in a row.
BackoffInv ==
  /\ backoff = StepOf(streak + 1)
  /\ PauseFollowsFailures

\* Every pause stands between two attempts, and no attempt is begun once
\* the limit is reached.
AttemptsInv ==
  /\ state = "spawn" => attempts = restarts
  /\ state \in {"running", "pause"} => attempts = restarts + 1
  /\ state # "returned" /\ Limit # NoLimit => restarts < Limit \/ restarts = 0
  /\ GivesUpAtLimit

WatchInv == WatchTypeOK /\ BackoffInv /\ AttemptsInv

LEMMA ScheduleSteps ==
  ASSUME WatchdogAssumption
  PROVE  /\ Len(Schedule) \in Nat \ {0}
         /\ \A i \in 1..Len(Schedule) : Schedule[i] \in Nat
         /\ StepOf(1) = 1
<1>1. Len(Schedule) \in Nat \ {0}
  BY LenProperties, EmptySeq DEF WatchdogAssumption
<1>2. \A i \in 1..Len(Schedule) : Schedule[i] \in Nat
  BY ElementOfSeq DEF WatchdogAssumption
<1>3. \A n \in Nat \ {0} : (IF 1 < n THEN 1 ELSE n) = 1
  OBVIOUS
<1>4. StepOf(1) = 1
  BY <1>1, <1>3 DEF StepOf
<1> QED BY <1>1, <1>2, <1>4

LEMMA WatchStep ==
  ASSUME WatchdogAssumption, WatchInv, [WatchNext]_watchVars
  PROVE  WatchInv'
<1>0. /\ Len(Schedule) \in Nat \ {0}
      /\ \A i \in 1..Len(Schedule) : Schedule[i] \in Nat
  BY ScheduleSteps
<1>1. CASE Spawn
  BY <1>1 DEF Spawn, WatchdogAssumption, WatchInv, WatchTypeOK, BackoffInv, AttemptsInv,
              PauseFollowsFailures, GivesUpAtLimit
<1>2. CASE SpawnFails
  <2>1. WatchTypeOK'
    BY <1>0, <1>2 DEF SpawnFails, WatchInv, WatchTypeOK, BackoffInv, StepOf, Advance
  <2>2. BackoffInv'
    BY <1>0, <1>2 DEF SpawnFails, WatchInv, WatchTypeOK, BackoffInv,
                   PauseFollowsFailures, StepOf, Advance
  <2>3. AttemptsInv'
    BY <1>0, <1>2 DEF SpawnFails, WatchInv, WatchTypeOK, AttemptsInv,
                   GivesUpAtLimit, WatchdogAssumption
  <2> QED BY <2>1, <2>2, <2>3 DEF WatchInv
<1>3. CASE ExitClean \/ WaitFails
  BY <1>3 DEF ExitClean, WaitFails, WatchInv, WatchTypeOK, BackoffInv, AttemptsInv,
              PauseFollowsFailures, GivesUpAtLimit
<1>4. ASSUME NEW ran \in RunTimes, Crash(ran) PROVE WatchInv'
  <2> DEFINE from == IF ran >= ResetAfter THEN 1 ELSE backoff
  <2>1. from \in 1..Len(Schedule) /\ streak' \in Nat /\ streak' > 0 /\ from = StepOf(streak')
    BY <1>0, <1>4 DEF Crash, WatchInv, WatchTypeOK, BackoffInv, StepOf
  <2>2. delay' = Schedule[from] /\ backoff' = Advance(from)
    BY <1>0, <1>4 DEF Crash
  <2>3. WatchTypeOK'
    BY <1>0, <1>4, <2>1, <2>2 DEF Crash, WatchInv, WatchTypeOK, Advance
  <2>4. BackoffInv'
    BY <1>0, <1>4, <2>1, <2>2 DEF Crash, BackoffInv, PauseFollowsFailures, StepOf, Advance
  <2>5. AttemptsInv'
    BY <1>0, <1>4 DEF Crash, WatchInv, WatchTypeOK, AttemptsInv, GivesUpAtLimit
  <2> QED BY <2>3, <2>4, <2>5 DEF WatchInv
<1>5. CASE Wake
  <2>1. WatchTypeOK' /\ BackoffInv'
    BY <1>5 DEF Wake, WatchInv, WatchTypeOK, BackoffInv, PauseFollowsFailures
  <2>2. AttemptsInv'
    <3>1. /\ restarts \in Nat /\ attempts = restarts + 1 /\ restarts' = attempts
          /\ attempts' = attempts
          /\ Limit # NoLimit => Limit \in Nat /\ (restarts < Limit \/ restarts = 0)
      BY <1>5 DEF Wake, WatchInv, WatchTypeOK, AttemptsInv, WatchdogAssumption
    <3>2. state' = "spawn" \/ (state' = "returned" /\ Limit # NoLimit /\ restarts' >= Limit)
      BY <1>5 DEF Wake
    <3>3. state' = "spawn" /\ Limit # NoLimit => restarts' < Limit
      BY <1>5, <3>1 DEF Wake
    <3> QED BY <3>1, <3>2, <3>3 DEF AttemptsInv, GivesUpAtLimit
  <2> QED BY <2>1, <2>2 DEF WatchInv
<1>6. CASE UNCHANGED watchVars
  <2>1. WatchTypeOK'
    BY <1>6 DEF watchVars, WatchInv, WatchTypeOK
  <2>2. BackoffInv' /\ AttemptsInv'
    BY <1>6 DEF watchVars, WatchInv, BackoffInv, AttemptsInv, StepOf, PauseFollowsFailures,
                GivesUpAtLimit
  <2> QED BY <2>1, <2>2 DEF WatchInv
<1> QED BY <1>1, <1>2, <1>3, <1>4, <1>5, <1>6 DEF WatchNext

LEMMA WatchdogInvariant == WatchSpec => []WatchInv
<1> USE WatchdogAssumption
<1>1. WatchInit => WatchInv
  <2>1. Len(Schedule) \in Nat \ {0} /\ StepOf(1) = 1
    BY ScheduleSteps
  <2>2. WatchInit => WatchTypeOK /\ BackoffInv
    <3>1. StepOf(0 + 1) = 1
      BY <2>1
    <3>2. WatchInit => WatchTypeOK
      BY <2>1 DEF WatchInit, WatchTypeOK
    <3> QED BY <3>1, <3>2 DEF WatchInit, BackoffInv, PauseFollowsFailures
  <2>3. WatchInit => AttemptsInv
    BY DEF WatchInit, AttemptsInv, GivesUpAtLimit, WatchdogAssumption
  <2> QED BY <2>2, <2>3 DEF WatchInv
<1>2. WatchInv /\ [WatchNext]_watchVars => WatchInv'
  BY WatchStep
<1> QED BY <1>1, <1>2, PTL DEF WatchSpec

\* After the n-th failure in a row the watchdog pauses for the n-th step of
\* the schedule or its last, whatever the schedule is.
THEOREM PausesFollowFailures == WatchSpec => []PauseFollowsFailures
<1>1. WatchInv => PauseFollowsFailures
  BY DEF WatchInv, BackoffInv
<1> QED BY <1>1, WatchdogInvariant, PTL

\* The watchdog gives up after as many starts as max_restarts says, and so
\* after one restart fewer.
THEOREM WatchdogGivesUp == WatchSpec => []GivesUpAtLimit
<1>1. WatchInv => GivesUpAtLimit
  BY DEF WatchInv, AttemptsInv
<1> QED BY <1>1, WatchdogInvariant, PTL
=============================================================================
