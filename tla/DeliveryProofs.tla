---------------------------- MODULE DeliveryProofs ----------------------------
(***************************************************************************)
(* What the outbox guarantees for every number of rows, passes and         *)
(* attempts; and that the modules of MCDelivery keep their types together. *)
(***************************************************************************)
EXTENDS MCDelivery, Outbox, IngestionProofs, JudgementProofs, WebhookProofs, IntegrationProofs, TLAPS

\* The delay of a retry is a time, whatever the power of two is.
LEMMA BackoffIsTime == \A n : backoff(n) \in Nat
<1>1. TAKE n
<1>2. DEFINE delay == RetryBase * 2^(IF n > 0 THEN n - 1 ELSE 0)
<1>3. CASE delay \in 0..RetryMax
  <2> HIDE DEF delay
  <2>1. delay \in Nat  BY <1>3, BoundsAssumption
  <2> QED  BY <2>1, <1>3 DEF backoff, delay
<1>4. CASE ~(delay \in 0..RetryMax)
  BY <1>4, BoundsAssumption DEF backoff
<1> QED  BY <1>3, <1>4

\* Counting an attempt stays below the cap and never lowers the count.
LEMMA NextAttemptGrows ==
  \A n \in 0..AttemptCap : NextAttempt(n) \in 0..AttemptCap /\ n <= NextAttempt(n)
BY BoundsAssumption DEF NextAttempt, AttemptCap

(***************************************************************************)
(* What a pass knows of the row it works on.  Typing alone is not          *)
(* inductive: that a handler's return puts a row in `handled' needs the    *)
(* pass to hold one.                                                       *)
(***************************************************************************)
WorkingHoldsRow ==
  \A p \in Runs : pc[p] \in Working =>
    /\ held[p] \in Consumed
    /\ status[held[p]] # "absent"
    /\ copy[p] <= attempts[held[p]]
    /\ pc[p] = "returned" => held[p] \in handled

UnconsumedUntouched ==
  \A e \in OutboxEvents : e \notin Consumed => status[e] \in {"absent", "pending"}

Inv == /\ OutboxTypeOK
       /\ WorkingHoldsRow
       /\ UnconsumedUntouched
       /\ CompletedWasHandled
       /\ DeadLetterExhausted

LEMMA InvInit == OutboxInit => Inv
BY EventsAssumption, BoundsAssumption
DEF OutboxInit, Inv, OutboxTypeOK, WorkingHoldsRow, UnconsumedUntouched, CompletedWasHandled,
    DeadLetterExhausted, Statuses, AttemptCap, RunStates, Working

LEMMA InvNext == Inv /\ [OutboxNext]_outboxVars => Inv'
<1> SUFFICES ASSUME Inv, [OutboxNext]_outboxVars PROVE Inv'
  OBVIOUS
<1> USE EventsAssumption, BoundsAssumption
    DEF Inv, OutboxTypeOK, WorkingHoldsRow, UnconsumedUntouched, CompletedWasHandled,
        DeadLetterExhausted, Statuses, RunStates, Working, AttemptCap
<1>1. CASE \E e \in OutboxEvents : AppendOutboxEvent(e)
  BY <1>1 DEF AppendOutboxEvent, dispatcherVars
<1>2. ASSUME NEW p \in Runs, StartRun(p) PROVE Inv'
  BY <1>2 DEF StartRun, rowVars
<1>3. ASSUME NEW p \in Runs, ClaimNext(p) PROVE Inv'
  <2>1. PICK e \in Claimable(p) :
          /\ status' = [status EXCEPT ![e] = "dispatching"]
          /\ attempts' = [attempts EXCEPT ![e] = NextAttempt(@)]
          /\ due' = [due EXCEPT ![e] = LeaseFrom(p)]
          /\ held' = [held EXCEPT ![p] = e]
          /\ copy' = [copy EXCEPT ![p] = ReturnedAttempts(e)]
    BY <1>3 DEF ClaimNext
  <2>2. e \in Consumed /\ e \in OutboxEvents /\ status[e] \in {"pending", "dispatching"}
    BY DEF Claimable, CLAIMABLE_STATUSES
  <2>3. /\ NextAttempt(attempts[e]) \in 0..AttemptCap
        /\ attempts[e] <= NextAttempt(attempts[e])
    BY <2>2, NextAttemptGrows
  <2>4. copy'[p] = NextAttempt(attempts[e]) /\ attempts'[e] = NextAttempt(attempts[e])
    BY <2>1, <2>2 DEF ReturnedAttempts
  <2>5. \A f \in OutboxEvents : attempts[f] <= attempts'[f] /\ attempts'[f] \in 0..AttemptCap
    BY <2>1, <2>2, <2>3
  <2>6. /\ pc' = [pc EXCEPT ![p] = "handling"]
        /\ claims' = [claims EXCEPT ![p] = @ + 1] /\ claims[p] < Limit
        /\ busy' = [busy EXCEPT ![p] = 0]
        /\ UNCHANGED <<handled, age, runCrashes>>
        /\ lapsed' \subseteq lapsed \cup {held'[p]}
    BY <1>3 DEF ClaimNext, MayClaim
  <2>7. OutboxTypeOK'
    BY <2>1, <2>2, <2>3, <2>6 DEF LeaseFrom, ReturnedAttempts
  <2>8. WorkingHoldsRow'
    BY <2>1, <2>2, <2>4, <2>5, <2>6
  <2>9. UnconsumedUntouched' /\ CompletedWasHandled'
    BY <2>1, <2>2, <2>6
  <2>10. DeadLetterExhausted'
    BY <2>1, <2>2, <2>5
  <2> QED  BY <2>7, <2>8, <2>9, <2>10
<1>4. ASSUME NEW p \in Runs, EndRun(p) PROVE Inv'
  BY <1>4 DEF EndRun, LeaveRun, rowVars
<1>5. ASSUME NEW p \in Runs, HandlerReturns(p) PROVE Inv'
  BY <1>5 DEF HandlerReturns, rowVars
<1>6. ASSUME NEW p \in Runs, Throws(p) PROVE Inv'
  BY <1>6 DEF Throws, rowVars
<1>7. ASSUME NEW p \in Runs, MarkDispatched(p) PROVE Inv'
  BY <1>7 DEF MarkDispatched, HandlerDone, Release
<1>12. ASSUME NEW p \in Runs, MarkDispatchedUnacknowledged(p) PROVE Inv'
  BY <1>12 DEF MarkDispatchedUnacknowledged, HandlerDone
<1>8. ASSUME NEW p \in Runs, MarkFailed(p) PROVE Inv'
  <2>1. held[p] \in OutboxEvents /\ held[p] \in Consumed /\ copy[p] <= attempts[held[p]]
    BY <1>8 DEF MarkFailed
  <2>2. backoff(copy[p]) \in Int
    BY BackoffIsTime
  <2>3. OutboxTypeOK'
    BY <1>8, <2>1, <2>2 DEF MarkFailed, Release
  <2>4. WorkingHoldsRow' /\ UnconsumedUntouched' /\ CompletedWasHandled'
    BY <1>8, <2>1 DEF MarkFailed, Release
  <2>5. DeadLetterExhausted'
    BY <1>8, <2>1 DEF MarkFailed, DeadLettered
  <2> QED  BY <2>3, <2>4, <2>5
<1>9. ASSUME NEW p \in Runs, Crash(p) PROVE Inv'
  BY <1>9 DEF Crash, LeaveRun, rowVars
<1>10. CASE ClockTicks
  BY <1>10 DEF ClockTicks, Later, CLAIMABLE_STATUSES
<1>11. CASE UNCHANGED outboxVars
  BY <1>11 DEF outboxVars, rowVars, dispatcherVars
<1> QED
  BY <1>1, <1>2, <1>3, <1>4, <1>5, <1>6, <1>7, <1>8, <1>9, <1>10, <1>11, <1>12
  DEF OutboxNext, RunStep

LEMMA InvHolds == OutboxSpec => []Inv
BY InvInit, InvNext, PTL DEF OutboxSpec

(***************************************************************************)
(* Every variable keeps its type under every step of every pass.           *)
(***************************************************************************)
THEOREM TypeCorrect == OutboxSpec => []OutboxTypeOK
<1>1. Inv => OutboxTypeOK  BY DEF Inv
<1> QED  BY <1>1, InvHolds, PTL

(***************************************************************************)
(* A row is completed only after a run of its handler returned, however    *)
(* many passes overlap, die or outlive their lease.                        *)
(***************************************************************************)
THEOREM CompletionIsEarned == OutboxSpec => []CompletedWasHandled
<1>1. Inv => CompletedWasHandled  BY DEF Inv
<1> QED  BY <1>1, InvHolds, PTL

(***************************************************************************)
(* A row is dead-lettered only after MaxAttempts claims, although the      *)
(* decision is made on a pass's own, possibly stale, copy of the count.    *)
(***************************************************************************)
THEOREM DeadLetterIsEarned == OutboxSpec => []DeadLetterExhausted
<1>1. Inv => DeadLetterExhausted  BY DEF Inv
<1> QED  BY <1>1, InvHolds, PTL

-----------------------------------------------------------------------------
(***************************************************************************)
(* The lease.  Unless it ran out under somebody, a pass that works on a    *)
(* row owns it: nobody has touched it since the claim, but for the pass's  *)
(* own completion that it was not told of, and the lease runs out Lease    *)
(* after the pass read the clock.                                          *)
(***************************************************************************)
Owns(p) ==
  /\ \/ status[held[p]] = "dispatching" /\ due[held[p]] = Lease - age[p]
     \/ status[held[p]] = "dispatched" /\ pc[p] = "unacknowledged"
  /\ age[p] < Lease
  /\ copy[p] = attempts[held[p]]

OwnsRow == \A p \in Runs : pc[p] \in Working /\ held[p] \notin lapsed => Owns(p)

FreshRow == \A e \in OutboxEvents : status[e] = "absent" => attempts[e] = 0

LeaseInv == Inv /\ OwnsRow /\ OneHandlerPerEvent /\ FreshRow /\ RetryWithinBudget

LEMMA LeaseInvInit == OutboxInit => LeaseInv
<1> SUFFICES ASSUME OutboxInit PROVE LeaseInv
  OBVIOUS
<1>1. Inv  BY InvInit
<1>2. OwnsRow /\ OneHandlerPerEvent /\ FreshRow /\ RetryWithinBudget
  BY DEF OutboxInit, OwnsRow, OneHandlerPerEvent, FreshRow, RetryWithinBudget, Working
<1> QED  BY <1>1, <1>2 DEF LeaseInv

\* A row somebody works on is not claimable by anybody, unless its lease ran out.
LEMMA WorkedOnIsLeased ==
  ASSUME LeaseInv, NEW p \in Runs, NEW q \in Runs, pc[p] \in Working,
         held[p] \notin lapsed
  PROVE  held[p] \notin Claimable(q)
BY BoundsAssumption
DEF LeaseInv, Inv, OutboxTypeOK, OwnsRow, Owns, Claimable, CLAIMABLE_STATUSES

LEMMA LeaseInvNext == LeaseInv /\ [OutboxNext]_outboxVars => LeaseInv'
<1> SUFFICES ASSUME LeaseInv, [OutboxNext]_outboxVars PROVE LeaseInv'
  OBVIOUS
<1>0. Inv'
  BY InvNext DEF LeaseInv
<1> USE EventsAssumption, BoundsAssumption
    DEF LeaseInv, Inv, OutboxTypeOK, WorkingHoldsRow, OwnsRow, Owns, OneHandlerPerEvent,
        FreshRow, RetryWithinBudget, Statuses, RunStates, Working, AttemptCap
<1> DEFINE Goal == (OwnsRow /\ OneHandlerPerEvent /\ FreshRow /\ RetryWithinBudget)'
<1>1. ASSUME NEW e \in OutboxEvents, AppendOutboxEvent(e) PROVE Goal
  BY <1>1 DEF AppendOutboxEvent, dispatcherVars
<1>2. ASSUME NEW p \in Runs, StartRun(p) PROVE Goal
  BY <1>2 DEF StartRun, rowVars
<1>3. ASSUME NEW p \in Runs, ClaimNext(p) PROVE Goal
  <2>1. PICK e \in Claimable(p) :
          /\ status' = [status EXCEPT ![e] = "dispatching"]
          /\ attempts' = [attempts EXCEPT ![e] = NextAttempt(@)]
          /\ due' = [due EXCEPT ![e] = LeaseFrom(p)]
          /\ held' = [held EXCEPT ![p] = e]
          /\ copy' = [copy EXCEPT ![p] = ReturnedAttempts(e)]
    BY <1>3 DEF ClaimNext
  <2>2. pc[p] = "polling" /\ pc' = [pc EXCEPT ![p] = "handling"] /\ UNCHANGED age
    BY <1>3 DEF ClaimNext
  <2>3. e \in OutboxEvents /\ status[e] # "absent"
    BY DEF Claimable, CLAIMABLE_STATUSES
  <2>4. lapsed \subseteq lapsed' /\ (e \notin lapsed' => age[p] < Lease)
    BY <1>3, <2>1 DEF ClaimNext, OutlivesLease
  <2>5. \A q \in Runs : pc[q] \in Working /\ held[q] = e => e \in lapsed
    BY WorkedOnIsLeased
  <2>6. OwnsRow'
    <3> SUFFICES ASSUME NEW q \in Runs, pc'[q] \in Working, held'[q] \notin lapsed'
                 PROVE  Owns(q)'
      OBVIOUS
    <3>1. CASE q = p
      BY <2>1, <2>2, <2>3, <2>4, <3>1 DEF ReturnedAttempts, LeaseFrom
    <3>2. CASE q # p
      <4>1. pc[q] \in Working /\ held'[q] = held[q] /\ held[q] \notin lapsed /\ held[q] # e
        BY <2>1, <2>2, <2>4, <2>5, <3>2
      <4> QED  BY <2>1, <2>2, <3>2, <4>1
    <3> QED  BY <3>1, <3>2
  <2>7. OneHandlerPerEvent'
    <3> SUFFICES ASSUME NEW q \in Runs, NEW v \in Runs, q # v, pc'[q] \in Working,
                        pc'[v] \in Working, held'[q] = held'[v]
                 PROVE  held'[q] \in lapsed'
      OBVIOUS
    <3>1. CASE q = p \/ v = p
      BY <2>1, <2>2, <2>4, <2>5, <3>1
    <3>2. CASE q # p /\ v # p
      BY <2>1, <2>2, <2>4, <3>2
    <3> QED  BY <3>1, <3>2
  <2>8. FreshRow' /\ RetryWithinBudget'
    BY <2>1, <2>3, <2>4
  <2> QED  BY <2>6, <2>7, <2>8
<1>4. ASSUME NEW p \in Runs, EndRun(p) \/ Crash(p) PROVE Goal
  BY <1>4 DEF EndRun, Crash, LeaveRun, rowVars
<1>5. ASSUME NEW p \in Runs, HandlerReturns(p) \/ Throws(p) PROVE Goal
  BY <1>5 DEF HandlerReturns, Throws, rowVars
<1>6. ASSUME NEW p \in Runs, MarkDispatched(p) PROVE Goal
  <2>1. /\ pc[p] \in Working
        /\ status' = [status EXCEPT ![held[p]] = "dispatched"]
        /\ pc' = [pc EXCEPT ![p] = "polling"]
        /\ held' = [held EXCEPT ![p] = NoEvent]
        /\ copy' = [copy EXCEPT ![p] = 0]
        /\ UNCHANGED <<attempts, due, age, lapsed>>
    BY <1>6 DEF MarkDispatched, HandlerDone, Release
  <2>2. OwnsRow'  BY <2>1
  <2>3. OneHandlerPerEvent'  BY <2>1
  <2>4. FreshRow' /\ RetryWithinBudget'  BY <2>1
  <2> QED  BY <2>2, <2>3, <2>4
<1>7. ASSUME NEW p \in Runs, MarkDispatchedUnacknowledged(p) PROVE Goal
  <2>1. /\ pc[p] \in Working
        /\ status' = [status EXCEPT ![held[p]] = "dispatched"]
        /\ pc' = [pc EXCEPT ![p] = "unacknowledged"]
        /\ UNCHANGED <<attempts, due, age, lapsed, held, copy>>
    BY <1>7 DEF MarkDispatchedUnacknowledged, HandlerDone
  <2>2. OwnsRow'  BY <2>1
  <2>3. OneHandlerPerEvent'  BY <2>1
  <2>4. FreshRow' /\ RetryWithinBudget'  BY <2>1
  <2> QED  BY <2>2, <2>3, <2>4
<1>8. ASSUME NEW p \in Runs, MarkFailed(p) PROVE Goal
  <2> DEFINE s == IF DeadLettered(copy[p]) THEN "failed" ELSE "pending"
             d == IF DeadLettered(copy[p]) THEN 0 ELSE backoff(copy[p])
  <2>1. /\ pc[p] \in Working
        /\ status' = [status EXCEPT ![held[p]] = s]
        /\ due' = [due EXCEPT ![held[p]] = d]
        /\ pc' = [pc EXCEPT ![p] = "polling"]
        /\ held' = [held EXCEPT ![p] = NoEvent]
        /\ copy' = [copy EXCEPT ![p] = 0]
        /\ UNCHANGED <<attempts, age, lapsed>>
    BY <1>8 DEF MarkFailed, Release
  <2>2. s \in {"failed", "pending"} /\ (s = "pending" => copy[p] < MaxAttempts)
    BY DEF DeadLettered
  <2> HIDE DEF s, d
  <2>3. OwnsRow'  BY <2>1, <2>2
  <2>4. OneHandlerPerEvent'  BY <2>1
  <2>5. FreshRow' /\ RetryWithinBudget'  BY <2>1, <2>2
  <2> QED  BY <2>3, <2>4, <2>5
<1>9. ASSUME ClockTicks PROVE Goal
  <2>1. /\ UNCHANGED <<pc, held, copy, status, attempts>>
        /\ lapsed \subseteq lapsed'
    BY <1>9 DEF ClockTicks
  <2>2. ASSUME NEW p \in Runs, pc[p] \in Working, held[p] \notin lapsed'
        PROVE  Owns(p)'
    <3>1. held[p] \notin lapsed /\ age'[p] = age[p] + 1 /\ age'[p] < Lease
      BY <1>9, <2>2 DEF ClockTicks, OutlivesLease
    <3>2. status[held[p]] = "dispatching" => due'[held[p]] = due[held[p]] - 1
      BY <1>9, <2>2, <3>1 DEF ClockTicks, Later, CLAIMABLE_STATUSES
    <3> QED  BY <2>1, <2>2, <3>1, <3>2
  <2>3. OwnsRow'
    BY <2>1, <2>2
  <2>4. (OneHandlerPerEvent /\ FreshRow /\ RetryWithinBudget)'
    BY <2>1
  <2> QED  BY <2>3, <2>4
<1>10. ASSUME UNCHANGED outboxVars PROVE Goal
  BY <1>10 DEF outboxVars, rowVars, dispatcherVars
<1>11. Goal
  BY <1>1, <1>2, <1>3, <1>4, <1>5, <1>6, <1>7, <1>8, <1>9, <1>10 DEF OutboxNext, RunStep
<1> QED  BY <1>0, <1>11

(***************************************************************************)
(* Only a lease that ran out under a pass lets two passes run a handler on *)
(* the same row, however long a pass lasts and however many overlap.       *)
(***************************************************************************)
THEOREM LeaseExcludes == OutboxSpec => []OneHandlerPerEvent
<1>1. LeaseInv => OneHandlerPerEvent  BY DEF LeaseInv
<1> QED  BY <1>1, LeaseInvNext, LeaseInvInit, PTL DEF OutboxSpec

(***************************************************************************)
(* Only the same leaves a row waiting for a retry with no attempt left.    *)
(***************************************************************************)
THEOREM RetriesStayInBudget == OutboxSpec => []RetryWithinBudget
<1>1. LeaseInv => RetryWithinBudget  BY DEF LeaseInv
<1> QED  BY <1>1, LeaseInvNext, LeaseInvInit, PTL DEF OutboxSpec

(***************************************************************************)
(* Only the same, or a completion whose reply was lost, rewrites a settled *)
(* row.                                                                    *)
(***************************************************************************)
THEOREM SettlementIsFinal == OutboxSpec => SettledIsFinal
<1> DEFINE Final ==
      \A e \in OutboxEvents :
        /\ status[e] \in Settled
        /\ e \notin lapsed
        /\ \A p \in Runs : pc[p] = "unacknowledged" => held[p] # e
        => status'[e] = status[e]
<1>1. LeaseInv /\ [OutboxNext]_outboxVars => [Final]_outboxVars
  <2> SUFFICES ASSUME LeaseInv, OutboxNext PROVE Final
    BY DEF outboxVars
  <2> USE EventsAssumption
      DEF LeaseInv, Inv, OutboxTypeOK, OwnsRow, Owns, WorkingHoldsRow, Working, Settled
  <2>1. CASE \E e \in OutboxEvents : AppendOutboxEvent(e)
    BY <2>1 DEF AppendOutboxEvent
  <2>2. ASSUME NEW p \in Runs, ClaimNext(p) PROVE Final
    BY <2>2 DEF ClaimNext, Claimable, CLAIMABLE_STATUSES
  <2>3. ASSUME NEW p \in Runs,
               MarkDispatched(p) \/ MarkDispatchedUnacknowledged(p) \/ MarkFailed(p)
        PROVE  Final
    BY <2>3 DEF MarkDispatched, MarkDispatchedUnacknowledged, HandlerDone, MarkFailed
  <2>4. CASE UNCHANGED status
    BY <2>4
  <2> QED
    BY <2>1, <2>2, <2>3, <2>4
    DEF OutboxNext, RunStep, StartRun, EndRun, HandlerReturns, Throws, Crash, ClockTicks,
        rowVars
<1> QED  BY <1>1, LeaseInvNext, LeaseInvInit, PTL DEF OutboxSpec, SettledIsFinal
-----------------------------------------------------------------------------
(***************************************************************************)
(* A report's way there and a decision's way back together: a behaviour    *)
(* that runs one of the five modules, while the others stay as they start, *)
(* is one of each, so each keeps its types; the channel also runs its      *)
(* sender's passes alone, which leave the application's side as it is.     *)
(***************************************************************************)
LEMMA ModulesRunAlone ==
  MCSpec => IngestSpec /\ ProfileSpec /\ RulesSpec /\ DeliverySpec /\ AppSpec
<1>1. MCInit => IngestInit /\ ProfileInit /\ RulesInit /\ DeliveryInit /\ AppInit
  BY DEF MCInit, ChannelInit
<1>2. ASSUME [MCNext]_mcVars
      PROVE  /\ [IngestNext]_ingestVars /\ [ProfileNext]_profileVars /\ [RulesNext]_rulesVars
             /\ [DeliveryNext]_deliveryVars /\ [AppNext]_intVars
  BY <1>2, ChannelSteps DEF MCNext, mcVars, allVars
<1> QED
  BY <1>1, <1>2, PTL
  DEF MCSpec, IngestSpec, ProfileSpec, RulesSpec, DeliverySpec, AppSpec

LEMMA ChannelRunsAlone == MCSpec => []ChannelTypeOK
<1>1. MCInit => ChannelInv
  BY ChannelInvInit DEF MCInit
<1>2. ChannelInv /\ [MCNext]_mcVars /\ DeliveryTypeOK' => ChannelInv'
  <2> SUFFICES ASSUME ChannelInv, [MCNext]_mcVars, DeliveryTypeOK' PROVE ChannelInv'
    OBVIOUS
  <2>1. CASE [ChannelNext]_allVars
    BY <2>1, ChannelInvNext
  <2>2. CASE UNCHANGED channelVars
    BY <2>2
    DEF ChannelInv, ChannelTypeOK, InboxClaimsHeld, channelVars, Inbox!InboxTypeOK, Inbox!AtWork
  <2> QED
    BY <2>1, <2>2 DEF MCNext, mcVars, allVars
<1>3. ChannelInv => ChannelTypeOK
  BY DEF ChannelInv
<1> QED
  BY <1>1, <1>2, <1>3, ModulesRunAlone, DeliveryTypeCorrect, PTL DEF MCSpec

THEOREM DeliveryTypesCorrect == MCSpec => []DeliveryTypesOK
<1>1. IngestTypeOK /\ ProfileTypeOK /\ RulesTypeOK /\ ChannelTypeOK /\ AppTypeOK
      => DeliveryTypesOK
  BY DEF DeliveryTypesOK
<1> QED
  BY <1>1, ModulesRunAlone, ChannelRunsAlone, IngestTypeCorrect, ProfileTypeCorrect,
     RulesTypeCorrect, AppTypeCorrect, PTL
=============================================================================
