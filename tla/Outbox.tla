------------------------------- MODULE Outbox -------------------------------
(***************************************************************************)
(* The transactional outbox and its dispatcher: rows of outbox_events and  *)
(* the polling passes (runOnce) that claim, handle and complete them.      *)
(*                                                                         *)
(* A pass is one call of runOnce.  The dispatcher's timer starts one every *)
(* second whether or not the last one ended, and every process has a       *)
(* timer, so several passes may run at once.  A pass reads the clock once, *)
(* when it starts, and uses that reading for every claim it makes.         *)
(*                                                                         *)
(* Time is kept relative to the present: due[e] is available_at minus now  *)
(* (negative once the row is overdue), age[p] is now minus the clock       *)
(* reading of pass p.  Hence "available_at <= the pass's now" is           *)
(* due[e] <= -age[p], and "the pass's now + Lease" is Lease - age[p].      *)
(***************************************************************************)
EXTENDS Integers, FiniteSets

CONSTANTS
  OutboxEvents, \* ids of outbox rows
  Consumed,     \* the events whose type has a registered handler
  Runs,         \* passes (calls of runOnce) that may overlap
  Limit,        \* claims one pass may make (25)
  MaxAttempts,  \* OUTBOX_MAX_ATTEMPTS (8)
  Lease,        \* OUTBOX_LEASE_MS (60 s)
  RetryBase,    \* RETRY_BASE_MS
  RetryMax,     \* RETRY_MAX_MS
  HandlerMax,   \* bound: the longest a pass spends on one loop iteration
  RunMax,       \* bound: the longest a whole pass lasts; may exceed Lease
  MaxRunCrashes,\* bound: passes that die before they finish
  NoEvent       \* a pass that holds no row

ASSUME EventsAssumption == Consumed \subseteq OutboxEvents /\ NoEvent \notin OutboxEvents
ASSUME BoundsAssumption ==
  /\ Limit \in Nat \ {0} /\ MaxAttempts \in Nat \ {0} /\ Lease \in Nat \ {0}
  /\ RetryBase \in Nat /\ RetryMax \in Nat
  /\ HandlerMax \in Nat \ {0} /\ RunMax \in Nat \ {0} /\ MaxRunCrashes \in Nat

VARIABLES
  status,    \* outbox_events.status, "absent" before the row is inserted
  attempts,  \* outbox_events.attempts, saturated at AttemptCap
  due,       \* outbox_events.available_at, relative to now
  handled,   \* events whose handler has returned at least once (history)
  pc,        \* where each pass is in runOnce
  held,      \* the row a pass has claimed
  copy,      \* `attempts` as the claim returned it to the pass
  claims,    \* rows claimed so far by the pass
  age,       \* time since the pass read the clock
  busy,      \* time since the pass began its present iteration
  runCrashes,\* passes that died
  lapsed     \* rows whose lease ran out under a pass at work on them (history)

rowVars == <<status, attempts, due>>
dispatcherVars == <<pc, held, copy, claims, age, busy>>
outboxVars == <<rowVars, handled, dispatcherVars, runCrashes, lapsed>>

Statuses == {"absent", "pending", "dispatching", "dispatched", "failed"}

\* Mutant: an expired lease is not claimable, so a dead pass keeps its row.
PendingOnly == {"pending"}

CLAIMABLE_STATUSES == {"pending", "dispatching"}
Settled == {"dispatched", "failed"}
Working == {"handling", "returned", "unacknowledged", "thrown"}
RunStates == {"idle", "polling"} \cup Working

(***************************************************************************)
(* attempts only ever grows and is only compared with MaxAttempts, so it   *)
(* saturates one above it.                                                 *)
(***************************************************************************)
AttemptCap == MaxAttempts + 1
NextAttempt(n) == IF n < AttemptCap THEN n + 1 ELSE n

(***************************************************************************)
(* min(RetryMax, RetryBase * 2^max(0, n-1)), the delay after attempt n.    *)
(***************************************************************************)
backoff(n) ==
  LET delay == RetryBase * 2^(IF n > 0 THEN n - 1 ELSE 0)
  IN  IF delay \in 0..RetryMax THEN delay ELSE RetryMax

OutboxTypeOK ==
  /\ status \in [OutboxEvents -> Statuses]
  /\ attempts \in [OutboxEvents -> 0..AttemptCap]
  /\ due \in [OutboxEvents -> Int]
  /\ handled \subseteq OutboxEvents
  /\ pc \in [Runs -> RunStates]
  /\ held \in [Runs -> OutboxEvents \cup {NoEvent}]
  /\ copy \in [Runs -> 0..AttemptCap]
  /\ claims \in [Runs -> 0..Limit]
  /\ age \in [Runs -> 0..RunMax]
  /\ busy \in [Runs -> 0..HandlerMax]
  /\ runCrashes \in 0..MaxRunCrashes
  /\ lapsed \subseteq OutboxEvents

OutboxInit ==
  /\ status = [e \in OutboxEvents |-> "absent"]
  /\ attempts = [e \in OutboxEvents |-> 0]
  /\ due = [e \in OutboxEvents |-> 0]
  /\ handled = {}
  /\ pc = [p \in Runs |-> "idle"]
  /\ held = [p \in Runs |-> NoEvent]
  /\ copy = [p \in Runs |-> 0]
  /\ claims = [p \in Runs |-> 0]
  /\ age = [p \in Runs |-> 0]
  /\ busy = [p \in Runs |-> 0]
  /\ runCrashes = 0
  /\ lapsed = {}

-----------------------------------------------------------------------------
(***************************************************************************)
(* appendOutboxEvent: a domain transaction commits a row with its write.   *)
(***************************************************************************)
AppendOutboxEvent(e) ==
  /\ status[e] = "absent"
  /\ status' = [status EXCEPT ![e] = "pending"]
  /\ due' = [due EXCEPT ![e] = 0]
  /\ UNCHANGED <<attempts, handled, dispatcherVars, runCrashes, lapsed>>

(***************************************************************************)
(* The timer fires: a pass starts and reads the clock.                     *)
(***************************************************************************)
StartRun(p) ==
  /\ pc[p] = "idle"
  /\ pc' = [pc EXCEPT ![p] = "polling"]
  /\ UNCHANGED <<rowVars, handled, held, copy, claims, age, busy, runCrashes, lapsed>>

-----------------------------------------------------------------------------
\* Mutant: the claim leases nothing.
LeaseFrom_None(p) == 0 - age[p]

\* leaseUntil: the pass's now + Lease, whatever the time is by now.
LeaseFrom(p) == Lease - age[p]

\* RETURNING yields the row after the update.
ReturnedAttempts(e) == NextAttempt(attempts[e])

\* The rows the claim statement of pass p may take.
Claimable(p) == {e \in Consumed : /\ status[e] \in CLAIMABLE_STATUSES
                                  /\ due[e] <= -age[p]}

MayClaim(p) == claims[p] < Limit

\* A claim of a pass this old is free to be taken by another pass.
OutlivesLease(passAge) == passAge >= Lease

(***************************************************************************)
(* claimNext: one UPDATE takes the oldest due row, leases it until the     *)
(* pass's now + Lease, counts the attempt and returns the updated row.     *)
(***************************************************************************)
ClaimNext(p) ==
  /\ pc[p] = "polling" /\ MayClaim(p)
  /\ \E e \in Claimable(p) :
       /\ \A f \in Claimable(p) : due[e] <= due[f]
       /\ status' = [status EXCEPT ![e] = "dispatching"]
       /\ attempts' = [attempts EXCEPT ![e] = NextAttempt(@)]
       /\ due' = [due EXCEPT ![e] = LeaseFrom(p)]
       /\ held' = [held EXCEPT ![p] = e]
       /\ copy' = [copy EXCEPT ![p] = ReturnedAttempts(e)]
  /\ pc' = [pc EXCEPT ![p] = "handling"]
  /\ claims' = [claims EXCEPT ![p] = @ + 1]
  /\ busy' = [busy EXCEPT ![p] = 0]
  /\ lapsed' = lapsed \cup (IF OutlivesLease(age[p]) THEN {held'[p]} ELSE {})
  /\ UNCHANGED <<handled, age, runCrashes>>

\* The pass is over, one way or another: its local state is gone.
LeaveRun(p) ==
  /\ pc' = [pc EXCEPT ![p] = "idle"]
  /\ held' = [held EXCEPT ![p] = NoEvent]
  /\ copy' = [copy EXCEPT ![p] = 0]
  /\ claims' = [claims EXCEPT ![p] = 0]
  /\ age' = [age EXCEPT ![p] = 0]
  /\ busy' = [busy EXCEPT ![p] = 0]

(***************************************************************************)
(* The loop ends: nothing is due, or the limit is reached.                 *)
(***************************************************************************)
EndRun(p) ==
  /\ pc[p] = "polling"
  /\ ~MayClaim(p) \/ Claimable(p) = {}
  /\ LeaveRun(p)
  /\ UNCHANGED <<rowVars, handled, runCrashes, lapsed>>

(***************************************************************************)
(* The handler returns, its own transaction committed.                     *)
(***************************************************************************)
HandlerReturns(p) ==
  /\ pc[p] = "handling"
  /\ handled' = handled \cup {held[p]}
  /\ pc' = [pc EXCEPT ![p] = "returned"]
  /\ UNCHANGED <<rowVars, held, copy, claims, age, busy, runCrashes, lapsed>>

(***************************************************************************)
(* The handler throws, or the completion write after it does.              *)
(***************************************************************************)
Throws(p) ==
  /\ pc[p] \in {"handling", "returned"}
  /\ pc' = [pc EXCEPT ![p] = "thrown"]
  /\ UNCHANGED <<rowVars, handled, held, copy, claims, age, busy, runCrashes, lapsed>>

\* The pass is done with its row and polls for the next one.
Release(p) ==
  /\ pc' = [pc EXCEPT ![p] = "polling"]
  /\ held' = [held EXCEPT ![p] = NoEvent]
  /\ copy' = [copy EXCEPT ![p] = 0]
  /\ busy' = [busy EXCEPT ![p] = 0]
  /\ UNCHANGED <<claims, age>>

\* Mutant: a row is completed although its handler threw.
HandlerDone_OrThrew(p) == pc[p] \in {"returned", "thrown"}

HandlerDone(p) == pc[p] = "returned"

(***************************************************************************)
(* markDispatched: WHERE event_id = ..., whoever holds the row by now.     *)
(***************************************************************************)
MarkDispatched(p) ==
  /\ HandlerDone(p)
  /\ status' = [status EXCEPT ![held[p]] = "dispatched"]
  /\ Release(p)
  /\ UNCHANGED <<attempts, due, handled, runCrashes, lapsed>>

(***************************************************************************)
(* markDispatched commits and its reply is lost: the same catch takes it   *)
(* for a handler that threw.                                               *)
(***************************************************************************)
MarkDispatchedUnacknowledged(p) ==
  /\ HandlerDone(p)
  /\ status' = [status EXCEPT ![held[p]] = "dispatched"]
  /\ pc' = [pc EXCEPT ![p] = "unacknowledged"]
  /\ UNCHANGED <<attempts, due, handled, held, copy, claims, age, busy, runCrashes, lapsed>>

\* Mutant: the dead-letter test is off by one.
DeadLettered_Early(n) == n >= MaxAttempts - 1

DeadLettered(n) == n >= MaxAttempts

(***************************************************************************)
(* markFailed: dead letter or back-off, decided on the pass's own copy of  *)
(* attempts and written WHERE event_id = ... alone.                        *)
(***************************************************************************)
MarkFailed(p) ==
  LET e == held[p]
      deadLettered == DeadLettered(copy[p])
  IN  /\ pc[p] \in {"thrown", "unacknowledged"}
      /\ status' = [status EXCEPT ![e] =
                      IF deadLettered THEN "failed" ELSE "pending"]
      /\ due' = [due EXCEPT ![e] =
                      IF deadLettered THEN 0 ELSE backoff(copy[p])]
      /\ Release(p)
      /\ UNCHANGED <<attempts, handled, runCrashes, lapsed>>

(***************************************************************************)
(* The process dies, or a write outside the try block throws and the pass  *)
(* ends: whatever it held stays leased.                                    *)
(***************************************************************************)
Crash(p) ==
  /\ pc[p] # "idle" /\ runCrashes < MaxRunCrashes
  /\ runCrashes' = runCrashes + 1
  /\ LeaveRun(p)
  /\ UNCHANGED <<rowVars, handled, lapsed>>

(***************************************************************************)
(* Time passes.  A row overdue by more than RunMax is claimable by every  *)
(* pass and is kept at that value; a settled row's available_at is not     *)
(* read again.                                                             *)
(***************************************************************************)
Later(d) == IF d > -RunMax THEN d - 1 ELSE d

ClockTicks ==
  /\ \A p \in Runs : pc[p] # "idle" => age[p] < RunMax /\ busy[p] < HandlerMax
  /\ due' = [e \in OutboxEvents |-> IF status[e] \in CLAIMABLE_STATUSES
                              THEN Later(due[e]) ELSE due[e]]
  /\ age' = [p \in Runs |-> IF pc[p] = "idle" THEN 0 ELSE age[p] + 1]
  /\ busy' = [p \in Runs |-> IF pc[p] = "idle" THEN 0 ELSE busy[p] + 1]
  /\ lapsed' = lapsed \cup
        {held[p] : p \in {q \in Runs : pc[q] \in Working /\ OutlivesLease(age[q] + 1)}}
  /\ UNCHANGED <<status, attempts, handled, pc, held, copy, claims, runCrashes>>

RunStep(p) ==
  \/ StartRun(p) \/ ClaimNext(p) \/ EndRun(p)
  \/ HandlerReturns(p) \/ Throws(p)
  \/ MarkDispatched(p) \/ MarkDispatchedUnacknowledged(p) \/ MarkFailed(p)

OutboxNext ==
  \/ \E e \in OutboxEvents : AppendOutboxEvent(e)
  \/ \E p \in Runs : RunStep(p) \/ Crash(p)
  \/ ClockTicks

OutboxSpec == OutboxInit /\ [][OutboxNext]_outboxVars

(***************************************************************************)
(* The timer keeps firing, a handler settles, its row is written, and time *)
(* passes.                                                                 *)
(***************************************************************************)
OutboxFairness == WF_outboxVars(ClockTicks) /\ \A p \in Runs : WF_outboxVars(RunStep(p))

-----------------------------------------------------------------------------
(***************************************************************************)
(* "Nothing is completed without being handled": a dispatched row has a    *)
(* consumer, and some execution of that consumer returned, whatever passes *)
(* crashed, overlapped or lost their lease on the way.                     *)
(***************************************************************************)
CompletedWasHandled ==
  \A e \in OutboxEvents : status[e] = "dispatched" => e \in handled /\ e \in Consumed

(***************************************************************************)
(* A dead letter used up its attempts: no pass, however stale its copy of  *)
(* the row, gives up on a row that has attempts left.                      *)
(***************************************************************************)
DeadLetterExhausted ==
  \A e \in OutboxEvents : status[e] = "failed" => attempts[e] >= MaxAttempts

(***************************************************************************)
(* Two passes run a handler on the same row only if a lease on it ran out  *)
(* under one of them: the timer starts a pass every second whatever the    *)
(* others do, and the lease is the only thing that keeps them apart.       *)
(***************************************************************************)
OneHandlerPerEvent ==
  \A p, q \in Runs :
    /\ p # q
    /\ pc[p] \in Working
    /\ pc[q] \in Working
    /\ held[p] = held[q]
    => held[p] \in lapsed

(***************************************************************************)
(* Completion is written by event id alone, and yet a row that was         *)
(* completed or dead-lettered changes again only if a lease on it ran out  *)
(* under a pass, or if the pass that completed it was not told so.         *)
(***************************************************************************)
SettledIsFinal ==
  [][\A e \in OutboxEvents :
       /\ status[e] \in Settled
       /\ e \notin lapsed
       /\ \A p \in Runs : pc[p] = "unacknowledged" => held[p] # e
       => status'[e] = status[e]]_outboxVars

(***************************************************************************)
(* A row waiting for its back-off has attempts left, so a row that has     *)
(* used its last attempt and failed is a dead letter and nothing else,     *)
(* unless a lease on it ran out under a pass, whose copy is then stale.    *)
(***************************************************************************)
RetryWithinBudget ==
  \A e \in OutboxEvents :
    status[e] = "pending" => attempts[e] < MaxAttempts \/ e \in lapsed

(***************************************************************************)
(* No work is lost: every row with a consumer ends completed or visibly    *)
(* dead-lettered and stays so, although passes crash, overlap and fail.    *)
(***************************************************************************)
EventuallySettled ==
  \A e \in Consumed : <>[](status[e] \in Settled \cup {"absent"})
=============================================================================
