-------------------------- MODULE WebhookDelivery --------------------------
(***************************************************************************)
(* Webhook delivery: the fan-out that records one delivery per subscribed  *)
(* endpoint and event, and the passes (runWebhookPass) that claim a due    *)
(* delivery, make one attempt, write the attempt's row and then the        *)
(* delivery's outcome.                                                     *)
(*                                                                         *)
(* Time is not counted: rowDue[d] says whether the row's next_attempt_at   *)
(* (or, once claimed, its lease) has been reached, and it is reached at    *)
(* any moment: a pass reads the clock once and leases every row it claims  *)
(* from then, so the lease of a late row ends under the attempt it was     *)
(* taken for.  Of several due rows a claim takes any.                      *)
(***************************************************************************)
EXTENDS Naturals, FiniteSets

CONSTANTS
  Endpoints,            \* endpoints of one application, all subscribed
  Announced,            \* outbox events with a webhook mapping
  Workers,              \* delivery passes that may overlap
  Operators,            \* console operators who replay dead letters
  MaxDeliveryAttempts,  \* WEBHOOK_MAX_ATTEMPTS (7)
  ClientErrorMax,       \* WEBHOOK_CLIENT_ERROR_MAX_ATTEMPTS (3)
  MaxReplays,           \* bound: replays of one delivery
  MaxDeliveryFaults,    \* bound: passes that die and writes that fail
  NoDelivery            \* a pass or an operator that holds no delivery

Deliveries == Endpoints \X Announced

ASSUME DeliveryAssumption ==
  /\ MaxDeliveryAttempts \in Nat \ {0} /\ ClientErrorMax \in Nat \ {0}
  /\ MaxReplays \in Nat /\ MaxDeliveryFaults \in Nat
  /\ NoDelivery \notin Deliveries

VARIABLES
  endpoint,    \* webhook_endpoints.status
  fanOut,      \* endpoints a running fan-out of the event has still to write
  rowStatus,   \* webhook_deliveries.status, "absent" before the insert
  attemptCount,
  cycleAttemptCount,
  rowDue,      \* next_attempt_at, or the lease, has been reached
  reason,      \* webhook_deliveries.dead_letter_reason
  replayCount,
  attemptRows, \* webhook_attempts: <<delivery, attempt number, outcome>>
  passAt,      \* where each pass is
  carried,     \* the delivery a pass has claimed
  number,      \* attemptCount as the claim returned it
  cycle,       \* cycleAttemptCount as the claim returned it
  outcome,     \* what the pass is about to record
  replaying,   \* the dead letter an operator has read and not yet rewritten
  outrun,      \* rows that fell due under a pass that had not left them (history)
  faults

hookRowVars ==
  <<rowStatus, attemptCount, cycleAttemptCount, rowDue, reason, replayCount>>
workerVars == <<passAt, carried, number, cycle, outcome>>
deliveryVars ==
  <<endpoint, fanOut, hookRowVars, attemptRows, workerVars, replaying, outrun, faults>>

DeliveryStatuses == {"absent", "pending", "delivering", "succeeded", "dead_letter"}
Terminal == {"endpoint_gone", "unsafe_target", "endpoint_disabled"}
Outcomes == {"succeeded", "transient", "client_error"} \cup Terminal
Reasons == {"none", "client_error", "attempts_exhausted"} \cup Terminal

\* "recording" and "updating" run inside the try of attemptDelivery (or, for a
\* disabled endpoint, before it); the "Caught" ones inside its catch.
InTry == {"recording", "updating", "disabling"}
Recording == {"recording", "recordingCaught"}
Updating == {"updating", "updatingCaught"}
WorkerStates ==
  {"idle", "claimed", "sending"} \cup InTry \cup Recording \cup Updating

DeliveryTypeOK ==
  /\ endpoint \in [Endpoints -> {"active", "disabled"}]
  /\ fanOut \in [Announced -> SUBSET Endpoints]
  /\ rowStatus \in [Deliveries -> DeliveryStatuses]
  /\ attemptCount \in [Deliveries -> Nat]
  /\ cycleAttemptCount \in [Deliveries -> Nat]
  /\ rowDue \in [Deliveries -> BOOLEAN]
  /\ reason \in [Deliveries -> Reasons]
  /\ replayCount \in [Deliveries -> Nat]
  /\ attemptRows \subseteq Deliveries \X Nat \X {"succeeded", "failed"}
  /\ passAt \in [Workers -> WorkerStates]
  /\ carried \in [Workers -> Deliveries \cup {NoDelivery}]
  /\ \A w \in Workers : passAt[w] # "idle" => carried[w] \in Deliveries
  /\ number \in [Workers -> Nat] /\ cycle \in [Workers -> Nat]
  /\ outcome \in [Workers -> Outcomes]
  /\ replaying \in [Operators -> Deliveries \cup {NoDelivery}]
  /\ outrun \subseteq Deliveries
  /\ faults \in 0..MaxDeliveryFaults

DeliveryInit ==
  /\ endpoint = [p \in Endpoints |-> "active"]
  /\ fanOut = [e \in Announced |-> {}]
  /\ rowStatus = [d \in Deliveries |-> "absent"]
  /\ attemptCount = [d \in Deliveries |-> 0]
  /\ cycleAttemptCount = [d \in Deliveries |-> 0]
  /\ rowDue = [d \in Deliveries |-> FALSE]
  /\ reason = [d \in Deliveries |-> "none"]
  /\ replayCount = [d \in Deliveries |-> 0]
  /\ attemptRows = {}
  /\ passAt = [w \in Workers |-> "idle"]
  /\ carried = [w \in Workers |-> NoDelivery]
  /\ number = [w \in Workers |-> 0]
  /\ cycle = [w \in Workers |-> 0]
  /\ outcome = [w \in Workers |-> "transient"]
  /\ replaying = [o \in Operators |-> NoDelivery]
  /\ outrun = {}
  /\ faults = 0

-----------------------------------------------------------------------------
(***************************************************************************)
(* fanOutWebhookEvent reads the active endpoints.  The outbox delivers the *)
(* event at least once, so a fan-out may start again at any time, and a    *)
(* dispatcher that died part-way leaves the rest to the next one.          *)
(***************************************************************************)
FanOutReads(e) ==
  /\ fanOut' = [fanOut EXCEPT ![e] = {p \in Endpoints : endpoint[p] = "active"}]
  /\ UNCHANGED <<endpoint, hookRowVars, attemptRows, workerVars, replaying, outrun, faults>>

\* Mutant: the second insert of a pair overwrites the row.
NewDelivery_Upsert(d) == TRUE

\* ON CONFLICT (webhook_endpoint_id, event_id) DO NOTHING.
NewDelivery(d) == rowStatus[d] = "absent"

(***************************************************************************)
(* recordDelivery: insert-if-absent, due at once.                          *)
(***************************************************************************)
RecordDelivery(p, e) ==
  LET d == <<p, e>>
      fresh == NewDelivery(d)
  IN  /\ p \in fanOut[e]
      /\ fanOut' = [fanOut EXCEPT ![e] = @ \ {p}]
      /\ rowStatus' = [rowStatus EXCEPT ![d] = IF fresh THEN "pending" ELSE @]
      /\ attemptCount' = [attemptCount EXCEPT ![d] = IF fresh THEN 0 ELSE @]
      /\ cycleAttemptCount' = [cycleAttemptCount EXCEPT ![d] = IF fresh THEN 0 ELSE @]
      /\ rowDue' = [rowDue EXCEPT ![d] = IF fresh THEN TRUE ELSE @]
      /\ UNCHANGED <<endpoint, reason, replayCount, attemptRows, workerVars,
                     replaying, outrun, faults>>

-----------------------------------------------------------------------------
\* The attempt is over, one way or another: the pass's copy of the row is gone.
LeaveDelivery(w) ==
  /\ passAt' = [passAt EXCEPT ![w] = "idle"]
  /\ carried' = [carried EXCEPT ![w] = NoDelivery]
  /\ number' = [number EXCEPT ![w] = 0]
  /\ cycle' = [cycle EXCEPT ![w] = 0]
  /\ outcome' = [outcome EXCEPT ![w] = "transient"]

\* A pass that is sending, or still writing what it saw, on delivery d.
Holds(w, d) == carried[w] = d

(***************************************************************************)
(* next_attempt_at or the lease is reached, whoever is at work on the row. *)
(***************************************************************************)
TimePasses(d) ==
  /\ rowStatus[d] \in {"pending", "delivering"} /\ ~rowDue[d]
  /\ rowDue' = [rowDue EXCEPT ![d] = TRUE]
  /\ outrun' = IF \E w \in Workers : Holds(w, d) THEN outrun \cup {d} ELSE outrun
  /\ UNCHANGED <<endpoint, fanOut, rowStatus, attemptCount, cycleAttemptCount, reason,
                 replayCount, attemptRows, workerVars, replaying, faults>>

ClaimableDelivery(d) == rowStatus[d] \in {"pending", "delivering"} /\ rowDue[d]

\* Mutant: the claim leaves the row due.
DueOnceLeased_Still == TRUE

\* lease_expires_at is the pass's now + WEBHOOK_DELIVERY_LEASE_MS.
DueOnceLeased == FALSE

(***************************************************************************)
(* claimDueDelivery: one UPDATE ... SKIP LOCKED leases the row, counts the *)
(* attempt and returns it.                                                 *)
(***************************************************************************)
ClaimDueDelivery(w, d) ==
  /\ passAt[w] = "idle" /\ ClaimableDelivery(d)
  /\ rowStatus' = [rowStatus EXCEPT ![d] = "delivering"]
  /\ attemptCount' = [attemptCount EXCEPT ![d] = @ + 1]
  /\ cycleAttemptCount' = [cycleAttemptCount EXCEPT ![d] = @ + 1]
  /\ rowDue' = [rowDue EXCEPT ![d] = DueOnceLeased]
  /\ passAt' = [passAt EXCEPT ![w] = "claimed"]
  /\ carried' = [carried EXCEPT ![w] = d]
  /\ number' = [number EXCEPT ![w] = attemptCount[d] + 1]
  /\ cycle' = [cycle EXCEPT ![w] = cycleAttemptCount[d] + 1]
  /\ UNCHANGED <<endpoint, fanOut, reason, replayCount, attemptRows, outcome,
                 replaying, outrun, faults>>

(***************************************************************************)
(* attemptDelivery reads the endpoint: one that is not active ends the     *)
(* attempt without a request.                                              *)
(***************************************************************************)
ReadEndpoint(w) ==
  /\ passAt[w] = "claimed"
  /\ \/ /\ endpoint[carried[w][1]] = "active"
        /\ passAt' = [passAt EXCEPT ![w] = "sending"]
        /\ UNCHANGED outcome
     \/ /\ endpoint[carried[w][1]] # "active"
        /\ passAt' = [passAt EXCEPT ![w] = "recordingCaught"]
        /\ outcome' = [outcome EXCEPT ![w] = "endpoint_disabled"]
  /\ UNCHANGED <<endpoint, fanOut, hookRowVars, attemptRows, carried, number, cycle,
                 replaying, outrun, faults>>

(***************************************************************************)
(* The transport answers and classifyResponseStatus names the outcome.     *)
(***************************************************************************)
ReceiverAnswers(w, o) ==
  /\ passAt[w] = "sending"
  /\ outcome' = [outcome EXCEPT ![w] = o]
  /\ passAt' = [passAt EXCEPT ![w] = "recording"]
  /\ UNCHANGED <<endpoint, fanOut, hookRowVars, attemptRows, carried, number, cycle,
                 replaying, outrun, faults>>

(***************************************************************************)
(* The secret cannot be read, or the transport throws: a refused target is *)
(* terminal, everything else (classifyTransportError) is transient.        *)
(***************************************************************************)
TransportThrows(w, o) ==
  /\ passAt[w] = "sending"
  /\ outcome' = [outcome EXCEPT ![w] = o]
  /\ passAt' = [passAt EXCEPT ![w] = "recordingCaught"]
  /\ UNCHANGED <<endpoint, fanOut, hookRowVars, attemptRows, carried, number, cycle,
                 replaying, outrun, faults>>

-----------------------------------------------------------------------------
\* How often an outcome may be tried in one cycle.
Budget(o) ==
  IF o = "client_error" /\ ClientErrorMax < MaxDeliveryAttempts
  THEN ClientErrorMax ELSE MaxDeliveryAttempts

(***************************************************************************)
(* nextRetry: "none" asks for another attempt, anything else is why the    *)
(* delivery becomes a dead letter.                                         *)
(***************************************************************************)
RetryReason(o, n) ==
  CASE o \in Terminal -> o
    [] o \notin Terminal /\ n < Budget(o) -> "none"
    [] o \notin Terminal /\ n >= Budget(o) ->
         IF o = "client_error" THEN "client_error" ELSE "attempts_exhausted"

OutcomeStatus(o, n) ==
  CASE o = "succeeded" -> "succeeded"
    [] o # "succeeded" /\ RetryReason(o, n) = "none" -> "pending"
    [] o # "succeeded" /\ RetryReason(o, n) # "none" -> "dead_letter"

\* The unique index on (delivery_id, attempt_number).
Recorded(w) == \E r \in {"succeeded", "failed"} :
                  <<carried[w], number[w], r>> \in attemptRows

(***************************************************************************)
(* recordAttempt, first write: the attempt row.  A number already recorded *)
(* is left as it is.                                                       *)
(***************************************************************************)
InsertAttempt(w) ==
  LET row == IF outcome[w] = "succeeded" THEN "succeeded" ELSE "failed"
  IN  /\ passAt[w] \in Recording
      /\ attemptRows' = IF Recorded(w) THEN attemptRows
                     ELSE attemptRows \cup {<<carried[w], number[w], row>>}
      /\ passAt' = [passAt EXCEPT ![w] = IF @ = "recording" THEN "updating"
                                 ELSE "updatingCaught"]
      /\ UNCHANGED <<endpoint, fanOut, hookRowVars, carried, number, cycle, outcome,
                     replaying, outrun, faults>>

\* recordAttempt, second write: WHERE delivery_id = ..., whoever holds the row.
WriteOutcome(w) ==
  LET d == carried[w]
      s == OutcomeStatus(outcome[w], cycle[w])
  IN  /\ rowStatus' = [rowStatus EXCEPT ![d] = s]
      /\ rowDue' = [rowDue EXCEPT ![d] = FALSE]
      /\ reason' = [reason EXCEPT ![d] =
                      IF s = "dead_letter" THEN RetryReason(outcome[w], cycle[w])
                      ELSE "none"]

(***************************************************************************)
(* A 410 seen inside the try goes on to disable the endpoint.              *)
(***************************************************************************)
RecordOutcome(w) ==
  LET gone == passAt[w] = "updating" /\ outcome[w] = "endpoint_gone"
  IN  /\ passAt[w] \in Updating
      /\ WriteOutcome(w)
      /\ IF gone THEN /\ passAt' = [passAt EXCEPT ![w] = "disabling"]
                      /\ UNCHANGED <<carried, number, cycle, outcome>>
                 ELSE LeaveDelivery(w)
      /\ UNCHANGED <<endpoint, fanOut, attemptCount, cycleAttemptCount, replayCount,
                     attemptRows, replaying, outrun, faults>>

(***************************************************************************)
(* disableWebhookEndpoint, conditional on the endpoint being active.       *)
(***************************************************************************)
DisableWebhookEndpoint(w) ==
  /\ passAt[w] = "disabling"
  /\ endpoint' = [endpoint EXCEPT ![carried[w][1]] = "disabled"]
  /\ LeaveDelivery(w)
  /\ UNCHANGED <<fanOut, hookRowVars, attemptRows, replaying, outrun, faults>>

(***************************************************************************)
(* A write throws.  Inside the try the catch records the attempt again, as *)
(* a transient failure; inside the catch the pass gives the row up and its *)
(* lease runs out.                                                         *)
(***************************************************************************)
OutcomeNotWritten(w) ==
  /\ faults < MaxDeliveryFaults /\ faults' = faults + 1
  /\ \/ /\ passAt[w] \in InTry
        /\ passAt' = [passAt EXCEPT ![w] = "recordingCaught"]
        /\ outcome' = [outcome EXCEPT ![w] = "transient"]
        /\ UNCHANGED <<carried, number, cycle>>
     \/ /\ passAt[w] \in {"recordingCaught", "updatingCaught"}
        /\ LeaveDelivery(w)
  /\ UNCHANGED <<endpoint, fanOut, hookRowVars, attemptRows, replaying, outrun>>

(***************************************************************************)
(* A write commits and its reply is lost: the same catch records over an   *)
(* outcome that is written, or over an endpoint that is disabled.          *)
(***************************************************************************)
OutcomeUnacknowledged(w) ==
  /\ faults < MaxDeliveryFaults /\ faults' = faults + 1
  /\ \/ /\ passAt[w] = "updating" /\ WriteOutcome(w)
        /\ UNCHANGED endpoint
     \/ /\ passAt[w] = "disabling"
        /\ endpoint' = [endpoint EXCEPT ![carried[w][1]] = "disabled"]
        /\ UNCHANGED <<rowStatus, rowDue, reason>>
  /\ passAt' = [passAt EXCEPT ![w] = "recordingCaught"]
  /\ outcome' = [outcome EXCEPT ![w] = "transient"]
  /\ UNCHANGED <<fanOut, attemptCount, cycleAttemptCount, replayCount, attemptRows,
                 carried, number, cycle, replaying, outrun>>

(***************************************************************************)
(* The process dies.                                                       *)
(***************************************************************************)
WorkerCrash(w) ==
  /\ passAt[w] # "idle" /\ faults < MaxDeliveryFaults /\ faults' = faults + 1
  /\ LeaveDelivery(w)
  /\ UNCHANGED <<endpoint, fanOut, hookRowVars, attemptRows, replaying, outrun>>

-----------------------------------------------------------------------------
(***************************************************************************)
(* registerWebhookEndpoint on a URL already registered: an update, which   *)
(* makes a disabled endpoint active again.                                 *)
(***************************************************************************)
ReRegister(p) ==
  /\ endpoint[p] = "disabled"
  /\ endpoint' = [endpoint EXCEPT ![p] = "active"]
  /\ UNCHANGED <<fanOut, hookRowVars, attemptRows, workerVars, replaying, outrun, faults>>

Replayable(d) == rowStatus[d] = "dead_letter"

(***************************************************************************)
(* replayDeadLetteredDelivery: the status is read ...                      *)
(***************************************************************************)
ReplayReads(o, d) ==
  /\ replaying[o] = NoDelivery
  /\ Replayable(d) /\ replayCount[d] < MaxReplays
  /\ replaying' = [replaying EXCEPT ![o] = d]
  /\ UNCHANGED <<endpoint, fanOut, hookRowVars, attemptRows, workerVars, outrun, faults>>

\* Mutant: a replay numbers its attempts from one again.
AttemptsAfterReplay_Reset(n) == 0

AttemptsAfterReplay(n) == n

(***************************************************************************)
(* ... and the row is rewritten by id alone, whatever it has become.  The  *)
(* cycle starts again, the attempt number does not.                        *)
(***************************************************************************)
ReplayWrites(o) ==
  LET d == replaying[o]
  IN  /\ d # NoDelivery
      /\ rowStatus' = [rowStatus EXCEPT ![d] = "pending"]
      /\ attemptCount' = [attemptCount EXCEPT ![d] = AttemptsAfterReplay(@)]
      /\ cycleAttemptCount' = [cycleAttemptCount EXCEPT ![d] = 0]
      /\ rowDue' = [rowDue EXCEPT ![d] = TRUE]
      /\ reason' = [reason EXCEPT ![d] = "none"]
      /\ replayCount' = [replayCount EXCEPT ![d] = @ + 1]
      /\ replaying' = [replaying EXCEPT ![o] = NoDelivery]
      /\ UNCHANGED <<endpoint, fanOut, attemptRows, workerVars, outrun, faults>>

-----------------------------------------------------------------------------
\* A pass at work, whatever the receiver does.
WorkerStep(w) ==
  \/ \E d \in Deliveries : ClaimDueDelivery(w, d)
  \/ ReadEndpoint(w)
  \/ InsertAttempt(w) \/ RecordOutcome(w) \/ DisableWebhookEndpoint(w)

\* The outcomes an HTTP status, and a thrown error, are classified as.
HttpOutcomes == {"succeeded", "transient", "client_error", "endpoint_gone"}
ThrownOutcomes == {"transient", "unsafe_target"}

Exchange(w) ==
  \/ \E o \in HttpOutcomes : ReceiverAnswers(w, o)
  \/ \E o \in ThrownOutcomes : TransportThrows(w, o)

Surroundings ==
  \/ \E e \in Announced : FanOutReads(e)
  \/ \E e \in Announced, p \in Endpoints : RecordDelivery(p, e)
  \/ \E p \in Endpoints : ReRegister(p)
  \/ \E o \in Operators, d \in Deliveries : ReplayReads(o, d)
  \/ \E o \in Operators : ReplayWrites(o)
  \/ \E w \in Workers : OutcomeNotWritten(w) \/ OutcomeUnacknowledged(w) \/ WorkerCrash(w)

DeliveryNext ==
  \/ \E w \in Workers : WorkerStep(w) \/ Exchange(w)
  \/ \E d \in Deliveries : TimePasses(d)
  \/ Surroundings

DeliverySpec == DeliveryInit /\ [][DeliveryNext]_deliveryVars
-----------------------------------------------------------------------------
(***************************************************************************)
(* "The history is complete even when the delivery's own state is one step *)
(* behind": a delivery that succeeded has an attempt row that says so, and *)
(* one that was given up has an attempt on record, whichever pass died,    *)
(* overlapped, failed to write or was replayed.                            *)
(***************************************************************************)
SettledIsOnRecord ==
  \A d \in Deliveries :
    /\ rowStatus[d] = "succeeded" =>
         \E n \in 1..attemptCount[d] : <<d, n, "succeeded">> \in attemptRows
    /\ rowStatus[d] = "dead_letter" =>
         \E n \in 1..attemptCount[d], r \in {"succeeded", "failed"} :
           <<d, n, r>> \in attemptRows

(***************************************************************************)
(* Outcomes are written by delivery id alone, and yet a delivery that      *)
(* succeeded is not reopened by a late one, a failed write or a repeated   *)
(* fan-out.  What can reopen it is an operator who read the dead letter    *)
(* earlier, or a pass still on the row: because the row fell due under it, *)
(* because a replay let another pass claim it meanwhile, or because it was *)
(* not told that its success was written.                                  *)
(***************************************************************************)
SuccessIsFinal ==
  [][\A d \in Deliveries :
       /\ rowStatus[d] = "succeeded"
       /\ \A o \in Operators : replaying[o] # d
       /\ \A w \in Workers : Holds(w, d) =>
            d \notin outrun /\ replayCount[d] = 0 /\ passAt[w] # "updatingCaught"
       => rowStatus'[d] = "succeeded"]_deliveryVars
=============================================================================
