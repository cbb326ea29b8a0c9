---------------------------- MODULE WebhookProofs ----------------------------
(***************************************************************************)
(* Theorems about webhook delivery, for any number of endpoints, events,   *)
(* passes, operators, replays and failures, and about its composition with *)
(* the application that receives the decisions.                            *)
(***************************************************************************)
EXTENDS DecisionChannel, TLAPS

USE DeliveryAssumption, ChannelAssumption

LEMMA WorkerStatesAre ==
  WorkerStates = {"idle", "claimed", "sending", "recording", "updating", "disabling",
                  "recordingCaught", "updatingCaught"}
  BY DEF WorkerStates, InTry, Recording, Updating

LEMMA OutcomesAre ==
  /\ Outcomes = {"succeeded", "transient", "client_error", "endpoint_gone",
                 "unsafe_target", "endpoint_disabled"}
  /\ HttpOutcomes \subseteq Outcomes /\ ThrownOutcomes \subseteq Outcomes
  /\ "succeeded" \notin ThrownOutcomes
  BY DEF Outcomes, Terminal, HttpOutcomes, ThrownOutcomes

\* A delivery is settled with a status, and a reason, of the table's.
LEMMA OutcomeIsSettled ==
  ASSUME NEW o \in Outcomes, NEW n \in Nat
  PROVE  /\ OutcomeStatus(o, n) \in {"pending", "succeeded", "dead_letter"}
         /\ OutcomeStatus(o, n) = "succeeded" <=> o = "succeeded"
         /\ RetryReason(o, n) \in Reasons
<1>1. Budget(o) \in Nat /\ (n < Budget(o) \/ n >= Budget(o))
  BY DEF Budget
<1>2. RetryReason(o, n) \in Reasons
  BY <1>1 DEF RetryReason, Reasons, Terminal
<1>3. /\ OutcomeStatus(o, n) \in {"pending", "succeeded", "dead_letter"}
      /\ OutcomeStatus(o, n) = "succeeded" <=> o = "succeeded"
  BY DEF OutcomeStatus
<1> QED
  BY <1>2, <1>3

(***************************************************************************)
(* Type correctness.                                                       *)
(***************************************************************************)
LEMMA SenderTypedInit == DeliveryInit => DeliveryTypeOK
  BY WorkerStatesAre, OutcomesAre
  DEF DeliveryInit, DeliveryTypeOK, DeliveryStatuses, Reasons

\* The columns of a pass after it has let its delivery go.
LEMMA LeavingIsTyped ==
  ASSUME NEW w \in Workers, DeliveryTypeOK, LeaveDelivery(w)
  PROVE  /\ passAt' \in [Workers -> WorkerStates]
         /\ carried' \in [Workers -> Deliveries \cup {NoDelivery}]
         /\ \A v \in Workers : passAt'[v] # "idle" => carried'[v] \in Deliveries
         /\ number' \in [Workers -> Nat] /\ cycle' \in [Workers -> Nat]
         /\ outcome' \in [Workers -> Outcomes]
  BY WorkerStatesAre, OutcomesAre DEF DeliveryTypeOK, LeaveDelivery

\* The row after an outcome was written.
LEMMA WrittenIsTyped ==
  ASSUME NEW w \in Workers, DeliveryTypeOK, WriteOutcome(w), carried[w] \in Deliveries,
         outcome[w] \in Outcomes, cycle[w] \in Nat
  PROVE  /\ rowStatus' \in [Deliveries -> DeliveryStatuses]
         /\ rowDue' \in [Deliveries -> BOOLEAN]
         /\ reason' \in [Deliveries -> Reasons]
<1> DEFINE s == OutcomeStatus(outcome[w], cycle[w])
<1>1. s \in DeliveryStatuses /\ RetryReason(outcome[w], cycle[w]) \in Reasons
  BY OutcomeIsSettled DEF DeliveryStatuses
<1>2. "none" \in Reasons
  BY DEF Reasons
<1> QED
  BY <1>1, <1>2 DEF WriteOutcome, DeliveryTypeOK

LEMMA WorkerTyped ==
  ASSUME DeliveryTypeOK, NEW w \in Workers, WorkerStep(w)
  PROVE  DeliveryTypeOK'
<1> USE WorkerStatesAre, OutcomesAre
<1>1. ASSUME NEW d \in Deliveries, ClaimDueDelivery(w, d) PROVE DeliveryTypeOK'
  BY <1>1 DEF ClaimDueDelivery, DueOnceLeased, DeliveryTypeOK, DeliveryStatuses
<1>2. CASE ReadEndpoint(w)
  BY <1>2 DEF ReadEndpoint, DeliveryTypeOK, hookRowVars
<1>3. CASE InsertAttempt(w)
  <2>1. carried[w] \in Deliveries /\ number[w] \in Nat
    BY <1>3 DEF InsertAttempt, DeliveryTypeOK, Recording
  <2>2. attemptRows' \subseteq Deliveries \X Nat \X {"succeeded", "failed"}
    BY <1>3, <2>1 DEF InsertAttempt, DeliveryTypeOK
  <2> QED
    BY <1>3, <2>2 DEF InsertAttempt, DeliveryTypeOK, hookRowVars, Recording
<1>4. CASE RecordOutcome(w)
  <2>1. carried[w] \in Deliveries /\ outcome[w] \in Outcomes /\ cycle[w] \in Nat
    BY <1>4 DEF RecordOutcome, DeliveryTypeOK, Updating
  <2>4. /\ rowStatus' \in [Deliveries -> DeliveryStatuses]
        /\ rowDue' \in [Deliveries -> BOOLEAN]
        /\ reason' \in [Deliveries -> Reasons]
    BY <1>4, <2>1, WrittenIsTyped DEF RecordOutcome
  <2>5. CASE LeaveDelivery(w)
    BY <1>4, <2>4, <2>5, LeavingIsTyped DEF RecordOutcome, DeliveryTypeOK
  <2>6. CASE /\ passAt' = [passAt EXCEPT ![w] = "disabling"]
             /\ UNCHANGED <<carried, number, cycle, outcome>>
    BY <1>4, <2>1, <2>4, <2>6 DEF RecordOutcome, DeliveryTypeOK
  <2> QED
    BY <1>4, <2>5, <2>6 DEF RecordOutcome
<1>5. CASE DisableWebhookEndpoint(w)
  BY <1>5, LeavingIsTyped DEF DisableWebhookEndpoint, DeliveryTypeOK, hookRowVars, Deliveries
<1> QED
  BY <1>1, <1>2, <1>3, <1>4, <1>5 DEF WorkerStep

LEMMA OthersTyped ==
  ASSUME DeliveryTypeOK,
         \/ \E w \in Workers : Exchange(w)
         \/ \E d \in Deliveries : TimePasses(d)
         \/ Surroundings
         \/ UNCHANGED deliveryVars
  PROVE  DeliveryTypeOK'
<1> USE WorkerStatesAre, OutcomesAre
<1>1. ASSUME NEW w \in Workers, NEW o \in Outcomes,
             ReceiverAnswers(w, o) \/ TransportThrows(w, o)
      PROVE  DeliveryTypeOK'
  BY <1>1 DEF ReceiverAnswers, TransportThrows, DeliveryTypeOK, hookRowVars
<1>2. ASSUME NEW d \in Deliveries, TimePasses(d) PROVE DeliveryTypeOK'
  BY <1>2 DEF TimePasses, DeliveryTypeOK, workerVars
<1>3. ASSUME NEW e \in Announced, FanOutReads(e) PROVE DeliveryTypeOK'
  BY <1>3 DEF FanOutReads, DeliveryTypeOK, hookRowVars, workerVars
<1>4. ASSUME NEW e \in Announced, NEW p \in Endpoints, RecordDelivery(p, e)
      PROVE  DeliveryTypeOK'
  <2>1. <<p, e>> \in Deliveries
    BY DEF Deliveries
  <2> QED
    BY <1>4, <2>1 DEF RecordDelivery, DeliveryTypeOK, workerVars, DeliveryStatuses
<1>5. ASSUME NEW p \in Endpoints, ReRegister(p) PROVE DeliveryTypeOK'
  BY <1>5 DEF ReRegister, DeliveryTypeOK, hookRowVars, workerVars
<1>6. ASSUME NEW o \in Operators, NEW d \in Deliveries, ReplayReads(o, d)
      PROVE  DeliveryTypeOK'
  BY <1>6 DEF ReplayReads, DeliveryTypeOK, hookRowVars, workerVars
<1>7. ASSUME NEW o \in Operators, ReplayWrites(o) PROVE DeliveryTypeOK'
  <2>1. replaying[o] \in Deliveries
    BY <1>7 DEF ReplayWrites, DeliveryTypeOK
  <2> QED
    BY <1>7, <2>1 DEF ReplayWrites, DeliveryTypeOK, workerVars, DeliveryStatuses,
       AttemptsAfterReplay, Reasons
<1>8. ASSUME NEW w \in Workers, OutcomeNotWritten(w) PROVE DeliveryTypeOK'
  <2>1. CASE LeaveDelivery(w)
    BY <1>8, <2>1, LeavingIsTyped DEF OutcomeNotWritten, DeliveryTypeOK, hookRowVars
  <2>2. CASE /\ passAt[w] \in InTry
             /\ passAt' = [passAt EXCEPT ![w] = "recordingCaught"]
             /\ outcome' = [outcome EXCEPT ![w] = "transient"]
             /\ UNCHANGED <<carried, number, cycle>>
    BY <1>8, <2>2 DEF OutcomeNotWritten, DeliveryTypeOK, hookRowVars, InTry
  <2> QED
    BY <1>8, <2>1, <2>2 DEF OutcomeNotWritten
<1>11. ASSUME NEW w \in Workers, OutcomeUnacknowledged(w) PROVE DeliveryTypeOK'
  <2>1. /\ passAt' \in [Workers -> WorkerStates] /\ outcome' \in [Workers -> Outcomes]
        /\ \A v \in Workers : passAt'[v] # "idle" => carried[v] \in Deliveries
    BY <1>11 DEF OutcomeUnacknowledged, DeliveryTypeOK
  <2>2. /\ faults' \in 0..MaxDeliveryFaults
        /\ UNCHANGED <<fanOut, attemptCount, cycleAttemptCount, replayCount, attemptRows,
                       carried, number, cycle, replaying, outrun>>
    BY <1>11 DEF OutcomeUnacknowledged, DeliveryTypeOK
  <2>3. /\ rowStatus' \in [Deliveries -> DeliveryStatuses]
        /\ rowDue' \in [Deliveries -> BOOLEAN]
        /\ reason' \in [Deliveries -> Reasons]
        /\ endpoint' \in [Endpoints -> {"active", "disabled"}]
    <3>1. CASE /\ passAt[w] = "updating" /\ WriteOutcome(w) /\ UNCHANGED endpoint
      <4>1. carried[w] \in Deliveries /\ outcome[w] \in Outcomes /\ cycle[w] \in Nat
        BY <3>1 DEF DeliveryTypeOK
      <4> QED
        BY <3>1, <4>1, WrittenIsTyped DEF DeliveryTypeOK
    <3>2. CASE /\ passAt[w] = "disabling"
               /\ endpoint' = [endpoint EXCEPT ![carried[w][1]] = "disabled"]
               /\ UNCHANGED <<rowStatus, rowDue, reason>>
      BY <3>2 DEF DeliveryTypeOK
    <3> QED
      BY <1>11, <3>1, <3>2 DEF OutcomeUnacknowledged
  <2> QED
    BY <2>1, <2>2, <2>3 DEF DeliveryTypeOK
<1>9. ASSUME NEW w \in Workers, WorkerCrash(w) PROVE DeliveryTypeOK'
  BY <1>9, LeavingIsTyped DEF WorkerCrash, DeliveryTypeOK, hookRowVars
<1>10. CASE UNCHANGED deliveryVars
  BY <1>10 DEF deliveryVars, hookRowVars, workerVars, DeliveryTypeOK
<1> QED
  BY <1>1, <1>2, <1>3, <1>4, <1>5, <1>6, <1>7, <1>8, <1>9, <1>10, <1>11
  DEF Surroundings, Exchange

(***************************************************************************)
(* Every reachable state of the deliveries, their attempts and the passes  *)
(* is well typed.                                                          *)
(***************************************************************************)
THEOREM DeliveryTypeCorrect == DeliverySpec => []DeliveryTypeOK
<1>1. DeliveryTypeOK /\ [DeliveryNext]_deliveryVars => DeliveryTypeOK'
  BY WorkerTyped, OthersTyped DEF DeliveryNext
<1> QED
  BY SenderTypedInit, <1>1, PTL DEF DeliverySpec

(***************************************************************************)
(* The history of a delivery, however passes overlap: every claim has a    *)
(* number of its own, numbers on record were claimed, and what a pass is   *)
(* about to write as an outcome it has recorded as an attempt.             *)
(***************************************************************************)
Numbers ==
  /\ \A d \in Deliveries : rowStatus[d] = "absent" => attemptCount[d] = 0
  /\ \A w \in Workers : passAt[w] = "idle" => carried[w] = NoDelivery
  /\ \A w \in Workers : passAt[w] # "idle" => number[w] \in 1..attemptCount[carried[w]]
  /\ \A v, w \in Workers :
       v # w /\ carried[v] = carried[w] /\ passAt[w] # "idle" => number[v] # number[w]

RowsNumbered ==
  \A d \in Deliveries, n \in Nat, r \in {"succeeded", "failed"} :
    <<d, n, r>> \in attemptRows => n \in 1..attemptCount[d]

OwnRow(w) == <<carried[w], number[w], IF outcome[w] = "succeeded" THEN "succeeded" ELSE "failed">>

RecordedAt(w) ==
  /\ passAt[w] \in {"claimed", "sending", "recording"} => ~Recorded(w)
  /\ passAt[w] = "updating" => OwnRow(w) \in attemptRows
  /\ passAt[w] \in {"updatingCaught", "disabling"} => Recorded(w)
  /\ passAt[w] \in {"recordingCaught", "updatingCaught"} => outcome[w] # "succeeded"

History ==
  /\ Numbers /\ RowsNumbered /\ SettledIsOnRecord
  /\ \A w \in Workers : RecordedAt(w)

LEMMA HistoryInit == DeliveryInit => History
  BY DEF DeliveryInit, History, Numbers, RowsNumbered, SettledIsOnRecord, RecordedAt

\* A pass that lets its delivery go leaves nothing to account for.
LEMMA LeavingKeepsHistory ==
  ASSUME DeliveryTypeOK, History, NEW w \in Workers, LeaveDelivery(w),
         UNCHANGED <<rowStatus, attemptCount, attemptRows>>
  PROVE  History'
<1>1. /\ passAt'[w] = "idle" /\ carried'[w] = NoDelivery
      /\ \A v \in Workers \ {w} : /\ passAt'[v] = passAt[v] /\ carried'[v] = carried[v]
                                  /\ number'[v] = number[v] /\ outcome'[v] = outcome[v]
  BY DEF LeaveDelivery, DeliveryTypeOK
<1>2. Numbers'
  BY <1>1 DEF Numbers, History, DeliveryTypeOK
<1>3. ASSUME NEW v \in Workers PROVE RecordedAt(v)'
  BY <1>1 DEF RecordedAt, History, Recorded, OwnRow
<1>4. RowsNumbered' /\ SettledIsOnRecord'
  BY DEF RowsNumbered, SettledIsOnRecord, History
<1> QED
  BY <1>2, <1>3, <1>4 DEF History

\* A pass that moves on and records no attempt.
LEMMA MovingKeepsHistory ==
  ASSUME DeliveryTypeOK, History, NEW w \in Workers, passAt[w] # "idle",
         UNCHANGED <<rowStatus, attemptCount, attemptRows, carried, number>>,
         NEW a \in WorkerStates \ {"idle"}, passAt' = [passAt EXCEPT ![w] = a],
         NEW o \in Outcomes, outcome' = [outcome EXCEPT ![w] = o],
         RecordedAt(w)'
  PROVE  History'
<1>1. /\ passAt'[w] # "idle"
      /\ \A v \in Workers \ {w} : passAt'[v] = passAt[v] /\ outcome'[v] = outcome[v]
  BY DEF DeliveryTypeOK
<1>2. Numbers'
  BY <1>1 DEF Numbers, History
<1>3. ASSUME NEW v \in Workers \ {w} PROVE RecordedAt(v)'
  BY <1>1, <1>3 DEF RecordedAt, History, Recorded, OwnRow
<1>4. RowsNumbered' /\ SettledIsOnRecord'
  BY DEF RowsNumbered, SettledIsOnRecord, History
<1> QED
  BY <1>2, <1>3, <1>4 DEF History

\* Steps that write nothing of an attempt.
LEMMA HistoryStands ==
  ASSUME History, UNCHANGED <<attemptCount, attemptRows, passAt, carried, number, outcome>>,
         \A d \in Deliveries : \/ rowStatus'[d] = rowStatus[d]
                              \/ rowStatus'[d] = "pending"
  PROVE  History'
<1>1. Numbers' /\ RowsNumbered'
  BY DEF Numbers, RowsNumbered, History
<1>2. SettledIsOnRecord' /\ \A w \in Workers : RecordedAt(w)'
  BY DEF SettledIsOnRecord, History, RecordedAt, Recorded, OwnRow
<1> QED
  BY <1>1, <1>2 DEF History

LEMMA ClaimKeepsHistory ==
  ASSUME DeliveryTypeOK, History, NEW w \in Workers, NEW d \in Deliveries,
         ClaimDueDelivery(w, d)
  PROVE  History'
<1>1. /\ passAt'[w] = "claimed" /\ carried'[w] = d /\ number'[w] = attemptCount[d] + 1
      /\ \A v \in Workers \ {w} : /\ passAt'[v] = passAt[v] /\ carried'[v] = carried[v]
                                  /\ number'[v] = number[v]
      /\ outcome' = outcome /\ attemptRows' = attemptRows
      /\ attemptCount[d] \in Nat /\ attemptCount'[d] = attemptCount[d] + 1
      /\ rowStatus'[d] = "delivering"
      /\ \A c \in Deliveries \ {d} :
           attemptCount'[c] = attemptCount[c] /\ rowStatus'[c] = rowStatus[c]
  BY DEF ClaimDueDelivery, DeliveryTypeOK
<1>2. ASSUME NEW v \in Workers \ {w}, passAt[v] # "idle"
      PROVE  /\ carried[v] \in Deliveries /\ number[v] \in 1..attemptCount[carried[v]]
             /\ carried[v] = d => number[v] < number'[w]
  BY <1>1, <1>2 DEF Numbers, History, DeliveryTypeOK
<1>3. Numbers'
  BY <1>1, <1>2 DEF Numbers, History, DeliveryTypeOK
<1>4. ASSUME NEW c \in Deliveries, NEW n \in Nat, NEW r \in {"succeeded", "failed"},
             <<c, n, r>> \in attemptRows
      PROVE  n \in 1..attemptCount'[c]
  <2>1. n \in 1..attemptCount[c] /\ attemptCount[c] \in Nat
    BY <1>4 DEF RowsNumbered, History, DeliveryTypeOK
  <2> QED
    BY <1>1, <2>1
<1>5. ~Recorded(w)'
  BY <1>1 DEF RowsNumbered, History, Recorded
<1>6. ASSUME NEW v \in Workers PROVE RecordedAt(v)'
  BY <1>1, <1>5 DEF RecordedAt, History, Recorded, OwnRow
<1>7. SettledIsOnRecord'
  BY <1>1 DEF SettledIsOnRecord, History, DeliveryTypeOK
<1>8. RowsNumbered'
  BY <1>1, <1>4 DEF RowsNumbered
<1> QED
  BY <1>3, <1>6, <1>7, <1>8 DEF History

LEMMA InsertKeepsHistory ==
  ASSUME DeliveryTypeOK, History, NEW w \in Workers, InsertAttempt(w)
  PROVE  History'
<1> DEFINE d == carried[w]
           row == IF outcome[w] = "succeeded" THEN "succeeded" ELSE "failed"
<1>1. /\ passAt[w] \in Recording /\ d \in Deliveries /\ number[w] \in 1..attemptCount[d]
      /\ number[w] \in Nat
  BY DEF InsertAttempt, Recording, DeliveryTypeOK, History, Numbers
<1>2. /\ passAt'[w] = IF passAt[w] = "recording" THEN "updating" ELSE "updatingCaught"
      /\ \A v \in Workers \ {w} : passAt'[v] = passAt[v]
      /\ UNCHANGED <<rowStatus, attemptCount, carried, number, outcome>>
      /\ attemptRows' = IF Recorded(w) THEN attemptRows
                        ELSE attemptRows \cup {<<d, number[w], row>>}
  BY DEF InsertAttempt, DeliveryTypeOK, hookRowVars
<1>3. Numbers'
  BY <1>1, <1>2 DEF Numbers, History, Recording
<1>4. RowsNumbered'
  BY <1>1, <1>2 DEF RowsNumbered, History
<1>5. RecordedAt(w)'
  <2>1. CASE passAt[w] = "recording"
    BY <1>1, <1>2, <2>1 DEF RecordedAt, History, OwnRow
  <2>2. CASE passAt[w] = "recordingCaught"
    BY <1>1, <1>2, <2>2 DEF RecordedAt, History, Recorded
  <2> QED
    BY <1>1, <2>1, <2>2 DEF Recording
<1>6. ASSUME NEW v \in Workers \ {w}, passAt[v] # "idle"
      PROVE  Recorded(v)' <=> Recorded(v)
  <2>1. carried[v] # carried[w] \/ number[v] # number[w]
    BY <1>1, <1>6 DEF Numbers, History, Recording
  <2> QED
    BY <1>1, <1>2, <2>1 DEF Recorded
<1>7. ASSUME NEW v \in Workers \ {w} PROVE RecordedAt(v)'
  <2>1. attemptRows \subseteq attemptRows'
    BY <1>2
  <2> QED
    BY <1>2, <1>6, <2>1 DEF RecordedAt, History, OwnRow
<1>8. SettledIsOnRecord'
  BY <1>2 DEF SettledIsOnRecord, History
<1> QED
  BY <1>3, <1>4, <1>5, <1>7, <1>8 DEF History

LEMMA OutcomeKeepsHistory ==
  ASSUME DeliveryTypeOK, History, NEW w \in Workers, RecordOutcome(w)
  PROVE  History'
<1> DEFINE d == carried[w]
           s == OutcomeStatus(outcome[w], cycle[w])
<1>1. /\ passAt[w] \in Updating /\ d \in Deliveries /\ number[w] \in 1..attemptCount[d]
      /\ outcome[w] \in Outcomes /\ cycle[w] \in Nat /\ number[w] \in Nat
  BY DEF RecordOutcome, Updating, DeliveryTypeOK, History, Numbers
<1>2. s \in {"pending", "succeeded", "dead_letter"} /\ (s = "succeeded" <=> outcome[w] = "succeeded")
  BY <1>1, OutcomeIsSettled
<1>3. /\ rowStatus'[d] = s /\ \A c \in Deliveries \ {d} : rowStatus'[c] = rowStatus[c]
      /\ UNCHANGED <<attemptCount, attemptRows>>
  BY <1>1 DEF RecordOutcome, WriteOutcome, DeliveryTypeOK
<1>4. Recorded(w) /\ (s = "succeeded" => <<d, number[w], "succeeded">> \in attemptRows)
  BY <1>1, <1>2 DEF RecordedAt, History, Updating, Recorded, OwnRow
<1>5. SettledIsOnRecord'
  BY <1>1, <1>2, <1>3, <1>4 DEF SettledIsOnRecord, History, Recorded
<1>6. RowsNumbered'
  BY <1>3 DEF RowsNumbered, History
<1>7. CASE LeaveDelivery(w)
  <2>1. /\ passAt'[w] = "idle" /\ carried'[w] = NoDelivery
        /\ \A v \in Workers \ {w} : /\ passAt'[v] = passAt[v] /\ carried'[v] = carried[v]
                                    /\ number'[v] = number[v] /\ outcome'[v] = outcome[v]
    BY <1>7 DEF LeaveDelivery, DeliveryTypeOK
  <2>2. Numbers'
    BY <1>1, <1>2, <1>3, <2>1 DEF Numbers, History, DeliveryTypeOK
  <2>3. ASSUME NEW v \in Workers PROVE RecordedAt(v)'
    BY <1>3, <2>1 DEF RecordedAt, History, Recorded, OwnRow
  <2> QED
    BY <1>5, <1>6, <2>2, <2>3 DEF History
<1>8. CASE /\ passAt' = [passAt EXCEPT ![w] = "disabling"]
           /\ UNCHANGED <<carried, number, cycle, outcome>>
  <2>1. passAt'[w] = "disabling" /\ \A v \in Workers \ {w} : passAt'[v] = passAt[v]
    BY <1>8 DEF DeliveryTypeOK
  <2>2. Numbers'
    BY <1>1, <1>2, <1>3, <1>8, <2>1 DEF Numbers, History, Updating
  <2>3. ASSUME NEW v \in Workers PROVE RecordedAt(v)'
    BY <1>3, <1>4, <1>8, <2>1 DEF RecordedAt, History, Recorded, OwnRow
  <2> QED
    BY <1>5, <1>6, <2>2, <2>3 DEF History
<1> QED
  BY <1>7, <1>8 DEF RecordOutcome

\* The outcome is written, or the endpoint disabled, and the pass is not told.
LEMMA UnacknowledgedKeepsHistory ==
  ASSUME DeliveryTypeOK, History, NEW w \in Workers, OutcomeUnacknowledged(w)
  PROVE  History'
<1>0. /\ passAt' = [passAt EXCEPT ![w] = "recordingCaught"]
      /\ outcome' = [outcome EXCEPT ![w] = "transient"]
      /\ UNCHANGED <<attemptCount, attemptRows, carried, number>>
  BY DEF OutcomeUnacknowledged
<1>1. /\ passAt'[w] = "recordingCaught" /\ outcome'[w] = "transient"
      /\ \A v \in Workers \ {w} : passAt'[v] = passAt[v] /\ outcome'[v] = outcome[v]
  BY <1>0 DEF DeliveryTypeOK
<1>2. CASE passAt[w] = "disabling" /\ UNCHANGED rowStatus
  <2>1. RecordedAt(w)'
    BY <1>1 DEF RecordedAt
  <2> QED
    BY <1>0, <1>2, <2>1, WorkerStatesAre, OutcomesAre, MovingKeepsHistory
<1>3. CASE passAt[w] = "updating" /\ WriteOutcome(w)
  <2> DEFINE d == carried[w]
             s == OutcomeStatus(outcome[w], cycle[w])
  <2>1. /\ d \in Deliveries /\ number[w] \in 1..attemptCount[d] /\ number[w] \in Nat
        /\ outcome[w] \in Outcomes /\ cycle[w] \in Nat
    BY <1>3 DEF DeliveryTypeOK, History, Numbers
  <2>2. s \in {"pending", "succeeded", "dead_letter"}
        /\ (s = "succeeded" <=> outcome[w] = "succeeded")
    BY <2>1, OutcomeIsSettled
  <2>3. rowStatus'[d] = s /\ \A c \in Deliveries \ {d} : rowStatus'[c] = rowStatus[c]
    BY <1>3, <2>1 DEF WriteOutcome, DeliveryTypeOK
  <2>4. Recorded(w) /\ (s = "succeeded" => <<d, number[w], "succeeded">> \in attemptRows)
    BY <1>3, <2>1, <2>2 DEF RecordedAt, History, Recorded, OwnRow
  <2> HIDE DEF s
  <2>5. SettledIsOnRecord'
    BY <1>0, <2>1, <2>2, <2>3, <2>4 DEF SettledIsOnRecord, History, Recorded
  <2>6. Numbers' /\ RowsNumbered'
    BY <1>0, <1>1, <1>3, <2>1, <2>2, <2>3 DEF Numbers, RowsNumbered, History
  <2>7. ASSUME NEW v \in Workers PROVE RecordedAt(v)'
    BY <1>0, <1>1 DEF RecordedAt, History, Recorded, OwnRow
  <2> QED
    BY <2>5, <2>6, <2>7 DEF History
<1> QED
  BY <1>2, <1>3 DEF OutcomeUnacknowledged

LEMMA HistoryNext == DeliveryTypeOK /\ History /\ [DeliveryNext]_deliveryVars => History'
<1> SUFFICES ASSUME DeliveryTypeOK, History, [DeliveryNext]_deliveryVars PROVE History'
  OBVIOUS
<1> USE WorkerStatesAre, OutcomesAre
<1>1. ASSUME NEW w \in Workers, WorkerStep(w) PROVE History'
  <2>1. ASSUME NEW d \in Deliveries, ClaimDueDelivery(w, d) PROVE History'
    BY <2>1, ClaimKeepsHistory
  <2>2. CASE ReadEndpoint(w)
    <3>1. PICK a \in {"sending", "recordingCaught"}, o \in Outcomes :
             /\ passAt' = [passAt EXCEPT ![w] = a] /\ outcome' = [outcome EXCEPT ![w] = o]
             /\ a = "recordingCaught" => o # "succeeded"
      <4>1. outcome' = [outcome EXCEPT ![w] = outcome[w]] \/ outcome' # outcome
        BY DEF DeliveryTypeOK
      <4>2. outcome[w] \in Outcomes
        BY DEF DeliveryTypeOK
      <4> QED
        BY <2>2, <4>1, <4>2 DEF ReadEndpoint
    <3>2. RecordedAt(w)'
      BY <2>2, <3>1 DEF ReadEndpoint, RecordedAt, Recorded, History, DeliveryTypeOK
    <3> QED
      BY <2>2, <3>1, <3>2, MovingKeepsHistory DEF ReadEndpoint, hookRowVars
  <2>3. CASE InsertAttempt(w)
    BY <2>3, InsertKeepsHistory
  <2>4. CASE RecordOutcome(w)
    BY <2>4, OutcomeKeepsHistory
  <2>5. CASE DisableWebhookEndpoint(w)
    BY <2>5, LeavingKeepsHistory DEF DisableWebhookEndpoint, hookRowVars
  <2> QED
    BY <1>1, <2>1, <2>2, <2>3, <2>4, <2>5 DEF WorkerStep
<1>2. ASSUME NEW w \in Workers, NEW o \in Outcomes, NEW a \in {"recording", "recordingCaught"},
             passAt[w] = "sending", outcome' = [outcome EXCEPT ![w] = o],
             passAt' = [passAt EXCEPT ![w] = a], a = "recordingCaught" => o # "succeeded",
             UNCHANGED <<rowStatus, attemptCount, attemptRows, carried, number>>
      PROVE  History'
  <2>1. RecordedAt(w)'
    BY <1>2 DEF RecordedAt, Recorded, History, DeliveryTypeOK
  <2> QED
    BY <1>2, <2>1, MovingKeepsHistory
<1>3. ASSUME NEW w \in Workers, Exchange(w) PROVE History'
  BY <1>2, <1>3 DEF Exchange, ReceiverAnswers, TransportThrows, hookRowVars
<1>4. ASSUME NEW d \in Deliveries, TimePasses(d) PROVE History'
  BY <1>4, HistoryStands DEF TimePasses, workerVars
<1>5. ASSUME NEW e \in Announced, NEW p \in Endpoints, RecordDelivery(p, e) PROVE History'
  <2>1. <<p, e>> \in Deliveries
    BY DEF Deliveries
  <2>2. attemptCount' = attemptCount
    BY <1>5, <2>1 DEF RecordDelivery, NewDelivery, History, Numbers, DeliveryTypeOK
  <2>3. \A d \in Deliveries : rowStatus'[d] = rowStatus[d] \/ rowStatus'[d] = "pending"
    BY <1>5, <2>1 DEF RecordDelivery, NewDelivery, DeliveryTypeOK
  <2> QED
    BY <1>5, <2>2, <2>3, HistoryStands DEF RecordDelivery, workerVars
<1>6. ASSUME NEW o \in Operators, ReplayWrites(o) PROVE History'
  <2>1. replaying[o] \in Deliveries
    BY <1>6 DEF ReplayWrites, DeliveryTypeOK
  <2>2. attemptCount' = attemptCount
    BY <1>6, <2>1 DEF ReplayWrites, AttemptsAfterReplay, DeliveryTypeOK
  <2>3. \A d \in Deliveries : rowStatus'[d] = rowStatus[d] \/ rowStatus'[d] = "pending"
    BY <1>6, <2>1 DEF ReplayWrites, DeliveryTypeOK
  <2> QED
    BY <1>6, <2>2, <2>3, HistoryStands DEF ReplayWrites, workerVars
<1>7. ASSUME NEW w \in Workers, OutcomeNotWritten(w) PROVE History'
  <2>1. CASE LeaveDelivery(w)
    BY <1>7, <2>1, LeavingKeepsHistory DEF OutcomeNotWritten, hookRowVars
  <2>2. CASE /\ passAt[w] \in InTry
             /\ passAt' = [passAt EXCEPT ![w] = "recordingCaught"]
             /\ outcome' = [outcome EXCEPT ![w] = "transient"]
             /\ UNCHANGED <<carried, number, cycle>>
    <3>1. RecordedAt(w)'
      BY <2>2 DEF RecordedAt, DeliveryTypeOK
    <3> QED
      BY <1>7, <2>2, <3>1, MovingKeepsHistory DEF OutcomeNotWritten, hookRowVars, InTry
  <2> QED
    BY <1>7, <2>1, <2>2 DEF OutcomeNotWritten
<1>14. ASSUME NEW w \in Workers, OutcomeUnacknowledged(w) PROVE History'
  BY <1>14, UnacknowledgedKeepsHistory
<1>8. ASSUME NEW w \in Workers, WorkerCrash(w) PROVE History'
  BY <1>8, LeavingKeepsHistory DEF WorkerCrash, hookRowVars
<1>9. ASSUME UNCHANGED <<rowStatus, attemptCount, attemptRows, passAt, carried, number, outcome>>
      PROVE  History'
  BY <1>9, HistoryStands
<1>10. ASSUME NEW e \in Announced, FanOutReads(e) PROVE History'
  BY <1>9, <1>10 DEF FanOutReads, hookRowVars, workerVars
<1>11. ASSUME NEW p \in Endpoints, ReRegister(p) PROVE History'
  BY <1>9, <1>11 DEF ReRegister, hookRowVars, workerVars
<1>12. ASSUME NEW o \in Operators, NEW d \in Deliveries, ReplayReads(o, d) PROVE History'
  BY <1>9, <1>12 DEF ReplayReads, hookRowVars, workerVars
<1>13. CASE UNCHANGED deliveryVars
  BY <1>9, <1>13 DEF deliveryVars, hookRowVars, workerVars
<1> QED
  BY <1>1, <1>3, <1>4, <1>5, <1>6, <1>7, <1>8, <1>10, <1>11, <1>12, <1>13, <1>14
  DEF DeliveryNext, Surroundings

(***************************************************************************)
(* A delivery that succeeded has an attempt on record that says so, and a  *)
(* dead letter has one, however passes overlap, die and fail to write, and *)
(* however often the delivery is replayed (recordAttempt's two writes).    *)
(***************************************************************************)
THEOREM HistoryIsComplete == DeliverySpec => []SettledIsOnRecord
<1>1. History => SettledIsOnRecord
  BY DEF History
<1> QED
  BY <1>1, HistoryInit, HistoryNext, DeliveryTypeCorrect, PTL DEF DeliverySpec

(***************************************************************************)
(* A delivery that never fell due under a pass and was never replayed: one *)
(* pass at most is on it, the row is not due, and it is leased to the pass *)
(* until that has written an outcome.                                      *)
(***************************************************************************)
Attempting == {"claimed", "sending", "recording", "updating"}

Leases(w) ==
  LET d == carried[w]
  IN  /\ ~rowDue[d] /\ rowStatus[d] # "absent"
      /\ passAt[w] \in Attempting => rowStatus[d] = "delivering"

Unshared ==
  \A d \in Deliveries : d \notin outrun /\ replayCount[d] = 0 =>
    /\ \A w \in Workers : carried[w] = d => Leases(w)
    /\ \A v, w \in Workers : carried[v] = d /\ carried[w] = d => v = w

LEMMA UnsharedInit == DeliveryInit => Unshared
  BY DEF DeliveryInit, Unshared

\* Passes that hold what they held, or less, of rows that are left alone.
LEMMA UnsharedStands ==
  ASSUME Unshared,
         \A w \in Workers : \/ carried'[w] \notin Deliveries
                            \/ /\ carried'[w] = carried[w]
                               /\ passAt'[w] \in Attempting => passAt[w] \in Attempting,
         \A d \in Deliveries : d \notin outrun' /\ replayCount'[d] = 0 =>
           /\ d \notin outrun /\ replayCount[d] = 0
           /\ (\E w \in Workers : carried'[w] = d)
                => rowStatus'[d] = rowStatus[d] /\ rowDue'[d] = rowDue[d]
  PROVE  Unshared'
<1> SUFFICES ASSUME NEW d \in Deliveries, d \notin outrun', replayCount'[d] = 0
             PROVE  /\ \A w \in Workers : carried'[w] = d => Leases(w)'
                    /\ \A v, w \in Workers : carried'[v] = d /\ carried'[w] = d => v = w
  BY DEF Unshared
<1>1. \A w \in Workers : carried'[w] = d => carried[w] = d
  OBVIOUS
<1>2. ASSUME NEW w \in Workers, carried'[w] = d PROVE Leases(w)'
  BY <1>1, <1>2 DEF Unshared, Leases
<1> QED
  BY <1>1, <1>2 DEF Unshared

\* The pass that holds the row writes its outcome and goes on to the catch, or to
\* its endpoint.
LEMMA UnsharedWritten ==
  ASSUME DeliveryTypeOK, Unshared, NEW w \in Workers, WriteOutcome(w),
         passAt[w] \in Updating,
         UNCHANGED <<carried, replayCount, outrun>>,
         NEW a \in {"recordingCaught", "disabling"}, passAt' = [passAt EXCEPT ![w] = a]
  PROVE  Unshared'
<1> DEFINE d == carried[w]
           s == OutcomeStatus(outcome[w], cycle[w])
<1>1. d \in Deliveries /\ outcome[w] \in Outcomes /\ cycle[w] \in Nat
  BY DEF Updating, DeliveryTypeOK
<1>2. s # "absent"
  BY <1>1, OutcomeIsSettled
<1>3. /\ rowStatus'[d] = s /\ ~rowDue'[d]
      /\ \A c \in Deliveries \ {d} : rowStatus'[c] = rowStatus[c] /\ rowDue'[c] = rowDue[c]
  BY <1>1 DEF WriteOutcome, DeliveryTypeOK
<1>4. /\ passAt'[w] \notin Attempting
      /\ \A v \in Workers \ {w} : passAt'[v] = passAt[v]
  BY DEF DeliveryTypeOK, Attempting
<1> HIDE DEF s
<1> SUFFICES ASSUME NEW c \in Deliveries, c \notin outrun, replayCount[c] = 0
             PROVE  /\ \A v \in Workers : carried[v] = c => Leases(v)'
                    /\ \A u, v \in Workers : carried[u] = c /\ carried[v] = c => u = v
  BY DEF Unshared
<1>5. \A u, v \in Workers : carried[u] = c /\ carried[v] = c => u = v
  BY DEF Unshared
<1>6. ASSUME NEW v \in Workers, carried[v] = c PROVE Leases(v)'
  <2>1. CASE v = w
    BY <1>1, <1>2, <1>3, <1>4, <2>1 DEF Leases
  <2>2. CASE v # w
    <3>1. c # d /\ Leases(v)
      BY <1>5, <1>6, <2>2 DEF Unshared
    <3> QED
      BY <1>3, <1>4, <1>6, <2>2, <3>1 DEF Leases
  <2> QED
    BY <2>1, <2>2
<1> QED
  BY <1>5, <1>6

LEMMA UnsharedNext ==
  ASSUME DeliveryTypeOK, Unshared, [DeliveryNext]_deliveryVars
  PROVE  Unshared'
<1>1. ASSUME NEW w \in Workers, LeaveDelivery(w),
             UNCHANGED <<rowStatus, rowDue, replayCount, outrun>>
      PROVE  Unshared'
  BY <1>1, UnsharedStands DEF LeaveDelivery, DeliveryTypeOK
<1>2. ASSUME UNCHANGED <<carried, passAt, rowStatus, rowDue, replayCount, outrun>>
      PROVE  Unshared'
  BY <1>2, UnsharedStands
<1>0. ASSUME NEW w \in Workers, NEW a, passAt' = [passAt EXCEPT ![w] = a],
             a \in Attempting => passAt[w] \in Attempting,
             UNCHANGED <<carried, rowStatus, rowDue, replayCount, outrun>>
      PROVE  Unshared'
  BY <1>0, UnsharedStands DEF DeliveryTypeOK
<1>3. ASSUME NEW w \in Workers, WorkerStep(w) PROVE Unshared'
  <2>1. ASSUME NEW d \in Deliveries, ClaimDueDelivery(w, d) PROVE Unshared'
    <3>1. /\ carried'[w] = d /\ passAt'[w] = "claimed"
          /\ \A v \in Workers \ {w} : carried'[v] = carried[v] /\ passAt'[v] = passAt[v]
          /\ rowStatus'[d] = "delivering" /\ ~rowDue'[d] /\ rowDue[d]
          /\ UNCHANGED <<replayCount, outrun>>
          /\ \A c \in Deliveries \ {d} : rowStatus'[c] = rowStatus[c] /\ rowDue'[c] = rowDue[c]
      BY <2>1 DEF ClaimDueDelivery, ClaimableDelivery, DueOnceLeased, DeliveryTypeOK
    <3>2. d \notin outrun /\ replayCount[d] = 0 => \A v \in Workers : carried[v] # d
      BY <3>1 DEF Unshared, Leases
    <3> SUFFICES ASSUME NEW c \in Deliveries, c \notin outrun, replayCount[c] = 0
                 PROVE  /\ \A v \in Workers : carried'[v] = c => Leases(v)'
                        /\ \A u, v \in Workers : carried'[u] = c /\ carried'[v] = c => u = v
      BY <3>1 DEF Unshared
    <3>3. ASSUME NEW v \in Workers, carried'[v] = c PROVE Leases(v)'
      <4>1. CASE v = w
        BY <3>1, <4>1 DEF Leases
      <4>2. CASE v # w
        BY <3>1, <3>2, <3>3, <4>2 DEF Unshared, Leases
      <4> QED
        BY <4>1, <4>2
    <3>4. \A u, v \in Workers : carried'[u] = c /\ carried'[v] = c => u = v
      BY <3>1, <3>2 DEF Unshared
    <3> QED
      BY <3>3, <3>4
  <2>2. CASE ReadEndpoint(w)
    BY <1>0, <2>2 DEF ReadEndpoint, hookRowVars, Attempting
  <2>3. CASE InsertAttempt(w)
    <3> DEFINE a == IF passAt[w] = "recording" THEN "updating" ELSE "updatingCaught"
    <3>1. /\ passAt' = [passAt EXCEPT ![w] = a]
          /\ a \in Attempting => passAt[w] \in Attempting
      BY <2>3 DEF InsertAttempt, Recording, Attempting
    <3>2. UNCHANGED <<carried, rowStatus, rowDue, replayCount, outrun>>
      BY <2>3 DEF InsertAttempt, hookRowVars
    <3> HIDE DEF a
    <3> QED
      BY <1>0, <3>1, <3>2
  <2>4. CASE RecordOutcome(w)
    <3> DEFINE d == carried[w]
    <3>1. /\ d \in Deliveries /\ WriteOutcome(w) /\ passAt[w] \in Updating
          /\ UNCHANGED <<replayCount, outrun>>
      BY <2>4 DEF RecordOutcome, Updating, DeliveryTypeOK
    <3>2. \A c \in Deliveries \ {d} : rowStatus'[c] = rowStatus[c] /\ rowDue'[c] = rowDue[c]
      BY <3>1 DEF WriteOutcome, DeliveryTypeOK
    <3>3. CASE LeaveDelivery(w)
      <4>1. /\ carried'[w] = NoDelivery
            /\ \A v \in Workers \ {w} : carried'[v] = carried[v] /\ passAt'[v] = passAt[v]
        BY <3>3 DEF LeaveDelivery, DeliveryTypeOK
      <4>2. d \notin outrun /\ replayCount[d] = 0 => \A v \in Workers : carried'[v] # d
        BY <3>1, <4>1 DEF Unshared
      <4> QED
        BY <3>1, <3>2, <4>1, <4>2, UnsharedStands
    <3>4. CASE passAt' = [passAt EXCEPT ![w] = "disabling"] /\ UNCHANGED carried
      BY <3>1, <3>4, UnsharedWritten
    <3> QED
      BY <2>4, <3>3, <3>4 DEF RecordOutcome
  <2>5. CASE DisableWebhookEndpoint(w)
    BY <1>1, <2>5 DEF DisableWebhookEndpoint, hookRowVars
  <2> QED
    BY <1>3, <2>1, <2>2, <2>3, <2>4, <2>5 DEF WorkerStep
<1>4. ASSUME NEW w \in Workers, Exchange(w) PROVE Unshared'
  BY <1>0, <1>4 DEF Exchange, ReceiverAnswers, TransportThrows, hookRowVars, Attempting
<1>5. ASSUME NEW d \in Deliveries, TimePasses(d) PROVE Unshared'
  <2>1. d \in outrun' \/ \A w \in Workers : carried[w] # d
    BY <1>5 DEF TimePasses, Holds
  <2>2. /\ UNCHANGED <<carried, passAt, rowStatus, replayCount>> /\ outrun \subseteq outrun'
        /\ \A c \in Deliveries \ {d} : rowDue'[c] = rowDue[c]
    BY <1>5 DEF TimePasses, workerVars, DeliveryTypeOK
  <2> QED
    BY <2>1, <2>2, UnsharedStands
<1>6. ASSUME NEW e \in Announced, NEW p \in Endpoints, RecordDelivery(p, e) PROVE Unshared'
  <2>1. <<p, e>> \in Deliveries
    BY DEF Deliveries
  <2>2. /\ UNCHANGED <<carried, passAt, replayCount, outrun>>
        /\ \A d \in Deliveries : rowStatus[d] # "absent"
             => rowStatus'[d] = rowStatus[d] /\ rowDue'[d] = rowDue[d]
    BY <1>6, <2>1 DEF RecordDelivery, NewDelivery, workerVars, DeliveryTypeOK
  <2>3. ASSUME NEW d \in Deliveries, d \notin outrun, replayCount[d] = 0,
               NEW w \in Workers, carried[w] = d
        PROVE  rowStatus[d] # "absent"
    BY <2>3 DEF Unshared, Leases
  <2> QED
    BY <2>2, <2>3, UnsharedStands
<1>7. ASSUME NEW o \in Operators, ReplayWrites(o) PROVE Unshared'
  <2> DEFINE d == replaying[o]
  <2>1. d \in Deliveries
    BY <1>7 DEF ReplayWrites, DeliveryTypeOK
  <2>2. /\ UNCHANGED <<carried, passAt, outrun>> /\ replayCount'[d] # 0
        /\ \A c \in Deliveries \ {d} : /\ rowStatus'[c] = rowStatus[c] /\ rowDue'[c] = rowDue[c]
                                      /\ replayCount'[c] = replayCount[c]
    BY <1>7, <2>1 DEF ReplayWrites, workerVars, DeliveryTypeOK
  <2> QED
    BY <2>1, <2>2, UnsharedStands
<1>8. ASSUME NEW w \in Workers, OutcomeNotWritten(w) \/ WorkerCrash(w) PROVE Unshared'
  BY <1>0, <1>1, <1>8 DEF OutcomeNotWritten, WorkerCrash, hookRowVars, Attempting
<1>13. ASSUME NEW w \in Workers, OutcomeUnacknowledged(w) PROVE Unshared'
  <2>1. CASE passAt[w] = "updating" /\ WriteOutcome(w)
    BY <1>13, <2>1, UnsharedWritten DEF OutcomeUnacknowledged, Updating
  <2>2. CASE passAt[w] = "disabling" /\ UNCHANGED <<rowStatus, rowDue, reason>>
    BY <1>0, <1>13, <2>2 DEF OutcomeUnacknowledged, Attempting
  <2> QED
    BY <1>13, <2>1, <2>2 DEF OutcomeUnacknowledged
<1>9. ASSUME NEW e \in Announced, FanOutReads(e) PROVE Unshared'
  BY <1>2, <1>9 DEF FanOutReads, hookRowVars, workerVars
<1>10. ASSUME NEW p \in Endpoints, ReRegister(p) PROVE Unshared'
  BY <1>2, <1>10 DEF ReRegister, hookRowVars, workerVars
<1>11. ASSUME NEW o \in Operators, NEW d \in Deliveries, ReplayReads(o, d) PROVE Unshared'
  BY <1>2, <1>11 DEF ReplayReads, hookRowVars, workerVars
<1>12. CASE UNCHANGED deliveryVars
  BY <1>2, <1>12 DEF deliveryVars, hookRowVars, workerVars
<1> QED
  BY <1>3, <1>4, <1>5, <1>6, <1>7, <1>8, <1>9, <1>10, <1>11, <1>12, <1>13
  DEF DeliveryNext, Surroundings

\* A step out of "succeeded" is a replay's, or an outcome's of a pass on the row.
LEMMA SuccessStands ==
  ASSUME DeliveryTypeOK, Unshared, [DeliveryNext]_deliveryVars, NEW d \in Deliveries,
         rowStatus[d] = "succeeded", \A o \in Operators : replaying[o] # d,
         \A w \in Workers : Holds(w, d) =>
           d \notin outrun /\ replayCount[d] = 0 /\ passAt[w] # "updatingCaught"
  PROVE  rowStatus'[d] = "succeeded"
<1>1. \A w \in Workers : passAt[w] \in Updating => carried[w] # d
  BY DEF Unshared, Leases, Holds, Updating, Attempting
<1>2. ASSUME NEW w \in Workers, WorkerStep(w) PROVE rowStatus'[d] = "succeeded"
  <2>1. ASSUME NEW c \in Deliveries, ClaimDueDelivery(w, c) PROVE rowStatus'[d] = "succeeded"
    BY <2>1 DEF ClaimDueDelivery, ClaimableDelivery, DeliveryTypeOK
  <2>2. CASE RecordOutcome(w)
    BY <1>1, <2>2 DEF RecordOutcome, WriteOutcome, DeliveryTypeOK
  <2>3. CASE ReadEndpoint(w) \/ InsertAttempt(w) \/ DisableWebhookEndpoint(w)
    BY <2>3 DEF ReadEndpoint, InsertAttempt, DisableWebhookEndpoint, hookRowVars
  <2> QED
    BY <1>2, <2>1, <2>2, <2>3 DEF WorkerStep
<1>3. ASSUME NEW e \in Announced, NEW p \in Endpoints, RecordDelivery(p, e)
      PROVE  rowStatus'[d] = "succeeded"
  BY <1>3 DEF RecordDelivery, NewDelivery, DeliveryTypeOK
<1>4. ASSUME NEW o \in Operators, ReplayWrites(o) PROVE rowStatus'[d] = "succeeded"
  BY <1>4 DEF ReplayWrites, DeliveryTypeOK
<1>5. ASSUME NEW w \in Workers, Exchange(w) \/ OutcomeNotWritten(w) \/ WorkerCrash(w)
      PROVE  rowStatus' = rowStatus
  BY <1>5 DEF Exchange, ReceiverAnswers, TransportThrows, OutcomeNotWritten, WorkerCrash,
     hookRowVars
<1>7. ASSUME NEW w \in Workers, OutcomeUnacknowledged(w) PROVE rowStatus'[d] = "succeeded"
  BY <1>1, <1>7 DEF OutcomeUnacknowledged, WriteOutcome, Updating, DeliveryTypeOK
<1>6. ASSUME \/ \E c \in Deliveries : TimePasses(c)
             \/ \E e \in Announced : FanOutReads(e)
             \/ \E p \in Endpoints : ReRegister(p)
             \/ \E o \in Operators, c \in Deliveries : ReplayReads(o, c)
             \/ UNCHANGED deliveryVars
      PROVE  rowStatus' = rowStatus
  BY <1>6 DEF TimePasses, FanOutReads, ReRegister, ReplayReads, deliveryVars, hookRowVars
<1> QED
  BY <1>2, <1>3, <1>4, <1>5, <1>6, <1>7 DEF DeliveryNext, Surroundings

(***************************************************************************)
(* A delivery leaves "succeeded" only by the hand of an operator who read  *)
(* it as a dead letter, or of a pass whose row fell due or was replayed    *)
(* under it, or that was not told of its own success: no fan-out, no       *)
(* failed write and no other late pass takes it back.                      *)
(***************************************************************************)
THEOREM SuccessStays == DeliverySpec => SuccessIsFinal
<1>1. DeliveryTypeOK /\ Unshared /\ [DeliveryNext]_deliveryVars => Unshared'
  BY UnsharedNext
<1>2. DeliveryTypeOK /\ Unshared /\ [DeliveryNext]_deliveryVars =>
        [\A d \in Deliveries :
           /\ rowStatus[d] = "succeeded"
           /\ \A o \in Operators : replaying[o] # d
           /\ \A w \in Workers : Holds(w, d) =>
                d \notin outrun /\ replayCount[d] = 0 /\ passAt[w] # "updatingCaught"
           => rowStatus'[d] = "succeeded"]_deliveryVars
  BY SuccessStands
<1> QED
  BY <1>1, <1>2, UnsharedInit, DeliveryTypeCorrect, PTL DEF DeliverySpec, SuccessIsFinal

(***************************************************************************)
(* The composition: what the sender does in it is webhook delivery, for    *)
(* the application only chooses which of the outcomes it sees.             *)
(***************************************************************************)
LEMMA ChannelSteps == [ChannelNext]_allVars => [DeliveryNext]_deliveryVars
<1> SUFFICES ASSUME [ChannelNext]_allVars PROVE [DeliveryNext]_deliveryVars
  OBVIOUS
<1>1. ASSUME NEW w \in Workers, NEW o \in HttpOutcomes, ReceiverAnswers(w, o) PROVE DeliveryNext
  BY <1>1 DEF DeliveryNext, Exchange
<1>2. ASSUME NEW w \in Workers, NEW o \in ThrownOutcomes, TransportThrows(w, o) PROVE DeliveryNext
  BY <1>2 DEF DeliveryNext, Exchange
<1>3. CASE Sender
  BY <1>3 DEF Sender, DeliveryNext, Surroundings
<1>4. CASE SenderFault
  BY <1>4 DEF SenderFault, DeliveryNext, Surroundings
<1>5. ASSUME NEW w \in Workers, Receive(w) PROVE DeliveryNext
  <2>1. \A a : Classified(a) \in HttpOutcomes
    BY DEF Classified, HttpOutcomes
  <2> QED
    BY <1>1, <1>5, <2>1 DEF Receive
<1>6. ASSUME NEW w \in Workers, NoAnswer(w) PROVE DeliveryNext
  <2>1. "transient" \in ThrownOutcomes
    BY DEF ThrownOutcomes
  <2> QED
    BY <1>1, <1>2, <1>6, <2>1 DEF NoAnswer
<1>7. CASE \/ AppFault
           \/ \E w \in Workers, r \in Requests : Post(w, r)
           \/ \E r \in Requests : Handle(r) \/ Abandoned(r)
           \/ UNCHANGED allVars
  BY <1>7 DEF AppFault, Post, Handle, Abandoned, allVars
<1> QED
  BY <1>3, <1>4, <1>5, <1>6, <1>7 DEF ChannelNext

(***************************************************************************)
(* The composed system implements webhook delivery, so its history is      *)
(* complete and its successes final whatever the application does.         *)
(***************************************************************************)
THEOREM ChannelDelivers == ChannelSpec => DeliverySpec
<1>1. ChannelInit => DeliveryInit
  BY DEF ChannelInit
<1> QED
  BY <1>1, ChannelSteps, PTL DEF ChannelSpec, DeliverySpec

LEMMA ChannelTypedInit == ChannelInit => ChannelTypeOK
  BY SenderTypedInit
  DEF ChannelInit, ChannelTypeOK, Inbox!InboxInit, Inbox!InboxTypeOK, Inbox!RequestStates

(***************************************************************************)
(* The event log: a request at work holds its event's row, which nobody    *)
(* else does; an event with work queued is on the log as queued, and has   *)
(* no request at work, unless its handler was not told of the record.      *)
(***************************************************************************)
InboxClaimsHeld ==
  /\ \A r \in Requests : req[r] = "arrived" \/ Inbox!AtWork(r) => asked[r] \in Announced
  /\ \A r \in Requests : Inbox!AtWork(r) =>
       /\ log[asked[r]] # "absent"
       /\ asked[r] \in work => asked[r] \in unheard
  /\ \A r, s \in Requests : r # s /\ Inbox!AtWork(r) /\ Inbox!AtWork(s) => asked[r] # asked[s]
  /\ \A e \in work \ unheard : log[e] = "queued"

ChannelInv == ChannelTypeOK /\ InboxClaimsHeld

LEMMA ChannelInvInit == ChannelInit => ChannelInv
  BY ChannelTypedInit DEF ChannelInit, Inbox!InboxInit, ChannelInv, InboxClaimsHeld, Inbox!AtWork

\* One slot's request ends, or a new one arrives in it.
LEMMA SlotChanges ==
  ASSUME InboxClaimsHeld, Inbox!InboxTypeOK, NEW r \in Requests, NEW e \in Announced,
         Inbox!Done(r) \/ Inbox!Arrives(r, e)
  PROVE  InboxClaimsHeld' /\ Inbox!InboxTypeOK'
  BY DEF InboxClaimsHeld, Inbox!InboxTypeOK, Inbox!Done, Inbox!Arrives, Inbox!AtWork,
     Inbox!RequestStates, Inbox!Answers

LEMMA HandlingKeepsClaims ==
  ASSUME InboxClaimsHeld, Inbox!InboxTypeOK, NEW r \in Requests, Inbox!HandlerStep(r)
  PROVE  InboxClaimsHeld' /\ Inbox!InboxTypeOK'
<1> USE DEF Inbox!InboxTypeOK, Inbox!RequestStates, Inbox!Answers, InboxClaimsHeld, Inbox!AtWork
<1>1. CASE Inbox!Claim(r)
  BY <1>1 DEF Inbox!Claim, Inbox!Claims
<1>2. CASE Inbox!RecordDecisionEvent(r)
  BY <1>2 DEF Inbox!RecordDecisionEvent
<1>3. CASE Inbox!HandlerThrows(r)
  BY <1>3 DEF Inbox!HandlerThrows
<1>4. CASE Inbox!Release(r)
  BY <1>4 DEF Inbox!Release
<1> QED
  BY <1>1, <1>2, <1>3, <1>4 DEF Inbox!HandlerStep

LEMMA FaultKeepsClaims ==
  ASSUME InboxClaimsHeld, Inbox!InboxTypeOK,
         \/ Inbox!AppCrash
         \/ \E r \in Requests : \/ Inbox!ReleaseFails(r) \/ Inbox!ClaimReplyLost(r)
                                \/ Inbox!RecordReplyLost(r) \/ Inbox!ReleaseReplyLost(r)
  PROVE  InboxClaimsHeld' /\ Inbox!InboxTypeOK'
<1> USE DEF Inbox!InboxTypeOK, Inbox!RequestStates, Inbox!Answers, InboxClaimsHeld, Inbox!AtWork
<1>1. CASE Inbox!AppCrash
  BY <1>1 DEF Inbox!AppCrash
<1>2. ASSUME NEW r \in Requests, Inbox!ReleaseFails(r)
      PROVE  InboxClaimsHeld' /\ Inbox!InboxTypeOK'
  BY <1>2 DEF Inbox!ReleaseFails
<1>3. ASSUME NEW r \in Requests, Inbox!ClaimReplyLost(r)
      PROVE  InboxClaimsHeld' /\ Inbox!InboxTypeOK'
  BY <1>3 DEF Inbox!ClaimReplyLost, Inbox!Claims
<1>4. ASSUME NEW r \in Requests, Inbox!RecordReplyLost(r)
      PROVE  InboxClaimsHeld' /\ Inbox!InboxTypeOK'
  BY <1>4 DEF Inbox!RecordReplyLost
<1>5. ASSUME NEW r \in Requests, Inbox!ReleaseReplyLost(r)
      PROVE  InboxClaimsHeld' /\ Inbox!InboxTypeOK'
  BY <1>5 DEF Inbox!ReleaseReplyLost
<1> QED
  BY <1>1, <1>2, <1>3, <1>4, <1>5

LEMMA ChannelInvNext == ChannelInv /\ [ChannelNext]_allVars => ChannelInv'
<1> SUFFICES ASSUME ChannelInv, [ChannelNext]_allVars PROVE ChannelInv'
  OBVIOUS
<1> USE DEF ChannelInv, ChannelTypeOK
<1>1. DeliveryTypeOK'
  BY ChannelSteps, WorkerTyped, OthersTyped DEF DeliveryNext
<1>2. ASSUME UNCHANGED <<log, work, req, asked, unheard>>
      PROVE  InboxClaimsHeld' /\ Inbox!InboxTypeOK'
  BY <1>2 DEF InboxClaimsHeld, Inbox!InboxTypeOK, Inbox!AtWork
<1>3. CASE Sender
  BY <1>1, <1>2, <1>3 DEF Sender, channelVars
<1>4. CASE SenderFault
  BY <1>1, <1>2, <1>4 DEF SenderFault
<1>5. CASE AppFault
  BY <1>1, <1>5, FaultKeepsClaims DEF AppFault
<1>6. ASSUME NEW w \in Workers, Receive(w) PROVE ChannelInv'
  <2>1. wire[w] \in Requests
    BY <1>6 DEF Receive
  <2>2. InboxClaimsHeld' /\ Inbox!InboxTypeOK'
    BY <1>6, <2>1 DEF Receive, Inbox!Done, InboxClaimsHeld, Inbox!InboxTypeOK, Inbox!AtWork,
       Inbox!RequestStates
  <2> QED
    BY <1>1, <1>6, <2>1, <2>2 DEF Receive
<1>7. ASSUME NEW w \in Workers, NoAnswer(w) PROVE ChannelInv'
  BY <1>1, <1>2, <1>7 DEF NoAnswer
<1>8. ASSUME NEW w \in Workers, NEW r \in Requests, Post(w, r) PROVE ChannelInv'
  <2>1. carried[w][2] \in Announced
    BY <1>8 DEF Post, DeliveryTypeOK, Deliveries
  <2>2. InboxClaimsHeld' /\ Inbox!InboxTypeOK'
    BY <1>8, <2>1, SlotChanges DEF Post
  <2> QED
    BY <1>1, <1>8, <2>2 DEF Post
<1>9. ASSUME NEW r \in Requests, Handle(r) PROVE ChannelInv'
  BY <1>1, <1>9, HandlingKeepsClaims DEF Handle
<1>10. ASSUME NEW r \in Requests, Abandoned(r) PROVE ChannelInv'
  <2>1. InboxClaimsHeld' /\ Inbox!InboxTypeOK'
    BY <1>10 DEF Abandoned, Inbox!Done, InboxClaimsHeld, Inbox!InboxTypeOK, Inbox!AtWork,
       Inbox!RequestStates
  <2> QED
    BY <1>1, <1>10, <2>1 DEF Abandoned
<1>11. CASE UNCHANGED allVars
  BY <1>1, <1>2, <1>11 DEF allVars, channelVars
<1> QED
  BY <1>3, <1>4, <1>5, <1>6, <1>7, <1>8, <1>9, <1>10, <1>11 DEF ChannelNext

(***************************************************************************)
(* Every reachable state of the two sides of the channel is well typed.    *)
(***************************************************************************)
THEOREM ChannelTypeCorrect == ChannelSpec => []ChannelTypeOK
<1>1. ChannelInv => ChannelTypeOK
  BY DEF ChannelInv
<1> QED
  BY <1>1, ChannelInvInit, ChannelInvNext, PTL DEF ChannelSpec

(***************************************************************************)
(* However often an event is sent, by however many passes and operators,   *)
(* and whatever dies or fails, the application never handles it twice at a *)
(* time, nor again once its work is queued unless its handler was not told *)
(* so: the insert of the event's row is the claim (crowdsourceWebhooks,    *)
(* recordDecisionEvent).                                                   *)
(***************************************************************************)
THEOREM EventsHandledOnce == ChannelSpec => []HandledOnce
<1>1. ChannelInv => HandledOnce
  BY DEF ChannelInv, InboxClaimsHeld, HandledOnce, Inbox!AtWork
<1> QED
  BY <1>1, ChannelInvInit, ChannelInvNext, PTL DEF ChannelSpec
=============================================================================
