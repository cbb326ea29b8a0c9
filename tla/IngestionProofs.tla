--------------------------- MODULE IngestionProofs ---------------------------
(***************************************************************************)
(* Theorems about the ingress and the triage of a subject's reports, for   *)
(* any number of deliveries, handlers, sends and failures, and any bodies. *)
(***************************************************************************)
EXTENDS Ingestion, FiniteSetTheorems, TLAPS

USE IngestionAssumption

(***************************************************************************)
(* The ids of the application are a primary key, which is why an answer    *)
(* can name no two reports; and whoever was answered with a report carries *)
(* what that report carries.                                               *)
(***************************************************************************)
ReportsUnique == \A r, s \in reports : r.external = s.external => r = s

AnswersOwn ==
  \A q \in Submissions : \A r \in accepted[q] : r \in reports /\ SamePayload(r, body[q])

Stored ==
  /\ request = [q \in Submissions |-> request[q]]
  /\ accepted = [q \in Submissions |-> accepted[q]]
  /\ ReportsUnique /\ AnswersOwn

LEMMA StoredInit == IngestInit => Stored
  BY DEF IngestInit, Stored, ReportsUnique, AnswersOwn

\* An answer with some of the stored reports keeps the invariant.
LEMMA ReplayKeepsStored ==
  ASSUME NEW q \in Submissions, NEW stored \in SUBSET reports, Stored,
         ReplayOrRefuse(q, stored), UNCHANGED <<reports, body>>
  PROVE  Stored'
<1>1. request' = [p \in Submissions |-> request'[p]] /\ ReportsUnique'
  BY DEF Stored, ReplayOrRefuse, GoTo, ReportsUnique
<1>2. /\ accepted' = [p \in Submissions |-> accepted'[p]]
      /\ accepted'[q] = accepted[q] \cup {r \in stored : SamePayload(r, body[q])}
      /\ \A p \in Submissions \ {q} : accepted'[p] = accepted[p]
  BY DEF Stored, ReplayOrRefuse
<1>3. AnswersOwn'
  BY <1>2 DEF Stored, AnswersOwn, SamePayload
<1> QED
  BY <1>1, <1>2, <1>3 DEF Stored

LEMMA StoredNext == Stored /\ [IngestNext]_ingestVars => Stored'
<1> SUFFICES ASSUME Stored, [IngestNext]_ingestVars PROVE Stored'
  OBVIOUS
<1>1. ASSUME NEW q \in Submissions, SendReport(q) PROVE Stored'
  BY <1>1 DEF SendReport, storedVars, Stored, ReportsUnique, AnswersOwn, SamePayload
<1>2. ASSUME NEW q \in Submissions, assertApplicationMayIngest(q) PROVE Stored'
  BY <1>2 DEF assertApplicationMayIngest, GoTo, storedVars, Stored, ReportsUnique,
     AnswersOwn, SamePayload
<1>3. ASSUME NEW q \in Submissions, NEW refused \in BOOLEAN, CheckEvidence(q, refused)
      PROVE  Stored'
  <2>1. CASE refused
    BY <1>3, <2>1, ReplayKeepsStored DEF CheckEvidence, WithExternalId, storedVars
  <2>2. CASE ~refused
    BY <1>3, <2>2 DEF CheckEvidence, GoTo, storedVars, Stored, ReportsUnique,
       AnswersOwn, SamePayload
  <2> QED
    BY <2>1, <2>2
<1>4. ASSUME NEW q \in Submissions, storeDelivery(q) PROVE Stored'
  <2>1. /\ request' = [p \in Submissions |-> request'[p]]
        /\ accepted' = [p \in Submissions |-> accepted'[p]]
        /\ accepted'[q] = accepted[q] \cup {body[q]}
        /\ \A p \in Submissions \ {q} : accepted'[p] = accepted[p]
    BY <1>4 DEF storeDelivery, GoTo, Stored
  <2>2. ReportsUnique'
    BY <1>4 DEF storeDelivery, WithExternalId, Stored, ReportsUnique
  <2>3. AnswersOwn'
    BY <1>4, <2>1 DEF storeDelivery, Stored, AnswersOwn, SamePayload
  <2> QED
    BY <2>1, <2>2, <2>3 DEF Stored
<1>5. ASSUME NEW q \in Submissions, resolveDuplicateDelivery(q) PROVE Stored'
  BY <1>5, ReplayKeepsStored
     DEF resolveDuplicateDelivery, WithExternalId, WithKey, storedVars
<1>6. ASSUME NEW q \in Submissions, isCreationContention(q) PROVE Stored'
  BY <1>6 DEF isCreationContention, storedVars, Stored, ReportsUnique, AnswersOwn,
     SamePayload
<1>7. ASSUME NEW h \in Handlers, TriageStep(h) \/ TriageThrows(h) PROVE Stored'
  BY <1>7 DEF TriageStep, ClaimTriage, ReadCase, handleCaseReadyForTriage, TriageThrows,
     storedVars, Stored, ReportsUnique, AnswersOwn, SamePayload
<1>8. ASSUME SeatJury PROVE Stored'
  BY <1>8 DEF SeatJury, Stored, ReportsUnique, AnswersOwn, SamePayload
<1>9. ASSUME UNCHANGED ingestVars PROVE Stored'
  BY <1>9 DEF ingestVars, storedVars, Stored, ReportsUnique, AnswersOwn, SamePayload
<1> QED
  BY <1>1, <1>2, <1>3, <1>4, <1>5, <1>6, <1>7, <1>8, <1>9 DEF IngestNext

\* A set without two different members has at most one.
LEMMA AtMostOne ==
  ASSUME NEW S, \A r, s \in S : r = s
  PROVE  Cardinality(S) <= 1
<1>1. CASE S = {}
  BY <1>1, FS_EmptySet
<1>2. CASE S # {}
  <2>1. PICK r : r \in S
    BY <1>2
  <2>2. S = {r}
    BY <2>1
  <2>3. Cardinality({r}) = 1
    BY FS_Singleton
  <2> QED
    BY <2>2, <2>3
<1> QED
  BY <1>1, <1>2

LEMMA StoredAnswers == Stored => AcceptedIsStored
<1> SUFFICES ASSUME Stored, NEW q \in Submissions
             PROVE  /\ accepted[q] \subseteq reports
                    /\ Cardinality(accepted[q]) <= 1
                    /\ \A r \in accepted[q] : r.external = body[q].external
                                              /\ r.kind = body[q].kind
  BY DEF AcceptedIsStored
<1>1. \A r \in accepted[q] : r \in reports /\ r.external = body[q].external
                             /\ r.kind = body[q].kind
  BY DEF Stored, AnswersOwn, SamePayload
<1>2. Cardinality(accepted[q]) <= 1
  BY <1>1, AtMostOne DEF Stored, ReportsUnique
<1> QED
  BY <1>1, <1>2

(***************************************************************************)
(* Whatever is retried, lost or sent twice, a delivery is only answered    *)
(* with the one stored report of its own id and content.                   *)
(***************************************************************************)
THEOREM AnswersAreStored == IngestSpec => []AcceptedIsStored
<1>1. IngestSpec => []Stored
  BY StoredInit, StoredNext, PTL DEF IngestSpec
<1> QED
  BY <1>1, StoredAnswers, PTL

-----------------------------------------------------------------------------
\* A handler that transitions the case finds it as it was received.
Triaged ==
  /\ subjectCase = [x \in DOMAIN NoCase |-> subjectCase[x]]
  /\ PublishedOnce

LEMMA TriagedInit == IngestInit => Triaged
  BY DEF IngestInit, NoCase, Triaged, PublishedOnce

LEMMA TriagedNext == Triaged /\ [IngestNext]_ingestVars => Triaged'
<1> SUFFICES ASSUME Triaged, [IngestNext]_ingestVars PROVE Triaged'
  OBVIOUS
<1>1. ASSUME UNCHANGED <<subjectCase, reviewQueue>> PROVE Triaged'
  BY <1>1 DEF Triaged, PublishedOnce
<1>2. ASSUME NEW q \in Submissions, storeDelivery(q) PROVE Triaged'
  BY <1>2 DEF storeDelivery, upsertCaseForReport, Triaged, PublishedOnce, NoCase
<1>3. ASSUME NEW h \in Handlers, handleCaseReadyForTriage(h) PROVE Triaged'
  <2>1. CASE subjectCase.status = "received"
    <3>1. reviewQueue' = reviewQueue + 1 /\ reviewQueue = 0
      BY <1>3, <2>1 DEF handleCaseReadyForTriage, MayTransition, Triaged, PublishedOnce
    <3>2. /\ subjectCase' = [x \in DOMAIN NoCase |-> subjectCase'[x]]
          /\ subjectCase'.status \in {"triaged", "escalated"}
      BY <1>3, <2>1 DEF handleCaseReadyForTriage, MayTransition, Triaged, NoCase
    <3> QED
      BY <3>1, <3>2 DEF Triaged, PublishedOnce
  <2>2. CASE subjectCase.status # "received"
    BY <1>3, <2>2 DEF handleCaseReadyForTriage, MayTransition, Triaged, PublishedOnce,
       NoCase
  <2> QED
    BY <2>1, <2>2
<1>4. ASSUME SeatJury PROVE Triaged'
  BY <1>4 DEF SeatJury, queueVars, Triaged, PublishedOnce, NoCase
<1>5. ASSUME NEW q \in Submissions, NEW refused \in BOOLEAN,
             \/ SendReport(q) \/ assertApplicationMayIngest(q)
             \/ CheckEvidence(q, refused) \/ resolveDuplicateDelivery(q)
             \/ isCreationContention(q)
      PROVE  Triaged'
  BY <1>1, <1>5 DEF SendReport, assertApplicationMayIngest, CheckEvidence,
     resolveDuplicateDelivery, isCreationContention, storedVars, queueVars
<1>6. ASSUME NEW h \in Handlers, ClaimTriage(h) \/ ReadCase(h) \/ TriageThrows(h)
      PROVE  Triaged'
  BY <1>1, <1>6 DEF ClaimTriage, ReadCase, TriageThrows, storedVars, queueVars
<1>7. ASSUME UNCHANGED ingestVars PROVE Triaged'
  BY <1>1, <1>7 DEF ingestVars, storedVars, queueVars
<1> QED
  BY <1>2, <1>3, <1>4, <1>5, <1>6, <1>7 DEF IngestNext, TriageStep

(***************************************************************************)
(* A case is published for review exactly when it leaves "received",       *)
(* whatever number of its events is handled, fails or overlaps.            *)
(***************************************************************************)
THEOREM PublishesOnce == IngestSpec => []PublishedOnce
<1>1. Triaged => PublishedOnce
  BY DEF Triaged
<1> QED
  BY <1>1, TriagedInit, TriagedNext, PTL DEF IngestSpec

-----------------------------------------------------------------------------
(***************************************************************************)
(* Every report was carried by a delivery, and every event of the queue,   *)
(* or in a handler's hands, is that of a report: so they are bounded.      *)
(***************************************************************************)
EventsHeld == {h \in Handlers : Holding(h)}

RowsCounted ==
  /\ IngestTypeOK
  /\ \A r \in reports : \E q \in Submissions : body[q] = r
  /\ usage = Cardinality(reports) /\ subjectCase.reportCount = usage
  /\ triageQueue + Cardinality(EventsHeld) <= usage

LEMMA CarriedAreFew ==
  ASSUME NEW S, \A r \in S : \E q \in Submissions : body[q] = r
  PROVE  IsFiniteSet(S) /\ Cardinality(S) \in Nat
         /\ Cardinality(S) <= Cardinality(Submissions)
<1> DEFINE f == [r \in S |-> CHOOSE q \in Submissions : body[q] = r]
<1>1. \A r \in S : f[r] \in Submissions /\ body[f[r]] = r
  OBVIOUS
<1>2. f \in [S -> Submissions] /\ \A r, s \in S : f[r] = f[s] => r = s
  <2> HIDE DEF f
  <2>1. f = [r \in S |-> f[r]]
    BY DEF f
  <2> QED
    BY <1>1, <2>1
<1>3. f \in Injection(S, Submissions)
  BY <1>2 DEF Injection, IsInjective
<1> HIDE DEF f
<1>4. IsFiniteSet(S) /\ Cardinality(S) <= Cardinality(Submissions)
  BY <1>3, FS_Injection
<1> QED
  BY <1>4, FS_CardinalityType

LEMMA HeldIsFinite ==
  /\ IsFiniteSet(EventsHeld) /\ Cardinality(EventsHeld) \in Nat
  /\ Cardinality(Submissions) \in Nat
<1>1. EventsHeld \in SUBSET Handlers
  BY DEF EventsHeld
<1>2. IsFiniteSet(EventsHeld)
  BY <1>1, FS_Subset
<1> QED
  BY <1>2, FS_CardinalityType

LEMMA RowsCountedInit == IngestInit => RowsCounted
<1> SUFFICES ASSUME IngestInit PROVE RowsCounted
  OBVIOUS
<1>1. EventsHeld = {}
  BY DEF IngestInit, EventsHeld, Holding, Idle
<1>2. Cardinality(EventsHeld) = 0 /\ Cardinality(reports) = 0
  BY <1>1, FS_EmptySet DEF IngestInit
<1>3. Cardinality(Submissions) \in Nat
  BY HeldIsFinite
<1>4. NoCase \in CaseRow
  BY <1>3 DEF NoCase, CaseRow, CaseStatuses, Pools
<1>5. IngestTypeOK
  BY <1>3, <1>4 DEF IngestInit, IngestTypeOK, Stages, Idle
<1> QED
  BY <1>2, <1>5 DEF IngestInit, RowsCounted, NoCase

\* A step that moves a delivery on and stores nothing.
LEMMA MovingDelivery ==
  ASSUME RowsCounted, UNCHANGED <<body, storedVars, queueVars, triageVars>>,
         request' \in [Submissions -> [at : Stages, attempt : 1..3, sends : 0..MaxSends]],
         accepted' \in [Submissions -> SUBSET Bodies]
  PROVE  RowsCounted'
<1>1. EventsHeld' = EventsHeld
  BY DEF triageVars, EventsHeld, Holding
<1> QED
  BY <1>1 DEF RowsCounted, IngestTypeOK, storedVars, queueVars, triageVars

LEMMA CountedReplay ==
  ASSUME RowsCounted, NEW q \in Submissions, NEW stored \in SUBSET reports,
         ReplayOrRefuse(q, stored), UNCHANGED <<body, storedVars, queueVars, triageVars>>
  PROVE  RowsCounted'
<1>1. request' \in [Submissions -> [at : Stages, attempt : 1..3, sends : 0..MaxSends]]
  BY DEF RowsCounted, IngestTypeOK, ReplayOrRefuse, GoTo, Stages
<1>2. accepted' \in [Submissions -> SUBSET Bodies]
  <2>1. accepted \in [Submissions -> SUBSET Bodies] /\ reports \subseteq Bodies
    BY DEF RowsCounted, IngestTypeOK
  <2> QED
    BY <2>1 DEF ReplayOrRefuse
<1> QED
  BY <1>1, <1>2, MovingDelivery

LEMMA CountedStore ==
  ASSUME RowsCounted, NEW q \in Submissions, storeDelivery(q)
  PROVE  RowsCounted'
<1>1. body[q] \in Bodies /\ body[q] \notin reports /\ body[q].kind \in Kinds
  BY DEF RowsCounted, IngestTypeOK, storeDelivery, WithExternalId
<1>2. /\ reports' = reports \cup {body[q]} /\ reports' \subseteq Bodies /\ body' = body
      /\ \A r \in reports' : \E p \in Submissions : body[p] = r
  BY <1>1 DEF RowsCounted, IngestTypeOK, storeDelivery
<1>3. IsFiniteSet(reports) /\ Cardinality(reports) \in Nat
  BY CarriedAreFew DEF RowsCounted
<1>4. Cardinality(reports') = Cardinality(reports) + 1
  BY <1>1, <1>2, <1>3, FS_AddElement
<1>5. Cardinality(reports') <= Cardinality(Submissions)
  BY <1>2, CarriedAreFew
<1>6. EventsHeld' = EventsHeld
  BY DEF storeDelivery, triageVars, EventsHeld, Holding
<1>7. usage' = usage + 1 /\ triageQueue' = triageQueue + 1
  BY DEF storeDelivery
<1>8. /\ usage' = Cardinality(reports') /\ usage' \in 0..Cardinality(Submissions)
      /\ triageQueue' \in 0..Cardinality(Submissions)
      /\ triageQueue' + Cardinality(EventsHeld') <= usage'
  BY <1>3, <1>4, <1>5, <1>6, <1>7, HeldIsFinite DEF RowsCounted, IngestTypeOK
<1>9. subjectCase' \in CaseRow /\ subjectCase'.reportCount = usage'
  <2> DEFINE s == IF subjectCase.status = "absent" THEN "received" ELSE subjectCase.status
  <2>1. /\ subjectCase' = [subjectCase EXCEPT !.status = s, !.reportCount = @ + 1,
                                              !.kinds = @ \cup {body[q].kind}]
        /\ subjectCase \in CaseRow /\ subjectCase.reportCount = usage /\ usage \in Nat
    BY DEF storeDelivery, upsertCaseForReport, RowsCounted, IngestTypeOK
  <2>2. s \in CaseStatuses /\ subjectCase.kinds \cup {body[q].kind} \in SUBSET Kinds
    BY <1>1, <2>1 DEF CaseRow, CaseStatuses
  <2>3. subjectCase.reportCount + 1 = usage'
    BY <1>7, <2>1
  <2> HIDE DEF s
  <2> QED
    BY <1>8, <2>1, <2>2, <2>3 DEF CaseRow
<1>10. /\ request' \in [Submissions -> [at : Stages, attempt : 1..3, sends : 0..MaxSends]]
       /\ accepted' \in [Submissions -> SUBSET Bodies]
  BY <1>1 DEF storeDelivery, GoTo, RowsCounted, IngestTypeOK, Stages
<1> QED
  BY <1>2, <1>8, <1>9, <1>10 DEF storeDelivery, triageVars, RowsCounted, IngestTypeOK

\* A handler that takes an event, or puts it down.
LEMMA HeldMoves ==
  ASSUME RowsCounted, NEW h \in Handlers,
         \A g \in Handlers \ {h} : handler'[g] = handler[g]
  PROVE  /\ ~Holding(h) /\ Holding(h)' => Cardinality(EventsHeld') = Cardinality(EventsHeld) + 1
         /\ Holding(h) /\ ~Holding(h)' => Cardinality(EventsHeld') = Cardinality(EventsHeld) - 1
         /\ (Holding(h) <=> Holding(h)') => Cardinality(EventsHeld') = Cardinality(EventsHeld)
<1>1. /\ ~Holding(h) /\ Holding(h)' => EventsHeld' = EventsHeld \cup {h} /\ h \notin EventsHeld
      /\ Holding(h) /\ ~Holding(h)' => EventsHeld' = EventsHeld \ {h} /\ h \in EventsHeld
      /\ (Holding(h) <=> Holding(h)') => EventsHeld' = EventsHeld
  BY DEF EventsHeld, Holding
<1> QED
  BY <1>1, HeldIsFinite, FS_AddElement, FS_RemoveElement

LEMMA CountedHandler ==
  ASSUME RowsCounted, NEW h \in Handlers, TriageStep(h) \/ TriageThrows(h)
  PROVE  RowsCounted'
<1> DEFINE Shape == [at : {"idle", "claimed", "read"}, seen : CaseRow]
<1>1. /\ handler \in [Handlers -> Shape] /\ subjectCase \in CaseRow
      /\ triageQueue \in Nat /\ usage \in Nat /\ usage <= Cardinality(Submissions)
      /\ triageQueue + Cardinality(EventsHeld) <= usage /\ Cardinality(EventsHeld) \in Nat
      /\ Cardinality(Submissions) \in Nat /\ Idle \in Shape /\ reviewQueue \in Nat
  BY HeldIsFinite DEF RowsCounted, IngestTypeOK, Idle, NoCase, CaseRow, CaseStatuses, Pools
<1>2. ASSUME handler' \in [Handlers -> Shape], UNCHANGED <<body, request, reports, usage>>,
             subjectCase' \in CaseRow, subjectCase'.reportCount = subjectCase.reportCount,
             triageQueue' \in Nat, triageQueue' + Cardinality(EventsHeld') <= usage,
             reviewQueue' \in Nat, throws' \in 0..MaxThrows, UNCHANGED accepted
      PROVE  RowsCounted'
  <2>1. Cardinality(EventsHeld') \in Nat
    <3>1. EventsHeld' \in SUBSET Handlers
      BY DEF EventsHeld
    <3> QED
      BY <3>1, FS_Subset, FS_CardinalityType
  <2>2. triageQueue' \in 0..Cardinality(Submissions)
    BY <1>1, <1>2, <2>1
  <2> QED
    BY <1>2, <2>2 DEF RowsCounted, IngestTypeOK
<1>3. CASE ClaimTriage(h)
  <2>1. /\ handler' = [handler EXCEPT ![h].at = "claimed"] /\ ~Holding(h)
        /\ triageQueue > 0 /\ triageQueue' = triageQueue - 1
    BY <1>3 DEF ClaimTriage
  <2>2. handler' \in [Handlers -> Shape] /\ Holding(h)'
    BY <1>1, <2>1 DEF Holding
  <2>3. Cardinality(EventsHeld') = Cardinality(EventsHeld) + 1
    BY <1>1, <2>1, <2>2, HeldMoves
  <2> QED
    BY <1>1, <1>2, <1>3, <2>1, <2>2, <2>3 DEF ClaimTriage, storedVars, RowsCounted, IngestTypeOK
<1>4. CASE ReadCase(h)
  <2>1. /\ handler' = [handler EXCEPT ![h] = [at |-> "read", seen |-> subjectCase]]
        /\ Holding(h)
    BY <1>4 DEF ReadCase, Holding
  <2>2. handler' \in [Handlers -> Shape] /\ Holding(h)'
    BY <1>1, <2>1 DEF Holding
  <2>3. Cardinality(EventsHeld') = Cardinality(EventsHeld)
    BY <1>1, <2>1, <2>2, HeldMoves
  <2> QED
    BY <1>1, <1>2, <1>4, <2>2, <2>3 DEF ReadCase, storedVars, queueVars, RowsCounted, IngestTypeOK
<1>5. CASE handleCaseReadyForTriage(h)
  <2>1. handler' = [handler EXCEPT ![h] = Idle] /\ Holding(h)
    BY <1>5 DEF handleCaseReadyForTriage, Holding
  <2>2. handler' \in [Handlers -> Shape] /\ ~Holding(h)'
    BY <1>1, <2>1 DEF Holding, Idle
  <2>3. Cardinality(EventsHeld') = Cardinality(EventsHeld) - 1
    BY <1>1, <2>1, <2>2, HeldMoves
  <2>4. subjectCase' \in CaseRow /\ subjectCase'.reportCount = subjectCase.reportCount
    <3>1. \A K : reviewPool(K) \in Pools
      BY DEF reviewPool, Pools
    <3> HIDE DEF Shape
    <3>2. CASE MayTransition(h)
      <4> DEFINE routed == [subjectCase EXCEPT !.pool = reviewPool(handler[h].seen.kinds)]
      <4>1. routed \in CaseRow /\ routed.reportCount = subjectCase.reportCount
        BY <1>1, <3>1 DEF CaseRow
      <4>2. \E s \in {"escalated", "triaged"} : subjectCase' = [routed EXCEPT !.status = s]
        BY <1>5, <3>2 DEF handleCaseReadyForTriage
      <4> HIDE DEF routed
      <4> QED
        BY <4>1, <4>2 DEF CaseRow, CaseStatuses
    <3>3. CASE ~MayTransition(h)
      BY <1>1, <1>5, <3>1, <3>3 DEF handleCaseReadyForTriage, CaseRow
    <3> QED
      BY <3>2, <3>3
  <2>5. reviewQueue' \in Nat
    BY <1>1, <1>5 DEF handleCaseReadyForTriage
  <2> QED
    BY <1>1, <1>2, <1>5, <2>2, <2>3, <2>4, <2>5 DEF handleCaseReadyForTriage, RowsCounted,
       IngestTypeOK
<1>6. CASE TriageThrows(h)
  <2>1. /\ handler' = [handler EXCEPT ![h] = Idle] /\ Holding(h)
        /\ triageQueue' = triageQueue + 1
    BY <1>6 DEF TriageThrows
  <2>2. handler' \in [Handlers -> Shape] /\ ~Holding(h)'
    BY <1>1, <2>1 DEF Holding, Idle
  <2>3. Cardinality(EventsHeld') = Cardinality(EventsHeld) - 1
    BY <1>1, <2>1, <2>2, HeldMoves
  <2>4. throws' \in 0..MaxThrows
    BY <1>6 DEF TriageThrows, RowsCounted, IngestTypeOK
  <2> QED
    BY <1>1, <1>2, <1>6, <2>1, <2>2, <2>3, <2>4 DEF TriageThrows, storedVars, RowsCounted,
       IngestTypeOK
<1> QED
  BY <1>3, <1>4, <1>5, <1>6 DEF TriageStep

LEMMA RowsCountedNext == RowsCounted /\ [IngestNext]_ingestVars => RowsCounted'
<1> SUFFICES ASSUME RowsCounted, [IngestNext]_ingestVars PROVE RowsCounted'
  OBVIOUS
<1> DEFINE Shape == [at : Stages, attempt : 1..3, sends : 0..MaxSends]
<1>1. ASSUME NEW q \in Submissions, SendReport(q) PROVE RowsCounted'
  <2>1. request[q].sends + 1 \in 0..MaxSends
    BY <1>1 DEF SendReport, RowsCounted, IngestTypeOK
  <2>2. request' \in [Submissions -> Shape]
    BY <1>1, <2>1 DEF SendReport, RowsCounted, IngestTypeOK, Stages
  <2> QED
    BY <1>1, <2>2, MovingDelivery DEF SendReport, RowsCounted, IngestTypeOK
<1>2. ASSUME NEW q \in Submissions, assertApplicationMayIngest(q) PROVE RowsCounted'
  <2>1. request' \in [Submissions -> Shape]
    BY <1>2 DEF assertApplicationMayIngest, GoTo, RowsCounted, IngestTypeOK, Stages
  <2> QED
    BY <1>2, <2>1, MovingDelivery DEF assertApplicationMayIngest, RowsCounted, IngestTypeOK
<1>3. ASSUME NEW q \in Submissions, NEW refused \in BOOLEAN, CheckEvidence(q, refused)
      PROVE  RowsCounted'
  <2>1. CASE refused
    BY <1>3, <2>1, CountedReplay DEF CheckEvidence, WithExternalId
  <2>2. CASE ~refused
    <3>1. request' \in [Submissions -> Shape]
      BY <1>3, <2>2 DEF CheckEvidence, GoTo, RowsCounted, IngestTypeOK, Stages
    <3> QED
      BY <1>3, <2>2, <3>1, MovingDelivery DEF CheckEvidence, RowsCounted, IngestTypeOK
  <2> QED
    BY <2>1, <2>2
<1>4. ASSUME NEW q \in Submissions, storeDelivery(q) PROVE RowsCounted'
  BY <1>4, CountedStore
<1>5. ASSUME NEW q \in Submissions, resolveDuplicateDelivery(q) PROVE RowsCounted'
  BY <1>5, CountedReplay DEF resolveDuplicateDelivery, WithExternalId, WithKey
<1>6. ASSUME NEW q \in Submissions, isCreationContention(q) PROVE RowsCounted'
  <2>1. request' \in [Submissions -> Shape]
    <3>1. request \in [Submissions -> Shape] /\ MaxSends \in Nat
      BY DEF RowsCounted, IngestTypeOK
    <3>2. CASE MayStoreAgain(q)
      <4>1. request[q].attempt + 1 \in 1..3
        BY <3>1, <3>2 DEF MayStoreAgain
      <4>2. request' = [request EXCEPT ![q] = [@ EXCEPT !.attempt = request[q].attempt + 1]]
        BY <1>6, <3>2 DEF isCreationContention
      <4> QED
        BY <3>1, <4>1, <4>2
    <3>3. CASE ~MayStoreAgain(q)
      <4>1. request' = [request EXCEPT ![q] = [@ EXCEPT !.at = "answered"]]
        BY <1>6, <3>3 DEF isCreationContention
      <4> QED
        BY <3>1, <4>1 DEF Stages
    <3> QED
      BY <3>2, <3>3
  <2> QED
    BY <1>6, <2>1, MovingDelivery DEF isCreationContention, RowsCounted, IngestTypeOK
<1>7. ASSUME NEW h \in Handlers, TriageStep(h) \/ TriageThrows(h) PROVE RowsCounted'
  BY <1>7, CountedHandler
<1>8. ASSUME SeatJury PROVE RowsCounted'
  <2>1. EventsHeld' = EventsHeld
    BY <1>8 DEF SeatJury, triageVars, EventsHeld, Holding
  <2>2. subjectCase' \in CaseRow /\ subjectCase'.reportCount = subjectCase.reportCount
    BY <1>8 DEF SeatJury, RowsCounted, IngestTypeOK, CaseRow, CaseStatuses
  <2> QED
    BY <1>8, <2>1, <2>2 DEF SeatJury, queueVars, triageVars, RowsCounted, IngestTypeOK
<1>9. ASSUME UNCHANGED ingestVars PROVE RowsCounted'
  BY <1>9, MovingDelivery DEF ingestVars, RowsCounted, IngestTypeOK
<1> QED
  BY <1>1, <1>2, <1>3, <1>4, <1>5, <1>6, <1>7, <1>8, <1>9 DEF IngestNext

(***************************************************************************)
(* Every reachable state of the ingress is well typed: no case counts more *)
(* reports, and no queue holds more events, than there are deliveries.     *)
(***************************************************************************)
THEOREM IngestTypeCorrect == IngestSpec => []IngestTypeOK
<1>1. RowsCounted => IngestTypeOK
  BY DEF RowsCounted
<1> QED
  BY <1>1, RowsCountedInit, RowsCountedNext, PTL DEF IngestSpec
=============================================================================
