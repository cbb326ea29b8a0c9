------------------------------ MODULE Ingestion ------------------------------
(***************************************************************************)
(* Reports of one subject, with one content and under one policy: how they *)
(* are admitted, stored once or recognised, merged into one case, and how  *)
(* the case is triaged.  A transaction of an ingress is one step: its      *)
(* first statement locks the row of the case until it ends.                *)
(***************************************************************************)
EXTENDS Naturals, FiniteSets

CONSTANTS
  Submissions,   \* deliveries; a client sends each again until it is answered
  Bodies,        \* what a delivery may carry: an id of the application's, an
                 \* idempotency key, and a kind of envelope
  ReportsPerDay, \* the quota
  MaxSends,      \* bound: times a delivery is sent
  Handlers,      \* dispatchers that may handle a triage event at a time
  MaxThrows      \* bound: triage handlers that fail

\* Stands for allegation codes and privacy terms: withheld from the community,
\* or with a code of the urgent paths, or neither.
Kinds == {"open", "private", "urgent"}

ASSUME IngestionAssumption ==
  /\ IsFiniteSet(Submissions) /\ IsFiniteSet(Handlers)
  /\ ReportsPerDay \in Nat \ {0} /\ MaxSends \in Nat \ {0} /\ MaxThrows \in Nat
  /\ \A b \in Bodies : DOMAIN b = {"external", "key", "kind"} /\ b.kind \in Kinds

VARIABLES
  body,          \* what each delivery carries
  request,       \* where each delivery is: its place, attempts and sends
  reports,       \* the stored reports
  usage,         \* usage_counters of the day
  subjectCase,   \* the row of cases
  triageQueue,   \* case.ready_for_triage events not yet dispatched
  reviewQueue,   \* case.ready_for_review events ever appended
  handler,       \* the case each triage handler read, and whether it holds an event
  throws,        \* counter of the bound
  accepted       \* reports each delivery was answered with

storedVars == <<reports, usage, subjectCase>>
queueVars == <<triageQueue, reviewQueue>>
triageVars == <<handler, throws>>
ingestVars == <<body, request, storedVars, queueVars, triageVars, accepted>>

CaseStatuses == {"absent", "received", "triaged", "escalated", "under_review"}
Pools == {"none", "community", "specialist"}
CaseRow == [status : CaseStatuses, reportCount : 0..Cardinality(Submissions),
            kinds : SUBSET Kinds, pool : Pools]
NoCase == [status |-> "absent", reportCount |-> 0, kinds |-> {}, pool |-> "none"]
Stages == {"unsent", "check", "evidence", "store", "answered"}

IngestTypeOK ==
  /\ body \in [Submissions -> Bodies]
  /\ request \in [Submissions -> [at : Stages, attempt : 1..3, sends : 0..MaxSends]]
  /\ reports \subseteq Bodies
  /\ usage \in 0..Cardinality(Submissions)
  /\ subjectCase \in CaseRow
  /\ triageQueue \in 0..Cardinality(Submissions) /\ reviewQueue \in Nat
  /\ handler \in [Handlers -> [at : {"idle", "claimed", "read"}, seen : CaseRow]]
  /\ throws \in 0..MaxThrows
  /\ accepted \in [Submissions -> SUBSET Bodies]

Idle == [at |-> "idle", seen |-> NoCase]

IngestInit ==
  /\ body \in [Submissions -> Bodies]
  /\ request = [q \in Submissions |-> [at |-> "unsent", attempt |-> 1, sends |-> 0]]
  /\ reports = {} /\ usage = 0 /\ subjectCase = NoCase
  /\ triageQueue = 0 /\ reviewQueue = 0
  /\ handler = [h \in Handlers |-> Idle] /\ throws = 0
  /\ accepted = [q \in Submissions |-> {}]

GoTo(q, place) == request' = [request EXCEPT ![q].at = place]
-----------------------------------------------------------------------------
\* A client sends a delivery, again if it saw no answer or was told to retry.
SendReport(q) ==
  /\ request[q].at \in {"unsent", "answered"} /\ request[q].sends < MaxSends
  /\ request' = [request EXCEPT ![q] =
                   [at |-> "check", attempt |-> 1, sends |-> @.sends + 1]]
  /\ UNCHANGED <<body, storedVars, queueVars, triageVars, accepted>>

wouldExceedDailyReports == usage >= ReportsPerDay

\* The quota is judged before the transaction that counts the report.
assertApplicationMayIngest(q) ==
  /\ request[q].at = "check"
  /\ GoTo(q, IF wouldExceedDailyReports THEN "answered" ELSE "evidence")
  /\ UNCHANGED <<body, storedVars, queueVars, triageVars, accepted>>

\* Mutant: a delivery is recognised by the index alone, whatever it carries.
SamePayload_Any(r, b) == TRUE

\* The payload hash covers the external id and the envelope, not the key.
SamePayload(r, b) == r.external = b.external /\ r.kind = b.kind

\* Answered with the report already stored, or refused.
ReplayOrRefuse(q, stored) ==
  /\ accepted' = [accepted EXCEPT ![q] =
                    @ \cup {r \in stored : SamePayload(r, body[q])}]
  /\ GoTo(q, "answered")

WithExternalId(q) == {r \in reports : r.external = body[q].external}
WithKey(q) == {r \in reports : r.key = body[q].key}

(***************************************************************************)
(* Oxy is asked about the evidence.  A refusal first looks for this very   *)
(* delivery, which may be stored although its file is gone by now.         *)
(***************************************************************************)
CheckEvidence(q, refused) ==
  /\ request[q].at = "evidence"
  /\ IF refused THEN ReplayOrRefuse(q, WithExternalId(q))
     ELSE GoTo(q, "store") /\ UNCHANGED accepted
  /\ UNCHANGED <<body, storedVars, queueVars, triageVars>>

\* The upsert: creates the case, or merges the report's signals into it.
upsertCaseForReport(kind) ==
  subjectCase' = [subjectCase EXCEPT !.status = IF @ = "absent" THEN "received" ELSE @,
                                     !.reportCount = @ + 1,
                                     !.kinds = @ \cup {kind}]

\* The case, the report, its events and the meter, in one transaction.
storeDelivery(q) ==
  /\ request[q].at = "store" /\ WithExternalId(q) = {} /\ WithKey(q) = {}
  /\ upsertCaseForReport(body[q].kind)
  /\ reports' = reports \cup {body[q]}
  /\ triageQueue' = triageQueue + 1
  /\ usage' = usage + 1
  /\ accepted' = [accepted EXCEPT ![q] = @ \cup {body[q]}]
  /\ GoTo(q, "answered")
  /\ UNCHANGED <<body, reviewQueue, triageVars>>

(***************************************************************************)
(* The transaction is rolled back by the index of external ids or by that  *)
(* of keys: the report it found is this delivery's, or a conflict.         *)
(***************************************************************************)
resolveDuplicateDelivery(q) ==
  /\ request[q].at = "store"
  /\ \E stored \in {WithExternalId(q), WithKey(q)} \ {{}} : ReplayOrRefuse(q, stored)
  /\ UNCHANGED <<body, storedVars, queueVars, triageVars>>

\* Mutant: one attempt too many.
MayStoreAgain_OneMore(q) == request[q].attempt <= 3

MayStoreAgain(q) == request[q].attempt < 3

\* Another delivery creates the case or the day's counter first: three attempts.
isCreationContention(q) ==
  /\ request[q].at = "store" /\ \E p \in Submissions \ {q} : request[p].sends > 0
  /\ request' = [request EXCEPT ![q] =
       IF MayStoreAgain(q) THEN [@ EXCEPT !.attempt = request[q].attempt + 1]
       ELSE [@ EXCEPT !.at = "answered"]]
  /\ UNCHANGED <<body, storedVars, queueVars, triageVars, accepted>>

-----------------------------------------------------------------------------
Holding(h) == handler[h].at # "idle"

\* A dispatcher takes one of the case's events.
ClaimTriage(h) ==
  /\ ~Holding(h) /\ triageQueue > 0
  /\ triageQueue' = triageQueue - 1
  /\ handler' = [handler EXCEPT ![h].at = "claimed"]
  /\ UNCHANGED <<body, request, storedVars, reviewQueue, throws, accepted>>

\* The case is read outside the transaction that writes it.
ReadCase(h) ==
  /\ handler[h].at = "claimed"
  /\ handler' = [handler EXCEPT ![h] = [at |-> "read", seen |-> subjectCase]]
  /\ UNCHANGED <<body, request, storedVars, queueVars, throws, accepted>>

\* Only urgent codes escalate; they go to specialists.
escalate(kinds) == "urgent" \in kinds

\* The tenant only tightens: one report that withheld community review binds the case.
reviewPool(kinds) ==
  IF escalate(kinds) \/ "private" \in kinds THEN "specialist" ELSE "community"

\* Mutant: the transition is decided on the case that was read.
MayTransition_Seen(h) == handler[h].seen.status = "received"

MayTransition(h) == subjectCase.status = "received"

(***************************************************************************)
(* The conditional update out of "received" publishes the case for review; *)
(* a case that is past it has its route refreshed while it may still be.   *)
(***************************************************************************)
handleCaseReadyForTriage(h) ==
  LET kinds == handler[h].seen.kinds
      routed == [subjectCase EXCEPT !.pool = reviewPool(kinds)]
  IN  /\ handler[h].at = "read"
      /\ IF MayTransition(h)
         THEN /\ subjectCase' = [routed EXCEPT
                   !.status = IF escalate(kinds) THEN "escalated" ELSE "triaged"]
              /\ reviewQueue' = reviewQueue + 1
         ELSE /\ subjectCase' = IF subjectCase.status \in {"triaged", "escalated"}
                                THEN routed ELSE subjectCase
              /\ UNCHANGED reviewQueue
      /\ handler' = [handler EXCEPT ![h] = Idle]
      /\ UNCHANGED <<body, request, reports, usage, triageQueue, throws, accepted>>

\* A handler fails or dies; its event is delivered again.
TriageThrows(h) ==
  /\ Holding(h) /\ throws < MaxThrows /\ throws' = throws + 1
  /\ handler' = [handler EXCEPT ![h] = Idle]
  /\ triageQueue' = triageQueue + 1
  /\ UNCHANGED <<body, request, storedVars, reviewQueue, accepted>>

\* Sortition, in its own module, seats a jury from the pool of the row.
SeatJury ==
  /\ subjectCase.status \in {"triaged", "escalated"} /\ reviewQueue > 0
  /\ subjectCase' = [subjectCase EXCEPT !.status = "under_review"]
  /\ UNCHANGED <<body, request, reports, usage, queueVars, triageVars, accepted>>

TriageStep(h) == ClaimTriage(h) \/ ReadCase(h) \/ handleCaseReadyForTriage(h)

IngestNext ==
  \/ \E q \in Submissions :
       \/ SendReport(q) \/ assertApplicationMayIngest(q) \/ storeDelivery(q)
       \/ \E refused \in BOOLEAN : CheckEvidence(q, refused)
       \/ resolveDuplicateDelivery(q) \/ isCreationContention(q)
  \/ \E h \in Handlers : TriageStep(h) \/ TriageThrows(h)
  \/ SeatJury

IngestSpec == IngestInit /\ [][IngestNext]_ingestVars
-----------------------------------------------------------------------------
(***************************************************************************)
(* "Same content is a retry and gets the original reportId": whatever is   *)
(* retried, lost or sent twice at a time, under any key, a delivery is     *)
(* only ever answered with a stored report of its own id and content, the  *)
(* same each time, and one that was accepted is stored.                    *)
(***************************************************************************)
AcceptedIsStored ==
  \A q \in Submissions :
    /\ accepted[q] \subseteq reports /\ Cardinality(accepted[q]) <= 1
    /\ \A r \in accepted[q] : r.external = body[q].external /\ r.kind = body[q].kind

(***************************************************************************)
(* A case is published for review once, when it leaves "received", however *)
(* many of its events are handled, redelivered or overlap.                 *)
(***************************************************************************)
PublishedOnce ==
  reviewQueue = (IF subjectCase.status \in {"absent", "received"} THEN 0 ELSE 1)

(***************************************************************************)
(* "A merged report that withheld community review has to bind the whole   *)
(* case": once its events are handled, a case that is still in triage's    *)
(* hands has the pool its reports call for.                                *)
(***************************************************************************)
PrivacyBinds ==
  /\ triageQueue = 0 /\ \A h \in Handlers : ~Holding(h)
  /\ subjectCase.status \in {"triaged", "escalated"}
  => subjectCase.pool = reviewPool(subjectCase.kinds)
=============================================================================
