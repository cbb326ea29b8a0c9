---------------------------- MODULE CaseRevision ----------------------------
(***************************************************************************)
(* One case's revisions and decisions: the consensus worker that publishes *)
(* (evaluateCase, publishDecision) and the appeal that supersedes          *)
(* (fileAppeal, openCaseRevision), run by any number of concurrent workers *)
(* and requests against the same rows.                                     *)
(*                                                                         *)
(* Every read of a row outside a transaction is a step of its own; a       *)
(* transaction is one step, except that openCaseRevision re-reads the case *)
(* outside the transaction it is called in.  Whether the panel is complete *)
(* and what it voted belongs to Panel: here an evaluation may reach any    *)
(* verdict, or none, in any revision.                                      *)
(***************************************************************************)
EXTENDS Integers, Sequences, FiniteSets

CONSTANTS
  DecisionOutcomes, \* DecisionOutcome
  Appealable,       \* APPEALABLE_OUTCOMES
  MaxCaseRevision,  \* bound: revisions the case may reach
  Deciders,         \* consensus handlers that may overlap
  Filers,           \* appeal requests that may overlap
  Keys,             \* Idempotency-Keys
  Payloads          \* fingerprints of an appeal's content

ASSUME OutcomesAssumption ==
  Appealable \subseteq DecisionOutcomes /\ "none" \notin DecisionOutcomes
ASSUME MaxRevisionAssumption == MaxCaseRevision \in Nat \ {0}

VARIABLES
  case,       \* the row of cases: currentRevision, decidedRevision, status
  decisions,  \* the rows of decisions
  appeals,    \* the rows of appeals
  outbox,     \* the rows this module appends to outbox_events
  decider,    \* what each consensus handler has read so far
  filer       \* what each appeal request has read so far

recordVars == <<case, decisions, appeals, outbox, decider, filer>>

None == 0  \* no decision, no appeal: ids count from 1

CaseStatuses == {"received", "triaged", "escalated", "awaiting_review",
                 "under_review", "decided", "appealed"}

CaseRevisions == 1..MaxCaseRevision

\* An id nobody has used: rows are never deleted.
NewId(rows) == Cardinality(rows) + 1

\* The decision of revision r: one or none, decisions_case_revision_key.
DecisionOf(r) == {d \in decisions : d.revision = r}

IdleDecider == [pc |-> "idle", revision |-> 0, appeal |-> None,
                previous |-> None, previousOutcome |-> "none"]

\* A request that has read nothing, or has forgotten it.  An answer is the
\* appeal it names, or None for a refusal.
Request(pc, k, p, answer) ==
  [pc |-> pc, key |-> k, payload |-> p, revision |-> 0,
   decision |-> None, seen |-> 0, answer |-> answer]

Filing(k, p) == Request("replay", k, p, None)
IdleFiler == Request("idle", "none", "none", None)

CaseRow == [currentRevision : CaseRevisions, decidedRevision : 0..MaxCaseRevision,
            status : CaseStatuses]
DecisionRow == [id : Nat \ {None}, revision : CaseRevisions, outcome : DecisionOutcomes,
                status : {"final", "superseded"}, supersedes : Nat]
AppealRow == [id : Nat \ {None}, key : Keys, payload : Payloads,
              supersededRevision : CaseRevisions, supersededDecision : Nat,
              openedRevision : CaseRevisions]
DeciderState == [pc : {"idle", "appeal", "previous", "publish"},
                 revision : 0..MaxCaseRevision, appeal : Nat, previous : Nat,
                 previousOutcome : DecisionOutcomes \cup {"none"}]
FilerState == [pc : {"idle", "replay", "case", "decision", "open", "commit",
                     "recognise", "done"},
               key : Keys \cup {"none"}, payload : Payloads \cup {"none"},
               revision : 0..MaxCaseRevision, decision : Nat,
               seen : 0..MaxCaseRevision, answer : Nat]

CaseTypeOK ==
  /\ case \in CaseRow
  /\ decisions \subseteq DecisionRow
  /\ appeals \subseteq AppealRow
  /\ decider \in [Deciders -> DeciderState]
  /\ filer \in [Filers -> FilerState]

CaseInit ==
  /\ case = [currentRevision |-> 1, decidedRevision |-> 0, status |-> "received"]
  /\ decisions = {}
  /\ appeals = {}
  /\ outbox = {}
  /\ decider = [w \in Deciders |-> IdleDecider]
  /\ filer = [f \in Filers |-> IdleFiler]

-----------------------------------------------------------------------------
(***************************************************************************)
(* The other writers of the case's status: triage, a draw that committed   *)
(* and a juror who opened a seat, each however late.                       *)
(***************************************************************************)

\* Mutant: the draw writes the status whatever it is.
SeatableStatuses_All == CaseStatuses

SeatableStatuses == {"triaged", "escalated", "appealed"}

MoveStatus(from, to) ==
  /\ case.status \in from
  /\ case' = [case EXCEPT !.status = to]
  /\ UNCHANGED <<decisions, appeals, outbox, decider, filer>>

Triage == MoveStatus({"received"}, "triaged") \/ MoveStatus({"received"}, "escalated")
SeatPanel == MoveStatus(SeatableStatuses, "awaiting_review")
JurorOpens == MoveStatus({"awaiting_review"}, "under_review")

-----------------------------------------------------------------------------
(***************************************************************************)
(* evaluateCase reads the case, ...                                        *)
(***************************************************************************)
ReadCase(w) ==
  /\ decider[w].pc = "idle"
  /\ decider' = [decider EXCEPT ![w].pc = "appeal",
                                ![w].revision = case.currentRevision]
  /\ UNCHANGED <<case, decisions, appeals, outbox, filer>>

(***************************************************************************)
(* ... the appeal that opened its revision (appealForRevision), ...        *)
(***************************************************************************)
ReadAppeal(w) ==
  LET opening == {a \in appeals : a.openedRevision = decider[w].revision}
      learns(a) == decider' = [decider EXCEPT ![w].pc = "previous", ![w].appeal = a]
  IN  /\ decider[w].pc = "appeal"
      /\ \/ \E a \in opening : learns(a.id)
         \/ opening = {} /\ learns(None)
      /\ UNCHANGED <<case, decisions, appeals, outbox, filer>>

PreviousRevision(r) == r - 1

(***************************************************************************)
(* ... and the decision this one will supersede (supersededDecision).      *)
(***************************************************************************)
ReadPrevious(w) ==
  LET previous == DecisionOf(PreviousRevision(decider[w].revision))
      learns(id, outcome) ==
        decider' = [decider EXCEPT ![w].pc = "publish", ![w].previous = id,
                                   ![w].previousOutcome = outcome]
  IN  /\ decider[w].pc = "previous"
      /\ \/ \E d \in previous : learns(d.id, d.outcome)
         \/ previous = {} /\ learns(None, "none")
      /\ UNCHANGED <<case, decisions, appeals, outbox, filer>>

\* The compare-and-swap of publishDecision.
MayDecide(r) == case.currentRevision = r /\ ~(case.decidedRevision >= r)

\* Mutant: every decision that supersedes another is announced as a correction.
IsCorrection_Always(before, after) == before # "none"

IsCorrection(before, after) == before \notin {"none", after}

\* The outbox rows of decision id, published by a worker that read `read'.
DecisionEvents(id, outcome, read) ==
  {[type |-> "case.decided", decision |-> id]}
  \cup (IF IsCorrection(read.previousOutcome, outcome)
          THEN {[type |-> "decision.corrected", decision |-> id]} ELSE {})
  \cup (IF read.previous # None /\ read.appeal # None
          THEN {[type |-> "appeal.decided", decision |-> id, appeal |-> read.appeal]}
          ELSE {})

\* Mutant: the row takes the revision the case was decided at before.
NewDecision_LastDecided(w, o) ==
  [id |-> NewId(decisions), revision |-> case.decidedRevision, outcome |-> o,
   status |-> "final", supersedes |-> decider[w].previous]

NewDecision(w, o) ==
  [id |-> NewId(decisions), revision |-> decider[w].revision, outcome |-> o,
   status |-> "final", supersedes |-> decider[w].previous]

(***************************************************************************)
(* publishDecision: one transaction swaps the case, inserts the decision   *)
(* and appends its events; a lost swap or a duplicate revision publishes   *)
(* nothing.                                                                *)
(***************************************************************************)
PublishDecision(w, o) ==
  LET r == decider[w].revision
      decision == NewDecision(w, o)
  IN  /\ decider[w].pc = "publish"
      /\ decider' = [decider EXCEPT ![w] = IdleDecider]
      /\ IF MayDecide(r) /\ DecisionOf(r) = {}
           THEN /\ case' = [case EXCEPT !.decidedRevision = r, !.status = "decided"]
                /\ decisions' = decisions \cup {decision}
                /\ outbox' = outbox \cup DecisionEvents(decision.id, o, decider[w])
           ELSE UNCHANGED <<case, decisions, outbox>>
      /\ UNCHANGED <<appeals, filer>>

(***************************************************************************)
(* The evaluation waits, expands, throws or dies: it publishes nothing.    *)
(***************************************************************************)
Abandon(w) ==
  /\ decider[w].pc # "idle"
  /\ decider' = [decider EXCEPT ![w] = IdleDecider]
  /\ UNCHANGED <<case, decisions, appeals, outbox, filer>>

-----------------------------------------------------------------------------
(***************************************************************************)
(* fileAppeal.  A request carries its key and its content; a client may    *)
(* send either again at any time.                                          *)
(***************************************************************************)
StartFiling(f, k, p) ==
  /\ filer[f].pc \in {"idle", "done"}
  /\ filer' = [filer EXCEPT ![f] = Filing(k, p)]
  /\ UNCHANGED <<case, decisions, appeals, outbox, decider>>

\* A step of the request alone: it becomes `now'.
FilerStep(f, now) ==
  /\ filer' = [filer EXCEPT ![f] = now]
  /\ UNCHANGED <<case, decisions, appeals, outbox, decider>>

\* The request is answered; nothing it read is kept.
Answered(f, a) == Request("done", filer[f].key, filer[f].payload, a)
Refused(f) == Answered(f, None)

StoredUnder(k) == {a \in appeals : a.key = k}

\* Mutant: a key that was used before is a replay, whatever its content.
SameFiling_AnyContent(a, p) == TRUE

SameFiling(a, p) == a.payload = p

\* recogniseReplay: same content is a replay, different content a conflict.
RecogniseReplay(f, a) ==
  FilerStep(f, IF SameFiling(a, filer[f].payload)
                 THEN Answered(f, a.id)
                 ELSE Refused(f))

ReadReplay(f) ==
  /\ filer[f].pc = "replay"
  /\ \/ \E a \in StoredUnder(filer[f].key) : RecogniseReplay(f, a)
     \/ /\ StoredUnder(filer[f].key) = {}
        /\ FilerStep(f, [filer[f] EXCEPT !.pc = "case"])

\* The case must have a decision on its current revision.
ReadCaseToAppeal(f) ==
  /\ filer[f].pc = "case"
  /\ FilerStep(f, IF case.decidedRevision = case.currentRevision
                    THEN [filer[f] EXCEPT !.pc = "decision",
                                          !.revision = case.currentRevision]
                    ELSE Refused(f))

\* Mutant: any outcome may be appealed.
AppealableOutcome_Any(o) == o \in DecisionOutcomes

AppealableOutcome(o) == o \in Appealable

\* appealableDecision: it must exist, and carry a consequence.
ReadAppealedDecision(f) ==
  /\ filer[f].pc = "decision"
  /\ \/ \E d \in DecisionOf(filer[f].revision) :
          FilerStep(f, IF AppealableOutcome(d.outcome)
                         THEN [filer[f] EXCEPT !.pc = "open", !.decision = d.id]
                         ELSE Refused(f))
     \/ /\ DecisionOf(filer[f].revision) = {}
        /\ FilerStep(f, Refused(f))

\* openCaseRevision reads the case again before its compare-and-swap.
ReadCaseToOpen(f) ==
  /\ filer[f].pc = "open" /\ case.currentRevision < MaxCaseRevision
  /\ FilerStep(f, [filer[f] EXCEPT !.pc = "commit", !.seen = case.currentRevision])

\* Mutant: appeals_application_case_revision_key is missing.
AppealedBefore_Unchecked(r) == FALSE

\* Some appeal of revision r is stored.
AppealedBefore(r) == \E a \in appeals : a.supersededRevision = r

\* Mutant: the new revision leaves the decision it replaces final.
Superseded_Nothing(r) == decisions

\* markSuperseded: the final decision of revision r is superseded.
Superseded(r) ==
  {IF d.revision = r /\ d.status = "final" THEN [d EXCEPT !.status = "superseded"]
                                           ELSE d : d \in decisions}

NextRevision(r) == r + 1

NewAppeal(f) ==
  [id |-> NewId(appeals), key |-> filer[f].key, payload |-> filer[f].payload,
   supersededRevision |-> filer[f].revision,
   supersededDecision |-> filer[f].decision,
   openedRevision |-> filer[f].revision + 1]

(***************************************************************************)
(* The appeal's transaction: its row, the case's next revision, the        *)
(* superseded decision and two events, or nothing.  When both unique       *)
(* indexes refuse the row, which one is reported is the database's choice. *)
(***************************************************************************)
CommitAppeal(f) ==
  LET seen == filer[f].seen
      next == NextRevision(seen)
      appeal == NewAppeal(f)
  IN  /\ filer[f].pc = "commit"
      /\ StoredUnder(filer[f].key) = {}
      /\ ~AppealedBefore(filer[f].revision)
      /\ case.currentRevision = seen /\ case.decidedRevision = seen
      /\ case' = [case EXCEPT !.currentRevision = next, !.status = "appealed"]
      /\ decisions' = Superseded(seen)
      /\ appeals' = appeals \cup {appeal}
      /\ outbox' = outbox \cup
           {[type |-> "case.ready_for_review", revision |-> next],
            [type |-> "appeal.created", appeal |-> appeal.id]}
      /\ filer' = [filer EXCEPT ![f] = Answered(f, appeal.id)]
      /\ UNCHANGED decider

RollBackAppeal(f) ==
  /\ filer[f].pc = "commit"
  /\ \/ /\ StoredUnder(filer[f].key) # {}
        /\ FilerStep(f, [filer[f] EXCEPT !.pc = "recognise"])
     \/ /\ AppealedBefore(filer[f].revision)
        /\ FilerStep(f, Refused(f))
     \/ /\ ~(case.currentRevision = filer[f].seen /\ case.decidedRevision = filer[f].seen)
        /\ StoredUnder(filer[f].key) = {} /\ ~AppealedBefore(filer[f].revision)
        /\ FilerStep(f, Refused(f))

\* After a duplicate key: the appeal stored under it answers the request.
RecogniseDuplicate(f) ==
  /\ filer[f].pc = "recognise"
  /\ \E a \in StoredUnder(filer[f].key) : RecogniseReplay(f, a)

\* The client gives up, or the process dies: the client learns nothing.
DropRequest(f) ==
  /\ filer[f].pc \notin {"idle", "done"}
  /\ FilerStep(f, IdleFiler)

-----------------------------------------------------------------------------
DeciderStep(w) ==
  \/ ReadCase(w) \/ ReadAppeal(w) \/ ReadPrevious(w)
  \/ \E o \in DecisionOutcomes : PublishDecision(w, o)
  \/ Abandon(w)

FilerNext(f) ==
  \/ \E k \in Keys, p \in Payloads : StartFiling(f, k, p)
  \/ ReadReplay(f) \/ ReadCaseToAppeal(f) \/ ReadAppealedDecision(f)
  \/ ReadCaseToOpen(f) \/ CommitAppeal(f) \/ RollBackAppeal(f)
  \/ RecogniseDuplicate(f) \/ DropRequest(f)

CaseNext ==
  \/ Triage \/ SeatPanel \/ JurorOpens
  \/ \E w \in Deciders : DeciderStep(w)
  \/ \E f \in Filers : FilerNext(f)

CaseSpec == CaseInit /\ [][CaseNext]_recordVars
-----------------------------------------------------------------------------
(***************************************************************************)
(* Exactly one decision per decided revision, never one for a revision     *)
(* that was not reached; only the current one is final, and each names the *)
(* one it replaced.  Workers that read the same revision, or a revision    *)
(* already superseded, cannot add to it.                                   *)
(***************************************************************************)
LedgerConsistent ==
  /\ case.decidedRevision \in {case.currentRevision - 1, case.currentRevision}
  /\ \A r \in CaseRevisions :
       IF r > case.decidedRevision THEN DecisionOf(r) = {} ELSE
         \E d \in decisions :
           /\ DecisionOf(r) = {d}
           /\ d.status = IF r = case.currentRevision THEN "final" ELSE "superseded"
           /\ IF r = 1 THEN d.supersedes = None
                       ELSE \E b \in DecisionOf(r - 1) : d.supersedes = b.id

(***************************************************************************)
(* Each revision after the first was opened by exactly one appeal, and     *)
(* that appeal names the decision it disputed and the revision it really   *)
(* opened, although fileAppeal computes both before its transaction.       *)
(***************************************************************************)
AppealsOpenRevisions ==
  /\ \A a \in appeals :
       /\ a.openedRevision = a.supersededRevision + 1
       /\ a.openedRevision <= case.currentRevision
       /\ \E d \in DecisionOf(a.supersededRevision) : a.supersededDecision = d.id
  /\ \A r \in 2..case.currentRevision :
       \E a \in appeals : {x \in appeals : x.openedRevision = r} = {a}

(***************************************************************************)
(* The tenant is told what happened and nothing else: each decision is     *)
(* announced, announced as a correction iff it changed the outcome, and    *)
(* announced to the appeal that asked for it.                              *)
(***************************************************************************)
EventsMatchRows ==
  outbox =
    {[type |-> "case.decided", decision |-> d.id] : d \in decisions}
    \cup {[type |-> "decision.corrected", decision |-> d.id] :
            d \in {x \in decisions : \E b \in decisions :
                     x.revision = b.revision + 1 /\ x.outcome # b.outcome}}
    \cup {[type |-> "appeal.decided", decision |-> x[1].id, appeal |-> x[2].id] :
            x \in {y \in decisions \X appeals : y[1].revision = y[2].openedRevision}}
    \cup {[type |-> "appeal.created", appeal |-> a.id] : a \in appeals}
    \cup {[type |-> "case.ready_for_review", revision |-> r] :
            r \in 2..case.currentRevision}

(***************************************************************************)
(* The status the tenant reads says "decided" exactly while the current    *)
(* revision has a decision, whatever late draw or juror writes it.         *)
(***************************************************************************)
StatusTells == case.status = "decided" <=> case.decidedRevision = case.currentRevision

(***************************************************************************)
(* A request answered with an appeal is answered with its own: the one     *)
(* stored under its key, with its content.                                 *)
(***************************************************************************)
AnswersAreOwn ==
  \A f \in Filers :
    filer[f].pc = "done" /\ filer[f].answer # None =>
      \E a \in appeals : /\ a.id = filer[f].answer
                         /\ a.key = filer[f].key
                         /\ a.payload = filer[f].payload

(***************************************************************************)
(* "200 on a retry of one already stored": a retry is not refused once the *)
(* appeal it repeats is stored.                                            *)
(***************************************************************************)
RetryNotRefused ==
  [][\A f \in Filers :
       /\ filer[f].pc \notin {"idle", "done"}
       /\ filer'[f].pc = "done" /\ filer'[f].answer = None
       => ~\E a \in appeals : a.key = filer[f].key /\ a.payload = filer[f].payload]_recordVars

-----------------------------------------------------------------------------
(***************************************************************************)
(* The rows implement the abstract ledger.                                 *)
(***************************************************************************)
Ledger == INSTANCE CaseLedger WITH
  Outcomes <- DecisionOutcomes, MaxRevision <- MaxCaseRevision,
  ledger <- [r \in 1..case.decidedRevision |->
               (CHOOSE d \in decisions : d.revision = r).outcome],
  awaiting <- case.decidedRevision # case.currentRevision

(***************************************************************************)
(* Decisions are only ever added, one per revision, and a revision is      *)
(* opened only over a decision that may be appealed.                       *)
(***************************************************************************)
ImplementsLedger == Ledger!Spec
=============================================================================
