# CrowdSource: verification of the moderation pipeline

CrowdSource takes reports about content from tenant applications, groups them
into cases, draws a jury for each case, publishes the decision the jury agrees
on, and lets the tenant appeal it. This directory holds TLA+ modules translated
from the code under `src/`, TLC configurations that check them on small
instances, and TLAPS proofs of what holds for every value of their constants.
Paths below are relative to `src/packages/backend/src/` unless they start with
`src/`.

## 1. The system

A report becomes a case (`ingestion`), which is triaged, seated, judged,
decided and possibly appealed. No stage calls the next one: each commits its
rows together with an event in `outbox_events`, and the dispatcher calls the
handler of the next stage.

    report ──▶ case.ready_for_triage ──▶ triage
                                          │ case.ready_for_review
                     ┌────────────────────▼─────────────┐
      appeal ───────▶│ sortition: draw, replace, expand │◀── assignment.vacated
        ▲            └────────────────────┬─────────────┘
        │                     seats       ▼ jurors vote ── review.submitted
        │                          consensus: wait, expand or publish
        │                                 │ case.decided, decision.corrected,
        └──────── tenant ◀── webhooks ◀───┘ appeal.decided

### Components

| component | state it keeps | operations | what is hard about it | what makes it correct |
|---|---|---|---|---|
| **Outbox and dispatcher** `modules/outbox`, `db/postgres/repositories/outbox.ts` | `outbox_events`: status, attempts, available_at | append, claim with a lease, complete, fail with back-off, dead-letter | a timer that starts passes without waiting for the last one, several processes, a lease measured from the start of a pass, completion by id alone | nothing completed unhandled, nothing given up early, nothing lost, one handler per row while leases hold |
| **Decisions and revisions** `modules/decision` | `cases.current_revision`, `decided_revision`, `status`; `decisions` | publishDecision, openCaseRevision, markSuperseded | several consensus workers and an appeal on the same case; reads before the transaction | one decision per revision, linked, superseded once; events that say what happened |
| **Appeals** `modules/appeals` | `appeals` | fileAppeal | retries that overlap the original, two unique indexes, two reads of the case | each later revision opened by one appeal; answers that are the caller's own |
| **Consensus worker** `modules/consensus` | none of its own | evaluateCase, expandPanel | several evaluations at once, evaluation while seats change | a decision heard its jury and has its votes |
| **Consensus engine** `modules/consensus/consensus.ts` | none: a computation | evaluateConsensus, requiredAgreeingVotes; appealRequiredVotes of `modules/appeals` | ties, requirements nobody on the panel can meet, a bar that rises with each appeal | a majority behind every decision, a bar a unanimous panel can always reach |
| **Sortition** `modules/sortition` | `assignments`, `sortition_draws` | initial, replacement and expansion draws, recuse, expire, open a seat | redelivered events, a pointer written after the draw's transaction, a case that moves during a draw | nobody serves twice, no second wave, the panel keeps its shape, a case ends |
| **Reviews** `modules/review` | `reviews` | submitReview | concurrent with expiry and evaluation | one ballot per seat |
| **Triage** `modules/triage` | classification columns of `cases` | handleCaseReadyForTriage | the case merges reports between the read and the write | published once; a case whose terms forbid the community stays out of its pool |
| **Ingestion** `modules/ingestion`, `modules/cases` | `reports`, `cases`, `usage_counters` | deliverReport, find or create the case | two reports create one case at once; a retried report, with the same key or the same id; a quota judged before it is counted | one case per identity, each report stored and counted once, a client that is told so |
| **Webhook delivery** `modules/webhooks` | `webhook_deliveries`, `webhook_attempts` | fan-out, claim, attempt, retry, dead-letter, manual replay | an outcome written by id, a catch that records an attempt again, two operators | the history says what was settled, a success stays one |
| **Webhook endpoints** `modules/webhooks` | `webhook_endpoints`, their secrets | register, disable, rotate with overlap | rotations that race and stall | always a secret that signs, never three live |
| **Community notes** `modules/communityNotes` | notes, revisions, assignments, ratings | write, assign, rate, withdraw, rescore | rescoring while ratings arrive and notes are withdrawn | a revision and an event for each change, none for what is no change |
| **Account erasure** `modules/accountErasure` | `account_erasures`, the feed's cursor | push, pull, claim, erase in transactions, finish | two tasks on one feed, a run that outlives its lease, a crash between steps | no deletion skipped, completed means erased, everything erased in the end |
| **Evidence files** `modules/evidence` | `case_evidence_files`, `oxy_file_events`, what Oxy holds | ingress check, references added and removed, file events, reconciliation | events in any order, calls whose answer is lost, passes that overlap a reconciliation | what is shown may be shown, Oxy's record is exact |
| **Reviewer profiles** `modules/reviewer` | `reviewer_profiles` | ensure, preferences, training, calibration, counted reviews, promotion | read-modify-writes of requests that overlap | only the qualified are drawn |
| **Trust and quotas** `modules/trust` | usage counters, standings | admit a request | the counter at its limit | no more than the quota, but for requests in flight |
| **Tenancy, console, policy, identity, audit, HTTP** | rows and lookups | administration | two revocations at once | ownership of rows |
| **SDK** `src/packages/core` | the tenant's own outbox, event log, enforcement ledger, reports | deliver reports, receive webhooks, plan and execute enforcement, reconcile | duplicated and reordered webhooks, retries across two systems, crashes between an effect and its record | an event handled once, an action applied once and restored when corrected, a newer decision never overwritten |
| **Contracts, frontends** `src/packages/contracts`, `console`, `reviewer` | none | schemas, user interfaces | none | none |

`PROJECT.json` lists each of them with its status, and under `hazards` the
places in the code where things can go wrong that a test would hardly reach,
each with the property that would notice.

## 2. Modules

| module | models | extended or used by |
|---|---|---|
| `Outbox` | the outbox table and `runOnce` | `MCCases`, `MCServices`, `DeliveryProofs` |
| `CaseLedger` | *abstract*: what a case's decisions promise its tenant | `CaseRevision` (refinement) |
| `CaseRevision` | `evaluateCase`/`publishDecision` against `fileAppeal`/`openCaseRevision` | `MCCases`, `MCCaseRevision`, `CaseRevisionProofs` |
| `Panel` | the jury of a case: sortition and consensus workers, jurors, redelivery | `MCCases`, `MCPanel`, `MCServices`, `PanelProofs` |
| `ConsensusRules` | the consensus engine over a case's juries and appeals | `MCDelivery`, `JudgementProofs` |
| `ReviewerProfile` | a reviewer's profile under requests that overlap | `MCReviewer`, `MCDelivery`, `JudgementProofs` |
| `Ingestion` | reports on their way into a case, and its triage | `MCIngestion`, `MCDelivery`, `IngestionProofs` |
| `WebhookDelivery` | fan-out, delivery passes, retries, replay | `DecisionChannel`, `WebhookProofs` |
| `WebhookInbox` | the SDK's middleware and event log | `DecisionChannel` (INSTANCE) |
| `DecisionChannel` | *composition* of the two | `MCDelivery`, `MCChannel`, `WebhookProofs` |
| `Integration` | the SDK's outbox, report delivery, enforcement and reconciliation | `MCIntegration`, `MCDelivery`, `IntegrationProofs` |
| `EvidenceFiles` | one evidence file, the cases naming it, and Oxy | `MCServices`, `ServiceProofs` |
| `AccountErasure` | the feed of deletions and the erasures | `MCServices`, `ServiceProofs` |
| `CommunityNotes` | notes, ratings and rescoring | `MCServices`, `ServiceProofs` |
| `WebhookEndpoints` | an endpoint and its secrets | `MCServices`, `ServiceProofs` |
| `PanelProofs`, `IngestionProofs`, `IntegrationProofs` | theorems about the module each is named for | |
| `DeliveryProofs` | theorems about `Outbox`, and about `MCDelivery` as a whole | |
| `CaseRevisionProofs` | theorems about `CaseRevision`, and that it implements `CaseLedger` | |
| `JudgementProofs` | theorems about who judges and how: `ReviewerProfile`, `ConsensusRules` | |
| `WebhookProofs` | theorems about `WebhookDelivery` and `DecisionChannel` | |
| `ServiceProofs` | theorems about `AccountErasure`, `EvidenceFiles`, `CommunityNotes` and `WebhookEndpoints`, and about `MCServices` as a whole | |
| `MCCaseRevision`, `MCPanel`, `MCChannel`, `MCIngestion`, `MCIntegration`, `MCReviewer` | instances of one module for TLC | the `.cfg` files |
| `MCCases`, `MCDelivery`, `MCServices` | instances of several modules, of which a behaviour runs one (its `focus`) | the `.cfg` files |

The components of `MCCases`, `MCDelivery` and `MCServices` share no state: each is given
any input the one before it could hand over (any envelope, any order of events,
any outcome). A behaviour therefore chooses a `focus` and leaves the other
modules' variables as they start. What does interact is composed in one
behaviour: evaluation with appeals (`CaseRevision`), sortition with consensus and
jurors (`Panel`), ingress with triage (`Ingestion`), sender with receiver
(`DecisionChannel`), and the SDK's workers with each other (`Integration`).

### Outbox

One action per step of `runOnce`: `StartRun` (the timer), `ClaimNext` (the one
guarded UPDATE), `HandlerReturns` or `Throws`, `MarkDispatched` or `MarkFailed`,
`EndRun`; `Crash` anywhere; `AppendOutboxEvent` for the domain's transaction.
`ClockTicks` advances time for every row and pass together; times are kept
relative to the present, so no clock grows without bound.

`startOutboxDispatcher` calls `void runOnce()` every second and keeps no record
of the passes in flight, so passes overlap in one process as well as between
processes. A pass reads the clock once, and the code uses that reading for the
due test and for the lease of all of its up to 25 claims: `age[p]` is how old it
is. The lease of a late claim may therefore end while its handler runs, or be
over when it is taken, without anything being slow or broken. The module and its
runs let that happen: `RunMax` exceeds `Lease`, and `lapsed` remembers the rows on
which a lease ran out under a pass. What the lease gives is then stated exactly:
two handlers on a row, a late write over a settled row and a retry past the
attempt limit happen only on rows in `lapsed`.

`attempts` is the row's counter and `copy` the value the claim returned to the
pass, which is the one `markFailed` decides on. `MarkDispatchedUnacknowledged` is
a completion that commits and whose reply is lost: the `catch` then records a
failure over it, and the row is handled again. `SettledIsFinal` excepts it,
because nothing in the code tells it from a handler that threw. Handlers are
opaque: they return or throw. Whether an event has a consumer is a constant.
`drainOutbox` is `runOnce` repeated. A failing back-off write outside the `try`
block ends the pass with the row still leased, as a crash does, and is `Crash`.

### CaseRevision and CaseLedger

Each read outside a transaction is a step, with what it read kept in
`worker[w]` or `filer[f]`; each transaction is a step. `evaluateCase` reads the
case, then the appeal of its revision, then the decision it will supersede, then
publishes; `fileAppeal` looks for its key, reads the case, the decision, the
case again (`openCaseRevision`), and commits or rolls back. The unique indexes
are guards, and when an insert violates both, either may be the one reported.
Evaluation reaches any verdict in any revision: whether the jury agrees is
Panel's question, so what is shown here holds whatever the jury does. Draws and
jurors appear as the late writers of `cases.status` they are.

`CaseLedger` is the promise made to the tenant: an append-only list of outcomes,
one per revision, a new revision only over an outcome that may be appealed. The
refinement mapping takes the outcomes in the order of their revisions.

### Panel

`HandleCaseReadyForReview`, `HandleAssignmentVacated` and `EvaluateCase` are the
three handlers' entry checks; `ReadBallots` is `evaluateConsensus` and what
follows from it; `OpenPanel` reads the case, its seats and the pool and samples;
`CommitDraw` is the draw's transaction, which looks at nothing again but the
unique index of one seat per juror and revision; `LinkReplacement` writes the
pointer of the seat replaced, after that transaction; `Publish` is
publishDecision's compare-and-swap. `worker[w]` is what a handler has read so
far. Events are delivered until acknowledged; `Die` ends a handler anywhere.
`Workers` is how many handlers run at once and `Overlap` says whether two of them
may have the same event, as they do when a lease ends under one. Both happen in
one process (see Outbox).

A draw decides on what it read and its transaction checks nothing again, so
handlers in flight on one case can spoil each other's work: that is what
`panel_second_wave` shows. `crossed` holds the handlers that changed a panel
(`CommitDraw`, `LinkReplacement`) while another one was between its read of the
panel and its write (`InFlight`). `JuryWasHeard`, `JurorsServeOnce`,
`OneWaveUncrossed` and `PanelKeepsItsSpec` hold up to the first such crossing, in
any behaviour of any number of handlers that overlap, die and are run again:
overlap as such breaks none of them. `DecisionHasQuorum` holds without that
exception.

Abstractions: `offered` and `accepted` are one status (`open`), as are `recused`
and `expired` (`vacated`): nothing modelled tells them apart. A seat's fallback
class, the sampling weights, the risk clusters and the affinities decide only
who among the unseated is eligible, so any of them may be drawn, and a draw may
be refused although enough are left (`MaxRefusals`). A handler's reads of the
case and of its seats, adjacent in the code, are one step. The case is of
`standard` sensitivity and the community pool, whose consensus has no structural
requirement. Dead letters belong to Outbox: an event here is retried for as long
as it throws.

### ConsensusRules

A case's juries vote (`CastBallot`), are evaluated once every seat has voted
(`EvaluateConsensus`), and are appealed (`FileAppeal`). Positions, ladder,
minimum votes per risk and the appealable outcomes are parameters; the run gives
them the source's values. A position is one key, with the family of its finding
and whether its severity is at least high, which is all that the structural
requirements (`UnmetRequirements`) read. Of jurors, only whether somebody trusted
and some specialist sits on the panel matters. Confidence and the scope of a
finding are carried by the decision, and nothing decides by them.

### ReviewerProfile

A request first resolves the profile (`EnsureReviewerProfile`: insert or
refresh), then makes its change. Every change is `mutateProfile`'s
read-modify-write: `ReadAndMerge` reads the row, checks the change of state
against the transitions and derives the confidence; `WriteProfile` updates the
columns that change names, in whatever the row has become. The state moves of
`openCalibrationIfReady`, `submitCalibration` and the promotions read what the
previous write returned. `RecordSubmittedReview` counts a review and promotes in
the review's own transaction. Dates are TRUE once set; a grade is the set of
promotions its reliability is good enough for.

### Ingestion

Reports of one subject, with one content and under one policy: the case that
matters is the one they share. A delivery is sent, judged
(`assertApplicationMayIngest`: the replay by key, then the quota), has its
evidence checked, and is stored by one transaction (`storeDelivery`) or
recognised by the report that was stored first (`resolveDuplicateDelivery`:
replay, conflict, or a second key for the same id). The transaction is one step
because its first statement, the case upsert, locks the row of the case to the
end; `isCreationContention` is the retry, three attempts at most. Clients send
again until they are answered. Triage takes an event (`ClaimTriage`), reads the
case (`ReadCase`) and writes its route in a transaction of its own
(`handleCaseReadyForTriage`), so reports may merge in between; `SeatJury` is the
draw that takes the case out of triage's reach. Allegation codes and privacy
terms are three kinds: open, private, urgent.

### WebhookDelivery, WebhookInbox and DecisionChannel

The fan-out reads the endpoints (`FanOutReads`) and inserts one row each. A pass
claims a due row, reads the endpoint, sends, inserts the attempt's row, writes
the outcome and, after a 410, disables the endpoint, a step each; the `catch`
around the last three records the attempt again, as the code's does, also when
the write it follows had committed (`OutcomeUnacknowledged`). Time is `rowDue`:
the row's next attempt, or its lease, has been reached. It is reached at any
moment (`TimePasses`), for the reason it is in Outbox: `runWebhookPass` leases up to
25 rows from the clock it was started with, and each attempt may take ten
seconds of the lease's sixty. `outrun` remembers the rows that fell due under a
pass still on them. `ReplayReads` and `ReplayWrites` are an operator's replay of a
dead letter.

Outcomes and replays are written by the delivery's id, whatever the row has
become. `SuccessIsFinal` says what that leaves of "a delivery that succeeded stays
so": it may be reopened by an operator who had read the dead letter before, or by
a pass that is still on the row because the row fell due under it (`outrun`),
because it was replayed under it (a pass that dead-letters a row after a 410 has
not left it yet when it disables the endpoint), or because its own success was
not acknowledged. Nothing in the code prevents these, and nothing else reopens
one: no repeated fan-out, no claim, no pass that was alone on the row.

On the other side a request claims its event id, handles it
(`RecordDecisionEvent`), and releases the claim when the handler throws;
`ReleaseFails` and `AppCrash` leave it claimed, and the replies to the claim, the
record and the release may each be lost after they committed (`ClaimReplyLost`,
`RecordReplyLost`, `ReleaseReplyLost`): a handler that was not told its record
was written throws and releases the claim of an event that is queued, which is
why `HandledOnce` excepts the events in `unheard`. `DecisionChannel` joins the two
sides: what the sender records is what the application answered (`Receive`), or
that it did not answer in time (`NoAnswer`), while the application may still be at
work on the request when the event arrives again.

That the claim is answered as a duplicate before its handler has finished loses
decisions: `DecisionNotLost` says that what the sender has recorded as delivered
is queued or still being handled, and `decision_lost` refutes it with one pass and
without any fault. The first request is slower than ten seconds, the sender
tries again, is told `duplicate` and records a success; then the first handler
throws and releases a claim nobody asks for again. A process that dies after its
claim does the same.

### Integration

The tenant's side over one reported object and the case its reports belong to.
`Claim`, `Complete` and `Fail` are the SDK's outbox, where only the task that
still holds a row's lease may settle it; a heartbeat renews leases, so a lease
ends (`LeaseEnds`) only under a task that died or stalled. `Describe`, `Send`,
`MarkSubmitted` and `MarkDeliveryFailed` deliver a report. `FindReports` to
`ApplyDecision` apply a decision: per action of the plan, claim its entry in the
enforcement ledger, look up what it reverses (`LatestApplied`), carry it out
(`Act`), record it, or release the claim if it threw; then write the decision to
the reports, unless they carry a newer one. `SweepStarts` and `SweepOne` are the
reconciliation. `Plan` gives each revision its actions, in the order the planner
emits them; the effects are those of the repository's own test harness, external
code that `map` marks as such. Decisions are final ones: a provisional
one would leave its reports waiting (`reportStatus.ts` of the SDK), but
`publishDecision` publishes none. The reports a revision found are kept for each
outbox row (`found`), because a row delivered again looks them up again and finds
others; a plan is never empty.

Revisions arrive in any order and any plan is allowed; what is excepted from the
reversal is written in the property. `ReversalRestores` says that once everything
is settled a correction has left the object as its author made it.
`decision_order` refutes it when the correction comes first, and
`reversal_stacked` refutes it with every revision in its turn
(`ReversalRestoresInTurn`) for a label over a restriction: the restoration reads
only the newest row of what it reverses, and that row says nothing of the status.
The SDK's own test expects that outcome (`enforcementReversal.test.ts`, "reads the
most recent applied row across the whole declared set").
`ReversalRestoresUninterrupted` is what holds: it excepts behaviours in which a
process died, stalled or failed to write (`tainted`), a revision came early
(`early`), a label masks a restriction (`Masked`), or one decision both takes and
gives back (`Contradictory`).

### EvidenceFiles

One file at Oxy. A report passes the ingress check and its row is inserted
later, in the report's transaction; a pass of the reference worker claims the
rows that are owed a call, calls Oxy once for the additions and once for the
removals, and settles each row, unless it lost it; Oxy's events (`OxyChanges`)
are delivered in any order, more than once (`acceptFileEvent`); the nightly
reconciliation reads the rows case by case and tells Oxy to forget what it did
not see. A call may fail after it was carried out. Visibility is left out, and
of the statuses that withhold a file `blocked` stands for `trash` and `unknown`.

### AccountErasure

`handleAccountEvent` is Oxy's push, which may never come. A task reads the feed
under a lease (`claimAccountEventFeed`, `list`), records each event of a page
(`acceptAccountEvent`) and moves the cursor while it owns the feed
(`advanceAccountEventCursor`). A run claims an erasure and goes through its
transactions in order (`eraseInPlace`; reports and cases are rewritten a page at a
time), then completes or fails the row by its event's id alone. Tasks die
(`PullEnds`, `EraserDies`) and leases lapse under them. What a transaction
rewrites in a row is left out: a row names the account or does not.

### CommunityNotes

Notes are written, assigned, rated, withdrawn and rescored. Rating and
withdrawing read the note first and commit later; a rescore reads the ratings,
then the notes' revisions, then moves each note whose status the fit of the
ratings changed, if it still has the revision that was read. `Fit` is a parameter:
the instance takes the majority for the matrix factorisation, so that the status
follows the ratings, and the proofs assume of it only that it yields a status.

### WebhookEndpoints

Registering a known URL revives it; disabling; and rotation, which reads the
clock, then the live secrets, then commits a version whose number is unique,
with the cutover its caller asked for. `Tick` is the clock, because here the
times themselves are the state.

## 3. Runs

| run | instance | shows |
|---|---|---|
| `delivery` | seven foci: ingestion, profile, rules, passes, channel, integration, disorder | a report is stored and published once and judged by the qualified with a majority; a decision is delivered on record, handled once, applied once and undone when corrected |
| `services` | six foci: outbox, jury, files, erasure, notes, keys, with fairness | every row with a consumer ends completed or dead-lettered, a jury that loses a juror and a handler decides, evidence shown may be shown and is referenced exactly, no deletion is skipped and all are erased, notes and secrets stay consistent |
| `cases` | four foci: outbox, jury, handlers, record | nothing is completed unhandled nor given up with attempts left, and handlers meet on a row only where a lease ran out; a decision heard its jury and has its votes, nobody serves twice, the panel keeps its shape; rows, events, status and answers of the case's record stay consistent and implement `CaseLedger` |
| `appeal_retry` | *violated*: `RetryNotRefused` | a retry that overlaps its original is refused although the appeal it repeats is stored |
| `panel_second_wave` | *violated*: `OneWavePerRound` | two evaluations of one complete panel both expand it |
| `panel_replacement` | *violated*: `ReplacementKeepsRound` | the replacement on an expanded panel is drawn to the previous round's specification |
| `panel_refused` | *violated*: `RefusedIsDrawnAgain` | nothing draws again after a refused draw |
| `triage_overlap` | *violated*: `PrivacyBinds` | of two triages of one case the one that read first may write last, and the privacy terms of the later report are lost |
| `decision_order` | *violated*: `ReversalRestores` | a correction applied before the decision it corrects undoes nothing, and the late decision's action stays |
| `reversal_stacked` | *violated*: `ReversalRestoresInTurn` | the correction of a restriction that was labelled later gives back what the label replaced, and publishes a draft |
| `decision_lost` | *violated*: `DecisionNotLost` | a handler slower than the sender's timeout: the event sent again is answered as a duplicate, and the first handler then throws |
| `profile_drift` | *violated*: `ConfidenceIsDerived` | of two requests that write a profile at once, one stores a confidence derived from a row the other has changed |

A violated run checks one sentence the repository states about the program, as
the code is; `findings` in `PROJECT.json` quotes the sentence and tells how the
code departs from it.

### Bounds, and why they are enough

*Outbox* (in `cases`; `services` has it with fairness). Two passes suffice for
every conflict over a row, because a conflict is between a pass that lost its
lease and one that took over. A pass lasts up to three units and a lease two, so
leases end under handlers; two claims per pass let the second be leased late;
`MaxAttempts` 2 is a first failure with a retry and a last one. One pass dies.
`attempts` saturates one above `MaxAttempts`: it is only compared with it.
`RunMax` and `HandlerMax` bound how long a pass and one iteration last,
`MaxRunCrashes` the passes that die.

*CaseRevision.* Two workers and two requests are every race of two; three
revisions have an appeal of an appeal's decision. Two keys and two contents give
a retry, a reuse of a key and a competing appeal; the fourth combination, other
contents under the other key, adds none (`ThreeFilings`).

*Panel.* The ladder is the code's in shape and smaller in numbers: rounds of 2
and 3 seats for its 3, 5 and 7, two votes for its 3, 4, 5, one specialist seat
from the second round on. It keeps what matters: the first round must be
unanimous, the last need not be, an expansion adds seats of another type, an
appeal starts on the higher round. Five jurors seat one panel of three and leave
two: enough for an expansion and a replacement, too few for some later draws,
so the refusal for want of people happens as well. The focus `jury` runs one
handler at a time through a decision and its appeal (`OneAtWork`), with two
vacancies, a refusal and a death; `handlers` runs two that overlap, also on one
event, over the first revision with one vacancy (`FewMishaps`). `MaxVacated`,
`MaxRefusals`, `MaxCrashes` and `MaxRevision` bound how often each of those
happens. `services` takes the same ladder with one vacancy, one crash and no refusal: with a refusal
the case waits for ever, which is `panel_refused`.

*ConsensusRules.* The source's ladder and votes, all three risks, four positions
(none, inconclusive, one finding, one serious finding of another family), and
two appeals: the second is where a bar that did not stop at the panel's seats
would pass them.

*ReviewerProfile.* Two sessions are every race of two. Two training modules, so
that completing one is not completing all; each promotion is reached within two
reviews.

*Ingestion.* Two deliveries with five envelopes between them: the same report
under one key, under two, two reports under one key, other terms, another id. A
quota of one is at its limit with the first report. Two sends, two triage
handlers and one that throws.

*Channel.* One endpoint and one event, because rows of different endpoints and
events share nothing; two attempts, of which client errors may use one. In
`passes` two passes overlap and leases end under them, with one failed or
unacknowledged write, dead pass or replay, and a receiver that may answer
anything. In `channel` passes come one after the other and the application is
there too, with two requests at a time, one fault of its own, and one fault or
replay of the sender (`OneMishap`).

*Integration.* Two reports and three revisions, planned as flag, then restrict,
then restore and unflag: an action on top of another, and a reversal of both. Two
tasks, one attempt beyond which a row is dead, one fault, one deletion, expiry or
refusal, and a draft, the author's status a restoration must not publish. In
`integration` revisions come in turn, with one interruption or one trouble, or both
while the last revision has not come (`OneTrouble`); in `disorder` they come in any
order and nothing fails: together they are the two halves of what
`AppliedDecisionStands` and `AppliedOnce` speak of.

*Services.* One case with two reference passes, three changes of the file, one
failed call and one reconciliation; two deletions (one that does not verify), two
tasks on the feed, two runs, a place rewritten at once and one rewritten by
pages, two mishaps; one note, two raters, two rescores; two rotations at once
over three versions and three instants, with and without overlap.

`MCDelivery` and `MCCases` take tasks, requests, sessions, handlers, passes and
deciders from one set of two interchangeable actors, and reports, submissions,
events and requests from one of two interchangeable items: permuting a set
renames only what is in focus, and no property there is a liveness property.

Configurations that say `CHECK_DEADLOCK FALSE` do so because the system really
stops: a decided case that is not appealed has nothing left to do, nor have
deliveries, decisions and reports once each was settled.

### Fairness

`Outbox`: time passes, and a pass that can take a step takes one (the timer
keeps firing, a handler settles, its row is written). Crashes are bounded and
need no fairness. Nothing obliges a handler to succeed.

`Panel`: a handler that can step does, because the outbox retries it; and an
open seat does not stay open, because its juror votes or recuses or the expiry
sweep vacates it. Which juror is drawn and what they vote is free.

`EvidenceFiles` and `AccountErasure`: the workers' timers keep firing (a pass, a
pull or a run that can take a step takes one), a row whose back-off or lease ends
falls due, and leases pass. Failed calls and dead tasks are bounded and need no
fairness, and neither has Oxy's push, which may never come.

No fairness is assumed of clients, of appeals, of tenants, or of the pool of
reviewers.

## 4. Proofs

| theorem | for every | argument |
|---|---|---|
| `DeliveryProofs!TypeCorrect` | value of the constants | inductive by itself |
| `DeliveryProofs!CompletionIsEarned` | number of passes, lease, crashes | strengthened with: a pass that has returned is in `handled`, and holds a consumed row |
| `DeliveryProofs!DeadLetterIsEarned` | the same | strengthened with: a pass's copy never exceeds the row's counter, which never falls |
| `DeliveryProofs!LeaseExcludes`, `RetriesStayInBudget`, `SettlementIsFinal` | the same, passes as long as they like | on a row outside `lapsed` the lease still outlasts whoever holds it, `due[held[p]] >= Lease - age[p] > 0`, so its holder is unique and its copy of `attempts` is the row's |
| `CaseRevisionProofs!TypeCorrect`, `LedgerIsConsistent`, `AppealsAreConsistent`, `StatusIsRight`, `AnswersAreRight` | number of workers, requests, revisions, keys, contents | one inductive invariant: ids are the counts of finite sets, what a worker or a request has read is still true or can no longer commit, and the status never reads `decided` early |
| `CaseRevisionProofs!EventsAreRight` | the same | under that invariant the previous outcome and the appeal a worker announces are still those of the rows, and a superseded row changes no event |
| `CaseRevisionProofs!RowsImplementLedger` | the same | under that invariant the publishing transaction appends one outcome, the committed appeal opens the next revision, and every other step leaves the mapped ledger alone |
| `PanelProofs!TypeCorrect` | number of reviewers, rounds, revisions, handlers | one lemma for each thing a handler does to its record or its event |
| `PanelProofs!DecisionsHaveQuorum` | the same, overlapping or not, if `AppealMinRound < MaxRound` | what a handler about to publish has counted can only grow: ballots are never withdrawn, and the bar of a revision is set once, before its panel opens |
| `PanelProofs!NobodyServesTwice` | the same, overlapping or not, up to the first crossing | those a handler is about to seat sit nowhere: only a draw's transaction seats anybody, and while it crosses nobody no other handler holds a sample it could spoil; only a vacated seat is ever linked to its replacement |
| `PanelProofs!JuriesAreHeard` | the same | a draw is only prepared for the current, undecided revision; what a handler in flight has read of a panel stays true until something crosses it, so the ballots it publishes on are those that are counted once more; a decided panel is complete and nothing is drawn into it afterwards |
| `PanelProofs!SpecsAreKept` | the same | for each round drawn, each type of seat is held or owed: a draw asks for what its round still lacks and its people are new; a replacement's transaction seats its type before the pointer lets go of the seat that was left, so until then one seat counts twice |
| `PanelProofs!NoSecondWave` | the same | the same invariant, and a count: a complete panel that fills every type of a round has as many seats as that round (an injection of its slots into the seats), so its own round is that one or higher, and an expansion goes to a round above, which is no round drawn before |
| `JudgementProofs!MajorityDecides` | ladder whose rungs ask for majorities, positions, minimum votes, appeals | a decision stands on the rung its votes were counted for; the threshold is the larger of the ladder's and the risk's, and the bar of an appeal only adds to it |
| `JudgementProofs!JurorsAreQualified` | number of sessions, modules, grades, thresholds | dates are never taken back, the state a request is about to write was allowed by dates it had read, and the drawable states are entered from `calibrating` with the calibration passed, or from each other |
| `JudgementProofs!ProfileTypeCorrect` | the same | a session's next write is one its column takes, and what it read is a row |
| `JudgementProofs!RulesTypeCorrect`, `UnanimityDecides` | ladder that grows and whose panels can reach its thresholds, positions, risks, appeals | the votes of all positions add up to the panel's seats once every seat has voted; one position that has the panel to itself therefore has them all, and a full panel reaches every bar of its rung |
| `IngestionProofs!IngestTypeCorrect`, `AnswersAreStored` | number of deliveries, envelopes, sends, any quota | every stored report was carried by a delivery and every event queued or held is that of a report, which bounds the rows by the deliveries; external ids are unique among stored reports, which are never removed, and whoever was answered with one carries the same content |
| `IngestionProofs!PublishesOnce` | the same, and triages that overlap or fail | a case is published exactly when it is no longer `received`: a triage that finds another status at most corrects the pool, and the write that moves the status appends the event in the same transaction |
| `WebhookProofs!DeliveryTypeCorrect`, `HistoryIsComplete` | number of endpoints, events, passes, attempts, replays, failed writes, leases kept or not | the attempt's row is inserted before the outcome is written, by the same pass, and attempts are never removed; a pass past the insert has its attempt on record |
| `WebhookProofs!SuccessStays` | the same | a row that was neither outrun nor replayed has at most one pass on it, and its lease is not due while it is there; a pass that writes a success leaves the row with that write, unless it is not acknowledged; the one that stays, after a `410`, has written no success |
| `WebhookProofs!ChannelDelivers` | the same, and number of requests, replies lost or late | `ChannelSpec` implements `DeliverySpec`: receiving decides the answer the sender's attempt may have anyway, and the receiver's steps leave the sender alone |
| `WebhookProofs!ChannelTypeCorrect`, `EventsHandledOnce` | the same | the claim of an event id is taken by one request and given back only by it: two requests never both hold it, and a handled event keeps its claim unless its handler was not told that the record was written |
| `IntegrationProofs!AppTypeCorrect`, `ActionsApplyOnce` | number of reports, revisions, tasks, retries, any plan, leases that lapse | a task past the claim owns its ledger entry (the unique key), an entry is released only by its owner before it is recorded as carried out, and one recorded is never claimed again |
| `IntegrationProofs!DecisionsStand` | the same, revisions in any order | what a revision found it either wrote or left with a newer one on it; a report's revision never falls, and one closed by a decision is not put back in wait |
| `IntegrationProofs!ReversalsRestore` | plan, number of reports, tasks, retries, refusals and lapsed leases | one lease holder at a time works on the newest revision, in its order; while nothing was interrupted the recorded actions, with the one in hand, explain the object: what the latest of a kind replaced is what a reversal of that kind gives back. The exceptions are those of the property (`tainted`, `early`, `Masked`, `Contradictory`); without `early` and without `Masked` it is refuted by `decision_order` and `reversal_stacked` |
| `ServiceProofs!ErasureTypeCorrect` | number of deletions, tasks, runs, places, pages | inductive together with: a task records its page in order, and never past its end |
| `ServiceProofs!CursorIsSafe` | the same, however leases lapse and tasks die | what a task has passed in its page is recorded, and where its page starts everything before is; recorded rows are never removed |
| `ServiceProofs!ErasureIsComplete` | the same | the places a run has passed are empty and stay so, whichever run emptied them |
| `ServiceProofs!FilesTypeCorrect`, `ReferencesExact` | number of cases, passes, changes of the file, lost calls, reconciliations | a row registered and not lost is held by Oxy; a removal is owed only for a file that is gone, for which nothing is registered any more; a reconciliation forgets only what was in no row when it read that case, and rows on record are in its list |
| `ServiceProofs!ShownFilesServable` | the same, events in any order and repeated | the status a row shows is that of the newest event accepted, once Oxy's events have all been delivered |
| `ServiceProofs!NotesTypeCorrect`, `NoteHistoriesTell` | number of notes, raters and rescores, any fit | whatever a rescore read names notes that were written; it moves a note only at the revision it read, where the status it leaves is the one on record, so each entry of a history differs from the one before and has its event |
| `ServiceProofs!EndpointsTypeCorrect`, `RotationsOverlap` | number of rotations at once, versions, any overlap | the secrets form a chain: each stops when the next takes over, and only the last may have yet to take over; a rotation that commits read a version that was already signing |
| `DeliveryProofs!DeliveryTypesCorrect`, `ServiceProofs!ServiceTypesCorrect` | the constants of all the modules composed | a step of the module in focus is a step of its own specification, and leaves the others' variables alone |

Where a theorem has an exception it is part of the property the runs check, and
not an assumption on the constants: a history variable says what the code does
not prevent (`lapsed`, `unacknowledged`, `crossed`, `outrun`, `tainted`, `early`),
and the theorem says that nothing else breaks the property. No theorem assumes a
single handler, a single worker, or passes that end within their leases.

Each property was checked by TLC on the instances above before it was proved:
those of `Outbox`, `Panel` and `CaseRevision` in `cases`; those about files,
erasure, notes and endpoints in `services`; the others in `delivery`.
`RetriesStayInBudget` is about `RetryWithinBudget`, which no run checks because
the proof covers it.

`LadderOfMajorities` (more than half of the seats on each rung) is what the
comment at the code's ladder says of its numbers; TLC evaluates it on them.
`AppealMinRound < MaxRound` holds of the code's ladder (an appeal starts on round
2 of 3) and keeps an appeal's first panel from being the last one; TLC's shorter
ladder has the two equal and finds `DecisionHasQuorum` true there as well.

`LadderGrows` and `LadderIsReachable`, which `RulesTypeCorrect` and
`UnanimityDecides` need, say that no rung has fewer seats than the one below it
and that a full panel reaches each threshold it may be held to
(`consensus.ts`, `panelSpec.ts`); TLC evaluates both on the code's numbers. That
the votes of a panel add up to its seats is an induction over the positions,
which is carried out without an induction theorem: of the sets of positions for
which the sum is wrong a smallest one is picked, and one of its members taken out.

`DeliveryTypesCorrect` and `ServiceTypesCorrect` are about the composed instances:
each behaviour of `MCDelivery` or `MCServices` is one of every module in it, the
ones out of focus standing still, so the parts' type theorems hold side by side.

The provers cannot do two things, which stay with TLC: liveness under fairness
(`EventuallySettled`, `JuryDecides`, `EventuallyReferenced`, `EventuallyErased`)
and `ENABLED`. Every safety property of a passing run is a theorem. Nothing is
proved about `PrivacyBinds` and `ConfidenceIsDerived`, which the code violates as
soon as two handlers or two requests overlap (`triage_overlap`, `profile_drift`).

## 5. Not modelled, and the plan

Not modelled because no protocol runs there: HTTP parsing and routing, console
reads, credentials, policy lookups, audit, the SDK's client, contracts and the
user interfaces. Signatures and ciphers are cryptography, the weights of the
sampling and the numbers of the scoring are arithmetic that decides which of
several modelled outcomes happens. Transactions are taken to be atomic and
unique indexes to refuse the second row.

Left out of what is modelled: the visibility of evidence; an application's
standing and its quota of endpoints, and how far requests in flight overshoot the
daily quota; material of an erased account that arrives after its erasure;
consent, exposure limits, declared relations and the eligibility query of
reviewers; the priority and redaction that triage computes; a tenant's choice to
ignore an event; provisional decisions, which nothing publishes. That a row whose
passes keep dying is retried past `OUTBOX_MAX_ATTEMPTS` is in the module and
stated by no property.

Next, in this order:

1. `Membership`: grants and revocations of an organisation's owners, of which two
   may both count two owners (`membership.service.ts`).
2. An abstract channel that hands each event over once or says that it did not,
   implemented by `DecisionChannel`.
3. Standings and quotas, with requests in flight.
