----------------------------- MODULE Integration -----------------------------
(***************************************************************************)
(* The tenant's side of the channel: the SDK's own outbox, the worker that *)
(* delivers reports, the worker that applies decisions, the enforcement    *)
(* executor and the reconciliation sweep, over one reported object and the *)
(* one case its reports belong to.                                         *)
(*                                                                         *)
(* A task is one process: it has one dispatch in flight, renews the lease  *)
(* of the row it handles, and completes or fails the row only while it     *)
(* still holds it.                                                         *)
(***************************************************************************)
EXTENDS Naturals, Sequences, FiniteSets

CONSTANTS
  Reports,       \* reports of the object
  Deliverable,   \* those whose type has a subject provider
  MaxRevision,   \* bound: revisions of the case's decision
  Plan,          \* what planEnforcement makes of each revision
  Modes,         \* enforcement modes a deployment may be configured with
  Originals,     \* what the author may have made of the object
  Repeats,       \* bound: webhook events that carry one revision
  Tasks,
  MaxRowAttempts,  \* MAX_RETRYABLE_ATTEMPTS (25)
  MaxFaults,     \* bound: crashes, stalls past a lease and failed writes
  MaxTroubles,   \* bound: deletions, expiries and failed or refused requests
  NoTask, NoRow,
  Unknown        \* no previous state is on record

Revisions == 1..MaxRevision
SubmitRows == {"report.submit"} \X Reports \X {1}
ApplyRows == {"decision.apply"} \X Revisions \X (1..Repeats)
Rows == SubmitRows \cup ApplyRows

Actions == {"restrict", "flag", "restore", "unflag", "review", "none"}

\* The reported object, as the application stores it.
ObjectStatuses == {"published", "draft", "restricted"}
Objects == [status : ObjectStatuses, flagged : BOOLEAN]

ASSUME IntegrationAssumption ==
  /\ Deliverable \subseteq Reports
  /\ MaxRevision \in Nat \ {0} /\ Repeats \in Nat \ {0} /\ MaxRowAttempts \in Nat \ {0}
  /\ Plan \in [Revisions -> Seq(Actions) \ {<<>>}]
  /\ Modes \subseteq {"observe", "manual", "automatic"}
  /\ Originals \subseteq {o \in Objects : o.status # "restricted"}
  /\ MaxFaults \in Nat /\ MaxTroubles \in Nat
  /\ NoTask \notin Tasks /\ NoRow \notin Rows
  /\ Unknown \notin ObjectStatuses \cup {"flag"}

VARIABLES
  mode,        \* CROWDSOURCE_ENFORCEMENT_MODE of the deployment
  local,       \* moderation_reports.local_status
  linked,      \* reports whose crowd_source_case_id is set
  decided,     \* decision_revision of each report, 0 for NULL
  remote,      \* reports CrowdSource has accepted
  contentGone, \* has the reported object been deleted?
  object,      \* the reported object: its status and its flag
  original,    \* what the author made of it (history)
  early,       \* events that came before an earlier revision was applied (history)
  boxStatus,   \* moderation_outbox.status, "absent" without a row
  boxAttempts,
  boxOwner,    \* lease_owner
  boxLive,     \* lease_until is in the future
  ledger,      \* moderation_enforcements, in the order of created_at
  sweep,       \* reports a reconciliation sweep has still to look at
  at,          \* where each task is
  row,         \* the outbox row a task has claimed
  step,        \* the planned action it is at
  undo,        \* what the reversal lookup returned to it
  was,         \* the previous state the effect returned to it
  todo,        \* reports it has still to write the decision onto
  found,       \* reports a lease holder found, per row (history)
  retryable,   \* may the error it caught be retried?
  tainted,     \* faults so far
  troubles     \* troubles so far

boxVars == <<boxStatus, boxAttempts, boxOwner, boxLive>>
reportVars == <<local, linked, decided>>
taskVars == <<at, row, step, undo, was, todo, found, retryable>>
worldVars == <<mode, remote, contentGone, original, early>>
intVars == <<worldVars, reportVars, object, boxVars, ledger, sweep,
             taskVars, tainted, troubles>>

\* What an action records of the state it replaced: the status, or the flag.
Previous == ObjectStatuses \cup {"flag", Unknown}

Entry == [revision : Revisions, action : Actions,
          state : {"claimed", "skipped", "applied"}, previous : Previous]

\* The primary key of moderation_enforcements, without the decision's id.
Key(entry) == <<entry.revision, entry.action>>

\* Inside the try of applyOne.
Acting == {"looking", "acting", "recording", "unchanged"}
TaskStates == {"idle", "describing", "sending", "storing", "marking",
               "linking", "claiming", "skipping", "writing", "releasing",
               "done", "failed"} \cup Acting

AppTypeOK ==
  /\ mode \in Modes
  /\ local \in [Reports -> {"absent", "received", "queued", "submitted",
                            "delivery_failed", "closed", "deleted"}]
  /\ linked \subseteq Reports /\ remote \subseteq Reports
  /\ decided \in [Reports -> 0..MaxRevision]
  /\ contentGone \in BOOLEAN
  /\ object \in Objects /\ original \in Objects
  /\ early \subseteq ApplyRows
  /\ boxStatus \in [Rows -> {"absent", "pending", "processing", "processed",
                             "dead_letter"}]
  /\ boxAttempts \in [Rows -> 0..MaxRowAttempts + 1]
  /\ boxOwner \in [Rows -> Tasks \cup {NoTask}]
  /\ boxLive \in [Rows -> BOOLEAN]
  /\ ledger \in Seq(Entry)
  /\ \A m, n \in DOMAIN ledger : m # n => Key(ledger[m]) # Key(ledger[n])
  /\ sweep \subseteq Reports
  /\ at \in [Tasks -> TaskStates]
  /\ row \in [Tasks -> Rows \cup {NoRow}]
  /\ \A w \in Tasks : at[w] # "idle" => row[w] \in Rows
  /\ step \in [Tasks -> Nat]
  /\ undo \in [Tasks -> Previous] /\ was \in [Tasks -> Previous]
  /\ todo \in [Tasks -> SUBSET Reports]
  /\ found \in [ApplyRows -> SUBSET Reports]
  /\ retryable \in [Tasks -> BOOLEAN]
  /\ tainted \in 0..MaxFaults /\ troubles \in 0..MaxTroubles

AppInit ==
  /\ mode \in Modes
  /\ local = [r \in Reports |-> "absent"]
  /\ linked = {} /\ remote = {} /\ sweep = {} /\ ledger = <<>> /\ early = {}
  /\ decided = [r \in Reports |-> 0]
  /\ contentGone = FALSE
  /\ original \in Originals
  /\ object = original
  /\ boxStatus = [e \in Rows |-> "absent"]
  /\ boxAttempts = [e \in Rows |-> 0]
  /\ boxOwner = [e \in Rows |-> NoTask]
  /\ boxLive = [e \in Rows |-> FALSE]
  /\ at = [w \in Tasks |-> "idle"]
  /\ row = [w \in Tasks |-> NoRow]
  /\ step = [w \in Tasks |-> 0]
  /\ undo = [w \in Tasks |-> Unknown]
  /\ was = [w \in Tasks |-> Unknown]
  /\ todo = [w \in Tasks |-> {}]
  /\ found = [e \in ApplyRows |-> {}]
  /\ retryable = [w \in Tasks |-> FALSE]
  /\ tainted = 0 /\ troubles = 0

-----------------------------------------------------------------------------
\* ON CONFLICT DO NOTHING: a row that is there is left as it is.
Enqueue(e) ==
  /\ boxStatus' = [boxStatus EXCEPT ![e] = IF @ = "absent" THEN "pending" ELSE @]
  /\ UNCHANGED <<boxAttempts, boxOwner, boxLive>>

SubmitRow(r) == <<"report.submit", r, 1>>

(***************************************************************************)
(* createReport: the report and its delivery event in one transaction, or  *)
(* the report alone when no provider can describe its type.                *)
(***************************************************************************)
CreateReport(r) ==
  /\ local[r] = "absent"
  /\ IF r \in Deliverable
     THEN local' = [local EXCEPT ![r] = "queued"] /\ Enqueue(SubmitRow(r))
     ELSE local' = [local EXCEPT ![r] = "received"] /\ UNCHANGED boxVars
  /\ UNCHANGED <<worldVars, linked, decided, object, ledger, sweep, taskVars, tainted,
                 troubles>>

(***************************************************************************)
(* recordDecisionEvent: a webhook that carries this revision commits its   *)
(* decision.apply row.  CrowdSource decides only what it has accepted;     *)
(* nothing keeps a later revision's webhook behind an earlier one's.       *)
(***************************************************************************)
InTurn(e) == \A f \in ApplyRows : f[2] < e[2] => boxStatus[f] = "processed"

DecisionArrives(e) ==
  /\ e \in ApplyRows /\ boxStatus[e] = "absent" /\ remote # {}
  /\ Enqueue(e)
  /\ early' = early \cup (IF InTurn(e) THEN {} ELSE {e})
  /\ UNCHANGED <<mode, remote, contentGone, original, reportVars, object, ledger, sweep, taskVars, tainted,
                 troubles>>

Trouble == troubles < MaxTroubles /\ troubles' = troubles + 1

\* The application deletes the object, or the report.
DeleteContent ==
  /\ Trouble
  /\ ~contentGone /\ contentGone' = TRUE
  /\ UNCHANGED <<mode, remote, original, early, reportVars, object, boxVars, ledger,
                 sweep, taskVars, tainted>>

DeleteReport(r) ==
  /\ Trouble
  /\ local[r] \notin {"absent", "deleted"}
  /\ local' = [local EXCEPT ![r] = "deleted"]
  /\ linked' = linked \ {r}
  /\ decided' = [decided EXCEPT ![r] = 0]
  /\ UNCHANGED <<worldVars, object, boxVars, ledger, sweep, taskVars, tainted>>

\* The expiry sweep drops a row that reached its retention deadline.  No
\* reconciliation lasts as long as that (90 days).
Expire(e) ==
  /\ Trouble
  /\ boxStatus[e] \in {"pending", "processed", "dead_letter"}
  /\ e \in SubmitRows /\ e[2] \notin sweep
  /\ boxStatus' = [boxStatus EXCEPT ![e] = "absent"]
  /\ boxAttempts' = [boxAttempts EXCEPT ![e] = 0]
  /\ UNCHANGED <<worldVars, reportVars, object, boxOwner, boxLive, ledger, sweep,
                 taskVars, tainted>>

-----------------------------------------------------------------------------
Due(e) == \/ boxStatus[e] = "pending"
          \/ boxStatus[e] = "processing" /\ ~boxLive[e]

(***************************************************************************)
(* claim: FOR UPDATE SKIP LOCKED, with a lease and an attempt counted.     *)
(***************************************************************************)
Claim(w, e) ==
  /\ at[w] = "idle" /\ Due(e)
  /\ boxStatus' = [boxStatus EXCEPT ![e] = "processing"]
  /\ boxAttempts' = [boxAttempts EXCEPT ![e] = IF @ > MaxRowAttempts THEN @ ELSE @ + 1]
  /\ boxOwner' = [boxOwner EXCEPT ![e] = w]
  /\ boxLive' = [boxLive EXCEPT ![e] = TRUE]
  /\ row' = [row EXCEPT ![w] = e]
  /\ at' = [at EXCEPT ![w] = IF e \in SubmitRows THEN "describing" ELSE "linking"]
  /\ UNCHANGED <<worldVars, reportVars, object, ledger, sweep, step, undo, was,
                 todo, found, retryable, tainted, troubles>>

\* The task goes on with state s.
Go(w, s) == at' = [at EXCEPT ![w] = s]

\* The handler threw; `again' says whether the error may be retried.
Fails(w, again) ==
  /\ Go(w, "failed")
  /\ retryable' = [retryable EXCEPT ![w] = again]

LeaveRow(w) ==
  /\ Go(w, "idle")
  /\ row' = [row EXCEPT ![w] = NoRow]
  /\ step' = [step EXCEPT ![w] = 0]
  /\ undo' = [undo EXCEPT ![w] = Unknown]
  /\ was' = [was EXCEPT ![w] = Unknown]
  /\ todo' = [todo EXCEPT ![w] = {}]
  /\ retryable' = [retryable EXCEPT ![w] = FALSE]
  /\ UNCHANGED found

HeldLease(w) ==
  LET e == row[w]
  IN  boxStatus[e] = "processing" /\ boxOwner[e] = w /\ boxLive[e]

\* A row released to status s, if its lease is still held.
Settle(w, s) ==
  LET e == row[w]
      held == HeldLease(w)
  IN  /\ boxStatus' = [boxStatus EXCEPT ![e] = IF held THEN s ELSE @]
      /\ boxOwner' = [boxOwner EXCEPT ![e] = IF held THEN NoTask ELSE @]
      /\ boxLive' = [boxLive EXCEPT ![e] = IF held THEN FALSE ELSE @]

(***************************************************************************)
(* complete, and fail: dead letter or back-off.  Both do nothing once the  *)
(* lease is lost.                                                          *)
(***************************************************************************)
Complete(w) ==
  /\ at[w] = "done"
  /\ Settle(w, "processed")
  /\ LeaveRow(w)
  /\ UNCHANGED <<worldVars, reportVars, object, boxAttempts, ledger, sweep, tainted,
                 troubles>>

Fail(w) ==
  /\ at[w] = "failed"
  /\ Settle(w, IF ~retryable[w] \/ boxAttempts[row[w]] >= MaxRowAttempts
               THEN "dead_letter" ELSE "pending")
  /\ LeaveRow(w)
  /\ UNCHANGED <<worldVars, reportVars, object, boxAttempts, ledger, sweep, tainted,
                 troubles>>

-----------------------------------------------------------------------------
\* The report a report.submit row names.
ReportOf(w) == row[w][2]

(***************************************************************************)
(* The delivery worker looks at the report, at its own configuration and   *)
(* at the object: nothing to deliver, nowhere to deliver it, or nothing    *)
(* left to review.                                                         *)
(***************************************************************************)
Describe(w) ==
  LET r == ReportOf(w)
  IN  /\ at[w] = "describing"
      /\ \/ /\ local[r] = "deleted" /\ Go(w, "done")
            /\ UNCHANGED <<local, retryable, troubles>>
         \/ /\ local[r] # "deleted" /\ Trouble /\ Fails(w, TRUE)
            /\ UNCHANGED local
         \/ /\ local[r] # "deleted" /\ contentGone
            /\ local' = [local EXCEPT ![r] = "closed"]
            /\ Go(w, "done") /\ UNCHANGED <<retryable, troubles>>
         \/ /\ local[r] # "deleted" /\ ~contentGone /\ Go(w, "sending")
            /\ UNCHANGED <<local, retryable, troubles>>
  /\ UNCHANGED <<worldVars, linked, decided, object, boxVars, ledger, sweep,
                 row, step, undo, was, todo, found, tainted>>

(***************************************************************************)
(* reports.create: accepted, accepted with the answer lost, or refused,    *)
(* for good or not.  Its idempotency key makes a repeat the same report.   *)
(***************************************************************************)
Send(w) ==
  /\ at[w] = "sending"
  /\ \/ /\ remote' = remote \cup {ReportOf(w)}
        /\ Go(w, "storing") /\ UNCHANGED <<retryable, troubles>>
     \/ /\ Trouble /\ remote' \in {remote, remote \cup {ReportOf(w)}}
        /\ Go(w, "marking")
        /\ retryable' = [retryable EXCEPT ![w] = TRUE]
     \/ /\ Trouble /\ Go(w, "marking")
        /\ retryable' = [retryable EXCEPT ![w] = FALSE]
        /\ UNCHANGED remote
  /\ UNCHANGED <<mode, contentGone, original, early, reportVars, object, boxVars,
                 ledger, sweep, row, step, undo, was, todo, found, tainted>>

\* UPDATE ... WHERE id = r: no row, no effect.
Written(r, s) == [local EXCEPT ![r] = IF @ = "deleted" THEN @ ELSE s]

(***************************************************************************)
(* markSubmitted links the report to its case; markDeliveryFailed makes    *)
(* the failure visible before the outbox sees it.                          *)
(***************************************************************************)
MarkSubmitted(w) ==
  LET r == ReportOf(w)
  IN  /\ at[w] = "storing"
      /\ local' = Written(r, "submitted")
      /\ linked' = IF local[r] = "deleted" THEN linked ELSE linked \cup {r}
      /\ Go(w, "done")
      /\ UNCHANGED <<worldVars, decided, object, boxVars, ledger, sweep, row, step,
                     undo, was, todo, found, retryable, tainted, troubles>>

MarkDeliveryFailed(w) ==
  /\ at[w] = "marking"
  /\ local' = Written(ReportOf(w), "delivery_failed")
  /\ Go(w, "failed")
  /\ UNCHANGED <<worldVars, linked, decided, object, boxVars, ledger, sweep, row,
                 step, undo, was, todo, found, retryable, tainted, troubles>>

-----------------------------------------------------------------------------
\* The decision a decision.apply row carries.
Revision(w) == row[w][2]
Action(w) == Plan[Revision(w)][step[w]]

\* The next planned action, or the reports once the plan is carried out.
NextStep(w) ==
  /\ step' = [step EXCEPT ![w] = @ + 1]
  /\ Go(w, IF step[w] + 1 \in DOMAIN Plan[Revision(w)] THEN "claiming" ELSE "writing")

(***************************************************************************)
(* The decision worker finds the case's reports, or waits for one.         *)
(***************************************************************************)
FindReports(w) ==
  /\ at[w] = "linking"
  /\ IF linked = {}
     THEN Fails(w, TRUE) /\ UNCHANGED <<step, todo, found>>
     ELSE /\ todo' = [todo EXCEPT ![w] = linked]
          /\ found' = [found EXCEPT ![row[w]] = IF HeldLease(w) THEN @ \cup linked
                                                ELSE @]
          /\ step' = [step EXCEPT ![w] = 1]
          /\ Go(w, "claiming") /\ UNCHANGED retryable
  /\ UNCHANGED <<worldVars, reportVars, object, boxVars, ledger, sweep, row, undo,
                 was, tainted, troubles>>

KeyOf(w) == <<Revision(w), Action(w)>>
EntryOf(w) == {i \in DOMAIN ledger : Key(ledger[i]) = KeyOf(w)}

\* Mutant: whoever asks gets the claim.
Claims_Always(w) == TRUE

\* The composite primary key decides.
Claims(w) == EntryOf(w) = {}

modeAllows(a) ==
  \/ mode = "automatic"
  \/ mode = "manual" /\ a \in {"restore", "unflag"}

(***************************************************************************)
(* applyOne claims its row; a key already there is a duplicate and the     *)
(* plan goes on.                                                           *)
(***************************************************************************)
ClaimAction(w) ==
  /\ at[w] = "claiming"
  /\ IF Claims(w)
     THEN /\ ledger' = Append(ledger, [revision |-> Revision(w), action |-> Action(w),
                                       state |-> "claimed", previous |-> Unknown])
          /\ Go(w, IF modeAllows(Action(w)) THEN "looking" ELSE "skipping")
          /\ UNCHANGED step
     ELSE NextStep(w) /\ UNCHANGED ledger
  /\ UNCHANGED <<worldVars, reportVars, object, boxVars, sweep, row, undo, was,
                 todo, found, retryable, tainted, troubles>>

\* The task's row of the ledger, rewritten; a row that is gone is not.
Rewrite(w, s, p) ==
  [i \in DOMAIN ledger |->
     IF i \in EntryOf(w) THEN [ledger[i] EXCEPT !.state = s, !.previous = p]
     ELSE ledger[i]]

MarkSkipped(w) ==
  /\ at[w] \in {"skipping", "unchanged"}
  /\ ledger' = Rewrite(w, "skipped", Unknown)
  /\ undo' = [undo EXCEPT ![w] = Unknown]
  /\ NextStep(w)
  /\ UNCHANGED <<worldVars, reportVars, object, boxVars, sweep, row, was, todo, found,
                 retryable, tainted, troubles>>

\* What each action undoes.
reverses(a) == CASE a = "restore" -> {"restrict", "flag"}
                 [] a = "unflag" -> {"flag"}
                 [] OTHER -> {}

Reversed(a) == {i \in DOMAIN ledger : /\ ledger[i].action \in reverses(a)
                                      /\ ledger[i].state = "applied"}

\* Mutant: the lookup takes the first row.
Latest_First(rows) == {i \in rows : \A j \in rows : i <= j}

\* The newest of these rows.
Latest(rows) == {i \in rows : \A j \in rows : j <= i}

(***************************************************************************)
(* latestApplied: the previous state recorded by the newest applied row of *)
(* what this action reverses.                                              *)
(***************************************************************************)
LatestApplied(w) ==
  LET rows == Reversed(Action(w))
  IN  /\ at[w] = "looking"
      /\ IF rows = {} THEN undo' = [undo EXCEPT ![w] = Unknown]
         ELSE \E i \in Latest(rows) :
                undo' = [undo EXCEPT ![w] = ledger[i].previous]
      /\ Go(w, "acting")
      /\ UNCHANGED <<worldVars, reportVars, object, boxVars, ledger, sweep, row, step,
                     was, todo, found, retryable, tainted, troubles>>

(***************************************************************************)
(* The application's `apply', as the package's own harness writes it: the  *)
(* object after action a, given what the action reverses.                  *)
(***************************************************************************)
Applied(a, previous) ==
  CASE a = "restrict" -> [object EXCEPT !.status = "restricted"]
    [] a = "flag" -> [object EXCEPT !.flagged = TRUE]
    [] a = "restore" /\ object.status = "restricted" ->
         [object EXCEPT !.status = IF previous \in ObjectStatuses THEN previous
                                   ELSE "published"]
    [] a = "unflag" /\ previous # Unknown -> [object EXCEPT !.flagged = FALSE]
    [] OTHER -> object

(***************************************************************************)
(* The effect: the application changes the object and says what it was, or *)
(* says that nothing changed.                                              *)
(***************************************************************************)
Act(w) ==
  /\ at[w] = "acting"
  /\ object' = IF contentGone THEN object ELSE Applied(Action(w), undo[w])
  /\ IF object' = object
     THEN Go(w, "unchanged") /\ UNCHANGED was
     ELSE /\ Go(w, "recording")
          /\ was' = [was EXCEPT ![w] = IF object'.status # object.status
                                       THEN object.status ELSE "flag"]
  /\ UNCHANGED <<worldVars, reportVars, boxVars, ledger, sweep, row, step, undo,
                 todo, found, retryable, tainted, troubles>>

MarkApplied(w) ==
  /\ at[w] = "recording"
  /\ ledger' = Rewrite(w, "applied", was[w])
  /\ was' = [was EXCEPT ![w] = Unknown]
  /\ undo' = [undo EXCEPT ![w] = Unknown]
  /\ NextStep(w)
  /\ UNCHANGED <<worldVars, reportVars, object, boxVars, sweep, row, todo, found,
                 retryable, tainted, troubles>>

\* The ledger without its i-th row.
Without(i) ==
  [n \in 1..Len(ledger) - 1 |-> IF n < i THEN ledger[n] ELSE ledger[n + 1]]

(***************************************************************************)
(* An effect, or a write around it, throws: the claim goes back and the    *)
(* error reaches the outbox.                                               *)
(***************************************************************************)
ReleaseClaim(w) ==
  /\ at[w] = "releasing"
  /\ IF EntryOf(w) = {} THEN UNCHANGED ledger
     ELSE \E i \in EntryOf(w) : ledger' = Without(i)
  /\ Fails(w, TRUE)
  /\ UNCHANGED <<worldVars, reportVars, object, boxVars, sweep, row, step, undo, was,
                 todo, found, tainted, troubles>>

\* Mutant: the newest delivery wins, whatever revision it carries.
Accepts_Any(r, n) == TRUE

\* decision_revision IS NULL OR decision_revision <= the revision written.
Accepts(r, n) == decided[r] <= n

(***************************************************************************)
(* applyDecision, one report at a time.  A final or corrected decision     *)
(* closes the report; CrowdSource publishes no provisional one.            *)
(***************************************************************************)
ApplyDecision(w) ==
  /\ at[w] = "writing"
  /\ IF todo[w] = {}
     THEN Go(w, "done") /\ UNCHANGED <<local, decided, todo>>
     ELSE \E r \in todo[w] :
            /\ todo' = [todo EXCEPT ![w] = @ \ {r}]
            /\ IF local[r] # "deleted" /\ Accepts(r, Revision(w))
               THEN /\ decided' = [decided EXCEPT ![r] = Revision(w)]
                    /\ local' = [local EXCEPT ![r] = "closed"]
               ELSE UNCHANGED <<decided, local>>
            /\ UNCHANGED at
  /\ UNCHANGED <<worldVars, linked, object, boxVars, ledger, sweep, row, step, undo,
                 was, found, retryable, tainted, troubles>>

-----------------------------------------------------------------------------
(***************************************************************************)
(* The reconciliation sweep reads the pending reports and re-derives the   *)
(* delivery event of those that have none.                                 *)
(***************************************************************************)
Pending == {r \in Reports : local[r] \in {"queued", "delivery_failed"}}

SweepStarts ==
  /\ sweep = {} /\ Pending # {}
  /\ sweep' = Pending
  /\ UNCHANGED <<worldVars, reportVars, object, boxVars, ledger, taskVars, tainted,
                 troubles>>

SweepOne(r) ==
  /\ r \in sweep
  /\ sweep' = sweep \ {r}
  /\ boxStatus' = [boxStatus EXCEPT ![SubmitRow(r)] =
                     IF @ = "absent" THEN "pending" ELSE @]
  /\ UNCHANGED <<worldVars, reportVars, object, boxAttempts, boxOwner, boxLive, ledger,
                 taskVars, tainted, troubles>>

-----------------------------------------------------------------------------
Fault == tainted < MaxFaults /\ tainted' = tainted + 1

\* The task's process dies.
TaskCrash(w) ==
  /\ at[w] # "idle" /\ Fault /\ LeaveRow(w)
  /\ UNCHANGED <<worldVars, reportVars, object, boxVars, ledger, sweep, troubles>>

(***************************************************************************)
(* An effect, the lookup before it, or the write that records it throws.   *)
(***************************************************************************)
EffectThrows(w) ==
  /\ at[w] \in Acting /\ Fault
  /\ Go(w, "releasing")
  /\ UNCHANGED <<worldVars, reportVars, object, boxVars, ledger, sweep, row, step,
                 undo, was, todo, found, retryable, troubles>>

\* Any other write throws.
WriteFails(w) ==
  /\ at[w] \in {"linking", "storing", "marking", "claiming", "skipping", "writing",
               "releasing"}
  /\ Fault /\ Fails(w, TRUE)
  /\ UNCHANGED <<worldVars, reportVars, object, boxVars, ledger, sweep, row, step,
                 undo, was, todo, found, troubles>>

(***************************************************************************)
(* A lease ends: its task is dead, or stalled for longer than the lease.   *)
(***************************************************************************)
LeaseEnds(e) ==
  /\ boxStatus[e] = "processing" /\ boxLive[e]
  /\ IF \E w \in Tasks : row[w] = e /\ boxOwner[e] = w THEN Fault ELSE UNCHANGED tainted
  /\ boxLive' = [boxLive EXCEPT ![e] = FALSE]
  /\ UNCHANGED <<worldVars, reportVars, object, boxStatus, boxAttempts, boxOwner,
                 ledger, sweep, taskVars, troubles>>

TaskStep(w) ==
  \/ \E e \in Rows : Claim(w, e)
  \/ Complete(w) \/ Fail(w)
  \/ Describe(w) \/ Send(w) \/ MarkSubmitted(w) \/ MarkDeliveryFailed(w)
  \/ FindReports(w) \/ ClaimAction(w) \/ MarkSkipped(w) \/ LatestApplied(w)
  \/ Act(w) \/ MarkApplied(w) \/ ReleaseClaim(w) \/ ApplyDecision(w)

AppNext ==
  \/ \E r \in Reports : CreateReport(r) \/ DeleteReport(r) \/ SweepOne(r)
  \/ DeleteContent \/ SweepStarts
  \/ \E e \in Rows : DecisionArrives(e) \/ Expire(e) \/ LeaseEnds(e)
  \/ \E w \in Tasks : TaskStep(w) \/ TaskCrash(w) \/ EffectThrows(w) \/ WriteFails(w)

AppSpec == AppInit /\ [][AppNext]_intVars
-----------------------------------------------------------------------------
(***************************************************************************)
(* "Carrying out a decision, exactly once": an action that is being        *)
(* carried out is claimed, is not on record as carried out, and has no     *)
(* second task at it, whatever leases end, repeat or release.              *)
(***************************************************************************)
AppliedOnce ==
  \A w \in Tasks : at[w] \in Acting =>
    /\ \E i \in EntryOf(w) : ledger[i].state = "claimed"
    /\ \A v \in Tasks \ {w} :
         at[v] \in Acting => KeyOf(v) # KeyOf(w)

(***************************************************************************)
(* "It is the DATABASE that refuses a stale write": once a revision was    *)
(* applied, every report its lease holder found still carries it or a      *)
(* newer one, although a stalled task may be writing an older one; and a   *)
(* report its decision closed does not wait for one again, as long as      *)
(* nothing made its delivery run twice.                                    *)
(***************************************************************************)
AppliedDecisionStands ==
  /\ \A e \in ApplyRows : boxStatus[e] = "processed" =>
       \A r \in found[e] \cap linked : decided[r] >= e[2]
  /\ tainted = 0 => \A r \in Reports : decided[r] # 0 => local[r] = "closed"

(***************************************************************************)
(* "A restore returns an object to the state it actually had rather than   *)
(* to a guess at one": once a revision that restores was applied as the    *)
(* last, the object is what its author made it.                            *)
(***************************************************************************)
Planned(n) == {Plan[n][i] : i \in DOMAIN Plan[n]}
Restores(n) == Planned(n) = {"restore", "unflag"}

ReversalRestores ==
  \A n \in Revisions :
    /\ Restores(n)
    /\ \A e \in ApplyRows : boxStatus[e] \in {"absent", "processed"}
    /\ \E e \in ApplyRows : e[2] = n /\ boxStatus[e] = "processed"
    /\ \A e \in ApplyRows : e[2] > n => boxStatus[e] = "absent"
    => contentGone \/ object = original

(***************************************************************************)
(* The same, where every revision came once the last was applied.          *)
(***************************************************************************)
ReversalRestoresInTurn == early = {} => ReversalRestores

\* A flag put on what an earlier revision restricted and none has restored: the
\* newest row of what a restoring reverses does not say what the status was.
Masked ==
  \E e \in ApplyRows, m \in Revisions :
    /\ boxStatus[e] # "absent" /\ "flag" \in Planned(e[2])
    /\ m <= e[2] /\ "restrict" \in Planned(m)
    /\ \A k \in Revisions : m < k /\ k < e[2] => "restore" \notin Planned(k)

\* A decision that asks to take something from the object and to give it back.
Contradictory ==
  \E e \in ApplyRows :
    /\ boxStatus[e] # "absent"
    /\ Planned(e[2]) \cap {"restrict", "flag"} # {}
    /\ Planned(e[2]) \cap {"restore", "unflag"} # {}

(***************************************************************************)
(* It holds however many tasks there are and whatever was removed and      *)
(* restored before, unless a process died, stalled or failed to write, a   *)
(* revision came early, a flag masks a restriction, or a decision          *)
(* contradicts itself.                                                     *)
(***************************************************************************)
ReversalRestoresUninterrupted ==
  tainted = 0 /\ early = {} /\ ~Masked /\ ~Contradictory => ReversalRestores
=============================================================================
