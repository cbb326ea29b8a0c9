---------------------------- MODULE EvidenceFiles ----------------------------
(***************************************************************************)
(* One evidence file at Oxy and the cases that name it: the ingress check, *)
(* the rows of case_evidence_files, the workers that register and remove   *)
(* the references Oxy is owed, the file events Oxy delivers in any order,  *)
(* and the nightly reconciliation.  Visibility is left out.                *)
(***************************************************************************)
EXTENDS Naturals, Sequences

CONSTANTS
  Cases,         \* cases whose reports carry the file
  Passes,        \* passes of the reference worker, one per process
  MaxEvents,     \* bound: changes of the file at Oxy
  MaxFailures,   \* bound: failed calls, lost answers and dead or stalled passes
  MaxRuns,       \* bound: reconciliations
  NoPass

ASSUME EvidenceAssumption ==
  MaxEvents \in Nat /\ MaxFailures \in Nat /\ MaxRuns \in Nat /\ NoPass \notin Passes

VARIABLES
  oxyEvents,     \* the statuses Oxy has stated, in the order they occurred
  recorded,      \* oxy_file_events: the events delivered so far
  oxyHolds,      \* the cases Oxy holds a reference for
  admitted,      \* cases whose report has passed the ingress check
  evidence,      \* the rows of case_evidence_files
  passAt,        \* "idle", "add" or "remove": the call a pass is about to make
  passRows,      \* the state each row was in when the pass claimed it
  answers,       \* what Oxy answered for rows the pass has still to settle
  runListed,     \* cases a reconciliation has read so far
  inventory,     \* those it will tell Oxy about
  before,        \* references older than the run
  running,       \* is a reconciliation under way?
  failures, runs \* counters of the bounds

fileVars == <<oxyEvents, recorded, oxyHolds, admitted, evidence, passAt, passRows,
              answers, runListed, inventory, before, running, failures, runs>>
passVars == <<passAt, passRows, answers>>
runVars == <<runListed, inventory, before, running, runs>>

FileStatuses == {"active", "blocked", "deleted"}
Owed == {"pending", "removal_pending"}
ReferenceStates == {"absent", "registered", "refused", "removed"} \cup Owed
Row == [status : FileStatuses, stateAt : 0..MaxEvents, reference : ReferenceStates,
        claim : Passes \cup {NoPass}, due : BOOLEAN]

\* What Oxy says of the file now.
OxyStatus == IF oxyEvents = <<>> THEN "active" ELSE oxyEvents[Len(oxyEvents)]

FilesTypeOK ==
  /\ oxyEvents \in Seq(FileStatuses) /\ Len(oxyEvents) <= MaxEvents
  /\ recorded \subseteq DOMAIN oxyEvents
  /\ oxyHolds \subseteq Cases /\ admitted \subseteq Cases
  /\ evidence \in [Cases -> Row]
  /\ passAt \in [Passes -> {"idle", "add", "remove"}]
  /\ passRows \in [Passes -> [Cases -> Owed \cup {"none"}]]
  /\ answers \in [Passes -> [Cases -> {"none", "yes", "no", "error"}]]
  /\ runListed \subseteq Cases /\ inventory \subseteq runListed
  /\ before \subseteq Cases /\ running \in BOOLEAN
  /\ failures \in 0..MaxFailures /\ runs \in 0..MaxRuns

Nothing == [c \in Cases |-> "none"]

FilesInit ==
  /\ oxyEvents = <<>> /\ recorded = {} /\ oxyHolds = {} /\ admitted = {}
  /\ evidence = [c \in Cases |->
       [status |-> "active", stateAt |-> 0, reference |-> "absent",
        claim |-> NoPass, due |-> FALSE]]
  /\ passAt = [p \in Passes |-> "idle"]
  /\ passRows = [p \in Passes |-> Nothing]
  /\ answers = [p \in Passes |-> Nothing]
  /\ runListed = {} /\ inventory = {} /\ before = {} /\ running = FALSE
  /\ failures = 0 /\ runs = 0

-----------------------------------------------------------------------------
(***************************************************************************)
(* The file changes at Oxy.  Nothing revives a deleted one.                *)
(***************************************************************************)
OxyChanges(s) ==
  /\ Len(oxyEvents) < MaxEvents /\ OxyStatus \notin {s, "deleted"}
  /\ oxyEvents' = Append(oxyEvents, s)
  /\ UNCHANGED <<recorded, oxyHolds, admitted, evidence, passVars, runVars, failures>>

(***************************************************************************)
(* The ingress check is a call to Oxy before the report's transaction,     *)
(* which inserts the row, or leaves the one an earlier report inserted.    *)
(***************************************************************************)
assertEvidenceOwnedByTenant(c) ==
  /\ OxyStatus = "active" /\ c \notin admitted
  /\ admitted' = admitted \cup {c}
  /\ UNCHANGED <<oxyEvents, recorded, oxyHolds, evidence, passVars, runVars, failures>>

insertCaseEvidenceFiles(c) ==
  /\ c \in admitted /\ evidence[c].reference = "absent"
  /\ evidence' = [evidence EXCEPT ![c].reference = "pending", ![c].due = TRUE]
  /\ UNCHANGED <<oxyEvents, recorded, oxyHolds, admitted, passVars, runVars, failures>>

-----------------------------------------------------------------------------
\* Mutant: events are applied in the order they are delivered.
evidenceAfterEvent_Arrival(row, i) ==
  [row EXCEPT !.status = oxyEvents[i], !.stateAt = i]

(***************************************************************************)
(* What an event makes of a row: nothing when the file is deleted or the   *)
(* event is older than the last one applied.  A deletion owes the removal. *)
(***************************************************************************)
evidenceAfterEvent(row, i) ==
  IF row.reference = "absent" \/ row.status = "deleted" \/ i < row.stateAt
  THEN row
  ELSE LET next == [row EXCEPT !.status = oxyEvents[i], !.stateAt = i]
       IN  IF oxyEvents[i] = "deleted" /\ row.reference \in {"pending", "registered"}
           THEN [next EXCEPT !.reference = "removal_pending", !.due = TRUE]
           ELSE next

\* One transaction; a redelivery finds its event recorded and changes nothing.
acceptFileEvent(i) ==
  /\ i \in DOMAIN oxyEvents \ recorded
  /\ recorded' = recorded \cup {i}
  /\ evidence' = [c \in Cases |-> evidenceAfterEvent(evidence[c], i)]
  /\ UNCHANGED <<oxyEvents, oxyHolds, admitted, passVars, runVars, failures>>

-----------------------------------------------------------------------------
\* Mutant: removals are left to the reconciliation.
DueRows_Adds == {c \in Cases : evidence[c].reference = "pending" /\ evidence[c].due}

(***************************************************************************)
(* A pass claims what is owed and due.  Its lease is the row's due time.   *)
(***************************************************************************)
DueRows == {c \in Cases : evidence[c].reference \in Owed /\ evidence[c].due}

claimDueEvidenceReferences(p) ==
  /\ passAt[p] = "idle" /\ DueRows # {}
  /\ evidence' = [c \in Cases |-> IF c \in DueRows
                                  THEN [evidence[c] EXCEPT !.claim = p, !.due = FALSE]
                                  ELSE evidence[c]]
  /\ passRows' = [passRows EXCEPT ![p] =
       [c \in Cases |-> IF c \in DueRows THEN evidence[c].reference ELSE "none"]]
  /\ passAt' = [passAt EXCEPT ![p] = "add"]
  /\ UNCHANGED <<oxyEvents, recorded, oxyHolds, admitted, answers, runVars, failures>>

Group(p, s) == {c \in Cases : passRows[p][c] = s}

Answer(p, s, a) ==
  answers' = [answers EXCEPT ![p] =
                [c \in Cases |-> IF c \in Group(p, s) THEN a ELSE @[c]]]

\* The call for a group of rows fails, before or after Oxy carried it out.
CallFails(p, s, carriedOut) ==
  /\ failures < MaxFailures /\ failures' = failures + 1
  /\ oxyHolds' \in {oxyHolds, carriedOut}
  /\ Answer(p, s, "error")

(***************************************************************************)
(* First the references to add: Oxy refuses a file that is not active.     *)
(***************************************************************************)
addReferences(p) ==
  LET added == IF OxyStatus = "active" THEN oxyHolds \cup Group(p, "pending")
               ELSE oxyHolds
  IN  /\ passAt[p] = "add" /\ Group(p, "pending") # {} /\ answers[p] = Nothing
      /\ \/ /\ oxyHolds' = added
            /\ Answer(p, "pending", IF OxyStatus = "active" THEN "yes" ELSE "no")
            /\ UNCHANGED failures
         \/ CallFails(p, "pending", added)
      /\ UNCHANGED <<oxyEvents, recorded, admitted, evidence, passAt, passRows,
                     runVars>>

removeReferences(p) ==
  LET left == oxyHolds \ Group(p, "removal_pending")
  IN  /\ passAt[p] = "remove" /\ Group(p, "removal_pending") # {}
      /\ answers[p] = Nothing
      /\ \/ /\ oxyHolds' = left
            /\ Answer(p, "removal_pending", "yes")
            /\ UNCHANGED failures
         \/ CallFails(p, "removal_pending", left)
      /\ UNCHANGED <<oxyEvents, recorded, admitted, evidence, passAt, passRows,
                     runVars>>

settledState(s, a) ==
  CASE s = "pending" /\ a = "yes" -> "registered"
    [] s = "pending" /\ a = "no" -> "refused"
    [] OTHER -> "removed"

(***************************************************************************)
(* The outcome of a claimed row: written while the row still asks for what *)
(* was claimed, else the row is released, due now.                         *)
(***************************************************************************)
finishEvidenceReference(row, s, a) ==
  IF row.reference # s THEN [row EXCEPT !.claim = NoPass, !.due = TRUE]
  ELSE IF a = "error" THEN [row EXCEPT !.claim = NoPass]
  ELSE [row EXCEPT !.claim = NoPass, !.due = TRUE, !.reference = settledState(s, a)]

settle(p, c) ==
  /\ answers[p][c] # "none"
  /\ evidence' = IF evidence[c].claim = p
                 THEN [evidence EXCEPT ![c] = finishEvidenceReference(@, passRows[p][c],
                                                                      answers[p][c])]
                 ELSE evidence
  /\ answers' = [answers EXCEPT ![p][c] = "none"]
  /\ passRows' = [passRows EXCEPT ![p][c] = "none"]
  /\ UNCHANGED <<oxyEvents, recorded, oxyHolds, admitted, passAt, runVars, failures>>

\* A group that is settled, or empty, gives way to the next.
NextGroup(p) ==
  /\ answers[p] = Nothing
  /\ \/ /\ passAt[p] = "add" /\ Group(p, "pending") = {}
        /\ passAt' = [passAt EXCEPT ![p] = "remove"]
     \/ /\ passAt[p] = "remove" /\ Group(p, "removal_pending") = {}
        /\ passAt' = [passAt EXCEPT ![p] = "idle"]
  /\ UNCHANGED <<oxyEvents, recorded, oxyHolds, admitted, evidence, passRows, answers,
                 runVars, failures>>

\* A pass dies with its claims.
PassDies(p) ==
  /\ passAt[p] # "idle" /\ failures < MaxFailures /\ failures' = failures + 1
  /\ passAt' = [passAt EXCEPT ![p] = "idle"]
  /\ passRows' = [passRows EXCEPT ![p] = Nothing]
  /\ answers' = [answers EXCEPT ![p] = Nothing]
  /\ UNCHANGED <<oxyEvents, recorded, oxyHolds, admitted, evidence, runVars>>

(***************************************************************************)
(* An owed row falls due: its back-off is over, its pass has died, or (a   *)
(* failure) its pass has stalled for longer than the lease.                *)
(***************************************************************************)
FallsDue(c) ==
  LET p == evidence[c].claim
  IN  /\ evidence[c].reference \in Owed /\ ~evidence[c].due
      /\ IF p # NoPass /\ passRows[p][c] # "none"
         THEN failures < MaxFailures /\ failures' = failures + 1
         ELSE UNCHANGED failures
      /\ evidence' = [evidence EXCEPT ![c].due = TRUE]
      /\ UNCHANGED <<oxyEvents, recorded, oxyHolds, admitted, passVars, runVars>>

-----------------------------------------------------------------------------
(***************************************************************************)
(* The reconciliation streams the inventory to Oxy, which then adds what   *)
(* it lacks and removes what is not listed and older than the run.         *)
(***************************************************************************)
claimReconciliation ==
  /\ ~running /\ runs < MaxRuns
  /\ running' = TRUE /\ runs' = runs + 1
  /\ before' = oxyHolds /\ runListed' = {} /\ inventory' = {}
  /\ UNCHANGED <<oxyEvents, recorded, oxyHolds, admitted, evidence, passVars, failures>>

\* Mutant: a reference that is only owed is not part of the inventory.
Referenced_Registered == {c \in Cases : evidence[c].reference = "registered"}

Referenced == {c \in Cases : evidence[c].reference \in {"pending", "registered"}}

referencedEvidenceInventory(c) ==
  /\ running /\ c \notin runListed
  /\ runListed' = runListed \cup {c}
  /\ inventory' = inventory \cup ({c} \cap Referenced)
  /\ UNCHANGED <<oxyEvents, recorded, oxyHolds, admitted, evidence, passVars, before,
                 running, runs, failures>>

\* It carried through, or failed, or was a dry run.
finishReconciliation ==
  /\ running /\ runListed = Cases
  /\ running' = FALSE /\ runListed' = {} /\ inventory' = {} /\ before' = {}
  /\ oxyHolds' \in {oxyHolds, (oxyHolds \ (before \ inventory))
                              \cup (IF OxyStatus = "active" THEN inventory ELSE {})}
  /\ UNCHANGED <<oxyEvents, recorded, admitted, evidence, passVars, runs, failures>>

PassStep(p) ==
  \/ claimDueEvidenceReferences(p) \/ addReferences(p) \/ removeReferences(p)
  \/ NextGroup(p) \/ \E c \in Cases : settle(p, c)

FilesNext ==
  \/ \E s \in FileStatuses : OxyChanges(s)
  \/ \E c \in Cases : \/ assertEvidenceOwnedByTenant(c) \/ insertCaseEvidenceFiles(c)
                      \/ FallsDue(c) \/ referencedEvidenceInventory(c)
  \/ \E i \in 1..MaxEvents : acceptFileEvent(i)
  \/ \E p \in Passes : PassStep(p) \/ PassDies(p)
  \/ claimReconciliation \/ finishReconciliation

FilesSpec == FilesInit /\ [][FilesNext]_fileVars

\* The worker's timer goes on, and an owed row's due time comes.
FilesFairness ==
  /\ \A p \in Passes : WF_fileVars(PassStep(p))
  /\ \A c \in Cases : WF_fileVars(FallsDue(c))

FilesFairSpec == FilesSpec /\ FilesFairness
-----------------------------------------------------------------------------
withheld(c) == evidence[c].status # "active" \/ evidence[c].reference = "refused"

(***************************************************************************)
(* "A file Oxy says is not servable is withheld": when Oxy's events have   *)
(* been delivered, in whatever order, and nothing is owed for a case, a    *)
(* file its jury is shown is active, although it may have changed between  *)
(* the ingress check and the report's transaction.                         *)
(***************************************************************************)
ShownIsServable ==
  recorded = DOMAIN oxyEvents =>
    \A c \in Cases : evidence[c].reference \notin Owed \cup {"absent"} /\ ~withheld(c)
                       => OxyStatus = "active"

(***************************************************************************)
(* "Keeping Oxy's record of the files CrowdSource uses exact": a reference *)
(* on record as registered is held, and one on record as removed is not,   *)
(* whatever overlaps: two passes, a deletion and a reconciliation.         *)
(***************************************************************************)
OxyRecordExact ==
  \A c \in Cases : /\ evidence[c].reference = "registered" => c \in oxyHolds
                   /\ evidence[c].reference = "removed" => c \notin oxyHolds

(***************************************************************************)
(* What is owed to Oxy is settled in the end.                              *)
(***************************************************************************)
EventuallyReferenced ==
  \A c \in Cases : evidence[c].reference \in Owed ~> evidence[c].reference \notin Owed
=============================================================================
