----------------------------- MODULE MCServices -----------------------------
(***************************************************************************)
(* Everything that must happen in the end, for TLC: an outbox that loses   *)
(* no row, a panel that decides, evidence references, account erasure,     *)
(* community notes and the secrets of webhook endpoints.  A behaviour runs *)
(* one of the six, its focus, and leaves the others as they start: they    *)
(* share no state.                                                         *)
(***************************************************************************)
EXTENDS Outbox, Panel, EvidenceFiles, AccountErasure, CommunityNotes,
        WebhookEndpoints, TLC

VARIABLE focus

services == <<fileVars, erasureVars, noteVars, endpointVars>>
mcVars == <<focus, vars, services, outboxVars>>

\* The ladder of MCPanel: two jurors, then a specialist.
FirstLadder == << <<"general", "general">>, <<"general", "general", "specialist">> >>
AppealLadder == 2 :> <<"general", "general", "specialist">>
LadderVotes == <<2, 2>>

\* A stand-in for the matrix factorisation: the majority of a note's raters.
Majority(n, R) ==
  IF 2 * Cardinality({e \in R : e.note = n /\ e.helpful})
       > Cardinality({e \in R : e.note = n})
  THEN "shown" ELSE "not_shown"

Rows(A) == focus = "outbox" /\ A /\ UNCHANGED <<focus, vars, services>>
Jury(A) == focus = "jury" /\ A /\ UNCHANGED <<focus, services, outboxVars>>
Files(A) ==
  /\ focus = "files" /\ A
  /\ UNCHANGED <<focus, vars, outboxVars, erasureVars, noteVars, endpointVars>>
Erasure(A) ==
  /\ focus = "erasure" /\ A
  /\ UNCHANGED <<focus, vars, outboxVars, fileVars, noteVars, endpointVars>>
NotesOnly(A) ==
  /\ focus = "notes" /\ A
  /\ UNCHANGED <<focus, vars, outboxVars, fileVars, erasureVars, endpointVars>>
Keys(A) ==
  /\ focus = "keys" /\ A
  /\ UNCHANGED <<focus, vars, outboxVars, fileVars, erasureVars, noteVars>>

MCInit ==
  /\ focus \in {"outbox", "jury", "files", "erasure", "notes", "keys"}
  /\ OutboxInit /\ Init /\ FilesInit /\ ErasureInit /\ NotesInit /\ EndpointsInit

MCNext ==
  \/ Rows(OutboxNext) \/ Jury(Next) \/ Files(FilesNext) \/ Erasure(ErasureNext)
  \/ NotesOnly(NotesNext) \/ Keys(EndpointsNext)

\* The fairness of Outbox, Panel, EvidenceFiles and AccountErasure, of the one in
\* focus.
MCFairness ==
  /\ WF_mcVars(Rows(ClockTicks))
  /\ \A p \in Runs : WF_mcVars(Rows(RunStep(p)))
  /\ \A h \in Workers : WF_mcVars(Jury(HandlerStep(h)))
  /\ \A s \in SeatIds : WF_mcVars(Jury(LeaveOrVote(s)))
  /\ \A p \in Passes : WF_mcVars(Files(PassStep(p)))
  /\ \A c \in Cases : WF_mcVars(Files(FallsDue(c)))
  /\ \A t \in Pullers : WF_mcVars(Erasure(PullStep(t)))
  /\ \A x \in Erasers : WF_mcVars(Erasure(EraserStep(x)))
  /\ WF_mcVars(Erasure(FeedLeaseLapses))
  /\ \A e \in Deletions : WF_mcVars(Erasure(ErasureLeaseLapses(e)))

MCSpec == MCInit /\ [][MCNext]_mcVars /\ MCFairness

-----------------------------------------------------------------------------
(***************************************************************************)
(* The type invariants of the services composed here.                      *)
(***************************************************************************)
ServiceTypesOK == FilesTypeOK /\ ErasureTypeOK /\ NotesTypeOK /\ EndpointsTypeOK

(***************************************************************************)
(* A behaviour about the jury decides every revision it opens: nobody's    *)
(* recusal, a dead handler or a vote that comes late leaves the case       *)
(* waiting (evaluateCase, handleAssignmentVacated, openPanel).             *)
(***************************************************************************)
JuryDecides == focus = "jury" => EventuallyDecided
=============================================================================
