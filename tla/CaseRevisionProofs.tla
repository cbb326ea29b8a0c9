------------------------- MODULE CaseRevisionProofs -------------------------
(***************************************************************************)
(* What one case guarantees for every number of revisions, workers and     *)
(* appeal requests.                                                        *)
(***************************************************************************)
EXTENDS CaseRevision, FiniteSetTheorems, SequenceTheorems, TLAPS

(***************************************************************************)
(* What a worker has read stays true however long it waits: the appeal     *)
(* and the previous decision of the revision it read.                      *)
(***************************************************************************)
WorkerKnows(x) ==
  /\ x.pc # "idle" => x.revision \in 1..case.currentRevision
  /\ x.pc \in {"previous", "publish"} =>
       IF x.revision = 1 THEN x.appeal = None
       ELSE \E a \in appeals : a.openedRevision = x.revision /\ x.appeal = a.id
  /\ x.pc = "publish" =>
       IF x.revision = 1 THEN x.previous = None /\ x.previousOutcome = "none"
       ELSE \E d \in decisions : /\ d.revision = x.revision - 1
                                /\ x.previous = d.id
                                /\ x.previousOutcome = d.outcome

(***************************************************************************)
(* What a request has read stays true, although the case may move on.      *)
(***************************************************************************)
FilerKnows(x) ==
  /\ x.pc # "idle" => x.key \in Keys /\ x.payload \in Payloads
  /\ x.pc \in {"decision", "open", "commit"} => x.revision \in 1..case.decidedRevision
  /\ x.pc \in {"open", "commit"} =>
       \E d \in decisions : /\ d.revision = x.revision
                           /\ x.decision = d.id
                           /\ d.outcome \in Appealable
  /\ x.pc = "commit" => x.seen \in 1..(MaxCaseRevision - 1)
  /\ x.pc = "done" /\ x.answer # None =>
       \E a \in appeals : a.id = x.answer /\ a.key = x.key /\ a.payload = x.payload

Inv == /\ CaseTypeOK
       /\ IsFiniteSet(decisions) /\ IsFiniteSet(appeals)
       /\ LedgerConsistent
       /\ AppealsOpenRevisions
       /\ StatusTells
       /\ \A w \in Deciders : WorkerKnows(decider[w])
       /\ \A f \in Filers : FilerKnows(filer[f])

USE DEF None

LEMMA InvInit == CaseInit => Inv
<1> SUFFICES ASSUME CaseInit PROVE Inv
  OBVIOUS
<1> USE OutcomesAssumption, MaxRevisionAssumption DEF CaseInit
<1>1. CaseTypeOK
  BY DEF CaseTypeOK, CaseRow, CaseRevisions, CaseStatuses, DeciderState, IdleDecider, FilerState,
         IdleFiler, Request
<1>2. IsFiniteSet(decisions) /\ IsFiniteSet(appeals)
  BY FS_EmptySet
<1>3. LedgerConsistent /\ AppealsOpenRevisions /\ StatusTells
  BY DEF LedgerConsistent, AppealsOpenRevisions, StatusTells, DecisionOf, CaseRevisions
<1>4. ASSUME NEW w \in Deciders PROVE WorkerKnows(decider[w])
  BY DEF WorkerKnows, IdleDecider
<1>5. ASSUME NEW f \in Filers PROVE FilerKnows(filer[f])
  BY DEF FilerKnows, IdleFiler, Request
<1> QED  BY <1>1, <1>2, <1>3, <1>4, <1>5 DEF Inv

-----------------------------------------------------------------------------
(***************************************************************************)
(* A step that only moves the status keeps the invariant if it does not    *)
(* touch "decided".                                                        *)
(***************************************************************************)
LEMMA StatusStep ==
  ASSUME Inv, NEW from, NEW to, MoveStatus(from, to),
         from \subseteq CaseStatuses \ {"decided"}, to \in CaseStatuses \ {"decided"}
  PROVE  Inv'
<1>1. /\ case' = [case EXCEPT !.status = to] /\ case.status # "decided"
      /\ case \in CaseRow
      /\ UNCHANGED <<decisions, appeals, decider, filer>>
  BY DEF MoveStatus, Inv, CaseTypeOK
<1>2. /\ case' \in CaseRow
      /\ case'.currentRevision = case.currentRevision
      /\ case'.decidedRevision = case.decidedRevision
      /\ case'.status = to
  BY <1>1 DEF CaseRow
<1>3. CaseTypeOK'
  BY <1>1, <1>2 DEF Inv, CaseTypeOK
<1>4. StatusTells'
  BY <1>1, <1>2 DEF Inv, StatusTells
<1>5. LedgerConsistent' /\ AppealsOpenRevisions'
  BY <1>1, <1>2 DEF Inv, LedgerConsistent, AppealsOpenRevisions, DecisionOf
<1>6. \A w \in Deciders : WorkerKnows(decider[w])'
  BY <1>1, <1>2 DEF Inv, WorkerKnows
<1>7. \A f \in Filers : FilerKnows(filer[f])'
  BY <1>1, <1>2 DEF Inv, FilerKnows
<1> QED  BY <1>1, <1>3, <1>4, <1>5, <1>6, <1>7 DEF Inv

\* A step of one worker alone keeps it if what the worker now knows is true.
LEMMA WorkerAlone ==
  ASSUME Inv, NEW w \in Deciders, NEW x \in DeciderState, WorkerKnows(x),
         decider' = [decider EXCEPT ![w] = x],
         UNCHANGED <<case, decisions, appeals, filer>>
  PROVE  Inv'
<1>1. CaseTypeOK'
  BY DEF Inv, CaseTypeOK
<1>2. \A v \in Deciders : WorkerKnows(decider[v])'
  BY DEF Inv, CaseTypeOK, WorkerKnows
<1>3. \A f \in Filers : FilerKnows(filer[f])'
  BY DEF Inv, FilerKnows
<1> QED
  BY <1>1, <1>2, <1>3
  DEF Inv, LedgerConsistent, AppealsOpenRevisions, StatusTells, DecisionOf

\* A step of one request alone likewise.
LEMMA FilerAlone ==
  ASSUME Inv, NEW f \in Filers, NEW x \in FilerState, FilerKnows(x), FilerStep(f, x)
  PROVE  Inv'
<1>0. /\ filer' = [filer EXCEPT ![f] = x]
      /\ UNCHANGED <<case, decisions, appeals, decider>>
  BY DEF FilerStep
<1>1. CaseTypeOK'
  BY <1>0 DEF Inv, CaseTypeOK
<1>2. \A w \in Deciders : WorkerKnows(decider[w])'
  BY <1>0 DEF Inv, WorkerKnows
<1>3. \A g \in Filers : FilerKnows(filer[g])'
  BY <1>0 DEF Inv, CaseTypeOK, FilerKnows
<1> QED
  BY <1>0, <1>1, <1>2, <1>3
  DEF Inv, LedgerConsistent, AppealsOpenRevisions, StatusTells, DecisionOf

-----------------------------------------------------------------------------
\* A decided revision has one decision.
LEMMA DecidedHasDecision ==
  ASSUME Inv, NEW r \in 1..case.decidedRevision
  PROVE  \E d \in decisions : DecisionOf(r) = {d}
<1>1. case.decidedRevision \in 0..MaxCaseRevision
  BY DEF Inv, CaseTypeOK, CaseRow
<1>2. r \in CaseRevisions /\ ~(r > case.decidedRevision)
  BY <1>1, MaxRevisionAssumption DEF CaseRevisions
<1> QED  BY <1>2 DEF Inv, LedgerConsistent

\* Where the case stands, as numbers.
LEMMA CaseNumbers ==
  ASSUME Inv
  PROVE  /\ case.currentRevision \in Nat /\ case.decidedRevision \in Nat
         /\ case.currentRevision \in 1..MaxCaseRevision
         /\ case.decidedRevision \in {case.currentRevision - 1, case.currentRevision}
<1>1. case.currentRevision \in 1..MaxCaseRevision /\ case.decidedRevision \in 0..MaxCaseRevision
  BY DEF Inv, CaseTypeOK, CaseRow, CaseRevisions
<1>2. case.decidedRevision \in {case.currentRevision - 1, case.currentRevision}
  BY DEF Inv, LedgerConsistent
<1> QED  BY <1>1, <1>2, MaxRevisionAssumption

\* Every read of a worker is of something that stays true.
LEMMA WorkerReads ==
  ASSUME Inv, NEW w \in Deciders,
         ReadCase(w) \/ ReadAppeal(w) \/ ReadPrevious(w) \/ Abandon(w)
  PROVE  Inv'
<1> DEFINE old == decider[w]
<1>0. old \in DeciderState /\ WorkerKnows(old) /\ case \in CaseRow
  BY DEF Inv, CaseTypeOK
<1>1. CASE ReadCase(w)
  <2> DEFINE x == [old EXCEPT !.pc = "appeal", !.revision = case.currentRevision]
  <2>1. case.currentRevision \in 1..MaxCaseRevision /\ case.currentRevision \in 0..MaxCaseRevision
    BY <1>0, MaxRevisionAssumption DEF CaseRow, CaseRevisions
  <2>2. x \in DeciderState
    BY <1>0, <2>1, MaxRevisionAssumption DEF DeciderState
  <2>3. x.pc = "appeal" /\ x.revision = case.currentRevision
    BY <1>0 DEF DeciderState
  <2>4. WorkerKnows(x)
    BY <2>1, <2>3, MaxRevisionAssumption DEF WorkerKnows
  <2>5. decider' = [decider EXCEPT ![w] = x]
    BY <1>1 DEF ReadCase
  <2> QED  BY <1>1, <2>2, <2>4, <2>5, WorkerAlone DEF ReadCase
<1>2. CASE ReadAppeal(w)
  <2>0. PICK id : /\ decider' = [decider EXCEPT ![w].pc = "previous", ![w].appeal = id]
                  /\ \/ \E a \in appeals : a.openedRevision = old.revision /\ id = a.id
                     \/ /\ ~\E a \in appeals : a.openedRevision = old.revision
                        /\ id = None
    BY <1>2 DEF ReadAppeal
  <2> DEFINE x == [old EXCEPT !.pc = "previous", !.appeal = id]
  <2>1. id \in Nat
    BY <2>0 DEF Inv, CaseTypeOK, AppealRow
  <2>2. old.revision \in 1..case.currentRevision /\ old.pc = "appeal"
    BY <1>0, <1>2 DEF ReadAppeal, WorkerKnows
  <2>3. x \in DeciderState
    BY <1>0, <2>1 DEF DeciderState
  <2>4. \A a \in appeals : a.openedRevision # 1
    BY DEF Inv, AppealsOpenRevisions, CaseTypeOK, AppealRow, CaseRevisions
  <2>5. old.revision # 1 => \E a \in appeals : a.openedRevision = old.revision
    BY <2>2, <1>0 DEF Inv, AppealsOpenRevisions, CaseRow, CaseRevisions
  <2>6. WorkerKnows(x)
    BY <1>0, <2>0, <2>2, <2>4, <2>5 DEF WorkerKnows, DeciderState
  <2>7. decider' = [decider EXCEPT ![w] = x]
    BY <2>0
  <2> QED  BY <1>2, <2>3, <2>6, <2>7, WorkerAlone DEF ReadAppeal
<1>3. CASE ReadPrevious(w)
  <2>0. PICK id, outcome :
          /\ decider' = [decider EXCEPT ![w].pc = "publish", ![w].previous = id,
                                      ![w].previousOutcome = outcome]
          /\ \/ \E d \in DecisionOf(old.revision - 1) : id = d.id /\ outcome = d.outcome
             \/ DecisionOf(old.revision - 1) = {} /\ id = None /\ outcome = "none"
    BY <1>3 DEF ReadPrevious, PreviousRevision
  <2> DEFINE x == [old EXCEPT !.pc = "publish", !.previous = id,
                              !.previousOutcome = outcome]
  <2>1. id \in Nat /\ outcome \in DecisionOutcomes \cup {"none"}
    BY <2>0 DEF Inv, CaseTypeOK, DecisionRow, DecisionOf
  <2>2. old.revision \in 1..case.currentRevision /\ old.pc = "previous"
    BY <1>0, <1>3 DEF ReadPrevious, WorkerKnows
  <2>3. x \in DeciderState
    BY <1>0, <2>1 DEF DeciderState
  <2>4. DecisionOf(0) = {}
    BY DEF Inv, CaseTypeOK, DecisionRow, DecisionOf, CaseRevisions
  <2>5. ASSUME old.revision # 1 PROVE DecisionOf(old.revision - 1) # {}
    <3>1. old.revision - 1 \in 1..case.decidedRevision
      BY <2>2, <2>5, CaseNumbers
    <3> QED  BY <3>1, DecidedHasDecision
  <2>6. WorkerKnows(x)
    BY <1>0, <2>0, <2>2, <2>4, <2>5 DEF WorkerKnows, DeciderState, DecisionOf
  <2>7. decider' = [decider EXCEPT ![w] = x]
    BY <2>0
  <2> QED  BY <1>3, <2>3, <2>6, <2>7, WorkerAlone DEF ReadPrevious
<1>4. CASE Abandon(w)
  <2>1. IdleDecider \in DeciderState /\ WorkerKnows(IdleDecider)
    BY MaxRevisionAssumption DEF IdleDecider, DeciderState, WorkerKnows
  <2> QED  BY <1>4, <2>1, WorkerAlone DEF Abandon
<1> QED  BY <1>1, <1>2, <1>3, <1>4

\* Every step of a request but the commit is of something that stays true.
LEMMA FilerReads ==
  ASSUME Inv, NEW f \in Filers,
         \/ \E k \in Keys, p \in Payloads : StartFiling(f, k, p)
         \/ ReadReplay(f) \/ ReadCaseToAppeal(f) \/ ReadAppealedDecision(f)
         \/ ReadCaseToOpen(f) \/ RollBackAppeal(f) \/ RecogniseDuplicate(f)
         \/ DropRequest(f)
  PROVE  Inv'
<1> DEFINE old == filer[f]
<1>0. old \in FilerState /\ FilerKnows(old) /\ 0 \in 0..MaxCaseRevision
  BY MaxRevisionAssumption DEF Inv, CaseTypeOK
<1>1. ASSUME NEW k \in Keys, NEW p \in Payloads, StartFiling(f, k, p) PROVE Inv'
  <2>1. Filing(k, p) \in FilerState /\ FilerKnows(Filing(k, p))
    BY <1>0 DEF Filing, Request, FilerState, FilerKnows
  <2>2. FilerStep(f, Filing(k, p))
    BY <1>1 DEF StartFiling, FilerStep
  <2> QED  BY <2>1, <2>2, FilerAlone
<1>2. ASSUME old.pc # "idle",
             NEW a \in Nat,
             a # None => \E x \in appeals :
               x.id = a /\ x.key = old.key /\ x.payload = old.payload,
             FilerStep(f, Answered(f, a))
      PROVE  Inv'
  <2>1. old.key \in Keys /\ old.payload \in Payloads
    BY <1>0, <1>2 DEF FilerKnows
  <2>2. Answered(f, a) = [pc |-> "done", key |-> old.key, payload |-> old.payload,
                          revision |-> 0, decision |-> None, seen |-> 0, answer |-> a]
    BY DEF Answered, Request
  <2>3. Answered(f, a) \in FilerState
    BY <1>0, <1>2, <2>1, <2>2 DEF FilerState
  <2>4. FilerKnows(Answered(f, a))
    BY <1>2, <2>1, <2>2 DEF FilerKnows
  <2> QED  BY <1>2, <2>3, <2>4, FilerAlone
<1>3. ASSUME old.pc # "idle", FilerStep(f, Refused(f)) PROVE Inv'
  BY <1>2, <1>3 DEF Refused
<1>4. ASSUME old.pc # "idle", NEW a \in StoredUnder(old.key), RecogniseReplay(f, a)
      PROVE  Inv'
  <2>1. a \in appeals /\ a.key = old.key /\ a.id \in Nat
    BY <1>4 DEF StoredUnder, Inv, CaseTypeOK, AppealRow
  <2>2. CASE a.payload = old.payload
    BY <1>2, <1>4, <2>1, <2>2 DEF RecogniseReplay, SameFiling
  <2>3. CASE a.payload # old.payload
    BY <1>3, <1>4, <2>3 DEF RecogniseReplay, SameFiling
  <2> QED  BY <2>2, <2>3
<1>5. CASE ReadReplay(f)
  <2> DEFINE x == [old EXCEPT !.pc = "case"]
  <2>1. x \in FilerState /\ (old.pc # "idle" => FilerKnows(x))
    BY <1>0 DEF FilerState, FilerKnows
  <2>2. old.pc # "idle"
    BY <1>5 DEF ReadReplay
  <2>3. CASE FilerStep(f, x)
    BY <2>1, <2>2, <2>3, FilerAlone
  <2> QED  BY <1>4, <1>5, <2>2, <2>3 DEF ReadReplay
<1>6. CASE ReadCaseToAppeal(f)
  <2> DEFINE x == [old EXCEPT !.pc = "decision", !.revision = case.currentRevision]
  <2>1. old.pc = "case"
    BY <1>6 DEF ReadCaseToAppeal
  <2>2. CASE case.decidedRevision = case.currentRevision
    <3>1. /\ case.currentRevision \in 0..MaxCaseRevision
          /\ case.currentRevision \in 1..case.decidedRevision
      BY <2>2, CaseNumbers, MaxRevisionAssumption
    <3>2. x \in FilerState
      BY <1>0, <3>1 DEF FilerState
    <3>3. FilerKnows(x)
      BY <1>0, <2>1, <3>1 DEF FilerKnows, FilerState
    <3>4. FilerStep(f, x)
      BY <1>6, <2>2 DEF ReadCaseToAppeal
    <3> QED  BY <3>2, <3>3, <3>4, FilerAlone
  <2> QED  BY <1>3, <1>6, <2>1, <2>2 DEF ReadCaseToAppeal
<1>7. CASE ReadAppealedDecision(f)
  <2>1. old.pc = "decision"
    BY <1>7 DEF ReadAppealedDecision
  <2>2. ASSUME NEW d \in DecisionOf(old.revision), d.outcome \in Appealable,
               FilerStep(f, [old EXCEPT !.pc = "open", !.decision = d.id])
        PROVE  Inv'
    <3> DEFINE x == [old EXCEPT !.pc = "open", !.decision = d.id]
    <3>1. d \in decisions /\ d.revision = old.revision /\ d.id \in Nat
      BY <2>2 DEF DecisionOf, Inv, CaseTypeOK, DecisionRow
    <3>2. x \in FilerState
      BY <1>0, <3>1 DEF FilerState
    <3>3. FilerKnows(x)
      BY <1>0, <2>1, <2>2, <3>1 DEF FilerKnows, FilerState
    <3> QED  BY <2>2, <3>2, <3>3, FilerAlone
  <2> QED  BY <1>3, <1>7, <2>1, <2>2 DEF ReadAppealedDecision, AppealableOutcome
<1>8. CASE ReadCaseToOpen(f)
  <2> DEFINE x == [old EXCEPT !.pc = "commit", !.seen = case.currentRevision]
  <2>1. /\ old.pc = "open" /\ case.currentRevision \in 0..MaxCaseRevision
        /\ case.currentRevision \in 1..(MaxCaseRevision - 1)
    BY <1>8, CaseNumbers, MaxRevisionAssumption DEF ReadCaseToOpen
  <2>2. x \in FilerState
    BY <1>0, <2>1 DEF FilerState
  <2>3. FilerKnows(x)
    BY <1>0, <2>1 DEF FilerKnows, FilerState
  <2> QED  BY <1>8, <2>2, <2>3, FilerAlone DEF ReadCaseToOpen
<1>9. CASE RollBackAppeal(f)
  <2> DEFINE x == [old EXCEPT !.pc = "recognise"]
  <2>1. x \in FilerState /\ (old.pc # "idle" => FilerKnows(x))
    BY <1>0 DEF FilerState, FilerKnows
  <2>2. old.pc # "idle"
    BY <1>9 DEF RollBackAppeal
  <2>3. CASE FilerStep(f, x)
    BY <2>1, <2>2, <2>3, FilerAlone
  <2> QED  BY <1>3, <1>9, <2>2, <2>3 DEF RollBackAppeal
<1>10. CASE RecogniseDuplicate(f)
  BY <1>4, <1>10 DEF RecogniseDuplicate
<1>11. CASE DropRequest(f)
  <2>1. IdleFiler \in FilerState /\ FilerKnows(IdleFiler)
    BY <1>0 DEF IdleFiler, Request, FilerState, FilerKnows
  <2> QED  BY <1>11, <2>1, FilerAlone DEF DropRequest
<1> QED  BY <1>1, <1>5, <1>6, <1>7, <1>8, <1>9, <1>10, <1>11

-----------------------------------------------------------------------------
\* What a published decision finds and leaves behind.
LEMMA PublishFinds ==
  ASSUME Inv, NEW w \in Deciders, NEW o \in DecisionOutcomes, PublishDecision(w, o),
         MayDecide(decider[w].revision)
  PROVE  LET r == decider[w].revision
         IN  /\ r = case.currentRevision /\ case.decidedRevision = r - 1
             /\ r \in 1..MaxCaseRevision
             /\ NewDecision(w, o) \in DecisionRow
             /\ NewDecision(w, o).supersedes = decider[w].previous
             /\ r = 1 => decider[w].previous = None
             /\ r # 1 => \E d \in DecisionOf(r - 1) : decider[w].previous = d.id
<1> DEFINE r == decider[w].revision
<1>1. r = case.currentRevision /\ case.decidedRevision = r - 1 /\ r \in 1..MaxCaseRevision
  BY CaseNumbers DEF MayDecide
<1>2. decider[w] \in DeciderState /\ WorkerKnows(decider[w]) /\ decider[w].pc = "publish"
  BY DEF Inv, CaseTypeOK, PublishDecision
<1>3. NewId(decisions) \in Nat \ {None}
  BY FS_CardinalityType DEF Inv, NewId
<1>4. NewDecision(w, o) \in DecisionRow
  BY <1>1, <1>2, <1>3 DEF NewDecision, DecisionRow, CaseRevisions, DeciderState
<1>5. r = 1 => decider[w].previous = None
  BY <1>2 DEF WorkerKnows
<1>6. r # 1 => \E d \in DecisionOf(r - 1) : decider[w].previous = d.id
  BY <1>2 DEF WorkerKnows, DecisionOf
<1> QED  BY <1>1, <1>4, <1>5, <1>6 DEF NewDecision

LEMMA PublishKeepsInv ==
  ASSUME Inv, NEW w \in Deciders, NEW o \in DecisionOutcomes, PublishDecision(w, o)
  PROVE  Inv'
<1>0. IdleDecider \in DeciderState /\ WorkerKnows(IdleDecider)
  BY MaxRevisionAssumption DEF IdleDecider, DeciderState, WorkerKnows
<1>1. CASE ~(MayDecide(decider[w].revision) /\ DecisionOf(decider[w].revision) = {})
  BY <1>0, <1>1, WorkerAlone DEF PublishDecision
<1>2. CASE MayDecide(decider[w].revision) /\ DecisionOf(decider[w].revision) = {}
  <2>0. PICK r, new : r = decider[w].revision /\ new = NewDecision(w, o)
    OBVIOUS
  <2>1. /\ r = case.currentRevision /\ case.decidedRevision = r - 1 /\ r \in 1..MaxCaseRevision
        /\ new \in DecisionRow /\ new.supersedes = decider[w].previous
        /\ r = 1 => decider[w].previous = None
        /\ r # 1 => \E d \in DecisionOf(r - 1) : decider[w].previous = d.id
    BY <1>2, <2>0, PublishFinds
  <2>2. /\ case' = [case EXCEPT !.decidedRevision = r, !.status = "decided"]
        /\ decisions' = decisions \cup {new}
        /\ decider' = [decider EXCEPT ![w] = IdleDecider]
        /\ UNCHANGED <<appeals, filer>>
    BY <1>2, <2>0 DEF PublishDecision
  <2>3. case \in CaseRow
    BY DEF Inv, CaseTypeOK
  <2>4. /\ case' \in CaseRow /\ case'.currentRevision = r
        /\ case'.decidedRevision = r /\ case'.status = "decided"
    <3>1. r \in 0..MaxCaseRevision
      BY <2>1, MaxRevisionAssumption
    <3> QED  BY <2>1, <2>2, <2>3, <3>1 DEF CaseRow, CaseStatuses
  <2>5. CaseTypeOK'
    BY <1>0, <2>1, <2>2, <2>4 DEF Inv, CaseTypeOK
  <2>6. IsFiniteSet(decisions') /\ IsFiniteSet(appeals')
    BY <2>2, FS_AddElement DEF Inv
  <2>7. new.revision = r /\ new.status = "final"
    BY <2>0 DEF NewDecision
  <2>8. /\ DecisionOf(r)' = {new}
        /\ \A q \in CaseRevisions : q # r => DecisionOf(q)' = DecisionOf(q)
    BY <1>2, <2>0, <2>2, <2>7 DEF DecisionOf
  <2>9. LedgerConsistent'
    <3>1. ASSUME NEW q \in CaseRevisions, q > r PROVE DecisionOf(q)' = {}
      BY <2>1, <2>8, <3>1 DEF Inv, LedgerConsistent, CaseRevisions
    <3>2. ASSUME NEW q \in CaseRevisions, q < r
          PROVE  \E d \in decisions' :
                   /\ DecisionOf(q)' = {d} /\ d.status = "superseded"
                   /\ IF q = 1 THEN d.supersedes = None
                               ELSE \E b \in DecisionOf(q - 1)' : d.supersedes = b.id
      <4>1. ~(q > case.decidedRevision) /\ q # case.currentRevision /\ q # r
        BY <2>1, <3>2 DEF CaseRevisions
      <4>2. PICK d \in decisions :
              /\ DecisionOf(q) = {d} /\ d.status = "superseded"
              /\ IF q = 1 THEN d.supersedes = None
                          ELSE \E b \in DecisionOf(q - 1) : d.supersedes = b.id
        BY <4>1 DEF Inv, LedgerConsistent
      <4>3. q # 1 => q - 1 \in CaseRevisions /\ q - 1 # r
        BY <2>1, <3>2, MaxRevisionAssumption DEF CaseRevisions
      <4>4. q # 1 => DecisionOf(q - 1)' = DecisionOf(q - 1)
        BY <2>8, <4>3
      <4> QED  BY <2>2, <2>8, <4>1, <4>2, <4>4
    <3>3. r # 1 => DecisionOf(r - 1)' = DecisionOf(r - 1)
      <4>1. r # 1 => r - 1 \in CaseRevisions /\ r - 1 # r
        BY <2>1, MaxRevisionAssumption DEF CaseRevisions
      <4> QED  BY <2>8, <4>1
    <3>4. /\ new \in decisions' /\ DecisionOf(r)' = {new} /\ new.status = "final"
          /\ IF r = 1 THEN new.supersedes = None
                      ELSE \E b \in DecisionOf(r - 1)' : new.supersedes = b.id
      BY <2>1, <2>2, <2>7, <2>8, <3>3
    <3>5. \A q \in CaseRevisions : q > r \/ q < r \/ q = r
      BY <2>1 DEF CaseRevisions
    <3>6. \A q \in CaseRevisions : ~(q > r) /\ q # r => q < r
      BY <2>1 DEF CaseRevisions
    <3>7. ~(r > r) /\ \A q \in CaseRevisions : q < r => ~(q > r) /\ q # r
      BY <2>1 DEF CaseRevisions
    <3> QED
      BY <2>4, <3>1, <3>2, <3>4, <3>6, <3>7 DEF LedgerConsistent
  <2>10. AppealsOpenRevisions'
    BY <2>1, <2>2, <2>4 DEF Inv, AppealsOpenRevisions, DecisionOf
  <2>11. StatusTells'
    BY <2>4 DEF StatusTells
  <2>12. \A v \in Deciders : WorkerKnows(decider[v])'
    <3>1. \A x : WorkerKnows(x) => WorkerKnows(x)'
      BY <2>1, <2>2, <2>4 DEF WorkerKnows
    <3> QED  BY <1>0, <2>2, <3>1 DEF Inv, CaseTypeOK
  <2>13. \A f \in Filers : FilerKnows(filer[f])'
    <3>1. 1..case.decidedRevision \subseteq 1..case'.decidedRevision
      BY <2>1, <2>4
    <3>2. \A x : FilerKnows(x) => FilerKnows(x)'
      BY <2>2, <3>1 DEF FilerKnows
    <3> QED  BY <2>2, <3>2 DEF Inv
  <2> QED  BY <2>5, <2>6, <2>9, <2>10, <2>11, <2>12, <2>13 DEF Inv
<1> QED  BY <1>1, <1>2

-----------------------------------------------------------------------------
\* markSuperseded changes a status and nothing else.
LEMMA SupersededRows ==
  ASSUME Inv, NEW s \in CaseRevisions
  PROVE  /\ IsFiniteSet(Superseded(s))
         /\ Superseded(s) \subseteq DecisionRow
         /\ \A d \in decisions : \E e \in Superseded(s) :
              /\ e.id = d.id /\ e.revision = d.revision /\ e.outcome = d.outcome
              /\ e.supersedes = d.supersedes
         /\ \A e \in Superseded(s) : \E d \in decisions :
              /\ e.id = d.id /\ e.revision = d.revision /\ e.outcome = d.outcome
              /\ e.supersedes = d.supersedes
         /\ \A e \in Superseded(s) : e.revision = s => e.status = "superseded"
         /\ \A e \in Superseded(s) : e.revision # s => e \in decisions
         /\ \A d \in decisions : d.revision # s => d \in Superseded(s)
         /\ \A d \in decisions : DecisionOf(s) = {d} =>
              \E e \in Superseded(s) : /\ {x \in Superseded(s) : x.revision = s} = {e}
                                      /\ e.supersedes = d.supersedes
<1> DEFINE to(d) == IF d.revision = s /\ d.status = "final"
                      THEN [d EXCEPT !.status = "superseded"] ELSE d
<1>1. Superseded(s) = {to(d) : d \in decisions}
  BY DEF Superseded
<1>2. IsFiniteSet({to(d) : d \in decisions})
  <2> DEFINE g == [d \in decisions |-> to(d)]
  <2> HIDE DEF to
  <2>1. g \in Surjection(decisions, {to(d) : d \in decisions})
    BY DEF Surjection
  <2> QED  BY <2>1, FS_Surjection DEF Inv
<1>3. ASSUME NEW d \in DecisionRow
      PROVE  /\ to(d) \in DecisionRow
             /\ to(d).id = d.id /\ to(d).revision = d.revision
             /\ to(d).outcome = d.outcome /\ to(d).supersedes = d.supersedes
             /\ d.revision = s => to(d).status = "superseded"
             /\ d.revision # s => to(d) = d
  BY DEF DecisionRow
<1>4. decisions \subseteq DecisionRow
  BY DEF Inv, CaseTypeOK
<1> HIDE DEF to
<1>5. ASSUME NEW d \in decisions, DecisionOf(s) = {d}
      PROVE  {x \in Superseded(s) : x.revision = s} = {to(d)}
  <2>1. d.revision = s
    BY <1>5 DEF DecisionOf
  <2>2. ASSUME NEW x \in Superseded(s), x.revision = s PROVE x = to(d)
    <3>1. PICK c \in decisions : x = to(c)
      BY <1>1
    <3>2. c.revision = s
      BY <1>3, <1>4, <2>2, <3>1
    <3>3. c = d
      BY <1>5, <3>2 DEF DecisionOf
    <3> QED  BY <3>1, <3>3
  <2>3. to(d) \in Superseded(s) /\ to(d).revision = s
    BY <1>1, <1>3, <1>4, <2>1
  <2> QED  BY <2>2, <2>3
<1>6. ASSUME NEW d \in decisions, DecisionOf(s) = {d}
      PROVE  \E e \in Superseded(s) : /\ {x \in Superseded(s) : x.revision = s} = {e}
                                      /\ e.supersedes = d.supersedes
  BY <1>1, <1>3, <1>4, <1>5, <1>6
<1>7. /\ Superseded(s) \subseteq DecisionRow
      /\ \A e \in Superseded(s) : e.revision = s => e.status = "superseded"
      /\ \A e \in Superseded(s) : e.revision # s => e \in decisions
      /\ \A d \in decisions : d.revision # s => d \in Superseded(s)
  BY <1>1, <1>3, <1>4
<1> QED  BY <1>1, <1>2, <1>3, <1>4, <1>6, <1>7

\* What a committed appeal finds: it opens the revision it says it opens.
LEMMA CommitFinds ==
  ASSUME Inv, NEW f \in Filers, CommitAppeal(f)
  PROVE  LET s == filer[f].seen
         IN  /\ s = case.currentRevision /\ s = case.decidedRevision
             /\ s \in 1..(MaxCaseRevision - 1) /\ filer[f].revision = s
             /\ \E d \in DecisionOf(s) : /\ filer[f].decision = d.id
                                        /\ d.outcome \in Appealable
<1> DEFINE s == filer[f].seen
<1>1. /\ filer[f].pc = "commit" /\ FilerKnows(filer[f])
      /\ s = case.currentRevision /\ s = case.decidedRevision
      /\ ~AppealedBefore(filer[f].revision)
  BY DEF CommitAppeal, Inv
<1>2. /\ s \in 1..(MaxCaseRevision - 1) /\ filer[f].revision \in 1..s
      /\ \E d \in decisions : /\ d.revision = filer[f].revision
                              /\ filer[f].decision = d.id /\ d.outcome \in Appealable
  BY <1>1 DEF FilerKnows
<1>3. ASSUME filer[f].revision # s PROVE FALSE
  <2>1. filer[f].revision + 1 \in 2..case.currentRevision
    BY <1>1, <1>2, <1>3, MaxRevisionAssumption
  <2>2. PICK a \in appeals : a.openedRevision = filer[f].revision + 1
    BY <2>1 DEF Inv, AppealsOpenRevisions
  <2>3. a.supersededRevision \in Nat /\ a.openedRevision = a.supersededRevision + 1
    BY DEF Inv, CaseTypeOK, AppealRow, CaseRevisions, AppealsOpenRevisions
  <2>4. a.supersededRevision = filer[f].revision
    BY <1>2, <2>2, <2>3
  <2> QED  BY <1>1, <2>4 DEF AppealedBefore
<1> QED  BY <1>1, <1>2, <1>3 DEF DecisionOf

LEMMA CommitKeepsInv ==
  ASSUME Inv, NEW f \in Filers, CommitAppeal(f)
  PROVE  Inv'
<1>0. PICK s, new, me : /\ s = filer[f].seen /\ new = NewAppeal(f)
                        /\ me = Answered(f, new.id)
  OBVIOUS
<1>1. /\ s = case.currentRevision /\ s = case.decidedRevision
      /\ s \in 1..(MaxCaseRevision - 1) /\ filer[f].revision = s
      /\ \E d \in DecisionOf(s) : filer[f].decision = d.id
  BY <1>0, CommitFinds
<1>2. s \in CaseRevisions /\ s + 1 \in CaseRevisions /\ s \in Nat
  BY <1>1, MaxRevisionAssumption DEF CaseRevisions
<1>3. /\ case' = [case EXCEPT !.currentRevision = s + 1, !.status = "appealed"]
      /\ decisions' = Superseded(s)
      /\ appeals' = appeals \cup {new}
      /\ filer' = [filer EXCEPT ![f] = me]
      /\ UNCHANGED decider
  BY <1>0 DEF CommitAppeal, NextRevision
<1>4. /\ case' \in CaseRow /\ case'.currentRevision = s + 1
      /\ case'.decidedRevision = s /\ case'.status = "appealed"
  BY <1>1, <1>2, <1>3 DEF Inv, CaseTypeOK, CaseRow, CaseStatuses
<1>5. filer[f] \in FilerState /\ FilerKnows(filer[f]) /\ filer[f].pc = "commit"
  BY DEF Inv, CaseTypeOK, CommitAppeal
<1>6. /\ new \in AppealRow /\ new.key = filer[f].key /\ new.payload = filer[f].payload
      /\ new.supersededRevision = s /\ new.openedRevision = s + 1
      /\ new.supersededDecision = filer[f].decision
  <2>1. NewId(appeals) \in Nat \ {None}
    BY FS_CardinalityType DEF Inv, NewId
  <2> QED
    BY <1>0, <1>1, <1>2, <1>5, <2>1 DEF NewAppeal, AppealRow, FilerState, FilerKnows
<1>7. me \in FilerState /\ me.pc = "done" /\ me.answer = new.id
      /\ me.key = new.key /\ me.payload = new.payload
  <2>1. new.id \in Nat /\ 0 \in 0..MaxCaseRevision
    BY <1>6, MaxRevisionAssumption DEF AppealRow
  <2> QED  BY <1>0, <1>5, <1>6, <2>1 DEF Answered, Request, FilerState
<1>8. CaseTypeOK'
  BY <1>2, <1>3, <1>4, <1>6, <1>7, SupersededRows DEF Inv, CaseTypeOK
<1>9. IsFiniteSet(decisions') /\ IsFiniteSet(appeals')
  BY <1>2, <1>3, SupersededRows, FS_AddElement DEF Inv
<1>10. LedgerConsistent'
  <2>1. \A q : DecisionOf(q)' = {e \in Superseded(s) : e.revision = q}
    BY <1>3 DEF DecisionOf
  <2>2. \A q : q # s => DecisionOf(q)' = DecisionOf(q)
    <3>1. \A q : q # s => {e \in Superseded(s) : e.revision = q} = DecisionOf(q)
      BY <1>2, SupersededRows DEF DecisionOf
    <3> QED  BY <2>1, <3>1
  <2>3. ASSUME NEW q \in CaseRevisions, q > s PROVE DecisionOf(q)' = {}
    <3>1. q # s /\ q > case.decidedRevision
      BY <1>1, <1>2, <2>3 DEF CaseRevisions
    <3> QED  BY <2>2, <3>1 DEF Inv, LedgerConsistent
  <2>4. ASSUME NEW q \in CaseRevisions, ~(q > s)
        PROVE  \E d \in decisions' :
                 /\ DecisionOf(q)' = {d} /\ d.status = "superseded"
                 /\ IF q = 1 THEN d.supersedes = None
                             ELSE \E b \in DecisionOf(q - 1)' : d.supersedes = b.id
    <3>1. PICK d \in decisions :
            /\ DecisionOf(q) = {d}
            /\ d.status = IF q = case.currentRevision THEN "final" ELSE "superseded"
            /\ IF q = 1 THEN d.supersedes = None
                        ELSE \E b \in DecisionOf(q - 1) : d.supersedes = b.id
      BY <1>1, <2>4 DEF Inv, LedgerConsistent
    <3>2. q \in Nat /\ (q # 1 => q - 1 # s)
      BY <1>2, <2>4, MaxRevisionAssumption DEF CaseRevisions
    <3>3. q # 1 => DecisionOf(q - 1)' = DecisionOf(q - 1)
      BY <2>2, <3>2
    <3>4. CASE q # s
      <4>1. d.status = "superseded" /\ d.revision = q
        BY <1>1, <3>1, <3>4 DEF DecisionOf
      <4>2. d \in decisions'
        BY <1>2, <1>3, <3>4, <4>1, SupersededRows
      <4> QED  BY <2>2, <3>1, <3>3, <3>4, <4>1, <4>2
    <3>5. CASE q = s
      <4>1. PICK e \in Superseded(s) : /\ {x \in Superseded(s) : x.revision = s} = {e}
                                       /\ e.supersedes = d.supersedes
        BY <1>2, <3>1, <3>5, SupersededRows
      <4>2. e.status = "superseded"
        BY <1>2, <4>1, SupersededRows
      <4> QED  BY <1>3, <2>1, <3>1, <3>3, <3>5, <4>1, <4>2
    <3> QED  BY <3>4, <3>5
  <2>5. \A q \in CaseRevisions : q > s \/ q # s + 1
    BY <1>2 DEF CaseRevisions
  <2>6. case'.decidedRevision \in {case'.currentRevision - 1, case'.currentRevision}
    BY <1>2, <1>4
  <2>7. ASSUME NEW q \in CaseRevisions
        PROVE  IF q > case'.decidedRevision THEN DecisionOf(q)' = {} ELSE
                 \E d \in decisions' :
                   /\ DecisionOf(q)' = {d}
                   /\ d.status = IF q = case'.currentRevision THEN "final" ELSE "superseded"
                   /\ IF q = 1 THEN d.supersedes = None
                               ELSE \E b \in DecisionOf(q - 1)' : d.supersedes = b.id
    BY <1>4, <2>3, <2>4, <2>5, <2>7
  <2> QED  BY <2>6, <2>7 DEF LedgerConsistent
<1>11. AppealsOpenRevisions'
  <2>1. /\ new.openedRevision = new.supersededRevision + 1
        /\ new.openedRevision <= case'.currentRevision
    BY <1>2, <1>4, <1>6
  <2>2. \A a \in appeals : /\ a.openedRevision = a.supersededRevision + 1
                           /\ a.openedRevision <= s /\ a.openedRevision \in Nat
    BY <1>1 DEF Inv, AppealsOpenRevisions, CaseTypeOK, AppealRow, CaseRevisions
  <2>3. \A d \in decisions : \E e \in decisions' : e.id = d.id /\ e.revision = d.revision
    BY <1>2, <1>3, SupersededRows
  <2>4. ASSUME NEW a \in appeals'
        PROVE  \E d \in DecisionOf(a.supersededRevision)' : a.supersededDecision = d.id
    <3>1. \E d \in decisions : /\ d.revision = a.supersededRevision
                               /\ a.supersededDecision = d.id
      BY <1>1, <1>3, <1>6, <2>4 DEF Inv, AppealsOpenRevisions, DecisionOf
    <3> QED  BY <2>3, <3>1 DEF DecisionOf
  <2>5. \A a \in appeals' : /\ a.openedRevision = a.supersededRevision + 1
                            /\ a.openedRevision <= case'.currentRevision
    BY <1>2, <1>3, <1>4, <2>1, <2>2
  <2>6. ASSUME NEW q \in 2..case'.currentRevision
        PROVE  \E a \in appeals' : {x \in appeals' : x.openedRevision = q} = {a}
    <3>1. CASE q = s + 1
      <4>1. \A a \in appeals : a.openedRevision # q
        BY <1>2, <2>2, <3>1
      <4>2. {x \in appeals' : x.openedRevision = q} = {new}
        BY <1>3, <1>6, <3>1, <4>1
      <4> QED  BY <1>3, <4>2
    <3>2. CASE q # s + 1
      <4>1. q \in 2..case.currentRevision
        BY <1>1, <1>2, <1>4, <2>6, <3>2
      <4>2. PICK a \in appeals : {x \in appeals : x.openedRevision = q} = {a}
        BY <4>1 DEF Inv, AppealsOpenRevisions
      <4>3. {x \in appeals' : x.openedRevision = q} = {a}
        BY <1>3, <1>6, <3>2, <4>2
      <4> QED  BY <1>3, <4>2, <4>3
    <3> QED  BY <3>1, <3>2
  <2> QED  BY <2>4, <2>5, <2>6 DEF AppealsOpenRevisions
<1>12. StatusTells'
  BY <1>2, <1>4 DEF StatusTells
<1>13. \A w \in Deciders : WorkerKnows(decider[w])'
  <2>1. 1..case.currentRevision \subseteq 1..case'.currentRevision
    BY <1>1, <1>2, <1>4
  <2>2. \A d \in decisions : \E e \in decisions' :
          e.id = d.id /\ e.revision = d.revision /\ e.outcome = d.outcome
    BY <1>2, <1>3, SupersededRows
  <2>3. appeals \subseteq appeals'
    BY <1>3
  <2>4. \A x : WorkerKnows(x) => WorkerKnows(x)'
    BY <2>1, <2>2, <2>3 DEF WorkerKnows
  <2> QED  BY <1>3, <2>4 DEF Inv
<1>14. \A g \in Filers : FilerKnows(filer[g])'
  <2>1. case'.decidedRevision = case.decidedRevision
    BY <1>1, <1>4
  <2>2. \A d \in decisions : \E e \in decisions' :
          e.id = d.id /\ e.revision = d.revision /\ e.outcome = d.outcome
    BY <1>2, <1>3, SupersededRows
  <2>3. appeals \subseteq appeals' /\ new \in appeals'
    BY <1>3
  <2>4. \A x : FilerKnows(x) => FilerKnows(x)'
    BY <2>1, <2>2, <2>3 DEF FilerKnows
  <2>5. FilerKnows(me)'
    BY <1>6, <1>7, <2>3 DEF FilerKnows, AppealRow, FilerState
  <2> QED  BY <1>3, <2>4, <2>5 DEF Inv, CaseTypeOK
<1> QED
  BY <1>8, <1>9, <1>10, <1>11, <1>12, <1>13, <1>14 DEF Inv

-----------------------------------------------------------------------------
LEMMA InvNext == Inv /\ [CaseNext]_recordVars => Inv'
<1> SUFFICES ASSUME Inv, [CaseNext]_recordVars PROVE Inv'
  OBVIOUS
<1>1. CASE Triage \/ SeatPanel \/ JurorOpens
  BY <1>1, StatusStep DEF Triage, SeatPanel, JurorOpens, SeatableStatuses, CaseStatuses
<1>2. ASSUME NEW w \in Deciders, DeciderStep(w) PROVE Inv'
  BY <1>2, WorkerReads, PublishKeepsInv DEF DeciderStep
<1>3. ASSUME NEW f \in Filers, FilerNext(f) PROVE Inv'
  BY <1>3, FilerReads, CommitKeepsInv DEF FilerNext
<1>4. CASE UNCHANGED recordVars
  BY <1>4
  DEF recordVars, Inv, CaseTypeOK, LedgerConsistent, AppealsOpenRevisions, StatusTells,
      WorkerKnows, FilerKnows, DecisionOf
<1> QED  BY <1>1, <1>2, <1>3, <1>4 DEF CaseNext

LEMMA InvHolds == CaseSpec => []Inv
BY InvInit, InvNext, PTL DEF CaseSpec

(***************************************************************************)
(* Every variable keeps its type.                                          *)
(***************************************************************************)
THEOREM TypeCorrect == CaseSpec => []CaseTypeOK
<1>1. Inv => CaseTypeOK  BY DEF Inv
<1> QED  BY <1>1, InvHolds, PTL

(***************************************************************************)
(* One decision per decided revision, the current one alone final, each    *)
(* naming its predecessor.                                                 *)
(***************************************************************************)
THEOREM LedgerIsConsistent == CaseSpec => []LedgerConsistent
<1>1. Inv => LedgerConsistent  BY DEF Inv
<1> QED  BY <1>1, InvHolds, PTL

(***************************************************************************)
(* Every revision after the first was opened by exactly one appeal, which  *)
(* names it and the decision it disputed.                                  *)
(***************************************************************************)
THEOREM AppealsAreConsistent == CaseSpec => []AppealsOpenRevisions
<1>1. Inv => AppealsOpenRevisions  BY DEF Inv
<1> QED  BY <1>1, InvHolds, PTL

(***************************************************************************)
(* The status says "decided" exactly while the current revision is.        *)
(***************************************************************************)
THEOREM StatusIsRight == CaseSpec => []StatusTells
<1>1. Inv => StatusTells  BY DEF Inv
<1> QED  BY <1>1, InvHolds, PTL

(***************************************************************************)
(* A request is answered with its own appeal or with none.                 *)
(***************************************************************************)
THEOREM AnswersAreRight == CaseSpec => []AnswersAreOwn
<1>1. Inv => AnswersAreOwn  BY DEF Inv, FilerKnows, AnswersAreOwn
<1> QED  BY <1>1, InvHolds, PTL

-----------------------------------------------------------------------------
(***************************************************************************)
(* The events that should be in the outbox, from the rows.                 *)
(***************************************************************************)
Announced(D) == {[type |-> "case.decided", decision |-> d.id] : d \in D}

\* The decisions whose outcome is not that of the revision before theirs.
Changed(D) == {x \in D : \E b \in D : x.revision = b.revision + 1 /\ x.outcome # b.outcome}
Corrections(D) == {[type |-> "decision.corrected", decision |-> d.id] : d \in Changed(D)}

AppealAnswer(d, a) == [type |-> "appeal.decided", decision |-> d.id, appeal |-> a.id]
AppealAnswers(D, A) ==
  {[type |-> "appeal.decided", decision |-> x[1].id, appeal |-> x[2].id] :
     x \in {y \in D \X A : y[1].revision = y[2].openedRevision}}

AppealsCreated(A) == {[type |-> "appeal.created", appeal |-> a.id] : a \in A}
PanelsCalled(n) == {[type |-> "case.ready_for_review", revision |-> r] : r \in 2..n}

LEMMA EventsByKind ==
  EventsMatchRows <=>
    outbox = Announced(decisions) \cup Corrections(decisions)
             \cup AppealAnswers(decisions, appeals)
             \cup AppealsCreated(appeals) \cup PanelsCalled(case.currentRevision)
BY DEF EventsMatchRows, Announced, Corrections, Changed, AppealAnswers, AppealsCreated,
       PanelsCalled

\* An appeal is answered by the decision of the revision it opened.
LEMMA AnswersByPair ==
  ASSUME NEW D, NEW A, NEW e
  PROVE  e \in AppealAnswers(D, A) <=>
           \E d \in D, a \in A : d.revision = a.openedRevision /\ e = AppealAnswer(d, a)
<1>1. ASSUME NEW d \in D, NEW a \in A, d.revision = a.openedRevision, e = AppealAnswer(d, a)
      PROVE  e \in AppealAnswers(D, A)
  <2>1. /\ <<d, a>> \in {y \in D \X A : y[1].revision = y[2].openedRevision}
        /\ <<d, a>>[1] = d /\ <<d, a>>[2] = a
    BY <1>1
  <2> QED  BY <1>1, <2>1 DEF AppealAnswers, AppealAnswer
<1>2. ASSUME e \in AppealAnswers(D, A)
      PROVE  \E d \in D, a \in A : d.revision = a.openedRevision /\ e = AppealAnswer(d, a)
  <2>1. PICK y \in D \X A :
          /\ y[1].revision = y[2].openedRevision
          /\ e = [type |-> "appeal.decided", decision |-> y[1].id, appeal |-> y[2].id]
    BY <1>2 DEF AppealAnswers
  <2> QED  BY <2>1 DEF AppealAnswer
<1> QED  BY <1>1, <1>2

LEMMA EventsInit == CaseInit => EventsMatchRows
<1> SUFFICES ASSUME CaseInit PROVE EventsMatchRows
  OBVIOUS
<1>1. decisions = {} /\ appeals = {} /\ outbox = {} /\ case.currentRevision = 1
  BY DEF CaseInit
<1>2. AppealAnswers({}, {}) = {}
  BY AnswersByPair
<1>3. /\ Announced({}) = {} /\ Corrections({}) = {} /\ AppealsCreated({}) = {}
      /\ PanelsCalled(1) = {}
  BY DEF Announced, Corrections, Changed, AppealsCreated, PanelsCalled
<1> QED  BY <1>1, <1>2, <1>3, EventsByKind

\* A step that keeps the rows and the events keeps them matched.
LEMMA EventsStutter ==
  ASSUME EventsMatchRows, UNCHANGED <<decisions, appeals, outbox>>,
         case'.currentRevision = case.currentRevision
  PROVE  EventsMatchRows'
BY DEF EventsMatchRows

\* No decision is of a revision the case has not decided.
LEMMA DecisionsAreDecided ==
  ASSUME Inv, NEW d \in decisions
  PROVE  d.revision \in 1..case.decidedRevision /\ d.revision \in Nat
<1>1. d.revision \in CaseRevisions /\ d \in DecisionOf(d.revision)
  BY DEF Inv, CaseTypeOK, DecisionRow, DecisionOf
<1>2. ~(d.revision > case.decidedRevision)
  BY <1>1 DEF Inv, LedgerConsistent
<1> QED  BY <1>1, <1>2, CaseNumbers DEF CaseRevisions

(***************************************************************************)
(* A published decision announces itself, says it is a correction iff it   *)
(* is one, and answers the appeal that opened its revision.                *)
(***************************************************************************)
LEMMA PublishAnnounces ==
  ASSUME Inv, EventsMatchRows, NEW w \in Deciders, NEW o \in DecisionOutcomes,
         PublishDecision(w, o),
         MayDecide(decider[w].revision), DecisionOf(decider[w].revision) = {}
  PROVE  EventsMatchRows'
<1>0. PICK r, new, read : /\ r = decider[w].revision /\ new = NewDecision(w, o)
                          /\ read = decider[w]
  OBVIOUS
<1>1. /\ r = case.currentRevision /\ case.decidedRevision = r - 1 /\ r \in 1..MaxCaseRevision
      /\ r \in Nat
  BY <1>0, PublishFinds, MaxRevisionAssumption
<1>2. /\ decisions' = decisions \cup {new} /\ appeals' = appeals
      /\ outbox' = outbox \cup DecisionEvents(new.id, o, read)
      /\ case' = [case EXCEPT !.decidedRevision = r, !.status = "decided"]
  BY <1>0 DEF PublishDecision
<1>3. new.revision = r /\ new.outcome = o
  BY <1>0 DEF NewDecision
<1>4. case'.currentRevision = r
  BY <1>1, <1>2 DEF Inv, CaseTypeOK, CaseRow
<1>5. read.pc = "publish" /\ WorkerKnows(read)
  BY <1>0 DEF Inv, PublishDecision
<1>6. \A d \in decisions : d.revision \in Nat /\ d.revision < r
  BY <1>1, DecisionsAreDecided
<1>7. Announced(decisions') = Announced(decisions)
                              \cup {[type |-> "case.decided", decision |-> new.id]}
  BY <1>2 DEF Announced
<1>8. Corrections(decisions') = Corrections(decisions) \cup
        (IF IsCorrection(read.previousOutcome, o)
           THEN {[type |-> "decision.corrected", decision |-> new.id]} ELSE {})
  <2>1. new \in Changed(decisions') <=> IsCorrection(read.previousOutcome, o)
    <3>1. CASE r = 1
      <4>1. \A b \in decisions' : b.revision \in Nat /\ ~(r = b.revision + 1)
        BY <1>2, <1>3, <1>6, <3>1, DecisionsAreDecided, <1>1
      <4>2. read.previousOutcome = "none"
        BY <1>0, <1>5, <3>1 DEF WorkerKnows
      <4> QED  BY <1>3, <4>1, <4>2 DEF Changed, IsCorrection
    <3>2. CASE r # 1
      <4>1. PICK p \in decisions : p.revision = r - 1 /\ read.previousOutcome = p.outcome
        BY <1>0, <1>5, <3>2 DEF WorkerKnows
      <4>2. r - 1 \in 1..case.decidedRevision
        BY <1>1, <3>2
      <4>3. \A b \in decisions : b.revision = r - 1 => b = p
        BY <4>1, <4>2, DecidedHasDecision DEF DecisionOf
      <4>4. \A b \in decisions' : r = b.revision + 1 <=> b = p
        BY <1>1, <1>2, <1>3, <1>6, <4>1, <4>3
      <4>5. p.outcome # "none"
        BY OutcomesAssumption DEF Inv, CaseTypeOK, DecisionRow
      <4>6. new \in Changed(decisions') <=> o # p.outcome
        BY <1>2, <1>3, <4>4 DEF Changed
      <4> QED  BY <4>1, <4>5, <4>6 DEF IsCorrection
    <3> QED  BY <3>1, <3>2
  <2>2. ASSUME NEW x \in decisions PROVE x \in Changed(decisions') <=> x \in Changed(decisions)
    <3>1. ~(x.revision = new.revision + 1)
      BY <1>1, <1>3, <1>6
    <3> QED  BY <1>2, <3>1 DEF Changed
  <2>3. Changed(decisions') \subseteq decisions \cup {new} /\ Changed(decisions) \subseteq decisions
    BY <1>2 DEF Changed
  <2>4. Changed(decisions') = Changed(decisions) \cup
          (IF IsCorrection(read.previousOutcome, o) THEN {new} ELSE {})
    BY <2>1, <2>2, <2>3
  <2> QED  BY <2>4 DEF Corrections
<1>9. AppealAnswers(decisions', appeals') = AppealAnswers(decisions, appeals) \cup
        (IF read.previous # None /\ read.appeal # None
           THEN {[type |-> "appeal.decided", decision |-> new.id, appeal |-> read.appeal]}
           ELSE {})
  <2>1. ASSUME NEW e
        PROVE  e \in AppealAnswers(decisions', appeals') <=>
                 \/ e \in AppealAnswers(decisions, appeals)
                 \/ \E a \in appeals : a.openedRevision = r /\ e = AppealAnswer(new, a)
    BY <1>2, <1>3, AnswersByPair
  <2>2. CASE r = 1
    <3>1. \A a \in appeals : a.openedRevision # r
      BY <2>2 DEF Inv, AppealsOpenRevisions, CaseTypeOK, AppealRow, CaseRevisions
    <3>2. read.appeal = None
      BY <1>0, <1>5, <2>2 DEF WorkerKnows
    <3> QED  BY <2>1, <3>1, <3>2
  <2>3. CASE r # 1
    <3>1. PICK a \in appeals : a.openedRevision = r /\ read.appeal = a.id
      BY <1>0, <1>5, <2>3 DEF WorkerKnows
    <3>2. \A x \in appeals : x.openedRevision = r => x = a
      <4>1. r \in 2..case.currentRevision
        BY <1>1, <2>3
      <4>2. PICK c \in appeals : {x \in appeals : x.openedRevision = r} = {c}
        BY <4>1 DEF Inv, AppealsOpenRevisions
      <4> QED  BY <3>1, <4>2
    <3>3. read.appeal # None /\ read.previous # None
      BY <1>0, <1>5, <2>3, <3>1 DEF WorkerKnows, Inv, CaseTypeOK, AppealRow, DecisionRow
    <3>4. AppealAnswer(new, a) =
            [type |-> "appeal.decided", decision |-> new.id, appeal |-> read.appeal]
      BY <3>1 DEF AppealAnswer
    <3> QED  BY <2>1, <3>1, <3>2, <3>3, <3>4
  <2> QED  BY <2>2, <2>3
<1>10. outbox = Announced(decisions) \cup Corrections(decisions)
                \cup AppealAnswers(decisions, appeals)
                \cup AppealsCreated(appeals) \cup PanelsCalled(r)
  BY <1>1, EventsByKind
<1>11. outbox' = Announced(decisions') \cup Corrections(decisions')
                 \cup AppealAnswers(decisions', appeals')
                 \cup AppealsCreated(appeals') \cup PanelsCalled(case'.currentRevision)
  BY <1>2, <1>4, <1>7, <1>8, <1>9, <1>10 DEF DecisionEvents
<1> QED
  BY <1>11 DEF EventsMatchRows, Announced, Corrections, Changed, AppealAnswers,
               AppealsCreated, PanelsCalled

(***************************************************************************)
(* A committed appeal announces itself and calls a panel for the revision  *)
(* it opens, which has no decision to announce yet.                        *)
(***************************************************************************)
LEMMA CommitAnnounces ==
  ASSUME Inv, EventsMatchRows, NEW f \in Filers, CommitAppeal(f)
  PROVE  EventsMatchRows'
<1>0. PICK s, new : s = filer[f].seen /\ new = NewAppeal(f)
  OBVIOUS
<1>1. /\ s = case.currentRevision /\ s = case.decidedRevision
      /\ s \in 1..(MaxCaseRevision - 1) /\ filer[f].revision = s
      /\ s \in Nat /\ s \in CaseRevisions
  BY <1>0, CommitFinds, MaxRevisionAssumption DEF CaseRevisions
<1>2. /\ case' = [case EXCEPT !.currentRevision = s + 1, !.status = "appealed"]
      /\ decisions' = Superseded(s) /\ appeals' = appeals \cup {new}
      /\ outbox' = outbox \cup
           {[type |-> "case.ready_for_review", revision |-> s + 1],
            [type |-> "appeal.created", appeal |-> new.id]}
  BY <1>0 DEF CommitAppeal, NextRevision
<1>3. case'.currentRevision = s + 1 /\ new.openedRevision = s + 1
  BY <1>0, <1>1, <1>2 DEF Inv, CaseTypeOK, CaseRow, NewAppeal
<1>4. /\ \A d \in decisions : \E e \in decisions' :
           e.id = d.id /\ e.revision = d.revision /\ e.outcome = d.outcome
      /\ \A e \in decisions' : \E d \in decisions :
           e.id = d.id /\ e.revision = d.revision /\ e.outcome = d.outcome
  BY <1>1, <1>2, SupersededRows
<1>5. Announced(decisions') = Announced(decisions)
  BY <1>4 DEF Announced
<1>6. Corrections(decisions') = Corrections(decisions)
  <2>1. ASSUME NEW d \in Changed(decisions)
        PROVE  \E e \in Changed(decisions') : e.id = d.id
    <3>1. PICK b \in decisions : d.revision = b.revision + 1 /\ d.outcome # b.outcome
      BY DEF Changed
    <3>2. PICK c \in decisions' : c.revision = b.revision /\ c.outcome = b.outcome
      BY <1>4
    <3>3. PICK e \in decisions' : e.id = d.id /\ e.revision = d.revision /\ e.outcome = d.outcome
      BY <1>4 DEF Changed
    <3> QED  BY <3>1, <3>2, <3>3 DEF Changed
  <2>2. ASSUME NEW e \in Changed(decisions')
        PROVE  \E d \in Changed(decisions) : e.id = d.id
    <3>1. PICK c \in decisions' : e.revision = c.revision + 1 /\ e.outcome # c.outcome
      BY DEF Changed
    <3>2. PICK b \in decisions : c.revision = b.revision /\ c.outcome = b.outcome
      BY <1>4
    <3>3. PICK d \in decisions : e.id = d.id /\ e.revision = d.revision /\ e.outcome = d.outcome
      BY <1>4 DEF Changed
    <3> QED  BY <3>1, <3>2, <3>3 DEF Changed
  <2> QED  BY <2>1, <2>2 DEF Corrections
<1>7. AppealAnswers(decisions', appeals') = AppealAnswers(decisions, appeals)
  <2>1. \A d \in decisions : d.revision # new.openedRevision
    BY <1>1, <1>3, DecisionsAreDecided
  <2>2. ASSUME NEW e
        PROVE  e \in AppealAnswers(decisions', appeals') <=> e \in AppealAnswers(decisions, appeals)
    <3>1. ASSUME NEW d \in decisions, NEW a \in appeals, d.revision = a.openedRevision,
                 e = AppealAnswer(d, a)
          PROVE  e \in AppealAnswers(decisions', appeals')
      <4>1. PICK c \in decisions' : c.id = d.id /\ c.revision = d.revision
        BY <1>4
      <4>2. a \in appeals' /\ c.revision = a.openedRevision /\ e = AppealAnswer(c, a)
        BY <1>2, <3>1, <4>1 DEF AppealAnswer
      <4> QED  BY <4>2, AnswersByPair
    <3>2. ASSUME NEW c \in decisions', NEW a \in appeals', c.revision = a.openedRevision,
                 e = AppealAnswer(c, a)
          PROVE  e \in AppealAnswers(decisions, appeals)
      <4>1. PICK d \in decisions : c.id = d.id /\ c.revision = d.revision
        BY <1>4
      <4>2. a \in appeals /\ d.revision = a.openedRevision /\ e = AppealAnswer(d, a)
        BY <1>2, <2>1, <3>2, <4>1 DEF AppealAnswer
      <4> QED  BY <4>2, AnswersByPair
    <3> QED  BY <3>1, <3>2, AnswersByPair
  <2> QED  BY <2>2
<1>8. AppealsCreated(appeals') = AppealsCreated(appeals)
                                 \cup {[type |-> "appeal.created", appeal |-> new.id]}
  BY <1>2 DEF AppealsCreated
<1>9. PanelsCalled(s + 1) = PanelsCalled(s)
                            \cup {[type |-> "case.ready_for_review", revision |-> s + 1]}
  <2>1. 2..(s + 1) = (2..s) \cup {s + 1}
    BY <1>1
  <2> QED  BY <2>1 DEF PanelsCalled
<1>10. outbox = Announced(decisions) \cup Corrections(decisions)
                \cup AppealAnswers(decisions, appeals)
                \cup AppealsCreated(appeals) \cup PanelsCalled(s)
  BY <1>1, EventsByKind
<1>11. outbox' = Announced(decisions') \cup Corrections(decisions')
                 \cup AppealAnswers(decisions', appeals')
                 \cup AppealsCreated(appeals') \cup PanelsCalled(case'.currentRevision)
  BY <1>2, <1>3, <1>5, <1>6, <1>7, <1>8, <1>9, <1>10
<1> QED
  BY <1>11 DEF EventsMatchRows, Announced, Corrections, Changed, AppealAnswers,
               AppealsCreated, PanelsCalled

LEMMA EventsNext == Inv /\ EventsMatchRows /\ [CaseNext]_recordVars => EventsMatchRows'
<1> SUFFICES ASSUME Inv, EventsMatchRows, [CaseNext]_recordVars PROVE EventsMatchRows'
  OBVIOUS
<1>0. case \in CaseRow
  BY DEF Inv, CaseTypeOK
<1>1. CASE Triage \/ SeatPanel \/ JurorOpens
  BY <1>0, <1>1, EventsStutter DEF Triage, SeatPanel, JurorOpens, MoveStatus, CaseRow
<1>2. ASSUME NEW w \in Deciders, DeciderStep(w) PROVE EventsMatchRows'
  <2>1. CASE ReadCase(w) \/ ReadAppeal(w) \/ ReadPrevious(w) \/ Abandon(w)
    BY <2>1, EventsStutter DEF ReadCase, ReadAppeal, ReadPrevious, Abandon
  <2>2. ASSUME NEW o \in DecisionOutcomes, PublishDecision(w, o) PROVE EventsMatchRows'
    <3>1. CASE MayDecide(decider[w].revision) /\ DecisionOf(decider[w].revision) = {}
      BY <2>2, <3>1, PublishAnnounces
    <3>2. CASE ~(MayDecide(decider[w].revision) /\ DecisionOf(decider[w].revision) = {})
      BY <2>2, <3>2, EventsStutter DEF PublishDecision
    <3> QED  BY <3>1, <3>2
  <2> QED  BY <1>2, <2>1, <2>2 DEF DeciderStep
<1>3. ASSUME NEW f \in Filers, FilerNext(f) PROVE EventsMatchRows'
  <2>1. CASE CommitAppeal(f)
    BY <2>1, CommitAnnounces
  <2>2. CASE ~CommitAppeal(f)
    BY <1>3, <2>2, EventsStutter
    DEF FilerNext, StartFiling, ReadReplay, ReadCaseToAppeal, ReadAppealedDecision,
        ReadCaseToOpen, RollBackAppeal, RecogniseDuplicate, DropRequest,
        RecogniseReplay, FilerStep
  <2> QED  BY <2>1, <2>2
<1>4. CASE UNCHANGED recordVars
  BY <1>4, EventsStutter DEF recordVars
<1> QED  BY <1>1, <1>2, <1>3, <1>4 DEF CaseNext

(***************************************************************************)
(* The outbox holds exactly the events the rows call for, however workers  *)
(* and requests interleave: what a worker announced from what it had read  *)
(* is what the rows say.                                                   *)
(***************************************************************************)
THEOREM EventsAreRight == CaseSpec => []EventsMatchRows
BY InvHolds, EventsInit, EventsNext, PTL DEF CaseSpec

-----------------------------------------------------------------------------
(***************************************************************************)
(* The rows of one case implement the abstract ledger of its decisions:    *)
(* every step of a worker, a request or a late writer of the status adds   *)
(* an outcome, accepts an appeal, or changes nothing a tenant is promised. *)
(***************************************************************************)
\* The outcome of the decision of revision r, as the refinement maps it.
OutcomeOf(r) == (CHOOSE d \in decisions : d.revision = r).outcome
MappedLedger == [r \in 1..case.decidedRevision |-> OutcomeOf(r)]
MappedAwaiting == case.decidedRevision # case.currentRevision

\* A decided revision has one outcome, whichever row is chosen to read it.
LEMMA OutcomeOfDecision ==
  ASSUME Inv, NEW d \in decisions, d.revision \in 1..case.decidedRevision
  PROVE  OutcomeOf(d.revision) = d.outcome
<1>1. PICK c \in decisions : DecisionOf(d.revision) = {c}
  BY DecidedHasDecision
<1>2. DecisionOf(d.revision) = {d}
  BY <1>1 DEF DecisionOf
<1>3. \A x \in decisions : x.revision = d.revision => x = d
  BY <1>2 DEF DecisionOf
<1> QED  BY <1>3 DEF OutcomeOf

\* The mapped ledger is a sequence of outcomes, one per decided revision.
LEMMA LedgerIsSequence ==
  ASSUME Inv
  PROVE  MappedLedger \in Seq(DecisionOutcomes) /\ Len(MappedLedger) = case.decidedRevision
<1>1. case.decidedRevision \in Nat
  BY CaseNumbers
<1>2. ASSUME NEW r \in 1..case.decidedRevision PROVE OutcomeOf(r) \in DecisionOutcomes
  <2>1. PICK d \in decisions : DecisionOf(r) = {d}
    BY DecidedHasDecision
  <2>2. d.revision = r /\ d.outcome \in DecisionOutcomes
    BY <2>1 DEF DecisionOf, Inv, CaseTypeOK, DecisionRow
  <2> QED  BY <2>2, OutcomeOfDecision
<1> HIDE DEF OutcomeOf
<1> QED  BY <1>1, <1>2 DEF MappedLedger

-----------------------------------------------------------------------------
LEMMA LedgerInit == CaseInit => Ledger!Init
<1> SUFFICES ASSUME CaseInit PROVE MappedLedger = <<>> /\ MappedAwaiting = TRUE
  BY DEF Ledger!Init, MappedLedger, MappedAwaiting, OutcomeOf
<1>1. case.decidedRevision = 0 /\ case.currentRevision = 1
  BY DEF CaseInit
<1>2. MappedLedger = <<>>
  BY <1>1 DEF MappedLedger
<1> QED  BY <1>1, <1>2 DEF MappedAwaiting

\* A step that keeps the decisions' rows and the revisions is a stutter.
LEMMA LedgerStutter ==
  ASSUME case'.decidedRevision = case.decidedRevision,
         case'.currentRevision = case.currentRevision,
         decisions' = decisions
  PROVE  UNCHANGED Ledger!vars
BY DEF Ledger!vars

\* A published decision is appended to the ledger.
LEMMA PublishDecides ==
  ASSUME Inv, Inv', NEW w \in Deciders, NEW o \in DecisionOutcomes, PublishDecision(w, o),
         MayDecide(decider[w].revision), DecisionOf(decider[w].revision) = {}
  PROVE  Ledger!Decide(o)
<1>0. PICK r, new : r = decider[w].revision /\ new = NewDecision(w, o)
  OBVIOUS
<1>1. r = case.currentRevision /\ case.decidedRevision = r - 1 /\ r \in 1..MaxCaseRevision
  BY <1>0, PublishFinds
<1>2. /\ case' = [case EXCEPT !.decidedRevision = r, !.status = "decided"]
      /\ decisions' = decisions \cup {new}
      /\ new.revision = r /\ new.outcome = o
  BY <1>0 DEF PublishDecision, NewDecision
<1>3. case'.decidedRevision = r /\ case'.currentRevision = r
  BY <1>1, <1>2 DEF Inv, CaseTypeOK, CaseRow
<1>4. r - 1 \in Nat /\ r = (r - 1) + 1
  BY <1>1, MaxRevisionAssumption
<1>5. OutcomeOf(r)' = o
  <2>1. \A x \in decisions \cup {new} : x.revision = r => x = new
    BY <1>0 DEF DecisionOf
  <2> QED  BY <1>2, <2>1 DEF OutcomeOf
<1>6. ASSUME NEW q \in 1..(r - 1) PROVE OutcomeOf(q)' = OutcomeOf(q)
  <2>1. PICK d \in decisions : DecisionOf(q) = {d}
    BY <1>1, DecidedHasDecision
  <2>2. d.revision = q
    BY <2>1 DEF DecisionOf
  <2>3. \A x \in decisions \cup {new} : x.revision = q => x = d
    BY <1>2, <1>4, <1>6, <2>1 DEF DecisionOf
  <2> QED  BY <1>2, <2>2, <2>3 DEF OutcomeOf
<1>7. MappedLedger \in Seq(DecisionOutcomes) /\ Len(MappedLedger) = r - 1
  BY <1>1, LedgerIsSequence
<1>8. MappedLedger' = Append(MappedLedger, o)
  <2>0. PICK longer : longer = Append(MappedLedger, o)
    OBVIOUS
  <2>1. MappedLedger' = [q \in 1..r |-> OutcomeOf(q)']
    BY <1>3 DEF MappedLedger
  <2>2. MappedLedger = [q \in 1..(r - 1) |-> OutcomeOf(q)]
    BY <1>1 DEF MappedLedger
  <2>3. /\ longer \in Seq(DecisionOutcomes) /\ Len(longer) = r
        /\ \A q \in 1..(r - 1) : longer[q] = MappedLedger[q]
        /\ longer[r] = o
    BY <1>4, <1>7, <2>0, AppendProperties
  <2>4. ASSUME NEW q \in 1..r, q # r PROVE OutcomeOf(q)' = MappedLedger[q]
    <3>1. q \in 1..(r - 1)
      BY <1>4, <2>4
    <3> QED  BY <1>6, <2>2, <3>1
  <2>5. longer = [q \in 1..r |-> longer[q]]
    BY <2>3, IsASeq
  <2>6. ASSUME NEW q \in 1..r PROVE OutcomeOf(q)' = longer[q]
    <3>1. CASE q = r
      BY <1>5, <2>3, <3>1
    <3>2. CASE q # r
      <4>1. q \in 1..(r - 1)
        BY <1>4, <3>2
      <4> QED  BY <2>3, <2>4, <3>2, <4>1
    <3> QED  BY <3>1, <3>2
  <2> QED  BY <2>1, <2>0, <2>5, <2>6
<1>9. MappedAwaiting /\ MappedAwaiting' = FALSE
  BY <1>1, <1>3, <1>4 DEF MappedAwaiting
<1> QED  BY <1>8, <1>9 DEF Ledger!Decide, MappedLedger, MappedAwaiting, OutcomeOf

\* A committed appeal is one the ledger accepts.
LEMMA CommitAppeals ==
  ASSUME Inv, Inv', NEW f \in Filers, CommitAppeal(f)
  PROVE  Ledger!Appeal
<1>0. PICK s : s = filer[f].seen
  OBVIOUS
<1>1. /\ s = case.currentRevision /\ s = case.decidedRevision
      /\ s \in 1..(MaxCaseRevision - 1)
      /\ \E d \in DecisionOf(s) : d.outcome \in Appealable
  BY <1>0, CommitFinds
<1>2. /\ case' = [case EXCEPT !.currentRevision = s + 1, !.status = "appealed"]
      /\ decisions' = Superseded(s)
  BY <1>0 DEF CommitAppeal, NextRevision
<1>3. case'.currentRevision = s + 1 /\ case'.decidedRevision = s
  BY <1>1, <1>2 DEF Inv, CaseTypeOK, CaseRow
<1>4. s \in Nat \ {0} /\ s < MaxCaseRevision /\ s \in CaseRevisions
  BY <1>1, MaxRevisionAssumption DEF CaseRevisions
<1>5. MappedLedger \in Seq(DecisionOutcomes) /\ Len(MappedLedger) = s
  BY <1>1, LedgerIsSequence
<1>6. MappedLedger[s] \in Appealable
  <2>1. PICK d \in decisions : d.revision = s /\ d.outcome \in Appealable
    BY <1>1 DEF DecisionOf
  <2> QED  BY <1>1, <1>4, <2>1, OutcomeOfDecision DEF MappedLedger
<1>7. ASSUME NEW r \in 1..s PROVE OutcomeOf(r)' = OutcomeOf(r)
  <2>1. PICK d \in decisions : DecisionOf(r) = {d} /\ d.revision = r
    BY <1>1, DecidedHasDecision DEF DecisionOf
  <2>2. PICK e \in Superseded(s) : e.revision = r /\ e.outcome = d.outcome
    BY <1>4, <2>1, SupersededRows
  <2>3. OutcomeOf(r) = d.outcome
    BY <1>1, <2>1, OutcomeOfDecision
  <2>4. ASSUME NEW x \in Superseded(s), x.revision = r PROVE x.outcome = d.outcome
    BY <1>4, <2>1, <2>4, SupersededRows DEF DecisionOf
  <2>5. OutcomeOf(r)' = d.outcome
    BY <1>2, <2>2, <2>4 DEF OutcomeOf
  <2> QED  BY <2>3, <2>5
<1>8. MappedLedger' = MappedLedger
  BY <1>1, <1>3, <1>7 DEF MappedLedger
<1>9. ~MappedAwaiting /\ MappedAwaiting' = TRUE
  BY <1>1, <1>3, <1>4 DEF MappedAwaiting
<1> QED
  BY <1>4, <1>5, <1>6, <1>8, <1>9 DEF Ledger!Appeal, MappedLedger, MappedAwaiting, OutcomeOf

LEMMA LedgerNext == Inv /\ Inv' /\ [CaseNext]_recordVars => [Ledger!Next]_(Ledger!vars)
<1> SUFFICES ASSUME Inv, Inv', [CaseNext]_recordVars PROVE [Ledger!Next]_(Ledger!vars)
  OBVIOUS
<1>0. case \in CaseRow
  BY DEF Inv, CaseTypeOK
<1>1. CASE Triage \/ SeatPanel \/ JurorOpens
  BY <1>0, <1>1, LedgerStutter DEF Triage, SeatPanel, JurorOpens, MoveStatus, CaseRow
<1>2. ASSUME NEW w \in Deciders, DeciderStep(w) PROVE [Ledger!Next]_(Ledger!vars)
  <2>1. CASE ReadCase(w) \/ ReadAppeal(w) \/ ReadPrevious(w) \/ Abandon(w)
    BY <2>1, LedgerStutter DEF ReadCase, ReadAppeal, ReadPrevious, Abandon
  <2>2. ASSUME NEW o \in DecisionOutcomes, PublishDecision(w, o) PROVE [Ledger!Next]_(Ledger!vars)
    <3>1. CASE MayDecide(decider[w].revision) /\ DecisionOf(decider[w].revision) = {}
      BY <2>2, <3>1, PublishDecides DEF Ledger!Next
    <3>2. CASE ~(MayDecide(decider[w].revision) /\ DecisionOf(decider[w].revision) = {})
      BY <2>2, <3>2, LedgerStutter DEF PublishDecision
    <3> QED  BY <3>1, <3>2
  <2> QED  BY <1>2, <2>1, <2>2 DEF DeciderStep
<1>3. ASSUME NEW f \in Filers, FilerNext(f) PROVE [Ledger!Next]_(Ledger!vars)
  <2>1. CASE CommitAppeal(f)
    BY <2>1, CommitAppeals DEF Ledger!Next
  <2>2. CASE ~CommitAppeal(f)
    BY <1>3, <2>2, LedgerStutter
    DEF FilerNext, StartFiling, ReadReplay, ReadCaseToAppeal, ReadAppealedDecision,
        ReadCaseToOpen, RollBackAppeal, RecogniseDuplicate, DropRequest,
        RecogniseReplay, FilerStep
  <2> QED  BY <2>1, <2>2
<1>4. CASE UNCHANGED recordVars
  BY <1>4, LedgerStutter DEF recordVars
<1> QED  BY <1>1, <1>2, <1>3, <1>4 DEF CaseNext

(***************************************************************************)
(* The decisions of a case only ever grow, one per revision, and an appeal *)
(* is accepted only over a decision that may be appealed, for any number   *)
(* of workers, requests and revisions.                                     *)
(***************************************************************************)
THEOREM RowsImplementLedger == CaseSpec => ImplementsLedger
BY InvHolds, LedgerInit, LedgerNext, PTL DEF CaseSpec, ImplementsLedger, Ledger!Spec
=============================================================================
