-------------------------- MODULE IntegrationProofs --------------------------
(***************************************************************************)
(* Theorems about the tenant's side of the channel, for any number of      *)
(* tasks, reports, revisions, repeated webhooks, faults and troubles, any  *)
(* plan and any enforcement mode.                                          *)
(***************************************************************************)
EXTENDS Integration, TLAPS

USE IntegrationAssumption

-----------------------------------------------------------------------------
(***************************************************************************)
(* The rows of the outbox, and which of them a task may hold where: the    *)
(* two workers share the queue and no state.                               *)
(***************************************************************************)
Submitting == {"describing", "sending", "storing", "marking"}
Applying == {"linking", "claiming", "skipping", "writing", "releasing"} \cup Acting
Enforcing == {"claiming", "skipping", "releasing"} \cup Acting

\* A task at an action of its plan is at one there is.
RowsFit ==
  \A w \in Tasks :
    /\ at[w] # "idle" => row[w] \in Rows
    /\ at[w] \in Submitting => row[w] \in SubmitRows
    /\ at[w] \in Applying => row[w] \in ApplyRows
    /\ at[w] \in Enforcing => step[w] \in DOMAIN Plan[Revision(w)]

Typed == AppTypeOK /\ RowsFit

LEMMA RowsAre ==
  /\ \A r \in Reports : SubmitRow(r) \in SubmitRows /\ SubmitRow(r)[2] = r
  /\ \A e \in SubmitRows : e[2] \in Reports /\ e = SubmitRow(e[2])
  /\ \A e \in ApplyRows : e[2] \in Revisions
  /\ SubmitRows \cap ApplyRows = {} /\ Rows = SubmitRows \cup ApplyRows
<1>1. \A r \in Reports : SubmitRow(r) \in SubmitRows /\ SubmitRow(r)[2] = r
  BY DEF SubmitRow, SubmitRows
<1>2. \A e \in SubmitRows : e[1] = "report.submit" /\ e[2] \in Reports /\ e = SubmitRow(e[2])
  BY DEF SubmitRow, SubmitRows
<1>3. \A e \in ApplyRows : e[1] = "decision.apply" /\ e[2] \in Revisions
  BY DEF ApplyRows
<1> QED
  BY <1>1, <1>2, <1>3 DEF Rows

\* A task that carries out an action has a revision and one of its actions.
LEMMA ActionFits ==
  ASSUME Typed, NEW w \in Tasks, at[w] \in Enforcing
  PROVE  Revision(w) \in Revisions /\ Action(w) \in Actions
<1>1. row[w] \in ApplyRows /\ step[w] \in DOMAIN Plan[Revision(w)]
  BY DEF Typed, RowsFit, Enforcing, Applying
<1>2. Revision(w) \in Revisions
  BY <1>1, RowsAre DEF Revision
<1>3. Plan[Revision(w)] \in Seq(Actions)
  BY <1>2
<1> QED
  BY <1>1, <1>2, <1>3 DEF Action

\* The parts of the type, as the steps disturb them.
WorldTyped ==
  /\ mode \in Modes
  /\ local \in [Reports -> {"absent", "received", "queued", "submitted",
                            "delivery_failed", "closed", "deleted"}]
  /\ linked \subseteq Reports /\ remote \subseteq Reports /\ sweep \subseteq Reports
  /\ decided \in [Reports -> 0..MaxRevision]
  /\ contentGone \in BOOLEAN
  /\ object \in Objects /\ original \in Objects
  /\ early \subseteq ApplyRows

TasksCounted == tainted \in 0..MaxFaults /\ troubles \in 0..MaxTroubles

BoxTyped ==
  /\ boxStatus \in [Rows -> {"absent", "pending", "processing", "processed",
                             "dead_letter"}]
  /\ boxAttempts \in [Rows -> 0..MaxRowAttempts + 1]
  /\ boxOwner \in [Rows -> Tasks \cup {NoTask}]
  /\ boxLive \in [Rows -> BOOLEAN]

KeysUnique == \A m, n \in DOMAIN ledger : m # n => Key(ledger[m]) # Key(ledger[n])

LedgerTyped == ledger \in Seq(Entry) /\ KeysUnique

TasksTyped ==
  /\ at \in [Tasks -> TaskStates]
  /\ row \in [Tasks -> Rows \cup {NoRow}]
  /\ step \in [Tasks -> Nat]
  /\ undo \in [Tasks -> Previous] /\ was \in [Tasks -> Previous]
  /\ todo \in [Tasks -> SUBSET Reports]
  /\ found \in [ApplyRows -> SUBSET Reports]
  /\ retryable \in [Tasks -> BOOLEAN]

LEMMA TypedParts ==
  Typed <=> WorldTyped /\ TasksCounted /\ BoxTyped /\ LedgerTyped /\ TasksTyped /\ RowsFit
  BY DEF Typed, AppTypeOK, RowsFit, WorldTyped, TasksCounted, BoxTyped, LedgerTyped, KeysUnique, TasksTyped

LEMMA AppTypedInit == AppInit => Typed
<1> SUFFICES ASSUME AppInit PROVE Typed
  OBVIOUS
<1>1. WorldTyped
  <2>1. original \in Objects /\ object \in Objects
    BY DEF AppInit
  <2>2. contentGone \in BOOLEAN
    BY Zenon DEF AppInit
  <2>3. 0 \in 0..MaxRevision
    OBVIOUS
  <2>4. /\ mode \in Modes /\ decided \in [Reports -> 0..MaxRevision]
        /\ linked \subseteq Reports /\ remote \subseteq Reports /\ sweep \subseteq Reports
    BY <2>3 DEF AppInit
  <2> QED
    BY <2>1, <2>2, <2>4 DEF AppInit, WorldTyped
<1>6. TasksCounted
  BY DEF AppInit, TasksCounted
<1>2. BoxTyped
  BY DEF AppInit, BoxTyped
<1>3. LedgerTyped
  BY DEF AppInit, LedgerTyped, KeysUnique
<1>4. TasksTyped
  BY DEF AppInit, TasksTyped, TaskStates, Previous
<1>5. RowsFit
  BY DEF AppInit, RowsFit, Submitting, Applying, Enforcing, Acting
<1> QED
  BY <1>1, <1>2, <1>3, <1>4, <1>5, <1>6, TypedParts

\* The bounds count what they bound.
LEMMA TasksCountedNext == TasksCounted /\ [AppNext]_intVars => TasksCounted'
<1> SUFFICES ASSUME TasksCounted, [AppNext]_intVars PROVE TasksCounted'
  OBVIOUS
<1>1. /\ UNCHANGED tainted \/ Fault
      /\ UNCHANGED troubles \/ Trouble
  <2>1. ASSUME NEW w \in Tasks, TaskStep(w)
        PROVE  UNCHANGED tainted /\ (UNCHANGED troubles \/ Trouble)
    BY <2>1 DEF TaskStep, Claim, Complete, Fail, Describe, Send, MarkSubmitted,
       MarkDeliveryFailed, FindReports, ClaimAction, MarkSkipped, LatestApplied, Act,
       MarkApplied, ReleaseClaim, ApplyDecision
  <2>2. ASSUME NEW w \in Tasks, TaskCrash(w) \/ EffectThrows(w) \/ WriteFails(w)
        PROVE  UNCHANGED troubles /\ Fault
    BY <2>2 DEF TaskCrash, EffectThrows, WriteFails
  <2>3. ASSUME NEW r \in Reports, CreateReport(r) \/ DeleteReport(r) \/ SweepOne(r)
        PROVE  UNCHANGED tainted /\ (UNCHANGED troubles \/ Trouble)
    BY <2>3 DEF CreateReport, DeleteReport, SweepOne
  <2>4. ASSUME DeleteContent \/ SweepStarts
        PROVE  UNCHANGED tainted /\ (UNCHANGED troubles \/ Trouble)
    BY <2>4 DEF DeleteContent, SweepStarts
  <2>5. ASSUME NEW e \in Rows, DecisionArrives(e) \/ Expire(e) \/ LeaseEnds(e)
        PROVE  /\ UNCHANGED tainted \/ Fault
               /\ UNCHANGED troubles \/ Trouble
    BY <2>5 DEF DecisionArrives, Expire, LeaseEnds
  <2>6. ASSUME UNCHANGED intVars PROVE UNCHANGED <<tainted, troubles>>
    BY <2>6 DEF intVars
  <2> QED
    BY <2>1, <2>2, <2>3, <2>4, <2>5, <2>6 DEF AppNext
<1>2. TasksCounted /\ Fault => tainted' \in 0..MaxFaults
  BY DEF TasksCounted, Fault
<1>3. TasksCounted /\ Trouble => troubles' \in 0..MaxTroubles
  BY DEF TasksCounted, Trouble
<1> QED
  BY <1>1, <1>2, <1>3 DEF TasksCounted

LEMMA WorldNext == Typed /\ [AppNext]_intVars => WorldTyped'
<1> SUFFICES ASSUME Typed, WorldTyped, [AppNext]_intVars PROVE WorldTyped'
  BY TypedParts
<1>1. ASSUME NEW r \in Reports, CreateReport(r) \/ DeleteReport(r) \/ SweepOne(r)
      PROVE  WorldTyped'
  <2>1. CASE CreateReport(r)
    BY <2>1 DEF CreateReport, worldVars, WorldTyped
  <2>2. CASE DeleteReport(r)
    <3>1. decided' \in [Reports -> 0..MaxRevision]
      BY <2>2 DEF DeleteReport, WorldTyped
    <3>2. local' \in [Reports -> {"absent", "received", "queued", "submitted",
                                 "delivery_failed", "closed", "deleted"}]
      BY <2>2 DEF DeleteReport, WorldTyped
    <3> QED
      BY <2>2, <3>1, <3>2 DEF DeleteReport, worldVars, WorldTyped
  <2>3. CASE SweepOne(r)
    BY <2>3 DEF SweepOne, worldVars, reportVars, WorldTyped
  <2> QED
    BY <1>1, <2>1, <2>2, <2>3
<1>2. ASSUME DeleteContent \/ SweepStarts PROVE WorldTyped'
  BY <1>2 DEF DeleteContent, SweepStarts, Pending, worldVars, reportVars, WorldTyped
<1>3. ASSUME NEW e \in Rows, DecisionArrives(e) \/ Expire(e) \/ LeaseEnds(e)
      PROVE  WorldTyped'
  <2>1. DecisionArrives(e) => early' \subseteq ApplyRows
    BY DEF DecisionArrives, WorldTyped
  <2> QED
   BY <1>3, <2>1 DEF DecisionArrives, Expire, LeaseEnds, worldVars, reportVars,
     WorldTyped
<1>4. ASSUME NEW w \in Tasks,
             (\E e \in Rows : Claim(w, e)) \/ Complete(w) \/ Fail(w) \/ FindReports(w) \/ ClaimAction(w)
             \/ MarkSkipped(w) \/ LatestApplied(w) \/ MarkApplied(w) \/ ReleaseClaim(w)
      PROVE  WorldTyped'
  BY <1>4 DEF Claim, Complete, Fail, FindReports, ClaimAction, MarkSkipped, LatestApplied,
     MarkApplied, ReleaseClaim, worldVars, reportVars, WorldTyped
<1>5. ASSUME NEW w \in Tasks, Describe(w) \/ Send(w) \/ MarkSubmitted(w)
                              \/ MarkDeliveryFailed(w)
      PROVE  WorldTyped'
  <2>1. row[w] \in SubmitRows
    BY <1>5 DEF Typed, RowsFit, Submitting, Describe, Send, MarkSubmitted, MarkDeliveryFailed
  <2>2. ReportOf(w) \in Reports
    BY <2>1, RowsAre DEF ReportOf
  <2>3. CASE Describe(w)
    BY <2>2, <2>3 DEF Describe, worldVars, WorldTyped
  <2>4. CASE Send(w)
    BY <2>2, <2>4 DEF Send, reportVars, WorldTyped
  <2>5. CASE MarkSubmitted(w) \/ MarkDeliveryFailed(w)
    BY <2>2, <2>5 DEF MarkSubmitted, MarkDeliveryFailed, Written, worldVars, WorldTyped
  <2> QED
    BY <1>5, <2>3, <2>4, <2>5
<1>6. ASSUME NEW w \in Tasks, Act(w) PROVE WorldTyped'
  <2>1. \A a, p : Applied(a, p) \in Objects
    BY DEF Applied, WorldTyped, Objects, ObjectStatuses
  <2> QED
    BY <1>6, <2>1 DEF Act, worldVars, reportVars, WorldTyped
<1>7. ASSUME NEW w \in Tasks, ApplyDecision(w) PROVE WorldTyped'
  <2>1. Revision(w) \in 0..MaxRevision
    <3>1. row[w] \in ApplyRows
      BY <1>7 DEF Typed, RowsFit, Applying, ApplyDecision
    <3> QED
      BY <3>1, RowsAre DEF Revision, Revisions
  <2>2. todo[w] \subseteq Reports
    BY TypedParts DEF TasksTyped
  <2> QED
    <3>1. /\ UNCHANGED <<worldVars, linked, object, sweep>>
          /\ \/ UNCHANGED <<local, decided>>
             \/ \E r \in todo[w] : /\ decided' = [decided EXCEPT ![r] = Revision(w)]
                                  /\ local' = [local EXCEPT ![r] = "closed"]
      BY <1>7 DEF ApplyDecision
    <3>2. decided' \in [Reports -> 0..MaxRevision]
      BY <2>1, <2>2, <3>1 DEF WorldTyped
    <3>3. local' \in [Reports -> {"absent", "received", "queued", "submitted",
                                 "delivery_failed", "closed", "deleted"}]
      BY <2>2, <3>1 DEF WorldTyped
    <3> QED
      BY <3>1, <3>2, <3>3 DEF worldVars, WorldTyped
<1>8. ASSUME NEW w \in Tasks, TaskCrash(w) \/ EffectThrows(w) \/ WriteFails(w)
      PROVE  WorldTyped'
  BY <1>8 DEF TaskCrash, EffectThrows, WriteFails, worldVars, reportVars, WorldTyped
<1>9. ASSUME UNCHANGED intVars PROVE WorldTyped'
  BY <1>9 DEF intVars, worldVars, reportVars, WorldTyped
<1> QED
  BY <1>1, <1>2, <1>3, <1>4, <1>5, <1>6, <1>7, <1>8, <1>9 DEF AppNext, TaskStep

LEMMA BoxNext == Typed /\ [AppNext]_intVars => BoxTyped'
<1> SUFFICES ASSUME Typed, BoxTyped, [AppNext]_intVars PROVE BoxTyped'
  BY TypedParts
<1>1. ASSUME UNCHANGED boxVars PROVE BoxTyped'
  BY <1>1 DEF boxVars, BoxTyped
<1>2. ASSUME NEW r \in Reports, CreateReport(r) \/ DeleteReport(r) \/ SweepOne(r)
      PROVE  BoxTyped'
  BY <1>1, <1>2 DEF CreateReport, DeleteReport, SweepOne, Enqueue, boxVars, BoxTyped
<1>3. ASSUME NEW e \in Rows, DecisionArrives(e) \/ Expire(e) \/ LeaseEnds(e)
      PROVE  BoxTyped'
  <2>1. CASE DecisionArrives(e)
    BY <2>1 DEF DecisionArrives, Enqueue, BoxTyped
  <2>2. CASE Expire(e)
    BY <2>2 DEF Expire, BoxTyped
  <2>3. CASE LeaseEnds(e)
    BY <2>3 DEF LeaseEnds, BoxTyped
  <2> QED
    BY <1>3, <2>1, <2>2, <2>3
<1>4. ASSUME NEW w \in Tasks, NEW e \in Rows, Claim(w, e) PROVE BoxTyped'
  BY <1>4 DEF Claim, BoxTyped
<1>5. ASSUME NEW w \in Tasks, Complete(w) \/ Fail(w) PROVE BoxTyped'
  <2>1. \E s \in {"pending", "processed", "dead_letter"} : Settle(w, s)
    BY <1>5 DEF Complete, Fail
  <2>2. UNCHANGED boxAttempts
    BY <1>5 DEF Complete, Fail
  <2> QED
    BY <2>1, <2>2 DEF Settle, BoxTyped
<1>6. ASSUME NEW w \in Tasks,
             Describe(w) \/ Send(w) \/ MarkSubmitted(w) \/ MarkDeliveryFailed(w)
             \/ FindReports(w) \/ ClaimAction(w) \/ MarkSkipped(w) \/ LatestApplied(w)
             \/ Act(w) \/ MarkApplied(w) \/ ReleaseClaim(w) \/ ApplyDecision(w)
             \/ TaskCrash(w) \/ EffectThrows(w) \/ WriteFails(w)
      PROVE  BoxTyped'
  BY <1>1, <1>6 DEF Describe, Send, MarkSubmitted, MarkDeliveryFailed, FindReports,
     ClaimAction, MarkSkipped, LatestApplied, Act, MarkApplied, ReleaseClaim,
     ApplyDecision, TaskCrash, EffectThrows, WriteFails
<1>7. ASSUME DeleteContent \/ SweepStarts \/ UNCHANGED intVars PROVE BoxTyped'
  BY <1>1, <1>7 DEF DeleteContent, SweepStarts, intVars
<1> QED
  BY <1>2, <1>3, <1>4, <1>5, <1>6, <1>7 DEF AppNext, TaskStep

\* A rewritten row keeps its key, and the others are left as they are.
LEMMA RewriteKeeps ==
  ASSUME LedgerTyped, NEW w \in Tasks, NEW s \in {"claimed", "skipped", "applied"},
         NEW p \in Previous, ledger' = Rewrite(w, s, p)
  PROVE  /\ LedgerTyped' /\ DOMAIN ledger' = DOMAIN ledger
         /\ \A i \in DOMAIN ledger :
              /\ Key(ledger'[i]) = Key(ledger[i])
              /\ i \in EntryOf(w) => ledger'[i].state = s
              /\ i \notin EntryOf(w) => ledger'[i] = ledger[i]
<1>1. ledger \in Seq(Entry) /\ DOMAIN ledger = 1..Len(ledger) /\ Len(ledger) \in Nat
  BY DEF LedgerTyped
<1>2. \A i \in DOMAIN ledger : ledger[i] \in Entry
  BY <1>1
<1>3. \A e \in Entry : LET f == [e EXCEPT !.state = s, !.previous = p]
                       IN  f \in Entry /\ Key(f) = Key(e) /\ f.state = s
  BY DEF Entry, Key
<1>4. DOMAIN ledger' = DOMAIN ledger
  BY DEF Rewrite
<1>5. \A i \in DOMAIN ledger :
        /\ ledger'[i] \in Entry
        /\ Key(ledger'[i]) = Key(ledger[i])
        /\ i \in EntryOf(w) => ledger'[i].state = s
        /\ i \notin EntryOf(w) => ledger'[i] = ledger[i]
  BY <1>2, <1>3 DEF Rewrite
<1>6. ledger' \in [1..Len(ledger) -> Entry]
  BY <1>1, <1>4, <1>5 DEF Rewrite
<1>7. ledger' \in Seq(Entry)
  BY <1>1, <1>6
<1> QED
  BY <1>4, <1>5, <1>7 DEF LedgerTyped, KeysUnique

\* A function on the first numbers is a sequence.
LEMMA ArrayIsSeq ==
  ASSUME NEW S, NEW n \in Nat, NEW f \in [1..n -> S]
  PROVE  f \in Seq(S) /\ DOMAIN f = 1..n
  OBVIOUS

\* A row that is taken out leaves all the others.
LEMMA WithoutKeeps ==
  ASSUME LedgerTyped, NEW i \in DOMAIN ledger, ledger' = Without(i)
  PROVE  /\ LedgerTyped'
         /\ \A m \in DOMAIN ledger \ {i} : \E n \in DOMAIN ledger' : ledger'[n] = ledger[m]
<1>1. ledger \in Seq(Entry) /\ DOMAIN ledger = 1..Len(ledger) /\ Len(ledger) \in Nat
      /\ i \in 1..Len(ledger)
  BY DEF LedgerTyped
<1>2. \A n \in 1..Len(ledger) : ledger[n] \in Entry
  BY <1>1
<1>3. ledger' \in [1..Len(ledger) - 1 -> Entry]
  <2>1. ASSUME NEW n \in 1..Len(ledger) - 1
        PROVE  n \in 1..Len(ledger) /\ n + 1 \in 1..Len(ledger)
    BY <1>1
  <2>2. \A n \in 1..Len(ledger) - 1 :
          (IF n < i THEN ledger[n] ELSE ledger[n + 1]) \in Entry
    BY <1>2, <2>1
  <2> QED
    BY <2>2 DEF Without
<1>4. ledger' \in Seq(Entry) /\ DOMAIN ledger' = 1..Len(ledger) - 1
  <2>1. Len(ledger) - 1 \in Nat
    BY <1>1
  <2> QED
    BY <1>3, <2>1, ArrayIsSeq
<1>5. \A n \in 1..Len(ledger) - 1 :
        ledger'[n] = IF n < i THEN ledger[n] ELSE ledger[n + 1]
  BY DEF Without
<1>6. KeysUnique'
  <2> SUFFICES ASSUME NEW m \in DOMAIN ledger', NEW n \in DOMAIN ledger', m # n
               PROVE  Key(ledger'[m]) # Key(ledger'[n])
    BY DEF KeysUnique
  <2> DEFINE at1 == IF m < i THEN m ELSE m + 1
             at2 == IF n < i THEN n ELSE n + 1
  <2>1. at1 \in DOMAIN ledger /\ at2 \in DOMAIN ledger /\ at1 # at2
    BY <1>1, <1>4
  <2>2. ledger'[m] = ledger[at1] /\ ledger'[n] = ledger[at2]
    BY <1>4, <1>5
  <2> HIDE DEF at1, at2
  <2> QED
    BY <2>1, <2>2 DEF LedgerTyped, KeysUnique
<1>7. ASSUME NEW m \in DOMAIN ledger \ {i}
      PROVE  \E n \in DOMAIN ledger' : ledger'[n] = ledger[m]
  <2>1. CASE m < i
    BY <1>1, <1>4, <1>5, <2>1
  <2>2. CASE m > i
    <3>1. m - 1 \in DOMAIN ledger' /\ ~(m - 1 < i) /\ (m - 1) + 1 = m
      BY <1>1, <1>4, <2>2
    <3> QED
      BY <1>4, <1>5, <3>1
  <2> QED
    BY <1>1, <2>1, <2>2
<1> QED
  BY <1>4, <1>6, <1>7 DEF LedgerTyped

\* A claimed row is the task's, at the end of the ledger.
LEMMA AppendKeeps ==
  ASSUME Typed, NEW w \in Tasks, at[w] = "claiming", EntryOf(w) = {},
         ledger' = Append(ledger, [revision |-> Revision(w), action |-> Action(w),
                                   state |-> "claimed", previous |-> Unknown])
  PROVE  /\ LedgerTyped'
         /\ DOMAIN ledger' = DOMAIN ledger \cup {Len(ledger) + 1}
         /\ \A i \in DOMAIN ledger : ledger'[i] = ledger[i]
         /\ Key(ledger'[Len(ledger) + 1]) = KeyOf(w)
         /\ ledger'[Len(ledger) + 1].state = "claimed"
<1> DEFINE new == [revision |-> Revision(w), action |-> Action(w),
                   state |-> "claimed", previous |-> Unknown]
<1>1. ledger \in Seq(Entry) /\ DOMAIN ledger = 1..Len(ledger) /\ Len(ledger) \in Nat
  BY TypedParts DEF LedgerTyped
<1>2. new \in Entry /\ Key(new) = KeyOf(w) /\ new.state = "claimed"
  BY ActionFits DEF Enforcing, Entry, Previous, Key, KeyOf
<1> HIDE DEF new
<1>3. ledger' = Append(ledger, new)
  BY DEF new
<1>4. /\ ledger' \in Seq(Entry) /\ Len(ledger') = Len(ledger) + 1
      /\ \A i \in 1..Len(ledger) : ledger'[i] = ledger[i]
      /\ ledger'[Len(ledger) + 1] = new
  BY <1>1, <1>2, <1>3
<1>5. DOMAIN ledger' = DOMAIN ledger \cup {Len(ledger) + 1}
  BY <1>1, <1>4
<1>6. \A i \in DOMAIN ledger : Key(ledger[i]) # Key(new)
  BY <1>2 DEF EntryOf
<1>7. KeysUnique'
  BY <1>1, <1>4, <1>5, <1>6, TypedParts DEF LedgerTyped, KeysUnique
<1> QED
  BY <1>1, <1>2, <1>4, <1>5, <1>7 DEF LedgerTyped

\* Only these four steps touch the ledger.
Enters(w) == ClaimAction(w) \/ MarkSkipped(w) \/ MarkApplied(w) \/ ReleaseClaim(w)

LEMMA LedgerStays ==
  ASSUME [AppNext]_intVars, ~\E w \in Tasks : Enters(w)
  PROVE  UNCHANGED ledger
<1>1. ASSUME NEW w \in Tasks, TaskStep(w) PROVE UNCHANGED ledger
  BY <1>1 DEF TaskStep, Enters, Claim, Complete, Fail, Describe, Send, MarkSubmitted,
     MarkDeliveryFailed, FindReports, LatestApplied, Act, ApplyDecision
<1>2. ASSUME NEW w \in Tasks, TaskCrash(w) \/ EffectThrows(w) \/ WriteFails(w)
      PROVE  UNCHANGED ledger
  BY <1>2 DEF TaskCrash, EffectThrows, WriteFails
<1>3. ASSUME NEW r \in Reports, CreateReport(r) \/ DeleteReport(r) \/ SweepOne(r)
      PROVE  UNCHANGED ledger
  BY <1>3 DEF CreateReport, DeleteReport, SweepOne
<1>4. ASSUME NEW e \in Rows, DecisionArrives(e) \/ Expire(e) \/ LeaseEnds(e)
      PROVE  UNCHANGED ledger
  BY <1>4 DEF DecisionArrives, Expire, LeaseEnds
<1>5. ASSUME DeleteContent \/ SweepStarts \/ UNCHANGED intVars PROVE UNCHANGED ledger
  BY <1>5 DEF DeleteContent, SweepStarts, intVars
<1> QED
  BY <1>1, <1>2, <1>3, <1>4, <1>5 DEF AppNext

LEMMA LedgerNext == Typed /\ [AppNext]_intVars => LedgerTyped'
<1> SUFFICES ASSUME Typed, LedgerTyped, [AppNext]_intVars PROVE LedgerTyped'
  BY TypedParts
<1>1. ASSUME UNCHANGED ledger PROVE LedgerTyped'
  BY <1>1 DEF LedgerTyped, KeysUnique
<1>2. ASSUME NEW w \in Tasks, ClaimAction(w) PROVE LedgerTyped'
  BY <1>1, <1>2, AppendKeeps DEF ClaimAction, Claims
<1>3. ASSUME NEW w \in Tasks, MarkSkipped(w) \/ MarkApplied(w) PROVE LedgerTyped'
  <2>1. was[w] \in Previous /\ Unknown \in Previous
    BY TypedParts DEF TasksTyped, Previous
  <2> QED
    BY <1>3, <2>1, RewriteKeeps DEF MarkSkipped, MarkApplied
<1>4. ASSUME NEW w \in Tasks, ReleaseClaim(w) PROVE LedgerTyped'
  BY <1>1, <1>4, WithoutKeeps DEF ReleaseClaim, EntryOf
<1> QED
  BY <1>1, <1>2, <1>3, <1>4, LedgerStays DEF Enters

\* A task that leaves its row, and one that only moves on.
LEMMA LeavingFits ==
  ASSUME TasksTyped, RowsFit, NEW w \in Tasks, LeaveRow(w)
  PROVE  TasksTyped' /\ RowsFit'
<1>1. TasksTyped'
  BY DEF LeaveRow, Go, TasksTyped, TaskStates, Previous
<1>2. \A v \in Tasks \ {w} : at'[v] = at[v] /\ row'[v] = row[v] /\ step'[v] = step[v]
  BY DEF LeaveRow, Go, TasksTyped
<1>3. at'[w] = "idle"
  BY DEF LeaveRow, Go, TasksTyped
<1> QED
  BY <1>1, <1>2, <1>3 DEF RowsFit, Submitting, Applying, Enforcing, Acting, Revision

LEMMA GoingFits ==
  ASSUME RowsFit, NEW w \in Tasks, NEW s \in TaskStates, Go(w, s), UNCHANGED <<row, step>>,
         at \in [Tasks -> TaskStates], row[w] \in Rows,
         s \in Submitting => row[w] \in SubmitRows,
         s \in Applying => row[w] \in ApplyRows,
         s \in Enforcing => step[w] \in DOMAIN Plan[Revision(w)]
  PROVE  at' \in [Tasks -> TaskStates] /\ RowsFit'
<1>1. at' \in [Tasks -> TaskStates] /\ at'[w] = s /\ \A v \in Tasks \ {w} : at'[v] = at[v]
  BY DEF Go
<1> QED
  BY <1>1 DEF RowsFit, Revision

\* The next planned action, or the end of the plan.
LEMMA SteppingFits ==
  ASSUME TasksTyped, RowsFit, NEW w \in Tasks, NextStep(w), UNCHANGED row,
         row[w] \in ApplyRows
  PROVE  at' \in [Tasks -> TaskStates] /\ step' \in [Tasks -> Nat] /\ RowsFit'
<1>1. /\ step' \in [Tasks -> Nat] /\ step'[w] = step[w] + 1
      /\ \A v \in Tasks \ {w} : step'[v] = step[v]
  BY DEF NextStep, TasksTyped
<1>2. /\ at' \in [Tasks -> TaskStates]
      /\ at'[w] = IF step[w] + 1 \in DOMAIN Plan[Revision(w)] THEN "claiming" ELSE "writing"
      /\ \A v \in Tasks \ {w} : at'[v] = at[v]
  BY DEF NextStep, Go, TasksTyped, TaskStates
<1>3. row[w] \in Rows
  BY RowsAre
<1> QED
  BY <1>1, <1>2, <1>3 DEF RowsFit, Revision, Submitting, Applying, Enforcing, Acting

LEMMA TasksNext == Typed /\ [AppNext]_intVars => TasksTyped' /\ RowsFit'
<1> SUFFICES ASSUME WorldTyped, LedgerTyped, TasksTyped, RowsFit, [AppNext]_intVars
             PROVE  TasksTyped' /\ RowsFit'
  BY TypedParts
<1> DEFINE Fit == TasksTyped' /\ RowsFit'
<1>1. ASSUME UNCHANGED taskVars PROVE Fit
  BY <1>1 DEF taskVars, TasksTyped, RowsFit, Revision
<1>2. ASSUME NEW r \in Reports, CreateReport(r) \/ DeleteReport(r) \/ SweepOne(r)
      PROVE  Fit
  BY <1>1, <1>2 DEF CreateReport, DeleteReport, SweepOne
<1>3. ASSUME NEW e \in Rows, DecisionArrives(e) \/ Expire(e) \/ LeaseEnds(e) PROVE Fit
  BY <1>1, <1>3 DEF DecisionArrives, Expire, LeaseEnds
<1>4. ASSUME DeleteContent \/ SweepStarts \/ UNCHANGED intVars PROVE Fit
  BY <1>1, <1>4 DEF DeleteContent, SweepStarts, intVars
<1>5. ASSUME NEW w \in Tasks, Complete(w) \/ Fail(w) \/ TaskCrash(w) PROVE Fit
  BY <1>5, LeavingFits DEF Complete, Fail, TaskCrash
<1>6. ASSUME NEW w \in Tasks, NEW e \in Rows, Claim(w, e) PROVE Fit
  <2> DEFINE s == IF e \in SubmitRows THEN "describing" ELSE "linking"
  <2>1. /\ at' \in [Tasks -> TaskStates] /\ at'[w] = s
        /\ row' \in [Tasks -> Rows \cup {NoRow}] /\ row'[w] = e
        /\ \A v \in Tasks \ {w} : at'[v] = at[v] /\ row'[v] = row[v]
    BY <1>6 DEF Claim, TasksTyped, TaskStates
  <2>2. TasksTyped'
    BY <1>6, <2>1 DEF Claim, TasksTyped
  <2>3. UNCHANGED step
    BY <1>6 DEF Claim
  <2> QED
    BY <2>1, <2>2, <2>3, RowsAre
       DEF RowsFit, Submitting, Applying, Enforcing, Acting, Revision
<1>7. ASSUME NEW w \in Tasks, Describe(w) \/ Send(w) \/ MarkSubmitted(w)
                              \/ MarkDeliveryFailed(w)
      PROVE  Fit
  <2>1. row[w] \in SubmitRows /\ row[w] \in Rows
    BY <1>7, RowsAre DEF RowsFit, Submitting, Describe, Send, MarkSubmitted, MarkDeliveryFailed
  <2>2. \E s \in {"done", "failed", "sending", "storing", "marking"} : Go(w, s)
    BY <1>7 DEF Describe, Fails, Send, MarkSubmitted, MarkDeliveryFailed
  <2>3. UNCHANGED <<row, step, undo, was, todo, found>> /\ retryable' \in [Tasks -> BOOLEAN]
    BY <1>7 DEF Describe, Fails, Send, MarkSubmitted, MarkDeliveryFailed, TasksTyped
  <2>4. at' \in [Tasks -> TaskStates] /\ RowsFit'
    BY <2>1, <2>2, <2>3, GoingFits DEF TasksTyped, TaskStates, Submitting, Applying,
       Enforcing, Acting
  <2> QED
    BY <2>3, <2>4 DEF TasksTyped
<1>8. ASSUME NEW w \in Tasks, FindReports(w) PROVE Fit
  <2>1. row[w] \in ApplyRows /\ row[w] \in Rows
    BY <1>8, RowsAre DEF RowsFit, Applying, FindReports
  <2>2. CASE linked = {}
    <3>1. Go(w, "failed") /\ UNCHANGED <<row, step, undo, was, todo, found>>
          /\ retryable' \in [Tasks -> BOOLEAN]
      BY <1>8, <2>2 DEF FindReports, Fails, TasksTyped
    <3>2. at' \in [Tasks -> TaskStates] /\ RowsFit'
      BY <2>1, <3>1, GoingFits DEF TasksTyped, TaskStates, Submitting, Applying,
         Enforcing, Acting
    <3> QED
      BY <3>1, <3>2 DEF TasksTyped
  <2>3. CASE linked # {}
    <3>1. TasksTyped'
      <4>1. UNCHANGED <<row, undo, was, retryable>>
        BY <1>8, <2>3 DEF FindReports
      <4>4. at' = [at EXCEPT ![w] = "claiming"] /\ step' = [step EXCEPT ![w] = 1]
        BY <1>8, <2>3 DEF FindReports, Go
      <4>5. at' \in [Tasks -> TaskStates] /\ step' \in [Tasks -> Nat]
        BY <4>4 DEF TasksTyped, TaskStates
      <4>2. todo' \in [Tasks -> SUBSET Reports]
        BY <1>8, <2>3 DEF FindReports, TasksTyped, WorldTyped
      <4>3. found' \in [ApplyRows -> SUBSET Reports]
        <5>1. \E R \in SUBSET Reports : found' = [found EXCEPT ![row[w]] = R]
          <6>1. found[row[w]] \in SUBSET Reports /\ linked \in SUBSET Reports
            BY <2>1 DEF TasksTyped, WorldTyped
          <6>2. CASE HeldLease(w)
            BY <1>8, <2>3, <6>1, <6>2 DEF FindReports
          <6>3. CASE ~HeldLease(w)
            BY <1>8, <2>3, <6>1, <6>3 DEF FindReports
          <6> QED
            BY <6>2, <6>3
        <5> QED
          BY <2>1, <5>1 DEF TasksTyped
      <4> QED
        BY <4>1, <4>2, <4>3, <4>5 DEF TasksTyped
    <3>2. /\ at'[w] = "claiming" /\ step'[w] = 1 /\ row' = row
          /\ \A v \in Tasks \ {w} : at'[v] = at[v] /\ step'[v] = step[v]
      BY <1>8, <2>3 DEF FindReports, Go, TasksTyped
    <3>3. Revision(w) \in Revisions
      BY <2>1, RowsAre DEF Revision
    <3>4. 1 \in DOMAIN Plan[Revision(w)]
      BY <3>3
    <3> QED
      BY <2>1, <3>1, <3>2, <3>4 DEF RowsFit, Submitting, Applying, Enforcing, Acting, Revision
  <2> QED
    BY <2>2, <2>3
<1>9. ASSUME NEW w \in Tasks, ClaimAction(w) PROVE Fit
  <2>1. row[w] \in ApplyRows /\ row[w] \in Rows /\ step[w] \in DOMAIN Plan[Revision(w)]
    BY <1>9, RowsAre DEF RowsFit, Applying, Enforcing, ClaimAction
  <2>2. UNCHANGED <<row, undo, was, todo, found, retryable>>
    BY <1>9 DEF ClaimAction
  <2>3. CASE Claims(w)
    <3>1. \E s \in {"looking", "skipping"} : Go(w, s)
      BY <1>9, <2>3 DEF ClaimAction
    <3>2. UNCHANGED step
      BY <1>9, <2>3 DEF ClaimAction
    <3>3. at' \in [Tasks -> TaskStates] /\ RowsFit'
      BY <2>1, <2>2, <3>1, <3>2, GoingFits DEF TasksTyped, TaskStates, Submitting, Applying,
         Enforcing, Acting
    <3> QED
      BY <2>2, <3>2, <3>3 DEF TasksTyped
  <2>4. CASE ~Claims(w)
    <3>1. at' \in [Tasks -> TaskStates] /\ step' \in [Tasks -> Nat] /\ RowsFit'
      BY <1>9, <2>1, <2>2, <2>4, SteppingFits DEF ClaimAction
    <3> QED
      BY <2>2, <3>1 DEF TasksTyped
  <2> QED
    BY <2>3, <2>4
<1>10. ASSUME NEW w \in Tasks, MarkSkipped(w) \/ MarkApplied(w) PROVE Fit
  <2>1. row[w] \in ApplyRows
    BY <1>10 DEF RowsFit, Applying, Acting, MarkSkipped, MarkApplied
  <2>2. NextStep(w) /\ UNCHANGED <<row, todo, found, retryable>>
    BY <1>10 DEF MarkSkipped, MarkApplied
  <2>3. undo' \in [Tasks -> Previous] /\ was' \in [Tasks -> Previous]
    BY <1>10 DEF MarkSkipped, MarkApplied, TasksTyped, Previous
  <2>4. at' \in [Tasks -> TaskStates] /\ step' \in [Tasks -> Nat] /\ RowsFit'
    BY <2>1, <2>2, SteppingFits
  <2> QED
    BY <2>2, <2>3, <2>4 DEF TasksTyped
<1>11. ASSUME NEW w \in Tasks, LatestApplied(w) \/ Act(w) PROVE Fit
  <2>1. row[w] \in ApplyRows /\ row[w] \in Rows /\ step[w] \in DOMAIN Plan[Revision(w)]
    BY <1>11, RowsAre DEF RowsFit, Applying, Enforcing, Acting, LatestApplied, Act
  <2>2. UNCHANGED <<row, step, todo, found, retryable>>
    BY <1>11 DEF LatestApplied, Act
  <2>3. \E s \in Acting : Go(w, s)
    BY <1>11 DEF LatestApplied, Act, Acting
  <2>4. undo' \in [Tasks -> Previous] /\ was' \in [Tasks -> Previous]
    <3>1. CASE LatestApplied(w)
      <4>1. \A i \in DOMAIN ledger : ledger[i].previous \in Previous
        <5>1. \A i \in DOMAIN ledger : ledger[i] \in Entry
          BY DEF LedgerTyped
        <5> QED
          BY <5>1 DEF Entry
      <4>2. \E p \in Previous : undo' = [undo EXCEPT ![w] = p]
        BY <3>1, <4>1 DEF LatestApplied, Reversed, Latest, Previous
      <4>3. UNCHANGED was
        BY <3>1 DEF LatestApplied
      <4> QED
        BY <4>2, <4>3 DEF TasksTyped
    <3>2. CASE Act(w)
      <4>1. object.status \in Previous /\ "flag" \in Previous
        BY DEF WorldTyped, Objects, Previous
      <4> QED
        BY <3>2, <4>1 DEF Act, TasksTyped
    <3> QED
      BY <1>11, <3>1, <3>2
  <2>5. at' \in [Tasks -> TaskStates] /\ RowsFit'
    BY <2>1, <2>2, <2>3, GoingFits DEF TasksTyped, TaskStates, Submitting, Applying,
       Enforcing, Acting
  <2> QED
    BY <2>2, <2>4, <2>5 DEF TasksTyped
<1>12. ASSUME NEW w \in Tasks, ReleaseClaim(w) \/ EffectThrows(w) \/ WriteFails(w) PROVE Fit
  <2>1. /\ row[w] \in Rows
        /\ EffectThrows(w) => row[w] \in ApplyRows /\ step[w] \in DOMAIN Plan[Revision(w)]
    BY <1>12, RowsAre DEF RowsFit, Applying, Enforcing, Acting, ReleaseClaim, EffectThrows,
       WriteFails
  <2>2. /\ UNCHANGED <<row, step, undo, was, todo, found>>
        /\ retryable' \in [Tasks -> BOOLEAN]
    BY <1>12 DEF ReleaseClaim, EffectThrows, WriteFails, Fails, TasksTyped
  <2>3. \/ EffectThrows(w) /\ Go(w, "releasing")
        \/ Go(w, "failed")
    BY <1>12 DEF ReleaseClaim, EffectThrows, WriteFails, Fails
  <2>4. at' \in [Tasks -> TaskStates] /\ RowsFit'
    BY <2>1, <2>2, <2>3, GoingFits DEF TasksTyped, TaskStates, Submitting, Applying,
       Enforcing, Acting
  <2> QED
    BY <2>2, <2>4 DEF TasksTyped
<1>13. ASSUME NEW w \in Tasks, ApplyDecision(w) PROVE Fit
  <2>1. row[w] \in Rows
    BY <1>13 DEF RowsFit, ApplyDecision
  <2>2. UNCHANGED <<row, step, undo, was, found, retryable>>
        /\ todo' \in [Tasks -> SUBSET Reports]
    <3>1. UNCHANGED <<row, undo, was, step, found, retryable>>
      BY <1>13 DEF ApplyDecision
    <3>2. UNCHANGED todo \/ \E r \in todo[w] : todo' = [todo EXCEPT ![w] = @ \ {r}]
      BY <1>13 DEF ApplyDecision
    <3>3. CASE UNCHANGED todo
      BY <3>1, <3>3 DEF TasksTyped
    <3>4. ASSUME NEW r \in todo[w], todo' = [todo EXCEPT ![w] = @ \ {r}]
          PROVE  todo' \in [Tasks -> SUBSET Reports]
      BY <3>4 DEF TasksTyped
    <3> QED
      BY <3>1, <3>2, <3>3, <3>4
  <2>3. Go(w, "done") \/ UNCHANGED at
    BY <1>13 DEF ApplyDecision
  <2>4. at' \in [Tasks -> TaskStates] /\ RowsFit'
    <3>1. CASE Go(w, "done")
      BY <2>1, <2>2, <3>1, GoingFits DEF TasksTyped, TaskStates, Submitting, Applying,
         Enforcing, Acting
    <3>2. CASE UNCHANGED at
      BY <2>2, <3>2 DEF TasksTyped, RowsFit, Revision
    <3> QED
      BY <2>3, <3>1, <3>2
  <2> QED
    BY <2>2, <2>4 DEF TasksTyped
<1> QED
  BY <1>2, <1>3, <1>4, <1>5, <1>6, <1>7, <1>8, <1>9, <1>10, <1>11, <1>12, <1>13
     DEF AppNext, TaskStep

LEMMA TypedNext == Typed /\ [AppNext]_intVars => Typed'
<1>1. WorldTyped' /\ TasksCounted' /\ BoxTyped' /\ LedgerTyped' /\ TasksTyped' /\ RowsFit'
        => Typed'
  BY TypedParts DEF Typed, AppTypeOK, RowsFit, WorldTyped, TasksCounted, BoxTyped, LedgerTyped,
     KeysUnique, TasksTyped
<1> QED
  BY <1>1, TypedParts, WorldNext, TasksCountedNext, BoxNext, LedgerNext, TasksNext

(***************************************************************************)
(* Every reachable state of the tenant's side is well typed, the ledger    *)
(* has at most one row per action of a revision, and a task is only ever   *)
(* at an action its plan has.                                              *)
(***************************************************************************)
THEOREM AppTypeCorrect == AppSpec => []AppTypeOK
<1>1. Typed => AppTypeOK
  BY DEF Typed
<1> QED
  BY <1>1, AppTypedInit, TypedNext, PTL DEF AppSpec
-----------------------------------------------------------------------------
(***************************************************************************)
(* The claim of an action is the task's from the insert that won it to the *)
(* write that settles it or the delete that gives it back; a task that     *)
(* dies in between leaves it for good.                                     *)
(***************************************************************************)
CarriesOut == Acting \cup {"skipping", "releasing"}

ClaimsHeld ==
  \A w \in Tasks : at[w] \in CarriesOut =>
    /\ \E i \in EntryOf(w) : ledger[i].state = "claimed"
    /\ \A v \in Tasks \ {w} : at[v] \in CarriesOut => KeyOf(v) # KeyOf(w)

LEMMA ClaimsInit == AppInit => ClaimsHeld
  BY DEF AppInit, ClaimsHeld, CarriesOut, Acting

\* Whoever carries out an action was already at it.
NobodyStarts ==
  \A v \in Tasks : at'[v] \in CarriesOut =>
    at[v] \in CarriesOut /\ row'[v] = row[v] /\ step'[v] = step[v]

LEMMA ClaimsStay ==
  ASSUME ClaimsHeld, UNCHANGED ledger, NobodyStarts
  PROVE  ClaimsHeld'
<1>1. \A v \in Tasks : at'[v] \in CarriesOut => KeyOf(v)' = KeyOf(v) /\ EntryOf(v)' = EntryOf(v)
  BY DEF NobodyStarts, EntryOf, KeyOf, Revision, Action
<1> QED
  BY <1>1 DEF ClaimsHeld, NobodyStarts

LEMMA NobodyStartsBut ==
  ASSUME Typed, [AppNext]_intVars, ~\E w \in Tasks : ClaimAction(w)
  PROVE  NobodyStarts
<1>1. ASSUME UNCHANGED <<at, row, step>> PROVE NobodyStarts
  BY <1>1 DEF NobodyStarts
<1>2. ASSUME NEW r \in Reports, CreateReport(r) \/ DeleteReport(r) \/ SweepOne(r)
      PROVE  NobodyStarts
  BY <1>1, <1>2 DEF CreateReport, DeleteReport, SweepOne, taskVars
<1>3. ASSUME NEW e \in Rows, DecisionArrives(e) \/ Expire(e) \/ LeaseEnds(e)
      PROVE  NobodyStarts
  BY <1>1, <1>3 DEF DecisionArrives, Expire, LeaseEnds, taskVars
<1>4. ASSUME DeleteContent \/ SweepStarts \/ UNCHANGED intVars PROVE NobodyStarts
  BY <1>1, <1>4 DEF DeleteContent, SweepStarts, intVars, taskVars
<1>5. at \in [Tasks -> TaskStates] /\ row \in [Tasks -> Rows \cup {NoRow}]
      /\ step \in [Tasks -> Nat]
  BY TypedParts DEF TasksTyped
<1>6. ASSUME NEW w \in Tasks, Complete(w) \/ Fail(w) \/ TaskCrash(w)
             \/ (\E e \in Rows : Claim(w, e)) \/ FindReports(w)
             \/ MarkSkipped(w) \/ MarkApplied(w)
      PROVE  NobodyStarts
  <2>1. \A v \in Tasks \ {w} : at'[v] = at[v] /\ row'[v] = row[v] /\ step'[v] = step[v]
    BY <1>5, <1>6 DEF Complete, Fail, TaskCrash, LeaveRow, Claim, FindReports, Fails,
       MarkSkipped, MarkApplied, NextStep, Go
  <2>2. at'[w] \notin CarriesOut
    BY <1>5, <1>6 DEF Complete, Fail, TaskCrash, LeaveRow, Claim, FindReports, Fails,
       MarkSkipped, MarkApplied, NextStep, Go, CarriesOut, Acting
  <2> QED
    BY <2>1, <2>2 DEF NobodyStarts
<1>7. ASSUME NEW w \in Tasks, Describe(w) \/ Send(w) \/ MarkSubmitted(w)
             \/ MarkDeliveryFailed(w) \/ LatestApplied(w) \/ Act(w) \/ ReleaseClaim(w)
             \/ ApplyDecision(w) \/ EffectThrows(w) \/ WriteFails(w)
      PROVE  NobodyStarts
  <2>1. UNCHANGED <<row, step>> /\ \A v \in Tasks \ {w} : at'[v] = at[v]
    BY <1>5, <1>7 DEF Describe, Send, MarkSubmitted, MarkDeliveryFailed, LatestApplied, Act,
       ReleaseClaim, ApplyDecision, EffectThrows, WriteFails, Fails, Go
  <2>2. at'[w] \in CarriesOut => at[w] \in CarriesOut
    BY <1>5, <1>7 DEF Describe, Send, MarkSubmitted, MarkDeliveryFailed, LatestApplied, Act,
       ReleaseClaim, ApplyDecision, EffectThrows, WriteFails, Fails, Go, CarriesOut, Acting
  <2> QED
    BY <2>1, <2>2 DEF NobodyStarts
<1> QED
  BY <1>2, <1>3, <1>4, <1>6, <1>7 DEF AppNext, TaskStep

LEMMA ClaimsNext == Typed /\ ClaimsHeld /\ [AppNext]_intVars => ClaimsHeld'
<1> SUFFICES ASSUME Typed, ClaimsHeld, [AppNext]_intVars PROVE ClaimsHeld'
  OBVIOUS
<1>1. at \in [Tasks -> TaskStates] /\ row \in [Tasks -> Rows \cup {NoRow}]
      /\ step \in [Tasks -> Nat] /\ LedgerTyped /\ was \in [Tasks -> Previous]
  BY TypedParts DEF TasksTyped
<1>2. CASE ~\E w \in Tasks : Enters(w)
  BY <1>2, LedgerStays, NobodyStartsBut, ClaimsStay DEF Enters
<1>3. ASSUME NEW w \in Tasks, ClaimAction(w) PROVE ClaimsHeld'
  <2>1. at[w] = "claiming" /\ UNCHANGED row
    BY <1>3 DEF ClaimAction
  <2>2. CASE ~Claims(w)
    <3>1. UNCHANGED ledger /\ NextStep(w)
      BY <1>3, <2>2 DEF ClaimAction
    <3>2. NobodyStarts
      BY <1>1, <2>1, <3>1 DEF NextStep, Go, NobodyStarts, CarriesOut, Acting
    <3> QED
      BY <3>1, <3>2, ClaimsStay
  <2>3. CASE Claims(w)
    <3>1. /\ EntryOf(w) = {} /\ UNCHANGED step
          /\ \A v \in Tasks \ {w} : at'[v] = at[v]
          /\ ledger' = Append(ledger, [revision |-> Revision(w), action |-> Action(w),
                                       state |-> "claimed", previous |-> Unknown])
      BY <1>1, <1>3, <2>3 DEF ClaimAction, Claims, Go
    <3>2. /\ DOMAIN ledger' = DOMAIN ledger \cup {Len(ledger) + 1}
          /\ \A i \in DOMAIN ledger : ledger'[i] = ledger[i]
          /\ Key(ledger'[Len(ledger) + 1]) = KeyOf(w)
          /\ ledger'[Len(ledger) + 1].state = "claimed"
      BY <2>1, <3>1, AppendKeeps
    <3>3. \A v \in Tasks : KeyOf(v)' = KeyOf(v)
      BY <2>1, <3>1 DEF KeyOf, Revision, Action
    <3>4. \A v \in Tasks \ {w} : at[v] \in CarriesOut => KeyOf(v) # KeyOf(w)
      BY <3>1 DEF ClaimsHeld, EntryOf
    <3>5. \A v \in Tasks : EntryOf(v) \subseteq EntryOf(v)'
      BY <3>2, <3>3 DEF EntryOf
    <3>6. Len(ledger) + 1 \in EntryOf(w)'
      BY <3>2, <3>3 DEF EntryOf
    <3>7. \A v \in Tasks \ {w} : at'[v] \in CarriesOut =>
            \E i \in EntryOf(v)' : ledger'[i].state = "claimed"
      BY <3>1, <3>2, <3>5 DEF ClaimsHeld, EntryOf
    <3>8. \A v \in Tasks : at'[v] \in CarriesOut =>
            \E i \in EntryOf(v)' : ledger'[i].state = "claimed"
      BY <3>2, <3>6, <3>7
    <3>9. ASSUME NEW v \in Tasks, NEW u \in Tasks \ {v},
                 at'[v] \in CarriesOut, at'[u] \in CarriesOut
          PROVE  KeyOf(u)' # KeyOf(v)'
      <4>1. CASE v = w
        BY <3>1, <3>3, <3>4, <3>9, <4>1
      <4>2. CASE u = w
        BY <3>1, <3>3, <3>4, <3>9, <4>2
      <4>3. CASE v # w /\ u # w
        BY <3>1, <3>3, <3>9, <4>3 DEF ClaimsHeld
      <4> QED
        BY <4>1, <4>2, <4>3
    <3> QED
      BY <3>8, <3>9 DEF ClaimsHeld
  <2> QED
    BY <2>2, <2>3
<1>4. ASSUME NEW w \in Tasks, at[w] \in CarriesOut, UNCHANGED row,
             at'[w] \notin CarriesOut,
             \A v \in Tasks \ {w} : at'[v] = at[v] /\ step'[v] = step[v],
             \A i \in DOMAIN ledger \ EntryOf(w) :
               \E j \in DOMAIN ledger' : ledger'[j] = ledger[i]
      PROVE  ClaimsHeld'
  <2>1. \A v \in Tasks \ {w} : KeyOf(v)' = KeyOf(v)
    BY <1>4 DEF KeyOf, Revision, Action
  <2>2. ASSUME NEW v \in Tasks, at'[v] \in CarriesOut
        PROVE  \E i \in EntryOf(v)' : ledger'[i].state = "claimed"
    <3>1. v # w /\ at[v] \in CarriesOut
      BY <1>4, <2>2
    <3>2. PICK i \in EntryOf(v) : ledger[i].state = "claimed"
      BY <3>1 DEF ClaimsHeld
    <3>3. i \in DOMAIN ledger \ EntryOf(w)
      BY <1>4, <3>1, <3>2 DEF ClaimsHeld, EntryOf
    <3>4. PICK j \in DOMAIN ledger' : ledger'[j] = ledger[i]
      BY <1>4, <3>3
    <3> QED
      BY <2>1, <3>1, <3>2, <3>4 DEF EntryOf
  <2> QED
    BY <1>4, <2>1, <2>2 DEF ClaimsHeld
<1>5. ASSUME NEW w \in Tasks, MarkSkipped(w) \/ MarkApplied(w) PROVE ClaimsHeld'
  <2>1. /\ at[w] \in CarriesOut /\ UNCHANGED row /\ at'[w] \notin CarriesOut
        /\ \A v \in Tasks \ {w} : at'[v] = at[v] /\ step'[v] = step[v]
    BY <1>1, <1>5 DEF MarkSkipped, MarkApplied, NextStep, Go, CarriesOut, Acting
  <2>2. \E s \in {"skipped", "applied"}, p \in Previous : ledger' = Rewrite(w, s, p)
    BY <1>1, <1>5 DEF MarkSkipped, MarkApplied, Previous
  <2>3. DOMAIN ledger' = DOMAIN ledger
        /\ \A i \in DOMAIN ledger \ EntryOf(w) : ledger'[i] = ledger[i]
    BY <1>1, <2>2, RewriteKeeps
  <2> QED
    BY <1>4, <2>1, <2>3
<1>6. ASSUME NEW w \in Tasks, ReleaseClaim(w) PROVE ClaimsHeld'
  <2>1. /\ at[w] \in CarriesOut /\ UNCHANGED row /\ at'[w] \notin CarriesOut
        /\ \A v \in Tasks \ {w} : at'[v] = at[v] /\ step'[v] = step[v]
    BY <1>1, <1>6 DEF ReleaseClaim, Fails, Go, CarriesOut, Acting
  <2>2. PICK i \in EntryOf(w) : ledger' = Without(i)
    BY <1>6, <2>1 DEF ReleaseClaim, ClaimsHeld
  <2>3. \A m \in DOMAIN ledger \ {i} : \E n \in DOMAIN ledger' : ledger'[n] = ledger[m]
    BY <1>1, <2>2, WithoutKeeps DEF EntryOf
  <2> QED
    BY <1>4, <2>1, <2>2, <2>3
<1> QED
  BY <1>2, <1>3, <1>5, <1>6 DEF Enters

(***************************************************************************)
(* Carrying out a decision, exactly once: whatever leases end, whatever    *)
(* dies or repeats, an action that is being carried out is claimed, is not *)
(* on record as carried out, and has no second task at it.                 *)
(***************************************************************************)
THEOREM ActionsApplyOnce == AppSpec => []AppliedOnce
<1>1. ClaimsHeld => AppliedOnce
  BY DEF ClaimsHeld, AppliedOnce, CarriesOut
<1>2. AppInit => Typed /\ ClaimsHeld
  BY AppTypedInit, ClaimsInit
<1>3. Typed /\ ClaimsHeld /\ [AppNext]_intVars => (Typed /\ ClaimsHeld)'
  BY TypedNext, ClaimsNext
<1> QED
  BY <1>1, <1>2, <1>3, PTL DEF AppSpec
-----------------------------------------------------------------------------
(***************************************************************************)
(* Applying a decision: what the lease holder found is written or still to *)
(* be written, and what it found is linked to the case until it is         *)
(* deleted.                                                                *)
(***************************************************************************)
Carrying == Enforcing \cup {"writing", "done"}

LinkedLive == \A r \in linked : local[r] # "deleted"

FoundLinked == \A e \in ApplyRows : \A r \in found[e] : r \in linked \/ local[r] = "deleted"

TodoLinked == \A w \in Tasks : \A r \in todo[w] : r \in linked \/ local[r] = "deleted"

AppliedWritten ==
  \A e \in ApplyRows : boxStatus[e] = "processed" =>
    \A r \in found[e] \cap linked : decided[r] >= e[2]

\* A task that is applying a decision.
AtWork(w) == at[w] \in Carrying /\ row[w] \in ApplyRows

HolderWrites ==
  \A w \in Tasks : AtWork(w) /\ HeldLease(w) =>
    \A r \in found[row[w]] \cap linked : r \in todo[w] \/ decided[r] >= Revision(w)

DoneWrote == \A w \in Tasks : AtWork(w) /\ at[w] = "done" => todo[w] = {}

OnRecord == LinkedLive /\ FoundLinked /\ TodoLinked /\ AppliedWritten /\ HolderWrites /\ DoneWrote

LEMMA RecordedInit == AppInit => OnRecord
  BY RowsAre DEF AppInit, OnRecord, LinkedLive, FoundLinked, TodoLinked, AppliedWritten,
     HolderWrites, DoneWrote, AtWork, Carrying, Enforcing, Acting

\* Reports are deleted for good, and decided upwards while they are linked.
ReportsKeep ==
  /\ \A r \in Reports : local[r] = "deleted" => local'[r] = "deleted"
  /\ \A r \in linked' : local'[r] # "deleted"
  /\ \A r \in linked' \ linked : local[r] # "deleted"
  /\ \A r \in linked \ linked' : local'[r] = "deleted"
  /\ \A r \in linked' \cap linked : decided'[r] >= decided[r]

\* Nobody comes to hold a decision it was not at, or to have finished with it.
HoldersKeep ==
  /\ \A e \in ApplyRows : boxStatus'[e] = "processed" => boxStatus[e] = "processed"
  /\ \A w \in Tasks : AtWork(w)' =>
       /\ HeldLease(w)' => AtWork(w) /\ HeldLease(w) /\ row'[w] = row[w] /\ todo'[w] = todo[w]
       /\ at'[w] = "done" => AtWork(w) /\ at[w] = "done" /\ todo'[w] = todo[w]
  /\ \A w \in Tasks : todo'[w] \subseteq todo[w]

LEMMA RecordedKeep ==
  ASSUME Typed, Typed', OnRecord, ReportsKeep, HoldersKeep, UNCHANGED found
  PROVE  OnRecord'
<1>1. /\ linked \subseteq Reports /\ linked' \subseteq Reports
      /\ decided \in [Reports -> 0..MaxRevision] /\ decided' \in [Reports -> 0..MaxRevision]
      /\ \A e \in ApplyRows : found[e] \subseteq Reports /\ e[2] \in Revisions
      /\ \A w \in Tasks : todo[w] \subseteq Reports
  BY RowsAre DEF Typed, AppTypeOK
<1>2. LinkedLive' /\ FoundLinked' /\ TodoLinked'
  BY <1>1 DEF OnRecord, LinkedLive, FoundLinked, TodoLinked, ReportsKeep, HoldersKeep
<1>3. \A e \in ApplyRows : \A r \in found[e] \cap linked' : r \in linked
  BY <1>1 DEF OnRecord, FoundLinked, ReportsKeep
<1>4. \A r \in Reports : decided[r] \in Nat /\ decided'[r] \in Nat
  BY <1>1
<1>5. AppliedWritten'
  <2> SUFFICES ASSUME NEW e \in ApplyRows, boxStatus'[e] = "processed",
                      NEW r \in found[e] \cap linked'
               PROVE  decided'[r] >= e[2]
    BY DEF AppliedWritten
  <2>1. r \in linked /\ decided[r] >= e[2] /\ decided'[r] >= decided[r]
    BY <1>3 DEF OnRecord, AppliedWritten, HoldersKeep, ReportsKeep
  <2>2. e[2] \in Nat /\ decided[r] \in Nat /\ decided'[r] \in Nat
    BY <1>1, <1>4, <2>1 DEF Revisions
  <2> QED
    BY <2>1, <2>2
<1>6. HolderWrites'
  <2> SUFFICES ASSUME NEW w \in Tasks, AtWork(w)', HeldLease(w)',
                      NEW r \in found[row'[w]] \cap linked'
               PROVE  r \in todo'[w] \/ decided'[r] >= Revision(w)'
    BY DEF HolderWrites
  <2>1. AtWork(w) /\ HeldLease(w) /\ row'[w] = row[w] /\ todo'[w] = todo[w]
    BY DEF HoldersKeep
  <2>2. row[w] \in ApplyRows /\ r \in linked /\ Revision(w)' = Revision(w)
    BY <1>3, <2>1 DEF AtWork, Revision
  <2>3. r \in todo[w] \/ decided[r] >= Revision(w)
    BY <2>1, <2>2 DEF OnRecord, HolderWrites
  <2>4. Revision(w) \in Nat /\ decided[r] \in Nat /\ decided'[r] \in Nat
        /\ decided'[r] >= decided[r]
    BY <1>1, <1>4, <2>2 DEF Revision, Revisions, ReportsKeep
  <2> QED
    BY <2>1, <2>2, <2>3, <2>4
<1>7. DoneWrote'
  BY DEF OnRecord, DoneWrote, HoldersKeep
<1> QED
  BY <1>2, <1>5, <1>6, <1>7 DEF OnRecord

\* Steps that leave the rows of decisions, and whoever holds them, alone.
LEMMA HoldersStay ==
  ASSUME UNCHANGED <<row, todo>>,
         \A e \in ApplyRows : boxStatus'[e] = boxStatus[e] /\ boxOwner'[e] = boxOwner[e]
                              /\ boxLive'[e] = boxLive[e],
         \A w \in Tasks : AtWork(w)' =>
           AtWork(w) /\ (at'[w] = "done" => at[w] = "done")
  PROVE  HoldersKeep
<1>1. \A w \in Tasks : AtWork(w)' => HeldLease(w)' = HeldLease(w)
  BY DEF AtWork, HeldLease
<1> QED
  BY <1>1 DEF HoldersKeep

LEMMA ReportsStay ==
  ASSUME Typed, LinkedLive, UNCHANGED reportVars
  PROVE  ReportsKeep
<1>1. \A r \in linked : decided[r] \in Nat
  BY DEF Typed, AppTypeOK
<1> QED
  BY <1>1 DEF ReportsKeep, LinkedLive, reportVars

\* Everything but finding the reports, writing them and settling the row.
LEMMA RecordedWorld ==
  ASSUME Typed, OnRecord,
         \/ \E r \in Reports : CreateReport(r) \/ DeleteReport(r) \/ SweepOne(r)
         \/ \E e \in Rows : DecisionArrives(e) \/ Expire(e) \/ LeaseEnds(e)
         \/ DeleteContent \/ SweepStarts \/ UNCHANGED intVars
  PROVE  ReportsKeep /\ HoldersKeep /\ UNCHANGED found
<1>1. UNCHANGED taskVars
  BY DEF CreateReport, DeleteReport, SweepOne, DecisionArrives, Expire, LeaseEnds,
     DeleteContent, SweepStarts, intVars
<1>2. LinkedLive
  BY DEF OnRecord
<1>3. BoxTyped /\ WorldTyped
  BY TypedParts
<1>4. \A f \in ApplyRows :
        f \in Rows /\ f \notin SubmitRows /\ \A r \in Reports : f # SubmitRow(r)
  BY RowsAre
<1>5. ASSUME \A f \in ApplyRows : boxStatus'[f] = boxStatus[f] /\ boxOwner'[f] = boxOwner[f]
                                  /\ boxLive'[f] = boxLive[f]
      PROVE  HoldersKeep
  BY <1>1, <1>5, HoldersStay DEF taskVars, AtWork
<1>6. ASSUME NEW r \in Reports, CreateReport(r)
      PROVE  ReportsKeep /\ HoldersKeep /\ UNCHANGED found
  <2>1. ReportsKeep
    BY <1>2, <1>3, <1>6 DEF CreateReport, ReportsKeep, LinkedLive, WorldTyped
  <2>2. HoldersKeep
    BY <1>3, <1>4, <1>5, <1>6 DEF CreateReport, Enqueue, boxVars, BoxTyped
  <2> QED
    BY <1>1, <2>1, <2>2 DEF taskVars
<1>7. ASSUME NEW r \in Reports, DeleteReport(r)
      PROVE  ReportsKeep /\ HoldersKeep /\ UNCHANGED found
  <2>1. ReportsKeep
    <3>1. /\ local' = [local EXCEPT ![r] = "deleted"] /\ linked' = linked \ {r}
          /\ decided' = [decided EXCEPT ![r] = 0]
      BY <1>7 DEF DeleteReport
    <3> QED
      BY <1>2, <1>3, <3>1 DEF ReportsKeep, LinkedLive, WorldTyped
  <2>2. HoldersKeep
    BY <1>5, <1>7 DEF DeleteReport, boxVars
  <2> QED
    BY <1>1, <2>1, <2>2 DEF taskVars
<1>8. ASSUME NEW r \in Reports, SweepOne(r)
      PROVE  ReportsKeep /\ HoldersKeep /\ UNCHANGED found
  <2>1. UNCHANGED reportVars
    BY <1>8 DEF SweepOne
  <2>2. HoldersKeep
    BY <1>3, <1>4, <1>5, <1>8 DEF SweepOne, BoxTyped
  <2> QED
    BY <1>1, <1>2, <2>1, <2>2, ReportsStay DEF taskVars
<1>9. ASSUME NEW e \in Rows, DecisionArrives(e) \/ LeaseEnds(e)
      PROVE  ReportsKeep /\ HoldersKeep /\ UNCHANGED found
  <2>1. UNCHANGED reportVars
    BY <1>9 DEF DecisionArrives, LeaseEnds
  <2>2. \A f \in ApplyRows :
          /\ boxStatus'[f] = "processed" => boxStatus[f] = "processed"
          /\ boxStatus'[f] = "processing" /\ boxLive'[f] => boxStatus[f] = "processing" /\ boxLive[f]
          /\ boxOwner'[f] = boxOwner[f]
    BY <1>3, <1>4, <1>9 DEF DecisionArrives, LeaseEnds, Enqueue, BoxTyped
  <2>3. HoldersKeep
    BY <1>1, <2>2 DEF taskVars, HoldersKeep, HeldLease, AtWork
  <2> QED
    BY <1>1, <1>2, <2>1, <2>3, ReportsStay DEF taskVars
<1>10. ASSUME NEW e \in Rows, Expire(e)
      PROVE  ReportsKeep /\ HoldersKeep /\ UNCHANGED found
  <2>1. UNCHANGED reportVars
    BY <1>10 DEF Expire
  <2>2. HoldersKeep
    BY <1>3, <1>4, <1>5, <1>10 DEF Expire, BoxTyped
  <2> QED
    BY <1>1, <1>2, <2>1, <2>2, ReportsStay DEF taskVars
<1>11. CASE DeleteContent \/ SweepStarts \/ UNCHANGED intVars
  <2>1. UNCHANGED reportVars /\ UNCHANGED boxVars
    BY <1>11 DEF DeleteContent, SweepStarts, intVars
  <2> QED
    BY <1>1, <1>2, <1>5, <2>1, ReportsStay DEF taskVars, boxVars
<1> QED
  BY <1>6, <1>7, <1>8, <1>9, <1>10, <1>11

LEMMA RecordedSubmit ==
  ASSUME Typed, OnRecord, NEW w \in Tasks,
         Describe(w) \/ Send(w) \/ MarkSubmitted(w) \/ MarkDeliveryFailed(w)
  PROVE  ReportsKeep /\ HoldersKeep /\ UNCHANGED found
<1>1. WorldTyped /\ TasksTyped /\ RowsFit /\ LinkedLive
  BY TypedParts DEF OnRecord
<1>2. row[w] \in SubmitRows /\ row[w] \notin ApplyRows
  BY <1>1, RowsAre DEF RowsFit, Submitting, Describe, Send, MarkSubmitted, MarkDeliveryFailed
<1>3. ReportOf(w) \in Reports
  BY <1>2, RowsAre DEF ReportOf
<1>4. UNCHANGED <<row, todo, found>> /\ UNCHANGED boxVars
      /\ \A v \in Tasks \ {w} : at'[v] = at[v]
  BY <1>1 DEF Describe, Fails, Send, MarkSubmitted, MarkDeliveryFailed, Go, TasksTyped
<1>5. HoldersKeep
  BY <1>2, <1>4, HoldersStay DEF boxVars, AtWork
<1>6. CASE Describe(w) \/ Send(w)
  <2>1. /\ UNCHANGED <<linked, decided>>
        /\ \/ UNCHANGED local
           \/ local[ReportOf(w)] # "deleted" /\ local' = [local EXCEPT ![ReportOf(w)] = "closed"]
    BY <1>6 DEF Describe, Send, reportVars
  <2>2. \A r \in Reports : local'[r] = "deleted" <=> local[r] = "deleted"
    BY <1>1, <1>3, <2>1 DEF WorldTyped
  <2> QED
    BY <1>1, <1>4, <1>5, <2>1, <2>2 DEF ReportsKeep, LinkedLive, WorldTyped
<1>7. CASE MarkSubmitted(w) \/ MarkDeliveryFailed(w)
  <2>1. /\ UNCHANGED decided /\ linked \subseteq linked'
        /\ linked' \subseteq linked \cup {ReportOf(w)}
        /\ local[ReportOf(w)] = "deleted" => linked' = linked
        /\ \E s \in {"submitted", "delivery_failed"} :
             local' = [local EXCEPT ![ReportOf(w)] = IF @ = "deleted" THEN @ ELSE s]
    BY <1>7 DEF MarkSubmitted, MarkDeliveryFailed, Written
  <2>2. \A r \in Reports : local'[r] = "deleted" <=> local[r] = "deleted"
    BY <1>1, <1>3, <2>1 DEF WorldTyped
  <2>3. linked' \subseteq Reports /\ \A r \in linked' : local[r] # "deleted"
    BY <1>1, <1>3, <2>1 DEF WorldTyped, LinkedLive
  <2>4. \A r \in linked : decided'[r] >= decided[r]
    BY <1>1, <2>1 DEF WorldTyped
  <2> QED
    BY <1>4, <1>5, <2>1, <2>2, <2>3, <2>4, <1>1 DEF ReportsKeep, WorldTyped
<1> QED
  BY <1>6, <1>7

LEMMA RecordedPlan ==
  ASSUME Typed, OnRecord, NEW w \in Tasks,
         \/ ClaimAction(w) \/ MarkSkipped(w) \/ LatestApplied(w) \/ Act(w) \/ MarkApplied(w)
         \/ ReleaseClaim(w) \/ EffectThrows(w) \/ WriteFails(w)
  PROVE  ReportsKeep /\ HoldersKeep /\ UNCHANGED found
<1>1. TasksTyped /\ RowsFit /\ LinkedLive
  BY TypedParts DEF OnRecord
<1>2. UNCHANGED <<row, todo, found>> /\ UNCHANGED boxVars /\ UNCHANGED reportVars
  BY DEF ClaimAction, MarkSkipped, LatestApplied, Act, MarkApplied, ReleaseClaim,
     EffectThrows, WriteFails
<1>3. \A v \in Tasks \ {w} : at'[v] = at[v]
  BY <1>1 DEF ClaimAction, MarkSkipped, LatestApplied, Act, MarkApplied, ReleaseClaim,
     EffectThrows, WriteFails, Fails, NextStep, Go, TasksTyped
<1>4. at'[w] \in Carrying => at[w] \in Carrying /\ at'[w] # "done"
  BY <1>1 DEF ClaimAction, MarkSkipped, LatestApplied, Act, MarkApplied, ReleaseClaim,
     EffectThrows, WriteFails, Fails, NextStep, Go, TasksTyped, Carrying, Enforcing, Acting
<1>5. HoldersKeep
  BY <1>2, <1>3, <1>4, HoldersStay DEF boxVars, AtWork
<1> QED
  BY <1>1, <1>2, <1>5, ReportsStay

\* A task that takes a row, drops it, or settles one it does not finish.
LEMMA RecordedRows ==
  ASSUME Typed, OnRecord, NEW w \in Tasks,
         \/ \E e \in Rows : Claim(w, e)
         \/ Fail(w) \/ TaskCrash(w)
         \/ Complete(w) /\ ~(row[w] \in ApplyRows /\ HeldLease(w))
  PROVE  ReportsKeep /\ HoldersKeep /\ UNCHANGED found
<1>1. TasksTyped /\ RowsFit /\ LinkedLive /\ BoxTyped
  BY TypedParts DEF OnRecord
<1>2. UNCHANGED reportVars /\ UNCHANGED found
  BY DEF Claim, Fail, TaskCrash, Complete, LeaveRow
<1>3. ReportsKeep
  BY <1>1, <1>2, ReportsStay
<1>4. /\ \A v \in Tasks \ {w} : at'[v] = at[v] /\ row'[v] = row[v] /\ todo'[v] = todo[v]
      /\ ~AtWork(w)' /\ todo'[w] \subseteq todo[w]
  BY <1>1 DEF Claim, Fail, TaskCrash, Complete, LeaveRow, Go, TasksTyped, AtWork, Carrying,
     Enforcing, Acting
<1>5. CASE \E e \in Rows : Claim(w, e)
  <2>1. PICK e \in Rows : Claim(w, e)
    BY <1>5
  <2>2. /\ boxStatus' = [boxStatus EXCEPT ![e] = "processing"]
        /\ boxOwner' = [boxOwner EXCEPT ![e] = w] /\ boxLive' = [boxLive EXCEPT ![e] = TRUE]
    BY <2>1 DEF Claim
  <2>3. \A f \in Rows : /\ boxStatus'[f] = "processed" => boxStatus[f] = "processed"
                        /\ f # e => boxStatus'[f] = boxStatus[f] /\ boxOwner'[f] = boxOwner[f]
                                    /\ boxLive'[f] = boxLive[f]
    BY <1>1, <2>2 DEF BoxTyped
  <2>4. ASSUME NEW v \in Tasks \ {w}, AtWork(v), HeldLease(v)'
        PROVE  HeldLease(v)
    <3>1. row'[v] = row[v] /\ row[v] \in Rows /\ boxOwner'[e] = w
      BY <1>1, <1>4, <2>2, <2>4, RowsAre DEF AtWork, BoxTyped
    <3> QED
      BY <2>3, <2>4, <3>1 DEF HeldLease
  <2>5. HoldersKeep
    BY <1>4, <2>3, <2>4, RowsAre DEF HoldersKeep, AtWork
  <2> QED
    BY <1>2, <1>3, <2>5
<1>6. ASSUME NEW s \in {"pending", "dead_letter", "processed"}, Settle(w, s),
             row[w] \in Rows, s = "processed" => ~(row[w] \in ApplyRows /\ HeldLease(w))
      PROVE  HoldersKeep
  <2>1. \A f \in Rows :
          \/ /\ boxStatus'[f] = boxStatus[f] /\ boxOwner'[f] = boxOwner[f]
             /\ boxLive'[f] = boxLive[f]
          \/ f = row[w] /\ HeldLease(w) /\ boxStatus'[f] = s /\ boxOwner'[f] = NoTask
    BY <1>1, <1>6 DEF Settle, BoxTyped
  <2>2. \A f \in ApplyRows : boxStatus'[f] = "processed" => boxStatus[f] = "processed"
    BY <1>6, <2>1, RowsAre
  <2>3. ASSUME NEW v \in Tasks \ {w}, AtWork(v), HeldLease(v)'
        PROVE  HeldLease(v)
    <3>1. row'[v] = row[v] /\ row[v] \in Rows
      BY <1>4, <2>3, RowsAre DEF AtWork
    <3> QED
      BY <2>1, <2>3, <3>1 DEF HeldLease
  <2> QED
    BY <1>4, <2>2, <2>3 DEF HoldersKeep, AtWork
<1>7. CASE TaskCrash(w)
  <2>1. UNCHANGED boxVars
    BY <1>7 DEF TaskCrash
  <2>2. \A v \in Tasks \ {w} : HeldLease(v)' = HeldLease(v)
    BY <1>4, <2>1 DEF HeldLease, boxVars
  <2>3. HoldersKeep
    BY <1>4, <2>1, <2>2 DEF HoldersKeep, AtWork, boxVars
  <2> QED
    BY <1>2, <1>3, <2>3
<1>8. CASE Fail(w)
  <2>1. row[w] \in Rows /\ \E s \in {"pending", "dead_letter"} : Settle(w, s)
    BY <1>1, <1>8 DEF RowsFit, Fail
  <2> QED
    BY <1>2, <1>3, <1>6, <2>1
<1>9. CASE Complete(w) /\ ~(row[w] \in ApplyRows /\ HeldLease(w))
  <2>1. row[w] \in Rows /\ Settle(w, "processed")
    BY <1>1, <1>9 DEF RowsFit, Complete
  <2> QED
    BY <1>2, <1>3, <1>6, <1>9, <2>1
<1> QED
  BY <1>5, <1>7, <1>8, <1>9

\* The holder of a decision's row has written all it found.
LEMMA RecordedComplete ==
  ASSUME Typed, Typed', OnRecord, NEW w \in Tasks, Complete(w), row[w] \in ApplyRows,
         HeldLease(w)
  PROVE  OnRecord'
<1>1. TasksTyped /\ BoxTyped /\ row[w] \in Rows /\ decided \in [Reports -> 0..MaxRevision]
      /\ linked \subseteq Reports
  BY TypedParts, RowsAre DEF WorldTyped
<1>2. UNCHANGED reportVars /\ UNCHANGED found
  BY DEF Complete, LeaveRow
<1>3. /\ \A v \in Tasks \ {w} : at'[v] = at[v] /\ row'[v] = row[v] /\ todo'[v] = todo[v]
      /\ ~AtWork(w)' /\ todo'[w] = {} /\ at'[w] = "idle"
  BY <1>1 DEF Complete, LeaveRow, Go, TasksTyped, AtWork, Carrying, Enforcing, Acting
<1>4. \A f \in Rows \ {row[w]} : /\ boxStatus'[f] = boxStatus[f] /\ boxOwner'[f] = boxOwner[f]
                                 /\ boxLive'[f] = boxLive[f]
  BY <1>1 DEF Complete, Settle, BoxTyped
<1>5. boxStatus'[row[w]] = "processed" /\ boxOwner'[row[w]] = NoTask
  BY <1>1 DEF Complete, Settle, BoxTyped
<1>6. \A r \in found[row[w]] \cap linked : decided[r] >= row[w][2]
  <2>1. AtWork(w) /\ at[w] = "done"
    BY DEF Complete, AtWork, Carrying
  <2> QED
    BY <2>1 DEF OnRecord, DoneWrote, HolderWrites, Revision
<1>7. LinkedLive' /\ FoundLinked' /\ TodoLinked' /\ DoneWrote'
  BY <1>2, <1>3 DEF OnRecord, LinkedLive, FoundLinked, TodoLinked, DoneWrote, AtWork,
     reportVars
<1>8. AppliedWritten'
  <2> SUFFICES ASSUME NEW e \in ApplyRows, boxStatus'[e] = "processed",
                      NEW r \in found[e] \cap linked
               PROVE  decided[r] >= e[2]
    BY <1>2 DEF AppliedWritten, reportVars
  <2> QED
    BY <1>4, <1>6, RowsAre DEF OnRecord, AppliedWritten
<1>9. HolderWrites'
  <2> SUFFICES ASSUME NEW v \in Tasks, AtWork(v)', HeldLease(v)'
               PROVE  \A r \in found'[row'[v]] \cap linked' :
                        r \in todo'[v] \/ decided'[r] >= Revision(v)'
    BY DEF HolderWrites
  <2>1. v # w /\ row'[v] = row[v] /\ row[v] \in Rows /\ row[v] # row[w] /\ AtWork(v)
    BY <1>3, <1>5, RowsAre DEF AtWork, HeldLease
  <2>2. HeldLease(v) /\ todo'[v] = todo[v] /\ Revision(v)' = Revision(v)
    BY <1>3, <1>4, <2>1 DEF HeldLease, Revision
  <2> QED
    BY <1>2, <2>1, <2>2 DEF OnRecord, HolderWrites, reportVars
<1> QED
  BY <1>7, <1>8, <1>9 DEF OnRecord

LEMMA RecordedFind ==
  ASSUME Typed, Typed', OnRecord, NEW w \in Tasks, FindReports(w)
  PROVE  OnRecord'
<1>1. TasksTyped /\ RowsFit /\ row[w] \in ApplyRows
  BY TypedParts DEF RowsFit, Applying, FindReports
<1>2. UNCHANGED row /\ UNCHANGED boxVars /\ UNCHANGED reportVars
  BY DEF FindReports
<1>3. CASE linked = {}
  <2>1. Go(w, "failed") /\ UNCHANGED <<todo, found>>
    BY <1>3 DEF FindReports, Fails
  <2>2. HoldersKeep
    BY <1>1, <1>2, <2>1, HoldersStay DEF Go, TasksTyped, AtWork, Carrying, Enforcing, Acting,
       boxVars
  <2> QED
    BY <1>2, <2>1, <2>2, RecordedKeep, ReportsStay DEF OnRecord
<1>4. CASE linked # {}
  <2>1. /\ todo' = [todo EXCEPT ![w] = linked] /\ at' = [at EXCEPT ![w] = "claiming"]
        /\ \A e \in ApplyRows :
             \/ found'[e] = found[e]
             \/ e = row[w] /\ HeldLease(w) /\ found'[e] = found[e] \cup linked
    <3>1. todo' = [todo EXCEPT ![w] = linked] /\ at' = [at EXCEPT ![w] = "claiming"]
      BY <1>4 DEF FindReports, Go
    <3>2. CASE HeldLease(w)
      <4>1. found' = [found EXCEPT ![row[w]] = @ \cup linked]
        BY <1>4, <3>2 DEF FindReports
      <4> QED
        BY <1>1, <3>1, <3>2, <4>1, RowsAre DEF TasksTyped
    <3>3. CASE ~HeldLease(w)
      <4>1. found' = [found EXCEPT ![row[w]] = @]
        BY <1>4, <3>3 DEF FindReports
      <4>2. found' = found
        BY <1>1, <4>1 DEF TasksTyped
      <4> QED
        BY <3>1, <4>2
    <3> QED
      BY <3>2, <3>3
  <2>2. HeldLease(w) => boxStatus[row[w]] # "processed"
    BY DEF HeldLease
  <2>3. LinkedLive' /\ FoundLinked' /\ TodoLinked'
    <3>1. linked' = linked /\ local' = local
      BY <1>2 DEF reportVars
    <3>2. LinkedLive'
      BY <3>1 DEF OnRecord, LinkedLive
    <3>3. FoundLinked'
      BY <2>1, <3>1 DEF OnRecord, FoundLinked
    <3>4. TodoLinked'
      <4>1. \A v \in Tasks : todo'[v] = todo[v] \/ todo'[v] = linked
        BY <1>1, <2>1 DEF TasksTyped
      <4> QED
        BY <3>1, <4>1 DEF OnRecord, TodoLinked
    <3> QED
      BY <3>2, <3>3, <3>4
  <2>4. AppliedWritten'
    BY <1>2, <2>1, <2>2 DEF OnRecord, AppliedWritten, boxVars, reportVars
  <2>5. DoneWrote'
    BY <1>1, <1>2, <2>1 DEF OnRecord, DoneWrote, AtWork, TasksTyped
  <2>6. HolderWrites'
    <3> SUFFICES ASSUME NEW v \in Tasks, AtWork(v)', HeldLease(v)',
                        NEW r \in found'[row[v]] \cap linked
                 PROVE  r \in todo'[v] \/ decided[r] >= Revision(v)
      BY <1>2 DEF HolderWrites, Revision, reportVars
    <3>1. HeldLease(v) /\ row[v] \in ApplyRows
      BY <1>2 DEF HeldLease, boxVars, AtWork
    <3>2. CASE v = w
      BY <1>1, <2>1, <3>2 DEF TasksTyped
    <3>3. CASE v # w
      <4>1. AtWork(v) /\ todo'[v] = todo[v]
        BY <1>1, <1>2, <2>1, <3>3 DEF AtWork, TasksTyped
      <4>2. found'[row[v]] = found[row[v]]
        BY <2>1, <3>1, <3>3 DEF HeldLease
      <4> QED
        BY <3>1, <4>1, <4>2 DEF OnRecord, HolderWrites
    <3> QED
      BY <3>2, <3>3
  <2> QED
    BY <2>3, <2>4, <2>5, <2>6 DEF OnRecord
<1> QED
  BY <1>3, <1>4

\* A write that is refused has been overtaken, by the delete or a newer one.
LEMMA RecordedApply ==
  ASSUME Typed, Typed', OnRecord, NEW w \in Tasks, ApplyDecision(w)
  PROVE  OnRecord'
<1>1. TasksTyped /\ RowsFit /\ WorldTyped /\ row[w] \in ApplyRows /\ Revision(w) \in 1..MaxRevision
  BY TypedParts, RowsAre DEF RowsFit, Applying, ApplyDecision, Revision, Revisions
<1>2. UNCHANGED row /\ UNCHANGED boxVars /\ UNCHANGED <<linked, found>>
  BY DEF ApplyDecision
<1>3. CASE todo[w] = {}
  <2>1. UNCHANGED <<local, decided, todo>> /\ at' = [at EXCEPT ![w] = "done"]
    BY <1>3 DEF ApplyDecision, Go
  <2>2. \A v \in Tasks : AtWork(v)' => AtWork(v) /\ (at'[v] = "done" => at[v] = "done" \/ v = w)
    BY <1>1, <1>2, <2>1 DEF AtWork, TasksTyped, Carrying, ApplyDecision
  <2>3. LinkedLive' /\ FoundLinked' /\ TodoLinked' /\ AppliedWritten'
    BY <1>2, <2>1 DEF OnRecord, LinkedLive, FoundLinked, TodoLinked, AppliedWritten, boxVars
  <2>4. DoneWrote'
    BY <1>3, <2>1, <2>2 DEF OnRecord, DoneWrote
  <2>5. HolderWrites'
    BY <1>2, <2>1, <2>2 DEF OnRecord, HolderWrites, HeldLease, Revision, boxVars
  <2> QED
    BY <2>3, <2>4, <2>5 DEF OnRecord
<1>4. CASE todo[w] # {}
  <2>1. PICK r \in todo[w] :
          /\ todo' = [todo EXCEPT ![w] = @ \ {r}]
          /\ IF local[r] # "deleted" /\ Accepts(r, Revision(w))
             THEN /\ decided' = [decided EXCEPT ![r] = Revision(w)]
                  /\ local' = [local EXCEPT ![r] = "closed"]
             ELSE UNCHANGED <<decided, local>>
          /\ UNCHANGED at
    BY <1>4 DEF ApplyDecision
  <2>2. r \in Reports /\ \A q \in Reports : decided[q] \in Nat
    BY <1>1 DEF TasksTyped, WorldTyped
  <2>3. /\ \A q \in Reports : local'[q] = "deleted" <=> local[q] = "deleted"
        /\ \A q \in Reports : decided'[q] \in Nat /\ decided'[q] >= decided[q]
        /\ local[r] # "deleted" => decided'[r] >= Revision(w)
    <3>1. CASE local[r] # "deleted" /\ Accepts(r, Revision(w))
      <4>1. decided' = [decided EXCEPT ![r] = Revision(w)] /\ decided[r] <= Revision(w)
            /\ local' = [local EXCEPT ![r] = "closed"]
        BY <2>1, <3>1 DEF Accepts
      <4>2. \A q \in Reports : local'[q] = "deleted" <=> local[q] = "deleted"
        BY <1>1, <2>2, <3>1, <4>1 DEF WorldTyped
      <4>3. decided'[r] = Revision(w) /\ \A q \in Reports \ {r} : decided'[q] = decided[q]
        BY <1>1, <2>2, <4>1 DEF WorldTyped
      <4> QED
        BY <1>1, <2>2, <4>1, <4>2, <4>3
    <3>2. CASE local[r] # "deleted" /\ ~Accepts(r, Revision(w))
      BY <1>1, <2>1, <2>2, <3>2 DEF Accepts
    <3>3. CASE local[r] = "deleted"
      BY <2>1, <2>2, <3>3
    <3> QED
      BY <3>1, <3>2, <3>3
  <2>4. /\ \A v \in Tasks \ {w} : todo'[v] = todo[v]
        /\ todo'[w] = todo[w] \ {r}
    BY <1>1, <2>1 DEF TasksTyped
  <2>5. LinkedLive'
    BY <1>1, <1>2, <2>3 DEF OnRecord, LinkedLive, WorldTyped
  <2>6. FoundLinked'
    BY <1>1, <1>2, <2>3 DEF OnRecord, FoundLinked, TasksTyped
  <2>7. TodoLinked'
    <3> SUFFICES ASSUME NEW v \in Tasks, NEW q \in todo'[v]
                 PROVE  q \in linked \/ local'[q] = "deleted"
      BY <1>2 DEF TodoLinked
    <3>1. q \in todo[v] /\ q \in Reports
      BY <1>1, <2>4 DEF TasksTyped
    <3> QED
      BY <2>3, <3>1 DEF OnRecord, TodoLinked
  <2>8. AppliedWritten'
    <3> SUFFICES ASSUME NEW e \in ApplyRows, boxStatus[e] = "processed",
                        NEW q \in found[e] \cap linked
                 PROVE  decided'[q] >= e[2]
      BY <1>2 DEF AppliedWritten, boxVars
    <3>1. decided[q] >= e[2] /\ q \in Reports
      BY <1>1 DEF OnRecord, AppliedWritten, WorldTyped
    <3>2. e[2] \in Nat
      BY RowsAre DEF Revisions
    <3> QED
      BY <2>2, <2>3, <3>1, <3>2
  <2>9. DoneWrote'
    BY <1>2, <2>1, <2>4 DEF OnRecord, DoneWrote, AtWork, ApplyDecision
  <2>10. HolderWrites'
    <3> SUFFICES ASSUME NEW v \in Tasks, AtWork(v), HeldLease(v),
                        NEW q \in found[row[v]] \cap linked
                 PROVE  q \in todo'[v] \/ decided'[q] >= Revision(v)
      BY <1>2, <2>1 DEF HolderWrites, HeldLease, Revision, AtWork, boxVars
    <3>1. q \in todo[v] \/ decided[q] >= Revision(v)
      BY DEF OnRecord, HolderWrites
    <3>2. q \in Reports /\ Revision(v) \in Nat
      BY <1>1, RowsAre DEF WorldTyped, AtWork, Revision, Revisions
    <3>3. local[q] # "deleted"
      BY DEF OnRecord, LinkedLive
    <3> QED
      BY <2>2, <2>3, <2>4, <3>1, <3>2, <3>3
  <2> QED
    BY <2>5, <2>6, <2>7, <2>8, <2>9, <2>10 DEF OnRecord
<1> QED
  BY <1>3, <1>4

LEMMA RecordedNext == Typed /\ Typed' /\ OnRecord /\ [AppNext]_intVars => OnRecord'
<1> SUFFICES ASSUME Typed, Typed', OnRecord, [AppNext]_intVars PROVE OnRecord'
  OBVIOUS
<1>1. ASSUME NEW w \in Tasks, TaskStep(w) PROVE OnRecord'
  <2>1. CASE Complete(w) /\ row[w] \in ApplyRows /\ HeldLease(w)
    BY <2>1, RecordedComplete
  <2>2. CASE FindReports(w)
    BY <2>2, RecordedFind
  <2>3. CASE ApplyDecision(w)
    BY <2>3, RecordedApply
  <2> QED
    BY <1>1, <2>1, <2>2, <2>3, RecordedSubmit, RecordedPlan, RecordedRows, RecordedKeep
       DEF TaskStep
<1>2. ASSUME NEW w \in Tasks, TaskCrash(w) \/ EffectThrows(w) \/ WriteFails(w)
      PROVE  OnRecord'
  BY <1>2, RecordedRows, RecordedPlan, RecordedKeep
<1>3. ASSUME NEW r \in Reports, CreateReport(r) \/ DeleteReport(r) \/ SweepOne(r)
      PROVE  OnRecord'
  BY <1>3, RecordedWorld, RecordedKeep
<1>4. ASSUME \/ \E e \in Rows : DecisionArrives(e) \/ Expire(e) \/ LeaseEnds(e)
             \/ DeleteContent \/ SweepStarts \/ UNCHANGED intVars
      PROVE  OnRecord'
  BY <1>4, RecordedWorld, RecordedKeep
<1> QED
  BY <1>1, <1>2, <1>3, <1>4 DEF AppNext
-----------------------------------------------------------------------------
(***************************************************************************)
(* While nothing dies, stalls or fails to write, whoever handles a row has *)
(* its lease; so a report is linked by the one run of its delivery, which  *)
(* is then settled, and nothing delivers it again.                         *)
(***************************************************************************)
Leased ==
  /\ \A w \in Tasks : at[w] # "idle" => HeldLease(w)
  /\ \A e \in Rows : boxStatus[e] = "processing" =>
       \E w \in Tasks : at[w] # "idle" /\ row[w] = e

LinkedOnce(r) ==
  /\ local[r] \in {"submitted", "closed"}
  /\ boxStatus[SubmitRow(r)] \in {"absent", "processing", "processed"}
  /\ \A w \in Tasks : at[w] # "idle" /\ row[w] = SubmitRow(r) => at[w] = "done"
  /\ r \in sweep => boxStatus[SubmitRow(r)] # "absent"

Delivered ==
  /\ \A r \in linked : LinkedOnce(r)
  /\ \A r \in Reports : decided[r] # 0 => r \in linked /\ local[r] = "closed"

Undisturbed == tainted = 0 => Leased /\ Delivered

LEMMA UndisturbedInit == AppInit => Undisturbed
  BY DEF AppInit, Undisturbed, Leased, Delivered

LEMMA NoFault ==
  ASSUME Typed, [AppNext]_intVars, tainted' = 0
  PROVE  tainted = 0 /\ ~Fault
<1>1. tainted \in Nat
  BY DEF Typed, AppTypeOK
<1>2. ~Fault
  BY <1>1 DEF Fault
<1>3. UNCHANGED tainted \/ Fault
  <2>1. ASSUME NEW w \in Tasks, TaskStep(w) PROVE UNCHANGED tainted
    BY <2>1 DEF TaskStep, Claim, Complete, Fail, Describe, Send, MarkSubmitted,
       MarkDeliveryFailed, FindReports, ClaimAction, MarkSkipped, LatestApplied, Act,
       MarkApplied, ReleaseClaim, ApplyDecision
  <2>2. ASSUME NEW w \in Tasks, TaskCrash(w) \/ EffectThrows(w) \/ WriteFails(w)
        PROVE  Fault
    BY <2>2 DEF TaskCrash, EffectThrows, WriteFails
  <2>3. ASSUME NEW r \in Reports, CreateReport(r) \/ DeleteReport(r) \/ SweepOne(r)
        PROVE  UNCHANGED tainted
    BY <2>3 DEF CreateReport, DeleteReport, SweepOne
  <2>4. ASSUME NEW e \in Rows, DecisionArrives(e) \/ Expire(e) \/ LeaseEnds(e)
        PROVE  UNCHANGED tainted \/ Fault
    BY <2>4 DEF DecisionArrives, Expire, LeaseEnds
  <2>5. ASSUME DeleteContent \/ SweepStarts \/ UNCHANGED intVars PROVE UNCHANGED tainted
    BY <2>5 DEF DeleteContent, SweepStarts, intVars
  <2> QED
    BY <2>1, <2>2, <2>3, <2>4, <2>5 DEF AppNext
<1> QED
  BY <1>2, <1>3

\* Two tasks never handle one row.
LEMMA OneTask ==
  ASSUME Leased, NEW v \in Tasks, NEW w \in Tasks, at[v] # "idle", at[w] # "idle",
         row[v] = row[w]
  PROVE  v = w
  BY DEF Leased, HeldLease

\* A row that is due is in nobody's hands, and not processed by anybody.
LEMMA DueIsFree ==
  ASSUME Leased, NEW e \in Rows, Due(e)
  PROVE  boxStatus[e] = "pending" /\ \A v \in Tasks : at[v] # "idle" => row[v] # e
  BY DEF Leased, HeldLease, Due

\* Steps that give no row to a task and take none away.
LEMMA LeasedStays ==
  ASSUME Leased, UNCHANGED row,
         \A v \in Tasks : at'[v] = "idle" <=> at[v] = "idle",
         \A e \in Rows :
           \/ /\ boxStatus'[e] = boxStatus[e] /\ boxOwner'[e] = boxOwner[e]
              /\ boxLive'[e] = boxLive[e]
           \/ boxStatus[e] # "processing" /\ boxStatus'[e] # "processing",
         RowsFit
  PROVE  Leased'
<1>1. \A v \in Tasks : at[v] # "idle" => row[v] \in Rows
  BY DEF RowsFit
<1> QED
  BY <1>1 DEF Leased, HeldLease

LEMMA LeasedNext ==
  ASSUME Typed, Leased, [AppNext]_intVars, tainted' = 0
  PROVE  Leased'
<1>1. BoxTyped /\ TasksTyped /\ RowsFit
  BY TypedParts
<1>2. ~Fault
  BY NoFault
<1>3. ASSUME NEW r \in Reports, CreateReport(r) \/ DeleteReport(r) \/ SweepOne(r)
      PROVE  Leased'
  <2>1. SubmitRow(r) \in Rows
    BY RowsAre
  <2>2. UNCHANGED <<boxOwner, boxLive, at, row>>
        /\ \/ UNCHANGED boxStatus
           \/ boxStatus' = [boxStatus EXCEPT ![SubmitRow(r)] = IF @ = "absent" THEN "pending"
                                                               ELSE @]
    BY <1>3 DEF CreateReport, DeleteReport, SweepOne, Enqueue, boxVars, taskVars
  <2>3. \A e \in Rows : \/ boxStatus'[e] = boxStatus[e]
                        \/ boxStatus[e] = "absent" /\ boxStatus'[e] = "pending"
    BY <1>1, <2>1, <2>2 DEF BoxTyped
  <2> QED
    BY <1>1, <2>2, <2>3, LeasedStays
<1>4. ASSUME NEW e \in Rows, DecisionArrives(e) \/ Expire(e)
      PROVE  Leased'
  <2>1. UNCHANGED <<boxOwner, boxLive, at, row>>
    BY <1>4 DEF DecisionArrives, Expire, Enqueue, taskVars
  <2>2. \A f \in Rows : \/ boxStatus'[f] = boxStatus[f]
                        \/ boxStatus[f] # "processing" /\ boxStatus'[f] # "processing"
    BY <1>1, <1>4 DEF DecisionArrives, Expire, Enqueue, BoxTyped
  <2> QED
    BY <1>1, <2>1, <2>2, LeasedStays
<1>5. ASSUME NEW e \in Rows, LeaseEnds(e) PROVE FALSE
  <2>1. PICK w \in Tasks : at[w] # "idle" /\ row[w] = e
    BY <1>5 DEF LeaseEnds, Leased
  <2>2. boxOwner[e] = w
    BY <2>1 DEF Leased, HeldLease
  <2> QED
    BY <1>2, <1>5, <2>1, <2>2 DEF LeaseEnds
<1>6. ASSUME DeleteContent \/ SweepStarts \/ UNCHANGED intVars PROVE Leased'
  <2>1. UNCHANGED <<boxStatus, boxOwner, boxLive, at, row>>
    BY <1>6 DEF DeleteContent, SweepStarts, intVars, boxVars, taskVars
  <2> QED
    BY <1>1, <2>1, LeasedStays
<1>7. ASSUME NEW w \in Tasks,
             \/ Describe(w) \/ Send(w) \/ MarkSubmitted(w) \/ MarkDeliveryFailed(w)
             \/ FindReports(w) \/ ClaimAction(w) \/ MarkSkipped(w) \/ LatestApplied(w)
             \/ Act(w) \/ MarkApplied(w) \/ ReleaseClaim(w) \/ ApplyDecision(w)
      PROVE  Leased'
  <2>1. UNCHANGED <<boxStatus, boxOwner, boxLive, row>>
    BY <1>7 DEF Describe, Send, MarkSubmitted, MarkDeliveryFailed, FindReports, ClaimAction,
       MarkSkipped, LatestApplied, Act, MarkApplied, ReleaseClaim, ApplyDecision, boxVars
  <2>2. \A v \in Tasks : at'[v] = "idle" <=> at[v] = "idle"
    BY <1>1, <1>7 DEF Describe, Send, MarkSubmitted, MarkDeliveryFailed, FindReports,
       ClaimAction, MarkSkipped, LatestApplied, Act, MarkApplied, ReleaseClaim,
       ApplyDecision, Fails, NextStep, Go, TasksTyped
  <2> QED
    BY <1>1, <2>1, <2>2, LeasedStays
<1>8. ASSUME NEW w \in Tasks, NEW e \in Rows, Claim(w, e) PROVE Leased'
  <2>1. /\ at[w] = "idle" /\ boxStatus'[e] = "processing" /\ boxOwner'[e] = w /\ boxLive'[e]
        /\ at'[w] # "idle" /\ row'[w] = e
        /\ \A v \in Tasks \ {w} : at'[v] = at[v] /\ row'[v] = row[v]
        /\ \A f \in Rows \ {e} : /\ boxStatus'[f] = boxStatus[f] /\ boxOwner'[f] = boxOwner[f]
                                 /\ boxLive'[f] = boxLive[f]
    BY <1>1, <1>8 DEF Claim, BoxTyped, TasksTyped
  <2>2. \A v \in Tasks : at[v] # "idle" => row[v] # e /\ row[v] \in Rows
    BY <1>1, <1>8, DueIsFree DEF Claim, RowsFit
  <2> QED
    BY <2>1, <2>2 DEF Leased, HeldLease
<1>9. ASSUME NEW w \in Tasks, Complete(w) \/ Fail(w) PROVE Leased'
  <2>1. HeldLease(w) /\ at[w] # "idle" /\ row[w] \in Rows
    BY <1>1, <1>9 DEF Complete, Fail, Leased, RowsFit
  <2>2. PICK s \in {"pending", "processed", "dead_letter"} : Settle(w, s)
    BY <1>9 DEF Complete, Fail
  <2>3. /\ boxStatus'[row[w]] = s
        /\ \A f \in Rows \ {row[w]} : /\ boxStatus'[f] = boxStatus[f]
                                      /\ boxOwner'[f] = boxOwner[f] /\ boxLive'[f] = boxLive[f]
    BY <1>1, <2>1, <2>2 DEF Settle, BoxTyped
  <2>4. /\ at'[w] = "idle"
        /\ \A v \in Tasks \ {w} : at'[v] = at[v] /\ row'[v] = row[v]
    BY <1>1, <1>9 DEF Complete, Fail, LeaveRow, Go, TasksTyped
  <2>5. \A v \in Tasks \ {w} : at[v] # "idle" => row[v] # row[w] /\ row[v] \in Rows
    BY <1>1, <2>1, OneTask DEF RowsFit
  <2> QED
    BY <2>1, <2>3, <2>4, <2>5 DEF Leased, HeldLease
<1>10. ASSUME NEW w \in Tasks, TaskCrash(w) \/ EffectThrows(w) \/ WriteFails(w) PROVE FALSE
  BY <1>2, <1>10 DEF TaskCrash, EffectThrows, WriteFails
<1> QED
  BY <1>3, <1>4, <1>5, <1>6, <1>7, <1>8, <1>9, <1>10 DEF AppNext, TaskStep

\* Steps that leave the reports, their rows and whoever delivers them alone.
LEMMA DeliveredStays ==
  ASSUME Delivered, WorldTyped, UNCHANGED reportVars, sweep' \subseteq sweep,
         \A r \in linked : boxStatus'[SubmitRow(r)] = boxStatus[SubmitRow(r)],
         \A v \in Tasks : row'[v] \in SubmitRows /\ at'[v] # "idle" =>
           row'[v] = row[v] /\ at'[v] = at[v]
  PROVE  Delivered'
<1>1. \A r \in linked : SubmitRow(r) \in SubmitRows
  BY RowsAre DEF WorldTyped
<1> QED
  BY <1>1 DEF Delivered, LinkedOnce, reportVars

LEMMA DeliveredWorld ==
  ASSUME Typed, Leased, Delivered, TodoLinked, tainted' = 0, ~Fault,
         \/ \E r \in Reports : CreateReport(r) \/ DeleteReport(r) \/ SweepOne(r)
         \/ \E e \in Rows : DecisionArrives(e) \/ Expire(e)
         \/ DeleteContent \/ SweepStarts \/ UNCHANGED intVars
  PROVE  Delivered'
<1>1. BoxTyped /\ TasksTyped /\ RowsFit /\ WorldTyped
  BY TypedParts
<1>2. UNCHANGED <<at, row>>
  BY DEF CreateReport, DeleteReport, SweepOne, DecisionArrives, Expire, DeleteContent,
     SweepStarts, intVars, taskVars
<1>3. \A q, r \in Reports : SubmitRow(q) = SubmitRow(r) => q = r
  BY RowsAre
<1>4. ASSUME NEW q \in Reports, CreateReport(q) PROVE Delivered'
  <2>1. /\ local[q] = "absent" /\ \A r \in Reports \ {q} : local'[r] = local[r]
        /\ UNCHANGED <<linked, decided, sweep>>
    BY <1>1, <1>4 DEF CreateReport, WorldTyped
  <2>2. q \notin linked /\ decided[q] = 0
    BY <2>1 DEF Delivered, LinkedOnce
  <2>3. \A r \in Reports \ {q} : boxStatus'[SubmitRow(r)] = boxStatus[SubmitRow(r)]
    BY <1>1, <1>3, <1>4, RowsAre DEF CreateReport, Enqueue, boxVars, BoxTyped
  <2> QED
    BY <1>1, <1>2, <2>1, <2>2, <2>3 DEF Delivered, LinkedOnce, WorldTyped
<1>5. ASSUME NEW q \in Reports, DeleteReport(q) PROVE Delivered'
  <2>1. /\ \A r \in Reports \ {q} : local'[r] = local[r] /\ decided'[r] = decided[r]
        /\ linked' = linked \ {q} /\ decided'[q] = 0 /\ UNCHANGED <<sweep, boxStatus>>
    BY <1>1, <1>5 DEF DeleteReport, WorldTyped, boxVars
  <2> QED
    BY <1>1, <1>2, <2>1 DEF Delivered, LinkedOnce, WorldTyped
<1>6. ASSUME NEW q \in Reports, SweepOne(q) PROVE Delivered'
  <2>1. \A r \in linked : boxStatus'[SubmitRow(r)] = boxStatus[SubmitRow(r)]
    BY <1>1, <1>3, <1>6, RowsAre DEF SweepOne, Delivered, LinkedOnce, WorldTyped, BoxTyped
  <2> QED
    BY <1>1, <1>2, <1>6, <2>1, DeliveredStays DEF SweepOne
<1>7. ASSUME NEW e \in Rows, DecisionArrives(e) PROVE Delivered'
  <2>1. \A r \in linked : boxStatus'[SubmitRow(r)] = boxStatus[SubmitRow(r)]
    BY <1>1, <1>7, RowsAre DEF DecisionArrives, Enqueue, WorldTyped, BoxTyped
  <2> QED
    BY <1>1, <1>2, <1>7, <2>1, DeliveredStays DEF DecisionArrives
<1>8. ASSUME NEW e \in Rows, Expire(e) PROVE Delivered'
  <2>1. UNCHANGED reportVars /\ UNCHANGED sweep
    BY <1>8 DEF Expire
  <2>2. \A r \in linked :
          \/ boxStatus'[SubmitRow(r)] = boxStatus[SubmitRow(r)]
          \/ boxStatus'[SubmitRow(r)] = "absent" /\ r \notin sweep
    BY <1>1, <1>8, RowsAre DEF Expire, WorldTyped, BoxTyped
  <2> QED
    BY <1>1, <1>2, <2>1, <2>2 DEF Delivered, LinkedOnce, WorldTyped, reportVars
<1>9. ASSUME DeleteContent \/ UNCHANGED intVars PROVE Delivered'
  BY <1>1, <1>2, <1>9, DeliveredStays DEF DeleteContent, intVars, boxVars
<1>10. ASSUME SweepStarts PROVE Delivered'
  <2>1. UNCHANGED reportVars /\ UNCHANGED boxStatus /\ \A r \in linked : r \notin sweep'
    BY <1>10 DEF SweepStarts, Pending, boxVars, Delivered, LinkedOnce
  <2> QED
    BY <1>1, <1>2, <2>1 DEF Delivered, LinkedOnce, reportVars
<1> QED
  BY <1>4, <1>5, <1>6, <1>7, <1>8, <1>9, <1>10

LEMMA DeliveredSubmit ==
  ASSUME Typed, Leased, Delivered, NEW w \in Tasks,
         Describe(w) \/ Send(w) \/ MarkSubmitted(w) \/ MarkDeliveryFailed(w)
  PROVE  Delivered'
<1>1. BoxTyped /\ TasksTyped /\ RowsFit /\ WorldTyped
  BY TypedParts
<1>2. row[w] \in SubmitRows /\ at[w] # "idle" /\ at[w] # "done"
  BY <1>1 DEF RowsFit, Submitting, Describe, Send, MarkSubmitted, MarkDeliveryFailed
<1>3. PICK q \in Reports : ReportOf(w) = q /\ row[w] = SubmitRow(q)
  BY <1>2, RowsAre DEF ReportOf
<1>4. q \notin linked /\ decided[q] = 0
  BY <1>2, <1>3 DEF Delivered, LinkedOnce
<1>5. /\ UNCHANGED <<row, boxStatus, sweep, decided>>
      /\ \A v \in Tasks \ {w} : at'[v] = at[v]
      /\ \A r \in Reports \ {q} : local'[r] = local[r]
  BY <1>1, <1>3 DEF Describe, Fails, Send, MarkSubmitted, MarkDeliveryFailed, Written, Go,
     boxVars, reportVars, TasksTyped, WorldTyped
<1>6. \A r \in linked : LinkedOnce(r)'
  <2> SUFFICES ASSUME NEW r \in linked PROVE LinkedOnce(r)'
    OBVIOUS
  <2>1. r \in Reports /\ r # q /\ SubmitRow(r) # row[w] /\ LinkedOnce(r)
    BY <1>1, <1>3, <1>4, RowsAre DEF WorldTyped, Delivered
  <2>2. local'[r] = local[r]
    BY <1>5, <2>1
  <2> QED
    BY <1>5, <2>1, <2>2 DEF LinkedOnce, SubmitRow
<1>7. CASE q \notin linked'
  <2>1. linked' = linked
    BY <1>3, <1>7 DEF Describe, Send, MarkSubmitted, MarkDeliveryFailed, reportVars
  <2> QED
    BY <1>4, <1>5, <1>6, <2>1 DEF Delivered
<1>8. CASE q \in linked'
  <2>1. MarkSubmitted(w) /\ local[q] # "deleted" /\ linked' = linked \cup {q}
    BY <1>4, <1>8 DEF Describe, Send, MarkSubmitted, MarkDeliveryFailed, reportVars
  <2>2. local'[q] = "submitted" /\ at'[w] = "done"
    BY <1>1, <1>3, <2>1 DEF MarkSubmitted, Written, Go, TasksTyped, WorldTyped
  <2>3. boxStatus[SubmitRow(q)] = "processing"
    BY <1>2, <1>3 DEF Leased, HeldLease
  <2>4. \A v \in Tasks : at'[v] # "idle" /\ row[v] = SubmitRow(q) => at'[v] = "done"
    BY <1>2, <1>3, <1>5, <2>2, OneTask
  <2>5. LinkedOnce(q)'
    BY <1>5, <2>2, <2>3, <2>4 DEF LinkedOnce, SubmitRow
  <2>6. \A r \in Reports : decided'[r] # 0 => r \in linked' /\ local'[r] = "closed"
    BY <1>4, <1>5, <2>1 DEF Delivered
  <2>7. \A r \in linked' : LinkedOnce(r)'
    BY <1>6, <2>1, <2>5
  <2> QED
    BY <2>6, <2>7 DEF Delivered
<1> QED
  BY <1>7, <1>8

LEMMA DeliveredTask ==
  ASSUME Typed, Leased, Delivered, TodoLinked, NEW w \in Tasks,
         \/ \E e \in Rows : Claim(w, e)
         \/ Complete(w) \/ Fail(w)
         \/ FindReports(w) \/ ClaimAction(w) \/ MarkSkipped(w) \/ LatestApplied(w)
         \/ Act(w) \/ MarkApplied(w) \/ ReleaseClaim(w) \/ ApplyDecision(w)
  PROVE  Delivered'
<1>1. BoxTyped /\ TasksTyped /\ RowsFit /\ WorldTyped
  BY TypedParts
<1>2. ASSUME NEW e \in Rows, Claim(w, e) PROVE Delivered'
  <2>1. boxStatus[e] = "pending"
    BY <1>2, DueIsFree DEF Claim
  <2>2. \A r \in linked : SubmitRow(r) # e
    BY <2>1 DEF Delivered, LinkedOnce
  <2>3. /\ UNCHANGED reportVars /\ UNCHANGED sweep
        /\ row'[w] = e /\ \A v \in Tasks \ {w} : at'[v] = at[v] /\ row'[v] = row[v]
        /\ \A f \in Rows \ {e} : boxStatus'[f] = boxStatus[f]
    BY <1>1, <1>2 DEF Claim, BoxTyped, TasksTyped
  <2>4. \A r \in linked : SubmitRow(r) \in Rows
    BY <1>1, RowsAre DEF WorldTyped
  <2> QED
    BY <2>2, <2>3, <2>4 DEF Delivered, LinkedOnce, reportVars, SubmitRow
<1>3. ASSUME Complete(w) \/ Fail(w) PROVE Delivered'
  <2>1. UNCHANGED reportVars /\ UNCHANGED sweep
    BY <1>3 DEF Complete, Fail
  <2>2. row[w] \in Rows /\ HeldLease(w) /\ at[w] # "idle"
    BY <1>1, <1>3 DEF Complete, Fail, Leased, RowsFit
  <2>3. /\ at'[w] = "idle"
        /\ \A v \in Tasks \ {w} : at'[v] = at[v] /\ row'[v] = row[v]
    BY <1>1, <1>3 DEF Complete, Fail, LeaveRow, Go, TasksTyped
  <2>4. /\ \A f \in Rows \ {row[w]} : boxStatus'[f] = boxStatus[f]
        /\ Complete(w) => boxStatus'[row[w]] = "processed"
    BY <1>1, <1>3, <2>2 DEF Complete, Fail, Settle, BoxTyped
  <2>5. \A r \in linked : row[w] = SubmitRow(r) => Complete(w)
    BY <1>3, <2>2 DEF Fail, Delivered, LinkedOnce
  <2>6. \A r \in linked : SubmitRow(r) \in Rows
    BY <1>1, RowsAre DEF WorldTyped
  <2>7. \A r \in linked : boxStatus'[SubmitRow(r)] = boxStatus[SubmitRow(r)]
                          \/ boxStatus'[SubmitRow(r)] = "processed"
    BY <2>4, <2>5, <2>6
  <2> QED
    BY <2>1, <2>3, <2>7 DEF Delivered, LinkedOnce, reportVars
<1>4. ASSUME \/ FindReports(w) \/ ClaimAction(w) \/ MarkSkipped(w) \/ LatestApplied(w)
             \/ Act(w) \/ MarkApplied(w) \/ ReleaseClaim(w)
      PROVE  Delivered'
  <2>1. row[w] \notin SubmitRows
    BY <1>1, <1>4, RowsAre DEF RowsFit, Applying, Acting, FindReports, ClaimAction,
       MarkSkipped, LatestApplied, Act, MarkApplied, ReleaseClaim
  <2>2. UNCHANGED reportVars /\ UNCHANGED <<sweep, boxStatus, row>>
    BY <1>4 DEF FindReports, ClaimAction, MarkSkipped, LatestApplied, Act, MarkApplied,
       ReleaseClaim, boxVars
  <2>3. \A v \in Tasks \ {w} : at'[v] = at[v]
    BY <1>1, <1>4 DEF FindReports, ClaimAction, MarkSkipped, LatestApplied, Act, MarkApplied,
       ReleaseClaim, Fails, NextStep, Go, TasksTyped
  <2> QED
    BY <1>1, <2>1, <2>2, <2>3, DeliveredStays
<1>5. ASSUME ApplyDecision(w) PROVE Delivered'
  <2>1. row[w] \notin SubmitRows /\ Revision(w) \in Revisions
    BY <1>1, <1>5, RowsAre DEF RowsFit, Applying, ApplyDecision, Revision
  <2>2. UNCHANGED <<sweep, boxStatus, row, linked>>
        /\ \A v \in Tasks \ {w} : at'[v] = at[v]
    BY <1>1, <1>5 DEF ApplyDecision, boxVars, Go, TasksTyped
  <2>3. \A r \in Reports :
          \/ local'[r] = local[r] /\ decided'[r] = decided[r]
          \/ r \in linked /\ local'[r] = "closed"
    <3>1. CASE UNCHANGED <<local, decided>>
      BY <3>1
    <3>2. ASSUME NEW q \in todo[w], local[q] # "deleted",
                 decided' = [decided EXCEPT ![q] = Revision(w)],
                 local' = [local EXCEPT ![q] = "closed"]
          PROVE  \A r \in Reports : \/ local'[r] = local[r] /\ decided'[r] = decided[r]
                                    \/ r \in linked /\ local'[r] = "closed"
      <4>1. q \in linked /\ q \in Reports
        BY <1>1, <3>2 DEF TodoLinked, TasksTyped
      <4> QED
        BY <1>1, <3>2, <4>1 DEF WorldTyped
    <3> QED
      BY <1>5, <3>1, <3>2 DEF ApplyDecision
  <2>4. \A r \in linked : r \in Reports /\ SubmitRow(r) \in SubmitRows
    BY <1>1, RowsAre DEF WorldTyped
  <2>5. ASSUME NEW r \in linked PROVE LinkedOnce(r)'
    <3>1. LinkedOnce(r)
      BY <1>1 DEF Delivered
    <3>2. local'[r] \in {"submitted", "closed"}
      BY <2>3, <2>4, <3>1 DEF LinkedOnce
    <3>3. \A v \in Tasks : at'[v] # "idle" /\ row[v] = SubmitRow(r) => at'[v] = "done"
      BY <2>1, <2>2, <2>4, <3>1 DEF LinkedOnce
    <3> QED
      BY <2>2, <3>1, <3>2, <3>3 DEF LinkedOnce
  <2>6. \A r \in Reports : decided'[r] # 0 => r \in linked /\ local'[r] = "closed"
    BY <1>1, <2>3 DEF Delivered
  <2> QED
    BY <2>2, <2>5, <2>6 DEF Delivered
<1> QED
  BY <1>2, <1>3, <1>4, <1>5

LEMMA UndisturbedNext ==
  Typed /\ OnRecord /\ Undisturbed /\ [AppNext]_intVars => Undisturbed'
<1> SUFFICES ASSUME Typed, OnRecord, Undisturbed, [AppNext]_intVars, tainted' = 0
             PROVE  Leased' /\ Delivered'
  BY DEF Undisturbed
<1>1. Leased /\ Delivered /\ ~Fault /\ TodoLinked
  BY NoFault DEF Undisturbed, OnRecord
<1>2. Leased'
  BY <1>1, LeasedNext
<1>3. ASSUME NEW e \in Rows, LeaseEnds(e) PROVE Delivered'
  <2>1. UNCHANGED reportVars /\ UNCHANGED <<sweep, boxStatus, at, row>>
    BY <1>3 DEF LeaseEnds, taskVars
  <2> QED
    BY <1>1, <2>1, DeliveredStays, TypedParts
<1>4. ASSUME NEW w \in Tasks, TaskCrash(w) \/ EffectThrows(w) \/ WriteFails(w) PROVE FALSE
  BY <1>1, <1>4 DEF TaskCrash, EffectThrows, WriteFails
<1> QED
  BY <1>1, <1>2, <1>3, <1>4, DeliveredWorld, DeliveredSubmit, DeliveredTask
     DEF AppNext, TaskStep

(***************************************************************************)
(* It is the database that refuses a stale write: what a decision's lease  *)
(* holder found carries that decision or a newer one for good, for any     *)
(* stalls, repeats and deletions; and without a fault a report its         *)
(* decision closed does not wait for one again.                            *)
(***************************************************************************)
THEOREM DecisionsStand == AppSpec => []AppliedDecisionStands
<1> DEFINE IInv == Typed /\ OnRecord /\ Undisturbed
<1>1. IInv => AppliedDecisionStands
  BY DEF OnRecord, AppliedWritten, Undisturbed, Delivered, AppliedDecisionStands
<1>2. AppInit => IInv
  BY AppTypedInit, RecordedInit, UndisturbedInit
<1>3. IInv /\ [AppNext]_intVars => IInv'
  BY TypedNext, RecordedNext, UndisturbedNext
<1> QED
  BY <1>1, <1>2, <1>3, PTL DEF AppSpec
-----------------------------------------------------------------------------
(***************************************************************************)
(* A reversal puts the object back, as long as what arrived lets it: every *)
(* decision either takes something from the object or gives something      *)
(* back, and no flag follows a restriction that nothing has lifted, which  *)
(* a restoring would find instead (previousStateFor).                      *)
(***************************************************************************)
Removing == {"restrict", "flag"}
Undoing(a) == IF a = "restrict" THEN "restore" ELSE "unflag"

Reversible == ~Masked /\ ~Contradictory

\* A revision arrives once all rows of the revisions before it were applied.
Sequenced ==
  \A e, f \in ApplyRows :
    boxStatus[e] # "absent" /\ f[2] < e[2] => boxStatus[f] = "processed"

LEMMA SequencedInit == AppInit => Sequenced
  BY RowsAre DEF AppInit, Sequenced

\* The rows of decisions: they arrive, and an applied one stays applied.
RowsAdvance ==
  \A e \in ApplyRows :
    /\ boxStatus[e] # "absent" => boxStatus'[e] # "absent"
    /\ boxStatus[e] = "processed" => boxStatus'[e] = "processed"
    /\ boxStatus[e] = "absent" /\ boxStatus'[e] # "absent" => DecisionArrives(e)

LEMMA RowsAdvanceNext ==
  ASSUME Typed, [AppNext]_intVars
  PROVE  RowsAdvance
<1>1. BoxTyped /\ \A e \in ApplyRows :
        e \in Rows /\ e \notin SubmitRows /\ \A r \in Reports : e # SubmitRow(r)
  BY RowsAre, TypedParts
<1>2. ASSUME UNCHANGED boxStatus PROVE RowsAdvance
  BY <1>2 DEF RowsAdvance
<1>3. ASSUME NEW r \in Reports, CreateReport(r) \/ DeleteReport(r) \/ SweepOne(r)
      PROVE  RowsAdvance
  <2>1. \A e \in ApplyRows : boxStatus'[e] = boxStatus[e]
    BY <1>1, <1>3 DEF CreateReport, DeleteReport, SweepOne, Enqueue, boxVars, BoxTyped
  <2> QED
    BY <2>1 DEF RowsAdvance
<1>4. ASSUME NEW f \in Rows, DecisionArrives(f) PROVE RowsAdvance
  <2>1. /\ boxStatus[f] = "absent"
        /\ \A e \in Rows : boxStatus'[e] = IF e = f THEN "pending" ELSE boxStatus[e]
    BY <1>1, <1>4 DEF DecisionArrives, Enqueue, BoxTyped
  <2> QED
    BY <1>1, <1>4, <2>1 DEF RowsAdvance
<1>5. ASSUME NEW f \in Rows, Expire(f) PROVE RowsAdvance
  <2>1. \A e \in ApplyRows : boxStatus'[e] = boxStatus[e]
    BY <1>1, <1>5 DEF Expire, BoxTyped
  <2> QED
    BY <2>1 DEF RowsAdvance
<1>6. ASSUME NEW w \in Tasks, NEW f \in Rows, Claim(w, f) PROVE RowsAdvance
  <2>1. /\ boxStatus[f] \in {"pending", "processing"}
        /\ \A e \in Rows : boxStatus'[e] = IF e = f THEN "processing" ELSE boxStatus[e]
    BY <1>1, <1>6 DEF Claim, Due, BoxTyped
  <2> QED
    BY <1>1, <2>1 DEF RowsAdvance
<1>7. ASSUME NEW w \in Tasks, Complete(w) \/ Fail(w) PROVE RowsAdvance
  <2>1. PICK s \in {"pending", "processed", "dead_letter"} : Settle(w, s)
    BY <1>7 DEF Complete, Fail
  <2>2. \A e \in Rows : \/ boxStatus'[e] = boxStatus[e]
                        \/ boxStatus[e] = "processing" /\ boxStatus'[e] = s
    BY <1>1, <2>1 DEF Settle, HeldLease, BoxTyped
  <2> QED
    BY <1>1, <2>2 DEF RowsAdvance
<1>8. ASSUME NEW w \in Tasks,
             \/ Describe(w) \/ Send(w) \/ MarkSubmitted(w) \/ MarkDeliveryFailed(w)
             \/ FindReports(w) \/ ClaimAction(w) \/ MarkSkipped(w) \/ LatestApplied(w)
             \/ Act(w) \/ MarkApplied(w) \/ ReleaseClaim(w) \/ ApplyDecision(w)
             \/ TaskCrash(w) \/ EffectThrows(w) \/ WriteFails(w)
      PROVE  RowsAdvance
  BY <1>2, <1>8 DEF Describe, Send, MarkSubmitted, MarkDeliveryFailed, FindReports,
     ClaimAction, MarkSkipped, LatestApplied, Act, MarkApplied, ReleaseClaim, ApplyDecision,
     TaskCrash, EffectThrows, WriteFails, boxVars
<1>9. ASSUME \/ \E e \in Rows : LeaseEnds(e)
             \/ DeleteContent \/ SweepStarts \/ UNCHANGED intVars
      PROVE  RowsAdvance
  BY <1>2, <1>9 DEF LeaseEnds, DeleteContent, SweepStarts, intVars, boxVars
<1> QED
  BY <1>3, <1>4, <1>5, <1>6, <1>7, <1>8, <1>9 DEF AppNext, TaskStep

\* An event that came early stays on record.
LEMMA EarlyStays ==
  ASSUME [AppNext]_intVars
  PROVE  early \subseteq early'
<1>1. ASSUME NEW w \in Tasks, TaskStep(w) \/ TaskCrash(w) \/ EffectThrows(w) \/ WriteFails(w)
      PROVE  early' = early
  BY <1>1 DEF TaskStep, Claim, Complete, Fail, Describe, Send, MarkSubmitted,
     MarkDeliveryFailed, FindReports, ClaimAction, MarkSkipped, LatestApplied, Act,
     MarkApplied, ReleaseClaim, ApplyDecision, TaskCrash, EffectThrows, WriteFails, worldVars
<1>2. ASSUME NEW r \in Reports, CreateReport(r) \/ DeleteReport(r) \/ SweepOne(r)
      PROVE  early' = early
  BY <1>2 DEF CreateReport, DeleteReport, SweepOne, worldVars
<1>3. ASSUME NEW e \in Rows, DecisionArrives(e) \/ Expire(e) \/ LeaseEnds(e)
      PROVE  early \subseteq early'
  BY <1>3 DEF DecisionArrives, Expire, LeaseEnds, worldVars
<1>4. ASSUME DeleteContent \/ SweepStarts \/ UNCHANGED intVars
      PROVE  early' = early
  BY <1>4 DEF DeleteContent, SweepStarts, intVars, worldVars
<1> QED
  BY <1>1, <1>2, <1>3, <1>4 DEF AppNext

LEMMA SequencedNext ==
  ASSUME Typed, Sequenced, [AppNext]_intVars, early' = {}
  PROVE  Sequenced'
<1> SUFFICES ASSUME NEW e \in ApplyRows, NEW f \in ApplyRows,
                    boxStatus'[e] # "absent", f[2] < e[2]
             PROVE  boxStatus'[f] = "processed"
  BY DEF Sequenced
<1>1. RowsAdvance
  BY RowsAdvanceNext
<1>2. DecisionArrives(e) => InTurn(e)
  BY DEF DecisionArrives
<1>3. boxStatus[f] = "processed"
  BY <1>1, <1>2 DEF RowsAdvance, InTurn, Sequenced
<1> QED
  BY <1>1, <1>3 DEF RowsAdvance

\* What has arrived stays, and so what it does to a reversal.
LEMMA ReversibleWas ==
  ASSUME Typed, [AppNext]_intVars, Reversible'
  PROVE  Reversible
<1>1. \A e \in ApplyRows : boxStatus[e] # "absent" => boxStatus'[e] # "absent"
  BY RowsAdvanceNext DEF RowsAdvance
<1>2. Masked => Masked'
  BY <1>1 DEF Masked
<1>3. Contradictory => Contradictory'
  BY <1>1 DEF Contradictory
<1> QED
  BY <1>2, <1>3 DEF Reversible

\* A decision that arrived gives back or takes away.
LEMMA Consistent ==
  ASSUME Reversible, NEW e \in ApplyRows, boxStatus[e] # "absent",
         NEW a \in Planned(e[2]), NEW b \in Planned(e[2]), b \in {"restore", "unflag"}
  PROVE  a \notin Removing
  BY DEF Reversible, Contradictory, Removing

\* How far the ledger got.  Rows come in the order of their revisions, each of a
\* revision that arrived, and each while it is claimed in somebody's hands.
Entered(n, a) == \E i \in DOMAIN ledger : Key(ledger[i]) = <<n, a>>

RowsInOrder ==
  /\ \A i \in DOMAIN ledger :
       /\ \E e \in ApplyRows : e[2] = ledger[i].revision /\ boxStatus[e] # "absent"
       /\ ledger[i].action \in Planned(ledger[i].revision)
       /\ ledger[i].state = "claimed" =>
            \E w \in Tasks : at[w] \in CarriesOut /\ KeyOf(w) = Key(ledger[i])
  /\ \A i, j \in DOMAIN ledger : i < j => ledger[i].revision <= ledger[j].revision

\* Behind a task every action of its plan has a row; behind an applied one, all.
Behind(w) ==
  {i \in DOMAIN Plan[Revision(w)] :
     \/ at[w] \in CarriesOut \cup {"claiming"} /\ i < step[w]
     \/ at[w] \in {"writing", "done"}}

Covered ==
  /\ \A w \in Tasks : row[w] \in ApplyRows =>
       \A i \in Behind(w) : Entered(Revision(w), Plan[Revision(w)][i])
  /\ \A e \in ApplyRows : boxStatus[e] = "processed" =>
       \A a \in Planned(e[2]) : Entered(e[2], a)

Allowed ==
  \A w \in Tasks :
    /\ at[w] # "releasing"
    /\ at[w] \in Acting => modeAllows(Action(w))
    /\ at[w] = "skipping" => ~modeAllows(Action(w))

Uninterrupted == Leased /\ RowsInOrder /\ Covered /\ Allowed

\* A task that a step leaves where it is.
Steady(v) ==
  /\ at'[v] = at[v] /\ row'[v] = row[v] /\ step'[v] = step[v]
  /\ undo'[v] = undo[v] /\ was'[v] = was[v]

\* A step that neither claims nor carries out an action.
Aside ==
  /\ UNCHANGED <<ledger, object>>
  /\ \A v \in Tasks : at[v] \in CarriesOut \/ at'[v] \in CarriesOut => Steady(v)

Wins(w) == ClaimAction(w) /\ Claims(w)
Enforces(w) == Wins(w) \/ LatestApplied(w) \/ Act(w) \/ MarkApplied(w) \/ MarkSkipped(w)

LEMMA StepsAre ==
  ASSUME Typed, Allowed, [AppNext]_intVars, tainted' = 0
  PROVE  Aside \/ \E w \in Tasks : Enforces(w)
<1>1. ~Fault
  BY NoFault
<1>2. TasksTyped
  BY TypedParts
<1>3. ASSUME UNCHANGED taskVars, UNCHANGED <<ledger, object>> PROVE Aside
  BY <1>3 DEF taskVars, Aside, Steady
<1>4. ASSUME NEW r \in Reports, CreateReport(r) \/ DeleteReport(r) \/ SweepOne(r)
      PROVE  Aside
  BY <1>3, <1>4 DEF CreateReport, DeleteReport, SweepOne
<1>5. ASSUME NEW e \in Rows, DecisionArrives(e) \/ Expire(e) \/ LeaseEnds(e) PROVE Aside
  BY <1>3, <1>5 DEF DecisionArrives, Expire, LeaseEnds
<1>6. ASSUME DeleteContent \/ SweepStarts \/ UNCHANGED intVars PROVE Aside
  BY <1>3, <1>6 DEF DeleteContent, SweepStarts, intVars, taskVars
<1>7. ASSUME NEW w \in Tasks,
             \/ \E e \in Rows : Claim(w, e)
             \/ Complete(w) \/ Fail(w) \/ Describe(w) \/ Send(w) \/ MarkSubmitted(w)
             \/ MarkDeliveryFailed(w) \/ FindReports(w) \/ ApplyDecision(w)
             \/ ClaimAction(w) /\ ~Claims(w)
      PROVE  Aside
  <2>1. UNCHANGED <<ledger, object>>
    BY <1>7 DEF Claim, Complete, Fail, Describe, Send, MarkSubmitted, MarkDeliveryFailed,
       FindReports, ApplyDecision, ClaimAction
  <2>2. \A v \in Tasks \ {w} : Steady(v)
    BY <1>2, <1>7 DEF Claim, Complete, Fail, Describe, Send, MarkSubmitted,
       MarkDeliveryFailed, FindReports, ApplyDecision, ClaimAction, LeaveRow, Fails,
       NextStep, Go, Steady, TasksTyped
  <2>3. at[w] \notin CarriesOut /\ at'[w] \notin CarriesOut
    BY <1>2, <1>7 DEF Claim, Complete, Fail, Describe, Send, MarkSubmitted,
       MarkDeliveryFailed, FindReports, ApplyDecision, ClaimAction, LeaveRow, Fails,
       NextStep, Go, CarriesOut, Acting, TasksTyped
  <2> QED
    BY <2>1, <2>2, <2>3 DEF Aside
<1>8. ASSUME NEW w \in Tasks,
             ReleaseClaim(w) \/ TaskCrash(w) \/ EffectThrows(w) \/ WriteFails(w)
      PROVE  FALSE
  BY <1>1, <1>8 DEF ReleaseClaim, TaskCrash, EffectThrows, WriteFails, Allowed
<1> QED
  BY <1>4, <1>5, <1>6, <1>7, <1>8 DEF AppNext, TaskStep, Enforces, Wins

\* The deployment's mode and what the author made stay; a deletion is for good.
LEMMA WorldStays ==
  ASSUME [AppNext]_intVars
  PROVE  mode' = mode /\ original' = original /\ (contentGone => contentGone')
<1>1. ASSUME NEW w \in Tasks, TaskStep(w) \/ TaskCrash(w) \/ EffectThrows(w) \/ WriteFails(w)
      PROVE  UNCHANGED <<mode, original, contentGone>>
  BY <1>1 DEF TaskStep, Claim, Complete, Fail, Describe, Send, MarkSubmitted,
     MarkDeliveryFailed, FindReports, ClaimAction, MarkSkipped, LatestApplied, Act,
     MarkApplied, ReleaseClaim, ApplyDecision, TaskCrash, EffectThrows, WriteFails, worldVars
<1>2. ASSUME NEW r \in Reports, CreateReport(r) \/ DeleteReport(r) \/ SweepOne(r)
      PROVE  UNCHANGED <<mode, original, contentGone>>
  BY <1>2 DEF CreateReport, DeleteReport, SweepOne, worldVars
<1>3. ASSUME NEW e \in Rows, DecisionArrives(e) \/ Expire(e) \/ LeaseEnds(e)
      PROVE  UNCHANGED <<mode, original, contentGone>>
  BY <1>3 DEF DecisionArrives, Expire, LeaseEnds, worldVars
<1>4. ASSUME DeleteContent \/ SweepStarts \/ UNCHANGED intVars
      PROVE  mode' = mode /\ original' = original /\ (contentGone => contentGone')
  BY <1>4 DEF DeleteContent, SweepStarts, intVars, worldVars
<1> QED
  BY <1>1, <1>2, <1>3, <1>4 DEF AppNext

\* Winning a claim: one row more, and a task that goes on as the mode allows.
LEMMA WinsIs ==
  ASSUME Typed, ClaimsHeld, NEW w \in Tasks, Wins(w)
  PROVE  /\ at[w] = "claiming" /\ row'[w] = row[w] /\ step'[w] = step[w]
         /\ at'[w] = IF modeAllows(Action(w)) THEN "looking" ELSE "skipping"
         /\ \A v \in Tasks \ {w} : Steady(v)
         /\ UNCHANGED <<object, boxStatus>>
         /\ EntryOf(w) = {} /\ LedgerTyped'
         /\ DOMAIN ledger' = DOMAIN ledger \cup {Len(ledger) + 1}
         /\ \A i \in DOMAIN ledger : ledger'[i] = ledger[i]
         /\ Key(ledger'[Len(ledger) + 1]) = KeyOf(w)
         /\ ledger'[Len(ledger) + 1].state = "claimed"
<1>1. TasksTyped
  BY TypedParts
<1>2. /\ at[w] = "claiming" /\ EntryOf(w) = {}
      /\ ledger' = Append(ledger, [revision |-> Revision(w), action |-> Action(w),
                                   state |-> "claimed", previous |-> Unknown])
  BY DEF Wins, ClaimAction, Claims
<1>3. /\ UNCHANGED <<object, boxStatus, row, step, undo, was>>
      /\ Go(w, IF modeAllows(Action(w)) THEN "looking" ELSE "skipping")
  BY DEF Wins, ClaimAction, boxVars
<1>4. /\ at'[w] = IF modeAllows(Action(w)) THEN "looking" ELSE "skipping"
      /\ \A v \in Tasks \ {w} : at'[v] = at[v]
  BY <1>1, <1>3 DEF Go, TasksTyped
<1> QED
  BY <1>2, <1>3, <1>4, AppendKeeps DEF Steady

\* A task that settles its row writes that one row and goes to the next action.
Settles(w, s, p) ==
  /\ ledger' = Rewrite(w, s, p) /\ NextStep(w) /\ UNCHANGED <<object, boxStatus, row>>
  /\ \A v \in Tasks \ {w} : Steady(v)

LEMMA SettlesIs ==
  ASSUME Typed, NEW w \in Tasks
  PROVE  /\ MarkSkipped(w) =>
              at[w] \in {"skipping", "unchanged"} /\ Settles(w, "skipped", Unknown)
         /\ MarkApplied(w) => at[w] = "recording" /\ Settles(w, "applied", was[w])
<1>1. TasksTyped
  BY TypedParts
<1> QED
  BY <1>1 DEF MarkSkipped, MarkApplied, Settles, Steady, NextStep, Go, TasksTyped, boxVars

\* The effect and the lookup before it leave the ledger alone.
LEMMA ActsIs ==
  ASSUME Typed, NEW w \in Tasks, LatestApplied(w) \/ Act(w)
  PROVE  /\ row'[w] = row[w] /\ step'[w] = step[w] /\ UNCHANGED <<ledger, boxStatus>>
         /\ \A v \in Tasks \ {w} : Steady(v)
         /\ LatestApplied(w) => at[w] = "looking" /\ at'[w] = "acting" /\ UNCHANGED object
         /\ Act(w) => at[w] = "acting" /\ at'[w] \in {"recording", "unchanged"}
                      /\ undo'[w] = undo[w]
<1>1. TasksTyped
  BY TypedParts
<1> QED
  BY <1>1 DEF LatestApplied, Act, Steady, Go, TasksTyped, boxVars

LEMMA SameKey ==
  ASSUME NEW v \in Tasks, Steady(v)
  PROVE  KeyOf(v)' = KeyOf(v) /\ Action(v)' = Action(v) /\ Revision(v)' = Revision(v)
  BY DEF Steady, KeyOf, Revision, Action

LEMMA StillKey ==
  ASSUME NEW w \in Tasks, row'[w] = row[w], step'[w] = step[w]
  PROVE  KeyOf(w)' = KeyOf(w) /\ Action(w)' = Action(w) /\ Revision(w)' = Revision(w)
  BY DEF KeyOf, Revision, Action

\* What a task does is planned.
LEMMA IsPlanned ==
  ASSUME Typed, NEW w \in Tasks, at[w] \in Enforcing
  PROVE  /\ row[w] \in ApplyRows /\ Revision(w) \in Revisions
         /\ Action(w) \in Planned(Revision(w)) /\ Action(w) \in Actions
<1>1. row[w] \in ApplyRows /\ step[w] \in DOMAIN Plan[Revision(w)]
  BY DEF Typed, RowsFit, Enforcing, Applying
<1> QED
  BY <1>1, ActionFits, RowsAre DEF Revision, Action, Planned

LEMMA AllowedNext ==
  ASSUME Typed, ClaimsHeld, Allowed, [AppNext]_intVars, tainted' = 0
  PROVE  Allowed'
<1>1. mode' = mode
  BY WorldStays
<1>2. \A a, b : a = b => modeAllows(a)' = modeAllows(b)
  BY <1>1 DEF modeAllows
<1>3. ASSUME NEW v \in Tasks, Steady(v)
      PROVE  /\ at'[v] # "releasing"
             /\ at'[v] \in Acting => modeAllows(Action(v))'
             /\ at'[v] = "skipping" => ~modeAllows(Action(v))'
  BY <1>2, <1>3, SameKey DEF Allowed, Steady, modeAllows
<1>4. CASE Aside
  <2>1. \A v \in Tasks : at[v] \in CarriesOut \/ at'[v] \in CarriesOut => Steady(v)
    BY <1>4 DEF Aside
  <2> QED
    BY <1>3, <2>1 DEF Allowed, CarriesOut
<1>5. ASSUME NEW w \in Tasks, Enforces(w) PROVE Allowed'
  <2>1. \A v \in Tasks \ {w} : Steady(v)
    BY <1>5, WinsIs, ActsIs, SettlesIs DEF Enforces, Settles
  <2>2. /\ at'[w] # "releasing"
        /\ at'[w] \in Acting => modeAllows(Action(w))'
        /\ at'[w] = "skipping" => ~modeAllows(Action(w))'
    <3>1. CASE Wins(w)
      <4>1. /\ at'[w] = IF modeAllows(Action(w)) THEN "looking" ELSE "skipping"
            /\ Action(w)' = Action(w)
        BY <3>1, WinsIs, StillKey
      <4> QED
        BY <1>1, <4>1 DEF Acting, modeAllows
    <3>2. CASE LatestApplied(w) \/ Act(w)
      <4>1. /\ at[w] \in Acting /\ at'[w] \in Acting /\ Action(w)' = Action(w)
        BY <3>2, ActsIs, StillKey DEF Acting
      <4> QED
        BY <1>1, <4>1 DEF Acting, modeAllows, Allowed
    <3>3. CASE MarkApplied(w) \/ MarkSkipped(w)
      <4>1. at'[w] \in {"claiming", "writing"}
        BY <3>3, SettlesIs, TypedParts DEF Settles, NextStep, Go, TasksTyped
      <4> QED
        BY <4>1 DEF Acting
    <3> QED
      BY <1>5, <3>1, <3>2, <3>3 DEF Enforces
  <2> QED
    BY <1>3, <2>1, <2>2 DEF Allowed
<1> QED
  BY <1>4, <1>5, StepsAre

\* Whoever is at work on a decision is at work on the newest there is.
LEMMA Newest ==
  ASSUME Typed, Leased, Sequenced, RowsInOrder, NEW w \in Tasks, at[w] # "idle",
         row[w] \in ApplyRows
  PROVE  /\ Revision(w) \in Revisions /\ boxStatus[row[w]] = "processing"
         /\ \A e \in ApplyRows : e[2] > Revision(w) => boxStatus[e] = "absent"
         /\ \A i \in DOMAIN ledger : ledger[i].revision <= Revision(w)
<1>1. Revision(w) \in Revisions /\ Revisions \subseteq Nat /\ row[w][2] = Revision(w)
  BY RowsAre DEF Revision, Revisions
<1>2. boxStatus[row[w]] = "processing"
  BY DEF Leased, HeldLease
<1>3. \A e \in ApplyRows : e[2] \in Nat
  BY RowsAre DEF Revisions
<1>4. ASSUME NEW e \in ApplyRows, e[2] > Revision(w) PROVE boxStatus[e] = "absent"
  BY <1>1, <1>2, <1>3, <1>4 DEF Sequenced
<1>5. ASSUME NEW i \in DOMAIN ledger PROVE ledger[i].revision <= Revision(w)
  <2>1. PICK e \in ApplyRows : e[2] = ledger[i].revision /\ boxStatus[e] # "absent"
    BY DEF RowsInOrder
  <2> QED
    BY <1>1, <1>3, <1>4, <2>1
<1> QED
  BY <1>1, <1>2, <1>4, <1>5

\* A settled row keeps its key, and the others are left as they are.
LEMMA SettlesKeeps ==
  ASSUME Typed, NEW w \in Tasks, NEW s \in {"skipped", "applied"}, NEW p \in Previous,
         Settles(w, s, p)
  PROVE  /\ DOMAIN ledger' = DOMAIN ledger
         /\ \A i \in DOMAIN ledger :
              /\ Key(ledger'[i]) = Key(ledger[i])
              /\ ledger'[i].revision = ledger[i].revision
              /\ ledger'[i].action = ledger[i].action
              /\ i \in EntryOf(w) => ledger'[i].state = s /\ ledger'[i].previous = p
              /\ i \notin EntryOf(w) => ledger'[i] = ledger[i]
<1>1. LedgerTyped /\ ledger' = Rewrite(w, s, p)
  BY TypedParts DEF Settles
<1>2. \A i \in DOMAIN ledger : ledger[i] \in Entry
  BY <1>1 DEF LedgerTyped
<1>3. \A e \in Entry : LET f == [e EXCEPT !.state = s, !.previous = p]
                       IN  f.state = s /\ f.previous = p
  BY DEF Entry
<1>4. ASSUME NEW i \in EntryOf(w) PROVE ledger'[i].previous = p
  <2>1. i \in DOMAIN ledger /\ ledger[i] \in Entry
    BY <1>2, <1>4 DEF EntryOf
  <2>2. ledger'[i] = IF i \in EntryOf(w)
                     THEN [ledger[i] EXCEPT !.state = s, !.previous = p] ELSE ledger[i]
    BY <1>1, <2>1, Zenon DEF Rewrite
  <2> QED
    BY <1>3, <1>4, <2>1, <2>2
<1> QED
  BY <1>1, <1>4, RewriteKeeps DEF Key

LEMMA RowsInOrderNext ==
  ASSUME Typed, ClaimsHeld, Leased, Sequenced, RowsInOrder, Allowed,
         [AppNext]_intVars, tainted' = 0
  PROVE  RowsInOrder'
<1>1. RowsAdvance /\ LedgerTyped
  BY RowsAdvanceNext, TypedParts
<1>2. CASE Aside
  <2>1. UNCHANGED ledger
    BY <1>2 DEF Aside
  <2>2. \A v \in Tasks : at[v] \in CarriesOut => at'[v] = at[v] /\ KeyOf(v)' = KeyOf(v)
    BY <1>2, SameKey DEF Aside, Steady
  <2>3. ASSUME NEW i \in DOMAIN ledger
        PROVE  /\ \E e \in ApplyRows : e[2] = ledger[i].revision /\ boxStatus'[e] # "absent"
               /\ ledger[i].state = "claimed" =>
                    \E w \in Tasks : at'[w] \in CarriesOut /\ KeyOf(w)' = Key(ledger[i])
    BY <1>1, <2>2 DEF RowsInOrder, RowsAdvance
  <2> QED
    BY <2>1, <2>3 DEF RowsInOrder
<1>3. ASSUME NEW w \in Tasks, Wins(w) PROVE RowsInOrder'
  <2> DEFINE new == Len(ledger) + 1
  <2>1. /\ DOMAIN ledger' = DOMAIN ledger \cup {new}
        /\ \A i \in DOMAIN ledger : ledger'[i] = ledger[i]
        /\ Key(ledger'[new]) = KeyOf(w) /\ UNCHANGED boxStatus
        /\ at[w] = "claiming" /\ at'[w] \in CarriesOut /\ KeyOf(w)' = KeyOf(w)
        /\ \A v \in Tasks \ {w} : Steady(v)
    BY <1>3, WinsIs, StillKey DEF CarriesOut, Acting
  <2>2. DOMAIN ledger = 1..Len(ledger) /\ Len(ledger) \in Nat
    BY <1>1 DEF LedgerTyped
  <2>3. /\ row[w] \in ApplyRows /\ Revision(w) \in Revisions
        /\ Action(w) \in Planned(Revision(w))
    BY <2>1, IsPlanned DEF Enforcing
  <2>4. /\ boxStatus[row[w]] = "processing"
        /\ \A i \in DOMAIN ledger : ledger[i].revision <= Revision(w)
    BY <2>1, <2>3, Newest
  <2>5. ledger'[new].revision = Revision(w) /\ ledger'[new].action = Action(w)
    BY <2>1 DEF Key, KeyOf
  <2>6. \A v \in Tasks : at[v] \in CarriesOut => at'[v] \in CarriesOut /\ KeyOf(v)' = KeyOf(v)
    BY <2>1, SameKey DEF Steady
  <2>7. ASSUME NEW i \in DOMAIN ledger'
        PROVE  /\ \E e \in ApplyRows : e[2] = ledger'[i].revision /\ boxStatus'[e] # "absent"
               /\ ledger'[i].action \in Planned(ledger'[i].revision)
               /\ ledger'[i].state = "claimed" =>
                    \E v \in Tasks : at'[v] \in CarriesOut /\ KeyOf(v)' = Key(ledger'[i])
    <3>1. CASE i = new
      BY <2>1, <2>3, <2>4, <2>5, <3>1 DEF Revision
    <3>2. CASE i \in DOMAIN ledger
      BY <2>1, <2>6, <3>2 DEF RowsInOrder
    <3> QED
      BY <2>1, <3>1, <3>2
  <2>8. ASSUME NEW i \in DOMAIN ledger', NEW j \in DOMAIN ledger', i < j
        PROVE  ledger'[i].revision <= ledger'[j].revision
    <3>1. i \in DOMAIN ledger
      BY <2>1, <2>2, <2>8
    <3>2. CASE j = new
      BY <2>1, <2>4, <2>5, <3>1, <3>2
    <3>3. CASE j \in DOMAIN ledger
      BY <2>1, <2>8, <3>1, <3>3 DEF RowsInOrder
    <3> QED
      BY <2>1, <3>2, <3>3
  <2> QED
    BY <2>7, <2>8 DEF RowsInOrder
<1>4. ASSUME NEW w \in Tasks, LatestApplied(w) \/ Act(w) PROVE RowsInOrder'
  <2>1. UNCHANGED <<ledger, boxStatus>>
    BY <1>4, ActsIs
  <2>2. \A v \in Tasks : at[v] \in CarriesOut => at'[v] \in CarriesOut /\ KeyOf(v)' = KeyOf(v)
    <3>1. at'[w] \in CarriesOut /\ KeyOf(w)' = KeyOf(w)
      BY <1>4, ActsIs, StillKey DEF CarriesOut, Acting
    <3>2. \A v \in Tasks \ {w} : at'[v] = at[v] /\ KeyOf(v)' = KeyOf(v)
      BY <1>4, ActsIs, SameKey DEF Steady
    <3> QED
      BY <3>1, <3>2
  <2>3. \A i \in DOMAIN ledger : ledger[i].state = "claimed" =>
          \E v \in Tasks : at'[v] \in CarriesOut /\ KeyOf(v)' = Key(ledger[i])
    BY <2>2 DEF RowsInOrder
  <2> QED
    BY <2>1, <2>3 DEF RowsInOrder
<1>5. ASSUME NEW w \in Tasks, MarkSkipped(w) \/ MarkApplied(w) PROVE RowsInOrder'
  <2>1. PICK s \in {"skipped", "applied"}, p \in Previous : Settles(w, s, p)
    BY <1>5, SettlesIs, TypedParts DEF TasksTyped, Previous
  <2>2. /\ DOMAIN ledger' = DOMAIN ledger
        /\ \A i \in DOMAIN ledger :
             /\ Key(ledger'[i]) = Key(ledger[i])
             /\ ledger'[i].revision = ledger[i].revision
             /\ ledger'[i].action = ledger[i].action
             /\ i \in EntryOf(w) => ledger'[i].state = s
             /\ i \notin EntryOf(w) => ledger'[i] = ledger[i]
    BY <2>1, SettlesKeeps
  <2>3. UNCHANGED boxStatus
    BY <2>1 DEF Settles
  <2>4. \A v \in Tasks \ {w} : at'[v] = at[v] /\ KeyOf(v)' = KeyOf(v)
    BY <2>1, SameKey DEF Settles, Steady
  <2>5. ASSUME NEW i \in DOMAIN ledger, ledger'[i].state = "claimed"
        PROVE  \E v \in Tasks : at'[v] \in CarriesOut /\ KeyOf(v)' = Key(ledger'[i])
    <3>1. i \notin EntryOf(w) /\ ledger'[i] = ledger[i]
      BY <2>2, <2>5
    <3>2. PICK v \in Tasks : at[v] \in CarriesOut /\ KeyOf(v) = Key(ledger[i])
      BY <2>5, <3>1 DEF RowsInOrder
    <3>3. v # w
      BY <3>1, <3>2 DEF EntryOf
    <3> QED
      BY <2>4, <3>1, <3>2, <3>3
  <2> QED
    BY <2>2, <2>3, <2>5 DEF RowsInOrder
<1> QED
  BY <1>2, <1>3, <1>4, <1>5, StepsAre DEF Enforces

\* Rows are never taken back: what was entered stays entered.
LEMMA EnteredStays ==
  ASSUME Typed, ClaimsHeld, Allowed, [AppNext]_intVars, tainted' = 0,
         NEW n, NEW a, Entered(n, a)
  PROVE  Entered(n, a)'
<1>1. CASE Aside
  BY <1>1 DEF Aside, Entered
<1>2. ASSUME NEW w \in Tasks, Wins(w) PROVE Entered(n, a)'
  BY <1>2, WinsIs DEF Entered
<1>3. ASSUME NEW w \in Tasks, LatestApplied(w) \/ Act(w) PROVE Entered(n, a)'
  BY <1>3, ActsIs DEF Entered
<1>4. ASSUME NEW w \in Tasks, MarkSkipped(w) \/ MarkApplied(w) PROVE Entered(n, a)'
  <2>1. PICK s \in {"skipped", "applied"}, p \in Previous : Settles(w, s, p)
    BY <1>4, SettlesIs, TypedParts DEF TasksTyped, Previous
  <2> QED
    BY <2>1, SettlesKeeps DEF Entered
<1> QED
  BY <1>1, <1>2, <1>3, <1>4, StepsAre DEF Enforces

\* How a task comes by what lies behind it.
LEMMA BehindMoves ==
  ASSUME Typed, ClaimsHeld, Allowed, Leased, [AppNext]_intVars, tainted' = 0,
         NEW w \in Tasks, row'[w] \in ApplyRows, NEW i \in Behind(w)'
  PROVE  /\ row[w] = row'[w]
         /\ \/ i \in Behind(w)
            \/ i = step[w] /\ at[w] \in Enforcing /\ EntryOf(w) # {}
<1>1. TasksTyped /\ RowsFit /\ BoxTyped
  BY TypedParts
<1>2. ASSUME row'[w] = row[w], step'[w] = step[w], at'[w] = at[w]
      PROVE  i \in Behind(w)
  BY <1>2 DEF Behind, Revision
<1>3. at'[w] \in CarriesOut \cup {"claiming", "writing", "done"}
  BY DEF Behind
<1>4. ASSUME UNCHANGED taskVars PROVE row'[w] = row[w] /\ i \in Behind(w)
  BY <1>2, <1>4 DEF taskVars
<1>5. ASSUME NEW r \in Reports, CreateReport(r) \/ DeleteReport(r) \/ SweepOne(r)
      PROVE  row'[w] = row[w] /\ i \in Behind(w)
  BY <1>4, <1>5 DEF CreateReport, DeleteReport, SweepOne
<1>6. ASSUME NEW e \in Rows, DecisionArrives(e) \/ Expire(e) \/ LeaseEnds(e)
      PROVE  row'[w] = row[w] /\ i \in Behind(w)
  BY <1>4, <1>6 DEF DecisionArrives, Expire, LeaseEnds
<1>7. ASSUME DeleteContent \/ SweepStarts \/ UNCHANGED intVars
      PROVE  row'[w] = row[w] /\ i \in Behind(w)
  BY <1>4, <1>7 DEF DeleteContent, SweepStarts, intVars, taskVars
<1>8. ASSUME NEW v \in Tasks, v # w, TaskStep(v)
      PROVE  row'[w] = row[w] /\ i \in Behind(w)
  <2>1. at'[w] = at[w] /\ row'[w] = row[w] /\ step'[w] = step[w]
    BY <1>1, <1>8 DEF TaskStep, Claim, Complete, Fail, Describe, Send, MarkSubmitted,
       MarkDeliveryFailed, FindReports, ClaimAction, MarkSkipped, LatestApplied, Act,
       MarkApplied, ReleaseClaim, ApplyDecision, LeaveRow, Fails, NextStep, Go, TasksTyped
  <2> QED
    BY <1>2, <2>1
<1>9. ASSUME NEW v \in Tasks, TaskCrash(v) \/ EffectThrows(v) \/ WriteFails(v) PROVE FALSE
  BY <1>9, NoFault DEF TaskCrash, EffectThrows, WriteFails
<1>10. ASSUME \/ \E e \in Rows : Claim(w, e)
              \/ Complete(w) \/ Fail(w) \/ Send(w) \/ MarkDeliveryFailed(w)
              \/ ReleaseClaim(w)
       PROVE  FALSE
  BY <1>1, <1>3, <1>10 DEF Claim, Complete, Fail, Send, MarkDeliveryFailed, ReleaseClaim,
     LeaveRow, Fails, Go, CarriesOut, Acting, TasksTyped, Allowed
<1>11. ASSUME Describe(w) \/ MarkSubmitted(w) PROVE FALSE
  <2>1. row[w] \in SubmitRows /\ row'[w] = row[w]
    BY <1>1, <1>11 DEF Describe, MarkSubmitted, RowsFit, Submitting
  <2> QED
    BY <2>1, RowsAre
<1>12. CASE FindReports(w)
  <2>1. at'[w] \in {"failed", "claiming"} /\ (at'[w] = "claiming" => step'[w] = 1)
    BY <1>1, <1>12 DEF FindReports, Fails, Go, TasksTyped
  <2>2. at'[w] = "claiming" /\ i < 1
    BY <1>3, <2>1 DEF Behind, CarriesOut, Acting
  <2>3. i \in DOMAIN Plan[Revision(w)'] /\ Revision(w)' \in Revisions
    BY RowsAre DEF Behind, Revision
  <2>4. Plan[Revision(w)'] \in Seq(Actions)
    BY <2>3
  <2> QED
    BY <2>2, <2>3, <2>4
<1>13. CASE ApplyDecision(w)
  <2>1. /\ at[w] = "writing" /\ row'[w] = row[w] /\ step'[w] = step[w]
    BY <1>13 DEF ApplyDecision
  <2> QED
    BY <2>1 DEF Behind, Revision, CarriesOut, Acting
<1>14. CASE Wins(w) \/ LatestApplied(w) \/ Act(w)
  <2>1. /\ at[w] \in CarriesOut \cup {"claiming"} /\ row'[w] = row[w] /\ step'[w] = step[w]
        /\ at'[w] \in CarriesOut
    BY <1>14, WinsIs, ActsIs DEF CarriesOut, Acting
  <2>2. at'[w] \notin {"writing", "done"}
    BY <2>1 DEF CarriesOut, Acting
  <2> QED
    BY <2>1, <2>2 DEF Behind, Revision
<1>15. CASE MarkSkipped(w) \/ MarkApplied(w) \/ (ClaimAction(w) /\ ~Claims(w))
  <2>1. /\ at[w] \in Enforcing /\ at[w] \in CarriesOut \cup {"claiming"}
        /\ NextStep(w) /\ row'[w] = row[w]
    BY <1>15 DEF MarkSkipped, MarkApplied, ClaimAction, Enforcing, CarriesOut, Acting
  <2>2. EntryOf(w) # {}
    <3>1. CASE ClaimAction(w) /\ ~Claims(w)
      BY <3>1 DEF Claims
    <3>2. CASE MarkSkipped(w) \/ MarkApplied(w)
      <4>1. at[w] \in CarriesOut
        BY <3>2 DEF MarkSkipped, MarkApplied, CarriesOut, Acting
      <4> QED
        BY <4>1 DEF ClaimsHeld
    <3> QED
      BY <1>15, <3>1, <3>2
  <2>3. row[w] \in ApplyRows /\ step[w] \in DOMAIN Plan[Revision(w)]
    BY <1>1, <2>1 DEF RowsFit, Enforcing, Applying
  <2>4. Revision(w) \in Revisions /\ Plan[Revision(w)] \in Seq(Actions)
    BY <2>1, IsPlanned
  <2>5. DOMAIN Plan[Revision(w)] = 1..Len(Plan[Revision(w)]) /\ Len(Plan[Revision(w)]) \in Nat
    BY <2>4
  <2>6. /\ step'[w] = step[w] + 1
        /\ at'[w] = IF step[w] + 1 \in DOMAIN Plan[Revision(w)] THEN "claiming" ELSE "writing"
    BY <1>1, <2>1 DEF NextStep, Go, TasksTyped
  <2>7. i \in DOMAIN Plan[Revision(w)]
    BY <2>1 DEF Behind, Revision
  <2>8. i < step[w] + 1
    <3>1. CASE at'[w] = "claiming"
      BY <2>6, <3>1 DEF Behind
    <3>2. CASE at'[w] = "writing"
      BY <2>3, <2>5, <2>6, <2>7, <3>2
    <3> QED
      BY <2>6, <3>1, <3>2
  <2>9. i < step[w] \/ i = step[w]
    BY <2>3, <2>5, <2>7, <2>8
  <2> QED
    BY <2>1, <2>2, <2>7, <2>9 DEF Behind
<1> QED
  BY <1>5, <1>6, <1>7, <1>8, <1>9, <1>10, <1>11, <1>12, <1>13, <1>14, <1>15
     DEF AppNext, TaskStep, Wins

\* Only a task that is done with its row sees it applied.
LEMMA DoneApplies ==
  ASSUME Typed, [AppNext]_intVars, NEW e \in ApplyRows,
         boxStatus[e] # "processed", boxStatus'[e] = "processed"
  PROVE  \E w \in Tasks : at[w] = "done" /\ row[w] = e
<1>1. /\ BoxTyped /\ e \in Rows /\ e \notin SubmitRows
      /\ \A r \in Reports : e # SubmitRow(r)
  BY RowsAre, TypedParts
<1>2. ASSUME boxStatus'[e] = boxStatus[e] PROVE FALSE
  BY <1>2
<1>3. ASSUME NEW r \in Reports, CreateReport(r) \/ DeleteReport(r) \/ SweepOne(r)
      PROVE  FALSE
  BY <1>1, <1>2, <1>3 DEF CreateReport, DeleteReport, SweepOne, Enqueue, boxVars, BoxTyped
<1>4. ASSUME NEW f \in Rows, DecisionArrives(f) \/ Expire(f) PROVE FALSE
  BY <1>1, <1>4 DEF DecisionArrives, Expire, Enqueue, BoxTyped
<1>5. ASSUME NEW w \in Tasks, NEW f \in Rows, Claim(w, f) PROVE FALSE
  BY <1>1, <1>5 DEF Claim, BoxTyped
<1>6. ASSUME NEW w \in Tasks, Fail(w) PROVE FALSE
  <2>1. PICK s \in {"pending", "dead_letter"} : Settle(w, s)
    BY <1>6 DEF Fail
  <2> QED
    BY <1>1, <2>1 DEF Settle, HeldLease, BoxTyped
<1>7. ASSUME NEW w \in Tasks, Complete(w) PROVE at[w] = "done" /\ row[w] = e
  <2>1. at[w] = "done" /\ Settle(w, "processed")
    BY <1>7 DEF Complete
  <2> QED
    BY <1>1, <2>1 DEF Settle, HeldLease, BoxTyped
<1>8. ASSUME NEW w \in Tasks,
             \/ Describe(w) \/ Send(w) \/ MarkSubmitted(w) \/ MarkDeliveryFailed(w)
             \/ FindReports(w) \/ ClaimAction(w) \/ MarkSkipped(w) \/ LatestApplied(w)
             \/ Act(w) \/ MarkApplied(w) \/ ReleaseClaim(w) \/ ApplyDecision(w)
             \/ TaskCrash(w) \/ EffectThrows(w) \/ WriteFails(w)
      PROVE  FALSE
  BY <1>2, <1>8 DEF Describe, Send, MarkSubmitted, MarkDeliveryFailed, FindReports,
     ClaimAction, MarkSkipped, LatestApplied, Act, MarkApplied, ReleaseClaim, ApplyDecision,
     TaskCrash, EffectThrows, WriteFails, boxVars
<1>9. ASSUME \/ \E f \in Rows : LeaseEnds(f)
             \/ DeleteContent \/ SweepStarts \/ UNCHANGED intVars
      PROVE  FALSE
  BY <1>2, <1>9 DEF LeaseEnds, DeleteContent, SweepStarts, intVars, boxVars
<1> QED
  BY <1>3, <1>4, <1>5, <1>6, <1>7, <1>8, <1>9 DEF AppNext, TaskStep

LEMMA CoveredNext ==
  ASSUME Typed, Typed', ClaimsHeld, Leased, Allowed, Covered, [AppNext]_intVars, tainted' = 0
  PROVE  Covered'
<1>1. \A n, a : Entered(n, a) => Entered(n, a)'
  BY EnteredStays
<1>2. ASSUME NEW w \in Tasks, row'[w] \in ApplyRows, NEW i \in Behind(w)'
      PROVE  Entered(Revision(w), Plan[Revision(w)][i])'
  <2>1. /\ row[w] = row'[w]
        /\ \/ i \in Behind(w)
           \/ i = step[w] /\ at[w] \in Enforcing /\ EntryOf(w) # {}
    BY <1>2, BehindMoves
  <2>2. Revision(w)' = Revision(w)
    BY <2>1 DEF Revision
  <2>3. CASE i \in Behind(w)
    BY <1>1, <1>2, <2>1, <2>2, <2>3 DEF Covered
  <2>4. CASE i = step[w] /\ EntryOf(w) # {}
    <3>1. Entered(Revision(w), Plan[Revision(w)][i])
      BY <2>4 DEF Entered, EntryOf, KeyOf, Action
    <3> QED
      BY <1>1, <2>2, <3>1
  <2> QED
    BY <2>1, <2>3, <2>4
<1>3. ASSUME NEW e \in ApplyRows, boxStatus'[e] = "processed", NEW a \in Planned(e[2])
      PROVE  Entered(e[2], a)'
  <2>1. CASE boxStatus[e] = "processed"
    BY <1>1, <1>3, <2>1 DEF Covered
  <2>2. CASE boxStatus[e] # "processed"
    <3>1. PICK w \in Tasks : at[w] = "done" /\ row[w] = e
      BY <1>3, <2>2, DoneApplies
    <3>2. PICK i \in DOMAIN Plan[e[2]] : a = Plan[e[2]][i]
      BY <1>3 DEF Planned
    <3>3. Revision(w) = e[2] /\ i \in Behind(w)
      BY <3>1, <3>2 DEF Revision, Behind
    <3>4. Entered(e[2], a)
      BY <1>3, <3>1, <3>2, <3>3 DEF Covered
    <3> QED
      BY <1>1, <3>4
  <2> QED
    BY <2>1, <2>2
<1> QED
  BY <1>2, <1>3 DEF Covered
-----------------------------------------------------------------------------
(***************************************************************************)
(* What explains the state of the object.  It differs from what the author *)
(* made only by a removal that landed and that no later revision undid;    *)
(* what a removal recorded, and what a restoring looks up, is what it      *)
(* takes to put it back.                                                   *)
(***************************************************************************)
Off(a) ==
  IF a = "restrict" THEN object.status # original.status ELSE object.flagged # original.flagged

\* What a removal records of what it replaced, and whether it can have done so.
Lost(a) == IF a = "restrict" THEN original.status ELSE "flag"
Possible(a) == a = "flag" => ~original.flagged

Landed(i) ==
  \/ ledger[i].state = "applied"
  \/ \E w \in Tasks : at[w] = "recording" /\ KeyOf(w) = Key(ledger[i])

\* An action whose effect has been had, whether or not it changed anything.
Over(n, a) ==
  \E i \in DOMAIN ledger :
    /\ Key(ledger[i]) = <<n, a>>
    /\ \/ ledger[i].state # "claimed"
       \/ \E w \in Tasks : at[w] \in {"recording", "unchanged"} /\ KeyOf(w) = <<n, a>>

Stands(i, a) ==
  /\ ledger[i].action = a /\ Landed(i)
  /\ \A k \in Revisions : k > ledger[i].revision => ~Over(k, Undoing(a))

Explained == \A a \in Removing : Off(a) => \E i \in DOMAIN ledger : Stands(i, a)

RecordsTell ==
  /\ \A i \in DOMAIN ledger :
       ledger[i].action \in Removing /\ ledger[i].state = "applied" =>
         ledger[i].previous = Lost(ledger[i].action) /\ Possible(ledger[i].action)
  /\ \A w \in Tasks : at[w] = "recording" /\ Action(w) \in Removing =>
       was[w] = Lost(Action(w)) /\ Possible(Action(w))

LookupsTell ==
  \A w \in Tasks : \A a \in Removing : at[w] = "acting" /\ Action(w) = Undoing(a) =>
    /\ Off(a) => undo[w] = Lost(a)
    /\ undo[w] # Unknown => Possible(a)

ObjectTells ==
  /\ object.status \in {original.status, "restricted"} /\ original.status # "restricted"
  /\ mode # "automatic" => object = original

Told == Explained /\ RecordsTell /\ LookupsTell /\ ObjectTells

LEMMA TaskKinds ==
  /\ Removing = {"restrict", "flag"} /\ Undoing("restrict") = "restore"
  /\ Undoing("flag") = "unflag"
  /\ \A a \in Removing : Undoing(a) \in {"restore", "unflag"} /\ Undoing(a) \notin Removing
  BY DEF Removing, Undoing

\* A removal that stood stands, unless a restoring is over that was not.
LEMMA StandsKept ==
  ASSUME \A i \in DOMAIN ledger :
           /\ i \in DOMAIN ledger' /\ ledger'[i].revision = ledger[i].revision
           /\ ledger'[i].action = ledger[i].action
           /\ Landed(i) => Landed(i)',
         NEW a \in Removing, \A k \in Revisions : Over(k, Undoing(a))' => Over(k, Undoing(a)),
         Off(a)' => Off(a), Explained
  PROVE  Off(a)' => \E i \in DOMAIN ledger' : Stands(i, a)'
<1> SUFFICES ASSUME Off(a)' PROVE \E i \in DOMAIN ledger' : Stands(i, a)'
  OBVIOUS
<1>1. PICK i \in DOMAIN ledger : Stands(i, a)
  BY DEF Explained
<1>2. Stands(i, a)'
  BY <1>1 DEF Stands
<1> QED
  BY <1>1, <1>2

\* Where the ledger, the object and whoever acts on it are left alone.
LEMMA ToldStays ==
  ASSUME Told, Aside, mode' = mode, original' = original
  PROVE  Told'
<1>1. UNCHANGED <<ledger, object>>
  BY DEF Aside
<1>2. \A v \in Tasks : at[v] \in Acting \/ at'[v] \in Acting =>
        Steady(v) /\ KeyOf(v)' = KeyOf(v) /\ Action(v)' = Action(v)
  BY SameKey DEF Aside, CarriesOut
<1>3. \A a : Off(a)' = Off(a) /\ Lost(a)' = Lost(a) /\ Possible(a)' = Possible(a)
  BY <1>1 DEF Off, Lost, Possible
<1>4. \A i : Landed(i)' = Landed(i)
  BY <1>1, <1>2 DEF Landed, Steady, Acting
<1>5. \A n, a : Over(n, a)' = Over(n, a)
  BY <1>1, <1>2 DEF Over, Steady, Acting
<1>6. \A i, a : Stands(i, a)' = Stands(i, a)
  BY <1>1, <1>4, <1>5 DEF Stands
<1>7. Explained'
  BY <1>1, <1>3, <1>6 DEF Explained, Told
<1>8. RecordsTell'
  BY <1>1, <1>2, <1>3 DEF RecordsTell, Told, Steady, Acting
<1>9. LookupsTell'
  BY <1>2, <1>3 DEF LookupsTell, Told, Steady, Acting
<1> QED
  BY <1>1, <1>7, <1>8, <1>9 DEF ObjectTells, Told

LEMMA ToldWins ==
  ASSUME Typed, ClaimsHeld, Told, NEW w \in Tasks, Wins(w), mode' = mode, original' = original
  PROVE  Told'
<1> DEFINE new == Len(ledger) + 1
<1>1. /\ DOMAIN ledger' = DOMAIN ledger \cup {new}
      /\ \A i \in DOMAIN ledger : ledger'[i] = ledger[i]
      /\ Key(ledger'[new]) = KeyOf(w) /\ ledger'[new].state = "claimed"
      /\ EntryOf(w) = {} /\ UNCHANGED object
      /\ at[w] = "claiming" /\ at'[w] \in {"looking", "skipping"} /\ KeyOf(w)' = KeyOf(w)
      /\ \A v \in Tasks \ {w} : Steady(v)
  BY WinsIs, StillKey
<1>2. \A v \in Tasks \ {w} :
        at'[v] = at[v] /\ KeyOf(v)' = KeyOf(v) /\ Action(v)' = Action(v)
        /\ undo'[v] = undo[v] /\ was'[v] = was[v]
  BY <1>1, SameKey DEF Steady
<1>3. \A a : Off(a)' = Off(a) /\ Lost(a)' = Lost(a) /\ Possible(a)' = Possible(a)
  BY <1>1 DEF Off, Lost, Possible
<1>4. \A i \in DOMAIN ledger : Landed(i) => Landed(i)'
  BY <1>1, <1>2 DEF Landed
<1>5. ASSUME NEW n, NEW a, Over(n, a)' PROVE Over(n, a)
  <2>1. PICK i \in DOMAIN ledger' :
          /\ Key(ledger'[i]) = <<n, a>>
          /\ \/ ledger'[i].state # "claimed"
             \/ \E v \in Tasks : at'[v] \in {"recording", "unchanged"}
                                 /\ KeyOf(v)' = <<n, a>>
    BY <1>5 DEF Over
  <2>2. i \in DOMAIN ledger
    <3> SUFFICES ASSUME i = new PROVE FALSE
      BY <1>1
    <3>1. PICK v \in Tasks : at'[v] \in {"recording", "unchanged"} /\ KeyOf(v)' = KeyOf(w)
      BY <1>1, <2>1
    <3>2. v # w /\ at[v] \in CarriesOut /\ KeyOf(v) = KeyOf(w)
      BY <1>1, <1>2, <3>1 DEF CarriesOut, Acting
    <3>3. EntryOf(v) # {}
      BY <3>2 DEF ClaimsHeld
    <3> QED
      BY <1>1, <3>2, <3>3 DEF EntryOf
  <2>3. ledger'[i] = ledger[i]
    BY <1>1, <2>2
  <2>4. ASSUME NEW v \in Tasks, at'[v] \in {"recording", "unchanged"}, KeyOf(v)' = <<n, a>>
        PROVE  at[v] \in {"recording", "unchanged"} /\ KeyOf(v) = <<n, a>>
    BY <1>1, <1>2, <2>4
  <2> QED
    BY <2>1, <2>2, <2>3, <2>4 DEF Over
<1>6. Explained'
  BY <1>1, <1>3, <1>4, <1>5, StandsKept DEF Explained, Told
<1>7. RecordsTell'
  <2>1. ASSUME NEW i \in DOMAIN ledger', ledger'[i].action \in Removing,
               ledger'[i].state = "applied"
        PROVE  ledger'[i].previous = Lost(ledger[i].action)' /\ Possible(ledger[i].action)'
    <3>1. i \in DOMAIN ledger /\ ledger'[i] = ledger[i]
      BY <1>1, <2>1
    <3>2. ledger[i].previous = Lost(ledger[i].action) /\ Possible(ledger[i].action)
      BY <2>1, <3>1 DEF Told, RecordsTell
    <3> QED
      BY <1>3, <3>1, <3>2
  <2>2. ASSUME NEW v \in Tasks, at'[v] = "recording", Action(v)' \in Removing
        PROVE  was'[v] = Lost(Action(v))' /\ Possible(Action(v))'
    <3>1. v # w
      BY <1>1, <2>2
    <3>2. at[v] = "recording" /\ Action(v) \in Removing
      BY <1>2, <2>2, <3>1
    <3>3. was[v] = Lost(Action(v)) /\ Possible(Action(v))
      BY <3>2 DEF Told, RecordsTell
    <3> QED
      BY <1>2, <1>3, <3>1, <3>3 DEF Lost, Possible
  <2> QED
    BY <2>1, <2>2 DEF RecordsTell
<1>8. LookupsTell'
  BY <1>1, <1>2, <1>3 DEF LookupsTell, Told
<1> QED
  BY <1>1, <1>6, <1>7, <1>8 DEF ObjectTells, Told

\* At a revision that restores, whatever landed is on record as applied.
LEMMA OneKind ==
  ASSUME Reversible, Typed, Leased, Sequenced, RowsInOrder,
         NEW w \in Tasks, at[w] \in Enforcing, NEW a \in Removing, Action(w) = Undoing(a),
         NEW v \in Tasks, at[v] \in Enforcing
  PROVE  Action(v) \notin Removing
<1>1. /\ row[w] \in ApplyRows /\ Revision(w) \in Revisions
      /\ Action(w) \in Planned(Revision(w))
      /\ row[v] \in ApplyRows /\ Revision(v) \in Revisions
      /\ Action(v) \in Planned(Revision(v))
  BY IsPlanned
<1>2. at[w] # "idle" /\ at[v] # "idle"
  BY DEF Enforcing, Acting
<1>3. /\ \A e \in ApplyRows : e[2] > Revision(w) => boxStatus[e] = "absent"
      /\ boxStatus[row[w]] = "processing"
      /\ \A e \in ApplyRows : e[2] > Revision(v) => boxStatus[e] = "absent"
      /\ boxStatus[row[v]] = "processing"
  BY <1>1, <1>2, Newest
<1>4. ~(Revision(v) > Revision(w)) /\ ~(Revision(w) > Revision(v))
  BY <1>1, <1>3 DEF Revision
<1>5. Revision(v) = Revision(w)
  BY <1>1, <1>4 DEF Revisions
<1>6. row[w][2] = Revision(w)
  BY DEF Revision
<1>7. Action(w) \in {"restore", "unflag"}
  BY TaskKinds
<1> QED
  BY <1>1, <1>3, <1>5, <1>6, <1>7, Consistent

\* Once a later revision arrived, what a revision planned is over.
LEMMA PastIsOver ==
  ASSUME Typed, Leased, Sequenced, RowsInOrder, Covered,
         NEW k \in Revisions, NEW a \in Planned(k),
         NEW e \in ApplyRows, e[2] > k, boxStatus[e] # "absent"
  PROVE  Over(k, a)
<1> DEFINE f == <<"decision.apply", k, 1>>
<1>1. f \in ApplyRows /\ f[2] = k
  BY DEF ApplyRows
<1>2. boxStatus[f] = "processed"
  BY <1>1 DEF Sequenced
<1> HIDE DEF f
<1>3. PICK i \in DOMAIN ledger : Key(ledger[i]) = <<k, a>>
  BY <1>1, <1>2 DEF Covered, Entered
<1>4. ledger[i].state # "claimed"
  <2> SUFFICES ASSUME ledger[i].state = "claimed" PROVE FALSE
    OBVIOUS
  <2>1. PICK w \in Tasks : at[w] \in CarriesOut /\ KeyOf(w) = <<k, a>>
    BY <1>3 DEF RowsInOrder
  <2>2. Revision(w) = k /\ at[w] \in Enforcing /\ at[w] # "idle"
    BY <2>1 DEF KeyOf, CarriesOut, Enforcing, Acting
  <2>3. row[w] \in ApplyRows
    BY <2>2, IsPlanned
  <2> QED
    BY <2>2, <2>3, Newest
<1> QED
  BY <1>3, <1>4 DEF Over

\* The lookup of a restoring finds what it takes to put the object back.
LEMMA LookupFinds ==
  ASSUME Reversible, Typed, Leased, Sequenced, RowsInOrder, Covered, Told,
         NEW w \in Tasks, LatestApplied(w), NEW a \in Removing, Action(w) = Undoing(a)
  PROVE  /\ Off(a) => undo'[w] = Lost(a)
         /\ undo'[w] # Unknown => Possible(a)
<1> DEFINE rows == Reversed(Action(w))
<1>1. /\ at[w] = "looking"
      /\ IF rows = {} THEN undo' = [undo EXCEPT ![w] = Unknown]
         ELSE \E i \in Latest(rows) : undo' = [undo EXCEPT ![w] = ledger[i].previous]
  BY DEF LatestApplied
<1>2. TasksTyped /\ LedgerTyped
  BY TypedParts
<1>3. DOMAIN ledger = 1..Len(ledger) /\ Len(ledger) \in Nat
  BY <1>2 DEF LedgerTyped
<1>4. /\ a \in reverses(Action(w)) /\ reverses(Action(w)) \subseteq Removing
      /\ a = "flag" => reverses(Action(w)) = {"flag"}
  BY TaskKinds DEF reverses
<1>5. ASSUME NEW i \in DOMAIN ledger, Stands(i, a) PROVE i \in rows
  <2>1. ledger[i].action = a /\ Landed(i)
    BY <1>5 DEF Stands
  <2>2. ASSUME NEW v \in Tasks, at[v] = "recording", KeyOf(v) = Key(ledger[i]) PROVE FALSE
    <3>1. Action(v) = a /\ at[v] \in Enforcing /\ at[w] \in Enforcing
      BY <1>1, <2>1, <2>2 DEF KeyOf, Key, Enforcing, Acting
    <3> QED
      BY <3>1, OneKind
  <2> QED
    BY <1>4, <2>1, <2>2 DEF Landed, Reversed
<1>6. CASE rows = {}
  <2>1. undo'[w] = Unknown /\ ~Off(a)
    BY <1>1, <1>2, <1>5, <1>6 DEF Told, Explained, TasksTyped
  <2> QED
    BY <2>1
<1>7. ASSUME NEW i \in Latest(rows), undo' = [undo EXCEPT ![w] = ledger[i].previous]
      PROVE  /\ Off(a) => undo'[w] = Lost(a)
             /\ undo'[w] # Unknown => Possible(a)
  <2>1. /\ i \in DOMAIN ledger /\ \A j \in rows : j <= i
        /\ ledger[i].action \in reverses(Action(w)) /\ ledger[i].state = "applied"
    BY <1>7 DEF Latest, Reversed
  <2>2. /\ undo'[w] = Lost(ledger[i].action) /\ Possible(ledger[i].action)
    BY <1>2, <1>4, <1>7, <2>1 DEF Told, RecordsTell, TasksTyped
  <2>3. CASE ledger[i].action = a
    BY <2>2, <2>3
  <2>4. CASE ledger[i].action # a
    <3>1. a = "restrict" /\ ledger[i].action = "flag"
      BY <1>4, <2>1, <2>4, TaskKinds
    <3>2. ASSUME NEW j \in DOMAIN ledger, Stands(j, a) PROVE FALSE
      <4>1. j \in rows /\ j # i /\ j <= i /\ ledger[j].action = "restrict"
        BY <1>5, <2>1, <2>4, <3>1, <3>2 DEF Stands
      <4>2. j < i
        BY <1>3, <2>1, <4>1
      <4>3. /\ ledger[j].revision <= ledger[i].revision
            /\ "restrict" \in Planned(ledger[j].revision)
            /\ "flag" \in Planned(ledger[i].revision)
        BY <2>1, <3>1, <4>1, <4>2 DEF RowsInOrder
      <4>4. PICK e \in ApplyRows : e[2] = ledger[i].revision /\ boxStatus[e] # "absent"
        BY <2>1 DEF RowsInOrder
      <4>5. ledger[j].revision \in Revisions /\ ledger[i].revision \in Revisions
        BY <2>1 DEF RowsInOrder, ApplyRows
      <4>6. PICK k \in Revisions : /\ ledger[j].revision < k /\ k < ledger[i].revision
                                   /\ "restore" \in Planned(k)
        BY <4>3, <4>4, <4>5 DEF Reversible, Masked
      <4>7. ledger[i].revision > k /\ k > ledger[j].revision
        BY <4>5, <4>6 DEF Revisions
      <4>8. Over(k, "restore")
        BY <4>4, <4>6, <4>7, PastIsOver
      <4> QED
        BY <3>1, <3>2, <4>7, <4>8, TaskKinds DEF Stands
    <3>3. ~Off(a)
      BY <3>2 DEF Told, Explained
    <3> QED
      BY <3>1, <3>3 DEF Possible
  <2> QED
    BY <2>3, <2>4
<1> QED
  BY <1>1, <1>6, <1>7

LEMMA ToldLooks ==
  ASSUME Reversible, Typed, ClaimsHeld, Leased, Sequenced, RowsInOrder, Covered, Told,
         NEW w \in Tasks, LatestApplied(w), mode' = mode, original' = original
  PROVE  Told'
<1>1. /\ UNCHANGED <<ledger, object>> /\ at[w] = "looking" /\ at'[w] = "acting"
      /\ KeyOf(w)' = KeyOf(w) /\ Action(w)' = Action(w)
      /\ \A v \in Tasks \ {w} : Steady(v)
  BY ActsIs, StillKey
<1>2. \A v \in Tasks \ {w} :
        at'[v] = at[v] /\ KeyOf(v)' = KeyOf(v) /\ Action(v)' = Action(v)
        /\ undo'[v] = undo[v] /\ was'[v] = was[v]
  BY <1>1, SameKey DEF Steady
<1>3. \A a : Off(a)' = Off(a) /\ Lost(a)' = Lost(a) /\ Possible(a)' = Possible(a)
  BY <1>1 DEF Off, Lost, Possible
<1>4. \A v \in Tasks : /\ (at'[v] \in {"recording", "unchanged"}) = (at[v] \in {"recording", "unchanged"})
                       /\ (at'[v] = "recording") = (at[v] = "recording")
                       /\ KeyOf(v)' = KeyOf(v)
  BY <1>1, <1>2
<1>5. \A i : Landed(i)' = Landed(i)
  BY <1>1, <1>4 DEF Landed
<1>6. \A n, a : Over(n, a)' = Over(n, a)
  BY <1>1, <1>4 DEF Over
<1>7. \A i, a : Stands(i, a)' = Stands(i, a)
  BY <1>1, <1>5, <1>6 DEF Stands
<1>8. Explained'
  BY <1>1, <1>3, <1>7 DEF Explained, Told
<1>9. RecordsTell'
  <2>1. \A v \in Tasks : at'[v] = "recording" =>
          at[v] = "recording" /\ Action(v)' = Action(v) /\ was'[v] = was[v]
    BY <1>1, <1>2
  <2> QED
    BY <1>1, <1>3, <2>1 DEF RecordsTell, Told
<1>10. ASSUME NEW v \in Tasks, NEW a \in Removing, at'[v] = "acting",
              Action(v)' = Undoing(a)
       PROVE  /\ Off(a)' => undo'[v] = Lost(a)'
              /\ undo'[v] # Unknown => Possible(a)'
  <2>1. CASE v = w
    BY <1>1, <1>3, <1>10, <2>1, LookupFinds
  <2>2. CASE v # w
    BY <1>2, <1>3, <1>10, <2>2 DEF Told, LookupsTell
  <2> QED
    BY <2>1, <2>2
<1>11. LookupsTell'
  BY <1>10 DEF LookupsTell, Undoing
<1> QED
  BY <1>1, <1>8, <1>9, <1>11 DEF ObjectTells, Told

LEMMA ToldSettles ==
  ASSUME Typed, ClaimsHeld, Allowed, Told, NEW w \in Tasks, MarkSkipped(w) \/ MarkApplied(w),
         mode' = mode, original' = original
  PROVE  Told'
<1> DEFINE s == IF MarkApplied(w) THEN "applied" ELSE "skipped"
           p == IF MarkApplied(w) THEN was[w] ELSE Unknown
<1>1. /\ at[w] \in {"skipping", "unchanged", "recording"} /\ at[w] \in CarriesOut
      /\ Settles(w, s, p) /\ s \in {"skipped", "applied"} /\ p \in Previous
      /\ s = "applied" => at[w] = "recording" /\ p = was[w]
      /\ s = "skipped" => at[w] # "recording"
  BY SettlesIs, TypedParts DEF TasksTyped, Previous, CarriesOut, Acting
<1> HIDE DEF s, p
<1>2. /\ DOMAIN ledger' = DOMAIN ledger
      /\ \A i \in DOMAIN ledger :
           /\ Key(ledger'[i]) = Key(ledger[i])
           /\ ledger'[i].revision = ledger[i].revision
           /\ ledger'[i].action = ledger[i].action
           /\ i \in EntryOf(w) => ledger'[i].state = s /\ ledger'[i].previous = p
           /\ i \notin EntryOf(w) => ledger'[i] = ledger[i]
  BY <1>1, SettlesKeeps
<1>3. at'[w] \in {"claiming", "writing"} /\ UNCHANGED object
  BY <1>1, TypedParts DEF Settles, NextStep, Go, TasksTyped
<1>4. \A v \in Tasks \ {w} :
        at'[v] = at[v] /\ KeyOf(v)' = KeyOf(v) /\ Action(v)' = Action(v)
        /\ undo'[v] = undo[v] /\ was'[v] = was[v]
  BY <1>1, SameKey DEF Settles, Steady
<1>5. \A a : Off(a)' = Off(a) /\ Lost(a)' = Lost(a) /\ Possible(a)' = Possible(a)
  BY <1>3 DEF Off, Lost, Possible
<1>6. \A i \in EntryOf(w) :
        /\ ledger[i].state = "claimed" /\ ledger[i].action = Action(w)
        /\ \A v \in Tasks \ {w} : at[v] \in CarriesOut => KeyOf(v) # Key(ledger[i])
  <2>1. \A i, j \in EntryOf(w) : i = j
    BY TypedParts DEF LedgerTyped, KeysUnique, EntryOf
  <2> QED
    BY <1>1, <2>1 DEF ClaimsHeld, EntryOf, Key, KeyOf
<1>7. ASSUME NEW i \in DOMAIN ledger, Landed(i) PROVE Landed(i)'
  <2>1. CASE i \in EntryOf(w)
    <3>1. PICK v \in Tasks : at[v] = "recording" /\ KeyOf(v) = Key(ledger[i])
      BY <1>6, <1>7, <2>1 DEF Landed
    <3>2. v = w
      BY <1>6, <2>1, <3>1 DEF CarriesOut, Acting
    <3>3. ledger'[i].state = "applied"
      BY <1>1, <1>2, <2>1, <3>1, <3>2
    <3> QED
      BY <3>3 DEF Landed
  <2>2. CASE i \notin EntryOf(w)
    <3>1. ledger'[i] = ledger[i] /\ KeyOf(w) # Key(ledger[i])
      BY <1>2, <2>2 DEF EntryOf
    <3> QED
      BY <1>4, <1>7, <3>1 DEF Landed
  <2> QED
    BY <2>1, <2>2
<1>8. ASSUME at[w] # "skipping", NEW n, NEW a, Over(n, a)' PROVE Over(n, a)
  <2>1. PICK i \in DOMAIN ledger :
          /\ Key(ledger'[i]) = <<n, a>>
          /\ \/ ledger'[i].state # "claimed"
             \/ \E v \in Tasks : at'[v] \in {"recording", "unchanged"}
                                 /\ KeyOf(v)' = <<n, a>>
    BY <1>2, <1>8 DEF Over
  <2>2. Key(ledger[i]) = <<n, a>>
    BY <1>2, <2>1
  <2>3. CASE i \in EntryOf(w)
    <3>1. KeyOf(w) = <<n, a>> /\ at[w] \in {"recording", "unchanged"}
      BY <1>1, <1>8, <2>2, <2>3 DEF EntryOf
    <3> QED
      BY <2>2, <3>1 DEF Over
  <2>4. CASE i \notin EntryOf(w)
    <3>1. ledger'[i] = ledger[i]
      BY <1>2, <2>4
    <3>2. ASSUME NEW v \in Tasks, at'[v] \in {"recording", "unchanged"}, KeyOf(v)' = <<n, a>>
          PROVE  at[v] \in {"recording", "unchanged"} /\ KeyOf(v) = <<n, a>>
      BY <1>3, <1>4, <3>2
    <3> QED
      BY <2>1, <2>2, <3>1, <3>2 DEF Over
  <2> QED
    BY <2>3, <2>4
<1>9. Explained'
  <2>1. CASE at[w] = "skipping"
    <3>1. object = original
      BY <2>1 DEF Allowed, modeAllows, Told, ObjectTells
    <3>2. \A a \in Removing : ~Off(a)
      BY <3>1 DEF Off
    <3> QED
      BY <1>5, <3>2 DEF Explained
  <2>2. CASE at[w] # "skipping"
    BY <1>2, <1>5, <1>7, <1>8, <2>2, StandsKept DEF Explained, Told
  <2> QED
    BY <2>1, <2>2
<1>10. RecordsTell'
  <2>1. ASSUME NEW i \in DOMAIN ledger', ledger'[i].action \in Removing,
               ledger'[i].state = "applied"
        PROVE  ledger'[i].previous = Lost(ledger[i].action)' /\ Possible(ledger[i].action)'
    <3>1. i \in DOMAIN ledger /\ ledger'[i].action = ledger[i].action
      BY <1>2, <2>1
    <3>2. ledger'[i].previous = Lost(ledger[i].action) /\ Possible(ledger[i].action)
      <4>1. CASE i \in EntryOf(w)
        <5>1. s = "applied" /\ ledger'[i].previous = p /\ ledger[i].action = Action(w)
          BY <1>2, <1>6, <2>1, <3>1, <4>1
        <5> QED
          BY <1>1, <2>1, <3>1, <5>1 DEF Told, RecordsTell
      <4>2. CASE i \notin EntryOf(w)
        <5>1. ledger'[i] = ledger[i]
          BY <1>2, <3>1, <4>2
        <5> QED
          BY <2>1, <3>1, <5>1 DEF Told, RecordsTell
      <4> QED
        BY <4>1, <4>2
    <3> QED
      BY <1>5, <3>1, <3>2
  <2>2. ASSUME NEW v \in Tasks, at'[v] = "recording", Action(v)' \in Removing
        PROVE  was'[v] = Lost(Action(v))' /\ Possible(Action(v))'
    <3>1. v # w
      BY <1>3, <2>2
    <3>2. at[v] = "recording" /\ Action(v) \in Removing
      BY <1>4, <2>2, <3>1
    <3>3. was[v] = Lost(Action(v)) /\ Possible(Action(v))
      BY <3>2 DEF Told, RecordsTell
    <3> QED
      BY <1>4, <1>5, <3>1, <3>3 DEF Lost, Possible
  <2> QED
    BY <2>1, <2>2 DEF RecordsTell
<1>11. LookupsTell'
  BY <1>3, <1>4, <1>5 DEF LookupsTell, Told
<1> QED
  BY <1>3, <1>9, <1>10, <1>11 DEF ObjectTells, Told

\* What the effect makes of the object.
LEMMA EffectIs ==
  ASSUME Typed, ClaimsHeld, Allowed, Told, ~contentGone, NEW w \in Tasks, Act(w),
         mode' = mode, original' = original
  PROVE  /\ \A a \in Removing : Off(a)' /\ ~Off(a) =>
              Action(w) = a /\ at'[w] = "recording"
         /\ \A a \in Removing : Action(w) = Undoing(a) => ~Off(a)'
         /\ Action(w) \in Removing /\ at'[w] = "recording" =>
              was'[w] = Lost(Action(w)) /\ Possible(Action(w))
         /\ ObjectTells'
<1>1. /\ object \in Objects /\ original \in Objects /\ TasksTyped
  BY TypedParts DEF WorldTyped
<1>2. /\ object.status \in {original.status, "restricted"} /\ original.status # "restricted"
      /\ object.flagged \in BOOLEAN /\ original.flagged \in BOOLEAN
      /\ original.status \in ObjectStatuses /\ object.status \in ObjectStatuses
      /\ mode # "automatic" => object = original
  BY <1>1 DEF Told, ObjectTells, Objects
<1>3. /\ object' = Applied(Action(w), undo[w]) /\ at[w] = "acting"
      /\ modeAllows(Action(w)) /\ Action(w) \in Actions
  <2>1. at[w] = "acting"
    BY DEF Act
  <2> QED
    BY <2>1, IsPlanned DEF Act, Allowed, Acting, Enforcing
<1>4. IF object' = object THEN at'[w] = "unchanged"
      ELSE /\ at'[w] = "recording"
           /\ was'[w] = IF object'.status # object.status THEN object.status ELSE "flag"
  BY <1>1 DEF Act, Go, TasksTyped
<1>5. Unknown \notin ObjectStatuses /\ Unknown # "flag"
  OBVIOUS
<1>6. /\ Off("restrict") <=> object.status = "restricted"
      /\ Off("flag") <=> object.flagged # original.flagged
      /\ Off("restrict")' <=> object'.status # original.status
      /\ Off("flag")' <=> object'.flagged # original.flagged
  BY <1>2 DEF Off
<1>7. CASE Action(w) = "restrict"
  <2>1. /\ object' = [object EXCEPT !.status = "restricted"] /\ mode = "automatic"
    BY <1>3, <1>7 DEF Applied, modeAllows
  <2>2. object'.status = "restricted" /\ object'.flagged = object.flagged
    BY <1>1, <2>1 DEF Objects
  <2>3. object.status = "restricted" => object' = object
    BY <1>1, <2>1 DEF Objects
  <2>4. object' # object => was'[w] = original.status
    BY <1>2, <1>4, <2>2, <2>3
  <2>5. ~Off("restrict") => at'[w] = "recording"
    BY <1>4, <1>6, <2>2
  <2>6. /\ Off("flag")' => Off("flag")
        /\ Lost("restrict") = original.status /\ Possible("restrict")
    BY <1>6, <2>2 DEF Lost, Possible
  <2>7. ObjectTells'
    BY <1>2, <2>1, <2>2 DEF ObjectTells
  <2> QED
    BY <1>4, <1>7, <2>4, <2>5, <2>6, <2>7, TaskKinds
<1>8. CASE Action(w) = "flag"
  <2>1. object' = [object EXCEPT !.flagged = TRUE] /\ mode = "automatic"
    BY <1>3, <1>8 DEF Applied, modeAllows
  <2>2. object'.flagged = TRUE /\ object'.status = object.status
    BY <1>1, <2>1 DEF Objects
  <2>3. object.flagged = TRUE => object' = object
    BY <1>1, <2>1 DEF Objects
  <2>4. object' # object => was'[w] = "flag" /\ object.flagged = FALSE
    BY <1>2, <1>4, <2>2, <2>3
  <2>5. original.flagged = TRUE /\ object.flagged = FALSE => FALSE
    <3> SUFFICES ASSUME original.flagged = TRUE, object.flagged = FALSE PROVE FALSE
      OBVIOUS
    <3>1. PICK i \in DOMAIN ledger : Stands(i, "flag")
      BY <1>6, TaskKinds DEF Told, Explained
    <3>2. ledger[i].action = "flag" /\ Landed(i)
      BY <3>1 DEF Stands
    <3>3. ASSUME NEW v \in Tasks, at[v] = "recording", KeyOf(v) = Key(ledger[i])
          PROVE  Possible("flag")
      <4>1. Action(v) = "flag"
        BY <3>2, <3>3 DEF KeyOf, Key
      <4> QED
        BY <3>3, <4>1, TaskKinds DEF Told, RecordsTell
    <3>4. Possible("flag")
      BY <3>2, <3>3, TaskKinds DEF Landed, Told, RecordsTell
    <3> QED
      BY <3>4 DEF Possible
  <2>6. object' # object => Possible("flag")
    BY <1>2, <2>4, <2>5 DEF Possible
  <2>7. /\ Off("restrict")' => Off("restrict")
        /\ Off("flag")' /\ ~Off("flag") => object' # object
        /\ Lost("flag") = "flag"
    BY <1>2, <1>6, <2>2 DEF Lost
  <2>8. ObjectTells'
    BY <1>2, <2>1, <2>2 DEF ObjectTells
  <2> QED
    BY <1>4, <1>8, <2>4, <2>6, <2>7, <2>8, TaskKinds
<1>9. CASE Action(w) = "restore"
  <2>1. Off("restrict") => undo[w] = original.status
    BY <1>3, <1>9, TaskKinds DEF Told, LookupsTell, Lost
  <2>2. CASE Off("restrict")
    <3>1. object' = [object EXCEPT !.status = original.status]
      BY <1>2, <1>3, <1>6, <1>9, <2>1, <2>2 DEF Applied
    <3>2. object'.status = original.status /\ object'.flagged = object.flagged
      BY <1>1, <3>1 DEF Objects
    <3>3. mode = "automatic"
      BY <1>2, <1>6, <2>2
    <3>4. ObjectTells'
      BY <1>2, <3>2, <3>3 DEF ObjectTells
    <3> QED
      BY <1>6, <1>9, <3>2, <3>4, TaskKinds
  <2>3. CASE ~Off("restrict")
    <3>1. object' = object
      BY <1>3, <1>6, <1>9, <2>3 DEF Applied
    <3>2. ObjectTells'
      BY <1>2, <3>1 DEF ObjectTells
    <3> QED
      BY <1>2, <1>6, <1>9, <2>3, <3>1, <3>2, TaskKinds
  <2> QED
    BY <2>2, <2>3
<1>10. CASE Action(w) = "unflag"
  <2>1. /\ Off("flag") => undo[w] = "flag"
        /\ undo[w] # Unknown => original.flagged = FALSE
    BY <1>2, <1>3, <1>10, TaskKinds DEF Told, LookupsTell, Lost, Possible
  <2>2. CASE undo[w] # Unknown
    <3>1. object' = [object EXCEPT !.flagged = FALSE]
      BY <1>3, <1>10, <2>2 DEF Applied
    <3>2. object'.flagged = FALSE /\ object'.status = object.status
      BY <1>1, <3>1 DEF Objects
    <3>3. object = original => object' = object
      BY <1>1, <2>1, <2>2, <3>1 DEF Objects
    <3>4. ObjectTells'
      BY <1>2, <3>2, <3>3 DEF ObjectTells
    <3> QED
      BY <1>6, <1>10, <2>1, <2>2, <3>2, <3>4, <1>2, TaskKinds
  <2>3. CASE undo[w] = Unknown
    <3>1. object' = object
      BY <1>3, <1>10, <2>3 DEF Applied
    <3>2. ObjectTells' /\ ~Off("flag")
      BY <1>2, <1>5, <2>1, <2>3, <3>1 DEF ObjectTells
    <3> QED
      BY <1>2, <1>6, <1>10, <3>1, <3>2, TaskKinds
  <2> QED
    BY <2>2, <2>3
<1>11. CASE Action(w) \in {"review", "none"}
  <2>1. object' = object
    BY <1>3, <1>11 DEF Applied
  <2>2. ObjectTells'
    BY <1>2, <2>1 DEF ObjectTells
  <2> QED
    BY <1>2, <1>6, <1>11, <2>1, <2>2, TaskKinds
<1> QED
  BY <1>3, <1>7, <1>8, <1>9, <1>10, <1>11 DEF Actions

LEMMA ToldActs ==
  ASSUME Reversible, Typed, ClaimsHeld, Leased, Sequenced, RowsInOrder, Allowed, Told,
         ~contentGone, NEW w \in Tasks, Act(w), mode' = mode, original' = original
  PROVE  Told'
<1>1. /\ \A a \in Removing : Off(a)' /\ ~Off(a) => Action(w) = a /\ at'[w] = "recording"
      /\ \A a \in Removing : Action(w) = Undoing(a) => ~Off(a)'
      /\ Action(w) \in Removing /\ at'[w] = "recording" =>
           was'[w] = Lost(Action(w)) /\ Possible(Action(w))
      /\ ObjectTells'
  BY EffectIs
<1>2. /\ UNCHANGED ledger /\ at[w] = "acting" /\ at'[w] \in {"recording", "unchanged"}
      /\ KeyOf(w)' = KeyOf(w) /\ Action(w)' = Action(w)
      /\ \A v \in Tasks \ {w} : Steady(v)
  BY ActsIs, StillKey
<1>3. \A v \in Tasks \ {w} :
        at'[v] = at[v] /\ KeyOf(v)' = KeyOf(v) /\ Action(v)' = Action(v)
        /\ undo'[v] = undo[v] /\ was'[v] = was[v]
  BY <1>2, SameKey DEF Steady
<1>4. \A a : Lost(a)' = Lost(a) /\ Possible(a)' = Possible(a)
  BY DEF Lost, Possible
<1>5. \A i \in DOMAIN ledger : Landed(i) => Landed(i)'
  BY <1>2, <1>3 DEF Landed
<1>6. ASSUME NEW n, NEW a, a # Action(w), Over(n, a)' PROVE Over(n, a)
  <2>1. KeyOf(w) # <<n, a>>
    BY <1>6 DEF KeyOf
  <2> QED
    BY <1>2, <1>3, <1>6, <2>1 DEF Over
<1>7. ASSUME NEW a \in Removing, Off(a)' PROVE \E i \in DOMAIN ledger' : Stands(i, a)'
  <2>1. CASE Off(a)
    <3>1. Undoing(a) # Action(w)
      BY <1>1, <1>7
    <3> QED
      BY <1>2, <1>5, <1>6, <1>7, <2>1, <3>1, StandsKept DEF Told
  <2>2. CASE ~Off(a)
    <3>1. Action(w) = a /\ at'[w] = "recording"
      BY <1>1, <1>7, <2>2
    <3>2. PICK i \in DOMAIN ledger : Key(ledger[i]) = KeyOf(w)
      BY <1>2 DEF ClaimsHeld, CarriesOut, Acting, EntryOf
    <3>3. ledger[i].action = a /\ ledger[i].revision = Revision(w) /\ Landed(i)'
      BY <1>2, <3>1, <3>2 DEF Key, KeyOf, Landed
    <3>4. row[w] \in ApplyRows /\ Revision(w) \in Revisions
      BY <1>2, IsPlanned DEF Enforcing, Acting
    <3>5. \A j \in DOMAIN ledger : ledger[j].revision <= Revision(w)
      BY <1>2, <3>4, Newest
    <3>6. ASSUME NEW k \in Revisions, k > Revision(w), Over(k, Undoing(a))' PROVE FALSE
      <4>1. PICK j \in DOMAIN ledger : ledger[j].revision = k
        BY <1>2, <3>6 DEF Over, Key
      <4> QED
        BY <3>4, <3>5, <3>6, <4>1 DEF Revisions
    <3>7. Stands(i, a)'
      BY <1>2, <3>3, <3>6 DEF Stands
    <3> QED
      BY <1>2, <3>7
  <2> QED
    BY <2>1, <2>2
<1>8. RecordsTell'
  <2>1. ASSUME NEW v \in Tasks, at'[v] = "recording", Action(v)' \in Removing
        PROVE  was'[v] = Lost(Action(v))' /\ Possible(Action(v))'
    <3>1. was'[v] = Lost(Action(v)) /\ Possible(Action(v))
      BY <1>1, <1>2, <1>3, <2>1 DEF Told, RecordsTell
    <3>2. Action(v)' = Action(v)
      BY <1>2, <1>3
    <3> QED
      BY <3>1, <3>2 DEF Lost, Possible
  <2> QED
    BY <1>2, <1>4, <2>1 DEF RecordsTell, Told
<1>9. ASSUME NEW v \in Tasks, NEW a \in Removing, at'[v] = "acting",
             Action(v)' = Undoing(a)
      PROVE  /\ Off(a)' => undo'[v] = Lost(a)'
             /\ undo'[v] # Unknown => Possible(a)'
  <2>1. v # w /\ at[v] = "acting" /\ Action(v) = Undoing(a) /\ undo'[v] = undo[v]
    BY <1>2, <1>3, <1>9
  <2>2. Off(a)' => Off(a)
    <3>1. Action(w) # a
      BY <1>2, <1>9, <2>1, OneKind DEF Enforcing, Acting
    <3> QED
      BY <1>1, <3>1
  <2> QED
    BY <1>4, <2>1, <2>2 DEF Told, LookupsTell
<1>10. LookupsTell'
  BY <1>9 DEF LookupsTell, Undoing
<1> QED
  BY <1>1, <1>7, <1>8, <1>10 DEF Explained, Told

(***************************************************************************)
(* The whole invariant.  Unless one came early, a revision comes after the *)
(* revisions before it were applied; and while nothing was interrupted,    *)
(* what arrived lets a reversal reverse and the object is there, its state *)
(* is explained.                                                           *)
(***************************************************************************)
Reversing ==
  /\ early = {} => Sequenced
  /\ tainted = 0 /\ early = {} /\ Reversible => Uninterrupted /\ (contentGone \/ Told)

LEMMA ReversingInit == AppInit => Reversing
<1> SUFFICES ASSUME AppInit PROVE Reversing
  OBVIOUS
<1>1. Leased
  BY DEF AppInit, Leased
<1>2. RowsInOrder /\ Allowed
  BY DEF AppInit, RowsInOrder, Allowed, Acting
<1>3. Covered
  BY RowsAre DEF AppInit, Covered
<1>4. object = original /\ original.status # "restricted"
  BY DEF AppInit
<1>5. Told
  BY <1>4 DEF AppInit, Told, Explained, RecordsTell, LookupsTell, ObjectTells, Off
<1> QED
  BY <1>1, <1>2, <1>3, <1>5, SequencedInit DEF Reversing, Uninterrupted

LEMMA ReversingNext ==
  ASSUME Typed, Typed', ClaimsHeld, Reversing, [AppNext]_intVars
  PROVE  Reversing'
<1>0. early' = {} => early = {}
  BY EarlyStays
<1>a. early' = {} => Sequenced'
  BY <1>0, SequencedNext DEF Reversing
<1> SUFFICES ASSUME tainted' = 0, early' = {}, Reversible'
             PROVE  Uninterrupted' /\ (contentGone' \/ Told')
  BY <1>a DEF Reversing
<1>1. Sequenced /\ Sequenced' /\ Reversible
  BY <1>0, <1>a, ReversibleWas DEF Reversing
<1>2. /\ Leased /\ RowsInOrder /\ Covered /\ Allowed
      /\ contentGone \/ Told
  BY <1>0, <1>1, NoFault DEF Reversing, Uninterrupted
<1>3. Uninterrupted'
  BY <1>1, <1>2, LeasedNext, RowsInOrderNext, CoveredNext, AllowedNext DEF Uninterrupted
<1>4. mode' = mode /\ original' = original /\ (contentGone => contentGone')
  BY WorldStays
<1>5. ASSUME ~contentGone' PROVE Told'
  <2>1. ~contentGone /\ Told
    BY <1>2, <1>4, <1>5
  <2>2. CASE Aside
    BY <1>4, <2>1, <2>2, ToldStays
  <2>3. ASSUME NEW w \in Tasks, Enforces(w) PROVE Told'
    BY <1>1, <1>2, <1>4, <2>1, <2>3, ToldWins, ToldLooks, ToldSettles, ToldActs
       DEF Enforces
  <2> QED
    BY <1>2, <2>2, <2>3, StepsAre
<1> QED
  BY <1>3, <1>5

\* Once everything was applied and the newest revision restores, nothing is off.
LEMMA NothingIsOff ==
  ASSUME Typed, Reversing
  PROVE  ReversalRestoresUninterrupted
<1> SUFFICES ASSUME tainted = 0, early = {}, Reversible, ~contentGone, NEW n \in Revisions, Restores(n),
                    \A e \in ApplyRows : boxStatus[e] \in {"absent", "processed"},
                    \E e \in ApplyRows : e[2] = n /\ boxStatus[e] = "processed",
                    \A e \in ApplyRows : e[2] > n => boxStatus[e] = "absent"
             PROVE  object = original
  BY DEF ReversalRestoresUninterrupted, ReversalRestores, Reversible
<1>1. Leased /\ RowsInOrder /\ Covered /\ Told
  BY DEF Reversing, Uninterrupted
<1>2. ASSUME NEW a \in Removing PROVE Over(n, Undoing(a)) /\ Undoing(a) \in Planned(n)
  <2>1. Undoing(a) \in Planned(n)
    BY TaskKinds DEF Restores
  <2>2. PICK i \in DOMAIN ledger : Key(ledger[i]) = <<n, Undoing(a)>>
    BY <1>1, <2>1 DEF Covered, Entered
  <2>3. ASSUME ledger[i].state = "claimed" PROVE FALSE
    <3>1. PICK w \in Tasks : at[w] \in CarriesOut
      BY <1>1, <2>3 DEF RowsInOrder
    <3>2. at[w] \in Enforcing /\ at[w] # "idle"
      BY <3>1 DEF CarriesOut, Enforcing, Acting
    <3>3. row[w] \in ApplyRows
      BY <3>2, IsPlanned
    <3> QED
      BY <1>1, <3>2, <3>3 DEF Leased, HeldLease
  <2> QED
    BY <2>1, <2>2, <2>3 DEF Over
<1>3. ASSUME NEW a \in Removing, Off(a) PROVE FALSE
  <2>1. PICK i \in DOMAIN ledger : Stands(i, a)
    BY <1>1, <1>3 DEF Told, Explained
  <2>2. PICK e \in ApplyRows : e[2] = ledger[i].revision /\ boxStatus[e] # "absent"
    BY <1>1 DEF RowsInOrder
  <2>3. ledger[i].revision \in Revisions /\ ~(ledger[i].revision > n)
    BY <2>2, RowsAre
  <2>4. a \in Planned(ledger[i].revision)
    BY <1>1, <2>1 DEF RowsInOrder, Stands
  <2>5. ledger[i].revision # n
    <3>1. PICK f \in ApplyRows : f[2] = n /\ boxStatus[f] = "processed"
      OBVIOUS
    <3> QED
      BY <1>2, <2>4, <3>1, TaskKinds, Consistent
  <2>6. n > ledger[i].revision
    BY <2>3, <2>5 DEF Revisions
  <2> QED
    BY <1>2, <2>1, <2>6 DEF Stands
<1>4. object.status = original.status /\ object.flagged = original.flagged
  BY <1>3, TaskKinds DEF Off
<1>5. object \in Objects /\ original \in Objects
  BY TypedParts DEF WorldTyped
<1> QED
  BY <1>4, <1>5 DEF Objects

(***************************************************************************)
(* A restore returns an object to the state it actually had: the object is *)
(* what its author made once a revision that restores was applied as the   *)
(* last -- for any number of tasks, repeated webhooks and revisions, any   *)
(* plans, whatever the mode, whatever was removed, restored and removed    *)
(* again before, and in whatever order tasks at one revision look, act and *)
(* record -- unless one of the four things happened that the property      *)
(* names, of which two are shown to break it.                              *)
(***************************************************************************)
THEOREM ReversalsRestore == AppSpec => []ReversalRestoresUninterrupted
<1> DEFINE IInv == Typed /\ ClaimsHeld /\ Reversing
<1>1. IInv => ReversalRestoresUninterrupted
  BY NothingIsOff
<1>2. AppInit => IInv
  BY AppTypedInit, ClaimsInit, ReversingInit
<1>3. IInv /\ [AppNext]_intVars => IInv'
  BY TypedNext, ClaimsNext, ReversingNext
<1> QED
  BY <1>1, <1>2, <1>3, PTL DEF AppSpec
=============================================================================
