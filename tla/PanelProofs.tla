----------------------------- MODULE PanelProofs -----------------------------
(***************************************************************************)
(* What a case's jury guarantees for every number of reviewers, rounds,    *)
(* revisions and handlers.                                                 *)
(***************************************************************************)
EXTENDS Panel, FiniteSetTheorems, FunctionTheorems, WellFoundedInduction, TLAPS

-----------------------------------------------------------------------------
\* A finite set of integers has a greatest element: the one whose set of
\* greater elements is smallest.
LEMMA MaxIsGreatest ==
  ASSUME NEW S, IsFiniteSet(S), S \subseteq Int, S # {}
  PROVE  Max(S) \in S /\ \A y \in S : Max(S) >= y
<1> DEFINE Above(x) == {y \in S : y > x}
           T == {Above(x) : x \in S}
<1>1. T \subseteq FiniteSubsetsOf(S) /\ T # {}
  <2>1. ASSUME NEW x \in S PROVE Above(x) \in SUBSET S /\ IsFiniteSet(Above(x))
    BY FS_Subset
  <2> QED  BY <2>1 DEF FiniteSubsetsOf
<1>2. PICK least \in T : \A t \in T : <<t, least>> \notin StrictSubsetOrdering(S)
  BY <1>1, FS_StrictSubsetOrderingWellFounded, WFMin
<1>3. PICK x \in S : least = Above(x)
  OBVIOUS
<1>4. ASSUME NEW y \in S, y > x PROVE FALSE
  <2>1. x \in Int /\ y \in Int
    OBVIOUS
  <2>2. /\ \A z \in Int : z > y => z > x
        /\ ~(y > y)
    BY <1>4, <2>1
  <2>3. Above(y) \subseteq Above(x) /\ y \in Above(x) /\ y \notin Above(y)
    BY <1>4, <2>2
  <2>4. <<Above(y), Above(x)>> \in StrictSubsetOrdering(S)
    BY <2>3 DEF StrictSubsetOrdering
  <2> QED  BY <1>2, <1>3, <2>4
<1>5. \A y \in S : x >= y
  BY <1>4
<1> QED  BY <1>5 DEF Max

\* The smaller and the greater of two integers.
LEMMA OfTwo ==
  ASSUME NEW a \in Int, NEW b \in Int
  PROVE  Min({a, b}) \in {a, b} /\ Max({a, b}) \in {a, b}
<1>1. CASE a <= b
  BY <1>1 DEF Min, Max
<1>2. CASE b <= a
  BY <1>2 DEF Min, Max
<1> QED  BY <1>1, <1>2

\* The round of a panel is a round its revision may have.
LEMMA RoundIsRound ==
  ASSUME NEW r \in Revisions, NEW n \in Nat
  PROVE  /\ PanelRoundFor(r, n) \in LowestRound(r)..MaxRound
         /\ PanelRoundFor(r, n) \in 1..MaxRound /\ LowestRound(r) \in 1..MaxRound
         /\ PanelRoundFor(r, n) # LowestRound(r) =>
              Len(PanelSpecFor(r, PanelRoundFor(r, n))) <= n
<1> DEFINE filled == {m \in LowestRound(r)..MaxRound : Len(PanelSpecFor(r, m)) <= n}
           rounds == filled \cup {LowestRound(r)}
<1>1. LowestRound(r) \in 1..MaxRound /\ MaxRound \in Nat
  BY LadderAssumption DEF LowestRound
<1>2. rounds \subseteq LowestRound(r)..MaxRound /\ rounds \subseteq Int
  BY <1>1
<1>3. IsFiniteSet(rounds)
  BY <1>1, <1>2, FS_Interval, FS_Subset
<1>4. Max(rounds) \in rounds
  BY <1>2, <1>3, MaxIsGreatest
<1> HIDE DEF filled
<1>5. PanelRoundFor(r, n) \in rounds
  BY <1>4 DEF PanelRoundFor, filled
<1>6. PanelRoundFor(r, n) \in LowestRound(r)..MaxRound
  BY <1>2, <1>5
<1>7. PanelRoundFor(r, n) # LowestRound(r) => Len(PanelSpecFor(r, PanelRoundFor(r, n))) <= n
  BY <1>5 DEF filled
<1> QED  BY <1>1, <1>6, <1>7

-----------------------------------------------------------------------------
(***************************************************************************)
(* Types.                                                                  *)
(***************************************************************************)

\* An expansion is given a round; the other draws read theirs off the seats.
ExpandsTo(x) == x.pc = "draw" /\ x.kind = "expansion" => x.toRound \in 1..MaxRound

TypeInv == TypeOK /\ \A w \in Workers : ExpandsTo(worker[w])

\* The fields of a handler's state, by where it is.
LEMMA WorkerFields ==
  ASSUME NEW x \in WorkerState
  PROVE  /\ x.pc # "idle" => x.event \in Events
         /\ x.pc = "idle" => x = Idle
         /\ x.pc = "ballots" =>
              x.revision \in Revisions /\ x.round \in 1..MaxRound /\ x.jury \in Nat
         /\ x.pc = "publish" =>
              x.revision \in Revisions /\ x.outcome \in Outcomes /\ x.jury \in Nat
         /\ x.pc = "draw" => x.kind \in Kinds /\ x.toRound \in 0..MaxRound
         /\ x.pc = "commit" => x.draw \in DrawRow /\ x.seats \in DrawnSeats
BY DEF WorkerState, Idle

\* The states a handler moves to.
LEMMA NextStates ==
  ASSUME NEW e \in Events
  PROVE  /\ [pc |-> "start", event |-> e] \in WorkerState
         /\ [pc |-> "link", event |-> e] \in WorkerState
         /\ [pc |-> "ack", event |-> e] \in WorkerState
         /\ \A r \in Revisions, n \in 1..MaxRound, k \in Nat :
              [pc |-> "ballots", event |-> e, revision |-> r, round |-> n, jury |-> k]
              \in WorkerState
         /\ \A r \in Revisions, o \in Outcomes, k \in Nat :
              [pc |-> "publish", event |-> e, revision |-> r, outcome |-> o, jury |-> k]
              \in WorkerState
         /\ \A k \in Kinds, n \in 0..MaxRound :
              [pc |-> "draw", event |-> e, kind |-> k, toRound |-> n] \in WorkerState
         /\ \A d \in DrawRow, q \in DrawnSeats :
              [pc |-> "commit", event |-> e, seats |-> q, draw |-> d] \in WorkerState
         /\ Idle \in WorkerState
BY DEF WorkerState

\* A step that changes one handler only.
LEMMA WorkerStepType ==
  ASSUME TypeInv, NEW w \in Workers, NEW x \in WorkerState, ExpandsTo(x),
         worker' = [worker EXCEPT ![w] = x],
         UNCHANGED <<caseVars, panelVars, refusals, crashes>>, queue' \subseteq Events
  PROVE  TypeInv'
BY DEF TypeInv, TypeOK, ExpandsTo, caseVars, panelVars

LEMMA EventTypes ==
  /\ \A e \in Events : e.type = "assignment.vacated" => e.seat \in SeatIds
  /\ \A s \in SeatIds : Vacated(s) \in Events /\ ReviewSubmitted(s) \in Events
  /\ \A r \in Revisions : Ready(r) \in Events
<1>1. ASSUME NEW e \in Events, e.type = "assignment.vacated" PROVE e.seat \in SeatIds
  <2>1. CASE e \in {Vacated(s) : s \in SeatIds}
    BY <2>1 DEF Vacated
  <2>2. e \notin {Ready(r) : r \in Revisions} /\ e \notin {ReviewSubmitted(s) : s \in SeatIds}
    BY <1>1 DEF Ready, ReviewSubmitted
  <2> QED  BY <2>1, <2>2 DEF Events
<1> QED  BY <1>1 DEF Events

LEMMA CountsAreNat ==
  ASSUME NEW r \in Revisions, NEW statuses
  PROVE  /\ IsFiniteSet(SeatsWith(r, statuses))
         /\ Cardinality(SeatsWith(r, statuses)) \in Nat
<1>1. SeatsWith(r, statuses) \in SUBSET Reviewers
  BY DEF SeatsWith
<1> QED  BY <1>1, PanelAssumption, FS_Subset, FS_CardinalityType

LEMMA TypeInit == Init => TypeInv
<1> SUFFICES ASSUME Init PROVE TypeInv
  OBVIOUS
<1>1. 1 \in Revisions /\ 0 \in 0..MaxRevision /\ 0 \in 0..MaxRefusals /\ 0 \in 0..MaxCrashes
  BY PanelAssumption DEF Revisions
<1>2. NoSeat \in SeatRow /\ NoDecision \in [outcome : Outcomes \cup {"none"}, jury : Nat]
  BY DEF NoSeat, SeatRow, NoDecision
<1>3. queue \subseteq Events
  BY <1>1, EventTypes DEF Init
<1>4. \A w \in Workers : worker[w] \in WorkerState /\ ExpandsTo(worker[w])
  BY DEF Init, WorkerState, Idle, ExpandsTo
<1> QED  BY <1>1, <1>2, <1>3, <1>4 DEF Init, TypeInv, TypeOK

\* Jurors: a vote, a vacancy.
LEMMA SeatType ==
  ASSUME TypeInv, NEW s \in SeatIds, LeaveOrVote(s)
  PROVE  TypeInv'
<1>0. TypeOK
  BY DEF TypeInv
<1>1. ASSUME NEW row \in SeatRow, seat' = [seat EXCEPT ![s] = row], queue' \subseteq Events, Environment
      PROVE  TypeInv'
  BY <1>0, <1>1 DEF TypeInv, TypeOK, ExpandsTo, Environment, caseVars
<1>2. seat[s] \in SeatRow
  BY <1>0 DEF TypeOK
<1>3. CASE Vacate(s)
  <2>1. seat' = [seat EXCEPT ![s] = [seat[s] EXCEPT !.status = "vacated"]]
    BY <1>3 DEF Vacate
  <2>2. [seat[s] EXCEPT !.status = "vacated"] \in SeatRow
    BY <1>2 DEF SeatRow
  <2>3. queue' \subseteq Events
    BY <1>0, <1>3, EventTypes DEF Vacate, TypeOK
  <2> QED  BY <1>1, <1>3, <2>1, <2>2, <2>3 DEF Vacate
<1>4. ASSUME NEW v \in Positions, SubmitReview(s, v) PROVE TypeInv'
  <2>1. seat' = [seat EXCEPT ![s] = [seat[s] EXCEPT !.status = "submitted", !.vote = v]]
    BY <1>4 DEF SubmitReview
  <2>2. [seat[s] EXCEPT !.status = "submitted", !.vote = v] \in SeatRow
    BY <1>2 DEF SeatRow
  <2>3. queue' \subseteq Events
    BY <1>0, <1>4, EventTypes DEF SubmitReview, TypeOK
  <2> QED  BY <1>1, <1>4, <2>1, <2>2, <2>3 DEF SubmitReview
<1> QED  BY <1>3, <1>4 DEF LeaveOrVote

LEMMA AppealType ==
  ASSUME TypeInv, FileAppeal
  PROVE  TypeInv'
<1>0. TypeOK
  BY DEF TypeInv
<1>1. revision \in Revisions /\ revision < MaxRevision /\ revision + 1 \in Revisions
  BY <1>0, PanelAssumption DEF FileAppeal, TypeOK, Revisions
<1>2. ASSUME NEW severe \in BOOLEAN PROVE AppealRequiredVotes(severe) \in Nat
  <2> DEFINE base == RequiredVotes[AppealMinRound]
             previous == RequiredVotes[PanelRoundFor(revision, decision[revision].jury)]
             unanimity == Len(AppealRounds[AppealMinRound])
  <2>1. decision[revision].jury \in Nat
    BY <1>0, <1>1 DEF TypeOK
  <2>2. base \in Nat /\ previous \in Nat /\ unanimity \in Nat
    <3>1. PanelRoundFor(revision, decision[revision].jury) \in 1..MaxRound
      BY <1>1, <2>1, RoundIsRound
    <3>2. AppealRounds[AppealMinRound] \in Seq(SlotTypes) /\ AppealMinRound \in 1..MaxRound
      BY LadderAssumption
    <3> QED  BY <3>1, <3>2, LadderAssumption
  <2> HIDE DEF base, previous, unanimity
  <2>3. Min({previous + 1, unanimity}) \in Nat
    BY <2>2, OfTwo
  <2>4. ASSUME NEW m \in Nat PROVE Max({base, m}) \in Nat
    <3>1. Max({base, m}) \in {base, m}
      BY <2>2, OfTwo
    <3> QED  BY <2>2, <3>1
  <2> QED  BY <2>2, <2>3, <2>4 DEF AppealRequiredVotes, base, previous, unanimity
<1>3. bar' \in [Revisions -> Nat]
  BY <1>0, <1>2 DEF FileAppeal, TypeOK
<1>4. queue' \subseteq Events
  BY <1>0, <1>1, EventTypes DEF FileAppeal, TypeOK
<1> QED  BY <1>0, <1>1, <1>3, <1>4 DEF FileAppeal, TypeInv, TypeOK, ExpandsTo, panelVars

-----------------------------------------------------------------------------
\* The steps of a handler that only moves on.
LEMMA ProceedType ==
  ASSUME TypeInv, NEW w \in Workers, NEW x \in WorkerState, ExpandsTo(x), Proceed(w, x)
  PROVE  TypeInv'
BY WorkerStepType DEF Proceed, panelVars, TypeInv, TypeOK

\* Nothing but a draw for an expansion is asked for a round.
LEMMA ExpandsElsewhere ==
  /\ \A x : x.pc # "draw" => ExpandsTo(x)
  /\ ExpandsTo(Idle)
  /\ \A w \in Workers : ExpandsTo(Return(w))
BY DEF ExpandsTo, Idle, Return

LEMMA EntryType ==
  ASSUME TypeInv, NEW w \in Workers,
         \/ Claim(w) \/ HandleCaseReadyForReview(w)
         \/ HandleAssignmentVacated(w) \/ EvaluateCase(w) \/ ReadBallots(w)
  PROVE  TypeInv'
<1>0. TypeOK /\ worker[w] \in WorkerState /\ revision \in Revisions
  BY DEF TypeInv, TypeOK
<1>1. CASE Claim(w)
  <2>1. PICK e \in queue : worker' = [worker EXCEPT ![w] = [pc |-> "start", event |-> e]]
    BY <1>1 DEF Claim
  <2>2. [pc |-> "start", event |-> e] \in WorkerState
    BY <1>0, NextStates DEF TypeOK
  <2>3. ExpandsTo([pc |-> "start", event |-> e])
    BY DEF ExpandsTo
  <2> QED  BY <1>0, <1>1, <2>1, <2>2, <2>3, WorkerStepType DEF Claim, panelVars, TypeOK
<1> SUFFICES ASSUME worker[w].pc \in {"start", "ballots"},
                    \/ HandleCaseReadyForReview(w) \/ HandleAssignmentVacated(w)
                    \/ EvaluateCase(w) \/ ReadBallots(w)
             PROVE  TypeInv'
  BY <1>1 DEF HandleCaseReadyForReview, HandleAssignmentVacated, EvaluateCase, ReadBallots, At
<1>2. Event(w) \in Events
  BY <1>0, WorkerFields DEF Event
<1>3. Return(w) \in WorkerState /\ ExpandsTo(Return(w))
  BY <1>2, NextStates, ExpandsElsewhere DEF Return
<1>4. ASSUME NEW k \in {"initial", "replacement"}
      PROVE  Draw(w, k, 0) \in WorkerState /\ ExpandsTo(Draw(w, k, 0))
  <2>1. 0 \in 0..MaxRound /\ k \in Kinds
    BY LadderAssumption DEF Kinds
  <2>2. Draw(w, k, 0) \in WorkerState
    BY <1>2, <2>1, NextStates DEF Draw
  <2> QED  BY <2>2 DEF Draw, ExpandsTo
<1>5. CASE HandleCaseReadyForReview(w)
  BY <1>3, <1>4, <1>5, ProceedType DEF HandleCaseReadyForReview
<1>6. CASE HandleAssignmentVacated(w)
  BY <1>3, <1>4, <1>6, ProceedType DEF HandleAssignmentVacated
<1>7. CASE EvaluateCase(w)
  <2> DEFINE jury == Cardinality(Serving(revision))
             next == [pc |-> "ballots", event |-> Event(w), revision |-> revision,
                      round |-> PanelRoundFor(revision, jury), jury |-> jury]
  <2>1. jury \in Nat
    BY <1>0, CountsAreNat DEF Serving
  <2>2. PanelRoundFor(revision, jury) \in 1..MaxRound
    BY <1>0, <2>1, RoundIsRound
  <2>3. next \in WorkerState
    BY <1>0, <1>2, <2>1, <2>2, NextStates
  <2>4. ExpandsTo(next)
    BY DEF ExpandsTo
  <2> HIDE DEF next
  <2>5. Proceed(w, Return(w)) \/ Proceed(w, next)
    BY <1>7 DEF EvaluateCase, next
  <2> QED  BY <1>3, <2>3, <2>4, <2>5, ProceedType
<1>8. CASE ReadBallots(w)
  <2>1. /\ worker[w].pc = "ballots" /\ worker[w].revision \in Revisions
        /\ worker[w].round \in 1..MaxRound /\ worker[w].jury \in Nat
    BY <1>0, <1>8, WorkerFields DEF ReadBallots, At
  <2>2. ASSUME NEW o \in Outcomes,
               Proceed(w, [pc |-> "publish", event |-> Event(w),
                           revision |-> worker[w].revision, outcome |-> o,
                           jury |-> worker[w].jury])
        PROVE  TypeInv'
    <3> DEFINE next == [pc |-> "publish", event |-> Event(w),
                        revision |-> worker[w].revision, outcome |-> o,
                        jury |-> worker[w].jury]
    <3>1. next \in WorkerState
      BY <1>2, <2>1, NextStates
    <3>2. ExpandsTo(next)
      BY DEF ExpandsTo
    <3> HIDE DEF next
    <3>3. Proceed(w, next)
      BY <2>2 DEF next
    <3> QED  BY <3>1, <3>2, <3>3, ProceedType
  <2>3. CASE MayExpand(worker[w].round)
             /\ Proceed(w, Draw(w, "expansion", worker[w].round + 1))
    <3>1. worker[w].round + 1 \in 1..MaxRound /\ worker[w].round + 1 \in 0..MaxRound
      BY <2>1, <2>3, LadderAssumption DEF MayExpand
    <3>2. Draw(w, "expansion", worker[w].round + 1) \in WorkerState
      BY <1>2, <3>1, NextStates DEF Draw, Kinds
    <3>3. ExpandsTo(Draw(w, "expansion", worker[w].round + 1))
      BY <3>1 DEF ExpandsTo, Draw
    <3> QED  BY <2>3, <3>2, <3>3, ProceedType
  <2>4. \A v \in Agreed(worker[w].revision, worker[w].round) : v \in Outcomes
    BY DEF Agreed, Outcomes
  <2>5. "inconclusive" \in Outcomes
    BY DEF Outcomes
  <2> QED  BY <1>8, <2>2, <2>3, <2>4, <2>5 DEF ReadBallots
<1> QED  BY <1>5, <1>6, <1>7, <1>8

-----------------------------------------------------------------------------
\* What a sampled panel is.
LEMMA PanelsAreDrawn ==
  ASSUME NEW slots, NEW people \in SUBSET Reviewers, NEW d \in Panels(slots, people)
  PROVE  d \in DrawnSeats /\ DOMAIN d \subseteq people
BY DEF Panels, DrawnSeats, kSubset

\* The round of a draw.
LEMMA DrawRoundType ==
  ASSUME TypeInv, NEW w \in Workers, At(w, "draw")
  PROVE  DrawRound(w) \in 1..MaxRound
<1>1. revision \in Revisions /\ ExpandsTo(worker[w])
  BY DEF TypeInv, TypeOK
<1>2. Cardinality(Serving(revision)) \in Nat
  BY <1>1, CountsAreNat DEF Serving
<1>3. PanelRoundFor(revision, Cardinality(Serving(revision))) \in 1..MaxRound
  BY <1>1, <1>2, RoundIsRound
<1> QED  BY <1>1, <1>3 DEF DrawRound, ExpandsTo, At

LEMMA OpenPanelType ==
  ASSUME TypeInv, NEW w \in Workers, OpenPanel(w)
  PROVE  TypeInv'
<1>0. TypeOK /\ worker[w] \in WorkerState /\ revision \in Revisions
  BY DEF TypeInv, TypeOK
<1>1. At(w, "draw") /\ worker[w].kind \in Kinds /\ Event(w) \in Events
  BY <1>0, WorkerFields DEF OpenPanel, At, Event
<1>2. /\ Return(w) \in WorkerState /\ ExpandsTo(Return(w))
      /\ Idle \in WorkerState /\ ExpandsTo(Idle)
  BY <1>1, NextStates, ExpandsElsewhere DEF Return
<1>3. CASE Throw(w) \/ Proceed(w, Return(w))
  BY <1>2, <1>3, ProceedType DEF Throw
<1>4. CASE /\ refusals < MaxRefusals /\ refusals' = refusals + 1
           /\ worker' = [worker EXCEPT ![w] = Return(w)]
           /\ UNCHANGED <<caseVars, panelVars, queue, crashes>>
  <2>1. refusals' \in 0..MaxRefusals
    BY <1>0, <1>4, PanelAssumption DEF TypeOK
  <2> QED  BY <1>2, <1>4, <2>1 DEF TypeInv, TypeOK, ExpandsTo, caseVars, panelVars
<1>5. ASSUME NEW d \in Panels(RequestedSlots(w), Reviewers \ PriorJurors(revision)),
             Proceed(w, [pc |-> "commit", event |-> Event(w), seats |-> d,
                         draw |-> [revision |-> revision, kind |-> worker[w].kind,
                                   round |-> DrawRound(w)]])
      PROVE  TypeInv'
  <2> DEFINE row == [revision |-> revision, kind |-> worker[w].kind, round |-> DrawRound(w)]
             next == [pc |-> "commit", event |-> Event(w), seats |-> d, draw |-> row]
  <2>1. row \in DrawRow
    BY <1>0, <1>1, DrawRoundType DEF DrawRow
  <2>2. d \in DrawnSeats
    BY PanelsAreDrawn
  <2> HIDE DEF row
  <2>3. next \in WorkerState
    BY <1>1, <2>1, <2>2, NextStates
  <2>4. ExpandsTo(next)
    BY DEF ExpandsTo
  <2> HIDE DEF next
  <2>5. Proceed(w, next)
    BY <1>5 DEF next, row
  <2> QED  BY <2>3, <2>4, <2>5, ProceedType
<1> QED  BY <1>3, <1>4, <1>5 DEF OpenPanel

LEMMA CommitType ==
  ASSUME TypeInv, NEW w \in Workers, CommitDraw(w)
  PROVE  TypeInv'
<1>0. TypeOK /\ worker[w] \in WorkerState
  BY DEF TypeInv, TypeOK
<1>1. /\ worker[w].draw \in DrawRow /\ worker[w].seats \in DrawnSeats
      /\ Event(w) \in Events
  BY <1>0, WorkerFields DEF CommitDraw, At, Event
<1>2. /\ Return(w) \in WorkerState /\ ExpandsTo(Return(w))
      /\ Idle \in WorkerState /\ ExpandsTo(Idle)
      /\ [pc |-> "link", event |-> Event(w)] \in WorkerState
      /\ ExpandsTo([pc |-> "link", event |-> Event(w)])
  BY <1>1, NextStates, ExpandsElsewhere DEF Return, ExpandsTo
<1>3. CASE Throw(w)
  BY <1>2, <1>3, ProceedType DEF Throw
<1>4. ASSUME ~Throw(w) PROVE TypeInv'
  <2>1. /\ seat' = [s \in SeatIds |->
                      IF s[1] = worker[w].draw.revision /\ s[2] \in DOMAIN worker[w].seats
                      THEN OpenSeat(worker[w].seats[s[2]]) ELSE seat[s]]
        /\ draws' = Append(draws, worker[w].draw)
        /\ \/ worker' = [worker EXCEPT ![w] = Return(w)]
           \/ worker' = [worker EXCEPT ![w] = [pc |-> "link", event |-> Event(w)]]
        /\ crossed' \subseteq crossed \cup {w}
        /\ UNCHANGED <<caseVars, queue, refusals, crashes>>
    BY <1>4 DEF CommitDraw, Crosses
  <2>2. /\ \A t \in SlotTypes : OpenSeat(t) \in SeatRow
        /\ \A x \in DOMAIN worker[w].seats : worker[w].seats[x] \in SlotTypes
    BY <1>1 DEF DrawnSeats, OpenSeat, NoSeat, SeatRow
  <2>3. seat' \in [SeatIds -> SeatRow]
    BY <1>0, <2>1, <2>2 DEF TypeOK
  <2>4. draws' \in Seq(DrawRow)
    BY <1>0, <1>1, <2>1 DEF TypeOK
  <2>5. ASSUME NEW v \in Workers PROVE worker'[v] \in WorkerState /\ ExpandsTo(worker'[v])
    <3>1. PICK next : /\ worker' = [worker EXCEPT ![w] = next]
                      /\ next \in WorkerState /\ ExpandsTo(next)
      BY <1>2, <2>1
    <3>2. worker'[v] = worker[v] \/ worker'[v] = next
      BY <3>1
    <3>3. worker[v] \in WorkerState /\ ExpandsTo(worker[v])
      BY DEF TypeInv, TypeOK
    <3> QED  BY <3>1, <3>2, <3>3
  <2> QED  BY <1>0, <2>1, <2>3, <2>4, <2>5 DEF TypeInv, TypeOK, ExpandsTo, caseVars
<1> QED  BY <1>3, <1>4

LEMMA ExitType ==
  ASSUME TypeInv, NEW w \in Workers,
         Ack(w) \/ Die(w) \/ Publish(w) \/ LinkReplacement(w)
  PROVE  TypeInv'
<1>0. TypeOK /\ worker[w] \in WorkerState
  BY DEF TypeInv, TypeOK
<1>1. Idle \in WorkerState /\ ExpandsTo(Idle)
  BY ExpandsElsewhere DEF WorkerState
<1>2. CASE Ack(w)
  <2>1. queue' \subseteq Events
    BY <1>0, <1>2 DEF Ack, TypeOK
  <2> QED  BY <1>1, <1>2, <2>1, WorkerStepType DEF Ack
<1>3. CASE Die(w)
  <2>1. crashes' \in 0..MaxCrashes
    BY <1>0, <1>3, PanelAssumption DEF Die, TypeOK
  <2> QED  BY <1>0, <1>1, <1>3, <2>1 DEF Die, TypeInv, TypeOK, ExpandsTo, caseVars, panelVars
<1>4. CASE Publish(w) \/ LinkReplacement(w)
  <2>1. Event(w) \in Events
    BY <1>0, <1>4, WorkerFields DEF Publish, LinkReplacement, At, Event
  <2>2. Return(w) \in WorkerState /\ ExpandsTo(Return(w))
    BY <2>1, NextStates, ExpandsElsewhere DEF Return
  <2>3. CASE Publish(w)
    <3>1. /\ worker[w].revision \in Revisions /\ worker[w].outcome \in Outcomes
          /\ worker[w].jury \in Nat
      BY <1>0, <2>3, WorkerFields DEF Publish, At
    <3>2. decided' \in 0..MaxRevision
      BY <1>0, <2>3, <3>1, PanelAssumption DEF Publish, TypeOK, Revisions
    <3>3. decision' \in [Revisions -> [outcome : Outcomes \cup {"none"}, jury : Nat]]
      <4>1. PICK row : /\ row \in [outcome : Outcomes \cup {"none"}, jury : Nat]
                       /\ row = [outcome |-> worker[w].outcome, jury |-> worker[w].jury]
        BY <3>1
      <4>2. decision' = decision \/ decision' = [decision EXCEPT ![worker[w].revision] = row]
        BY <2>3, <4>1 DEF Publish
      <4> QED  BY <1>0, <4>1, <4>2 DEF TypeOK
    <3>4. /\ worker' = [worker EXCEPT ![w] = Return(w)]
          /\ UNCHANGED <<revision, bar, panelVars, queue, refusals, crashes>>
      BY <2>3 DEF Publish
    <3> QED  BY <1>0, <2>2, <3>2, <3>3, <3>4 DEF TypeInv, TypeOK, ExpandsTo, panelVars
  <2>4. CASE LinkReplacement(w)
    <3>1. seat' \in [SeatIds -> SeatRow]
      <4>1. PICK q : seat' = [seat EXCEPT ![q].replaced = TRUE]
        BY <2>4 DEF LinkReplacement
      <4>2. seat \in [SeatIds -> SeatRow]
        BY <1>0 DEF TypeOK
      <4>3. \A row \in SeatRow : [row EXCEPT !.replaced = TRUE] \in SeatRow
        BY DEF SeatRow
      <4> QED  BY <4>1, <4>2, <4>3
    <3>2. /\ worker' = [worker EXCEPT ![w] = Return(w)]
          /\ crossed' \subseteq crossed \cup {w}
          /\ UNCHANGED <<caseVars, draws, queue, refusals, crashes>>
      BY <2>4 DEF LinkReplacement, Crosses
    <3> QED  BY <1>0, <2>2, <3>1, <3>2 DEF TypeInv, TypeOK, ExpandsTo, caseVars
  <2> QED  BY <1>4, <2>3, <2>4
<1> QED  BY <1>2, <1>3, <1>4

LEMMA TypeNext == TypeInv /\ [Next]_vars => TypeInv'
<1> SUFFICES ASSUME TypeInv, [Next]_vars PROVE TypeInv'
  OBVIOUS
<1>1. ASSUME NEW w \in Workers, HandlerStep(w) \/ Die(w) PROVE TypeInv'
  BY <1>1, EntryType, OpenPanelType, CommitType, ExitType DEF HandlerStep
<1>2. CASE UNCHANGED vars
  BY <1>2 DEF vars, caseVars, panelVars, TypeInv, TypeOK, ExpandsTo
<1> QED  BY <1>1, <1>2, SeatType, AppealType DEF Next

LEMMA TypeHolds == Spec => []TypeInv
BY TypeInit, TypeNext, PTL DEF Spec

(***************************************************************************)
(* Every variable keeps its type: in particular no expansion goes past the *)
(* last round, and no draw is made for a round that does not exist.        *)
(***************************************************************************)
THEOREM TypeCorrect == Spec => []TypeOK
<1>1. TypeInv => TypeOK  BY DEF TypeInv
<1> QED  BY <1>1, TypeHolds, PTL

-----------------------------------------------------------------------------
(***************************************************************************)
(* Ballots are never withdrawn, and an appeal's bar is set once.           *)
(***************************************************************************)
Kept == /\ revision <= revision'
        /\ \A s \in SeatIds : seat[s].status = "submitted" =>
             seat'[s].status = "submitted" /\ seat'[s].vote = seat[s].vote
        /\ \A r \in 1..revision : bar'[r] = bar[r]

LEMMA BallotsAreKept == TypeInv /\ [Next]_vars => Kept
<1> SUFFICES ASSUME TypeInv, [Next]_vars PROVE Kept
  OBVIOUS
<1>0. TypeOK /\ revision \in Nat
  BY PanelAssumption DEF TypeInv, TypeOK, Revisions
<1>1. CASE UNCHANGED <<revision, bar, seat>>
  BY <1>0, <1>1 DEF Kept
<1>2. ASSUME NEW s \in SeatIds, LeaveOrVote(s) PROVE Kept
  <2>1. /\ seat[s].status = "open" /\ UNCHANGED <<revision, bar>>
        /\ \A q \in SeatIds \ {s} : seat'[q] = seat[q]
    BY <1>0, <1>2 DEF LeaveOrVote, Vacate, SubmitReview, Environment, caseVars, TypeOK
  <2> QED  BY <1>0, <2>1 DEF Kept
<1>3. CASE FileAppeal
  <2>1. revision' = revision + 1 /\ UNCHANGED seat
    BY <1>3 DEF FileAppeal, panelVars
  <2>2. PICK n : bar' = [bar EXCEPT ![revision + 1] = n]
    BY <1>3 DEF FileAppeal
  <2>3. \A r \in 1..revision : r # revision + 1 /\ r \in Revisions
    BY <1>0, PanelAssumption DEF TypeOK, Revisions
  <2> QED  BY <1>0, <2>1, <2>2, <2>3 DEF Kept, TypeOK
<1>4. ASSUME NEW w \in Workers, CommitDraw(w) PROVE Kept
  <2>1. CASE Throw(w)
    BY <1>1, <2>1 DEF Throw, Proceed, caseVars, panelVars
  <2>2. CASE ~Throw(w)
    <3>1. /\ seat' = [s \in SeatIds |->
                        IF s[1] = worker[w].draw.revision /\ s[2] \in DOMAIN worker[w].seats
                        THEN OpenSeat(worker[w].seats[s[2]]) ELSE seat[s]]
          /\ \A x \in DOMAIN worker[w].seats : seat[<<worker[w].draw.revision, x>>] = NoSeat
          /\ UNCHANGED <<revision, bar>>
      BY <1>4, <2>2 DEF CommitDraw, caseVars
    <3>2. ASSUME NEW s \in SeatIds, seat[s].status = "submitted" PROVE seat'[s] = seat[s]
      <4>1. s = <<s[1], s[2]>>
        BY DEF SeatIds
      <4>2. seat[s] # NoSeat
        BY <3>2 DEF NoSeat
      <4> QED  BY <3>1, <4>1, <4>2
    <3> QED  BY <1>0, <3>1, <3>2 DEF Kept
  <2> QED  BY <2>1, <2>2
<1>5. ASSUME NEW w \in Workers, LinkReplacement(w) PROVE Kept
  <2>1. PICK q : seat' = [seat EXCEPT ![q].replaced = TRUE]
    BY <1>5 DEF LinkReplacement
  <2>2. \A s \in SeatIds : seat[s] \in SeatRow
    BY <1>0 DEF TypeOK
  <2>3. \A row \in SeatRow : /\ [row EXCEPT !.replaced = TRUE].status = row.status
                             /\ [row EXCEPT !.replaced = TRUE].vote = row.vote
    BY DEF SeatRow
  <2>4. \A s \in SeatIds : seat'[s].status = seat[s].status /\ seat'[s].vote = seat[s].vote
    BY <1>0, <2>1, <2>2, <2>3 DEF TypeOK
  <2>5. UNCHANGED <<revision, bar>>
    BY <1>5 DEF LinkReplacement, caseVars
  <2> QED  BY <1>0, <2>4, <2>5 DEF Kept
<1>6. ASSUME NEW w \in Workers, HandlerStep(w) \/ Die(w),
             ~CommitDraw(w), ~LinkReplacement(w)
      PROVE  UNCHANGED <<revision, bar, seat>>
  BY <1>6 DEF HandlerStep, Claim, Ack, Die, HandleCaseReadyForReview,
     HandleAssignmentVacated, EvaluateCase, ReadBallots, Publish, OpenPanel, Throw,
     Proceed, caseVars, panelVars
<1>7. CASE UNCHANGED vars
  BY <1>1, <1>7 DEF vars, caseVars, panelVars
<1> QED  BY <1>1, <1>2, <1>3, <1>4, <1>5, <1>6, <1>7 DEF Next

(***************************************************************************)
(* What a published outcome needs behind it, published or about to be.     *)
(***************************************************************************)
Quorum(r, o) ==
  /\ o \in Positions => /\ Votes(r, o) >= RequiredVotes[LowestRound(r)]
                        /\ Votes(r, o) >= bar[r]
  /\ o = "inconclusive" => Cardinality(Submitted(r)) >= Len(PanelSpecFor(r, MaxRound))

\* The ballots of a jury may only grow in number.
LEMMA CountsGrow ==
  ASSUME Kept, NEW r \in Revisions
  PROVE  /\ Cardinality(Submitted(r)) <= Cardinality(Submitted(r))'
         /\ \A v : Votes(r, v) <= Votes(r, v)'
         /\ Cardinality(Submitted(r)) \in Nat /\ Cardinality(Submitted(r))' \in Nat
         /\ \A v : Votes(r, v) \in Nat /\ Votes(r, v)' \in Nat
<1>1. Submitted(r) \subseteq Submitted(r)' /\ Submitted(r)' \subseteq Reviewers
  BY DEF Submitted, SeatsWith, Kept, SeatIds
<1>2. IsFiniteSet(Submitted(r)') /\ IsFiniteSet(Submitted(r))
  BY <1>1, PanelAssumption, FS_Subset
<1>3. ASSUME NEW v
      PROVE  Votes(r, v) <= Votes(r, v)' /\ Votes(r, v) \in Nat /\ Votes(r, v)' \in Nat
  <2> DEFINE A == {x \in Submitted(r) : seat[<<r, x>>].vote = v}
             B == {x \in Submitted(r)' : seat'[<<r, x>>].vote = v}
  <2>1. A \subseteq B /\ B \subseteq Reviewers
    BY <1>1 DEF Submitted, SeatsWith, Kept, SeatIds
  <2>2. /\ IsFiniteSet(A) /\ IsFiniteSet(B) /\ Cardinality(A) <= Cardinality(B)
        /\ Cardinality(A) \in Nat /\ Cardinality(B) \in Nat
    BY <2>1, PanelAssumption, FS_Subset, FS_CardinalityType
  <2> QED  BY <2>2 DEF Votes
<1> QED  BY <1>1, <1>2, <1>3, FS_Subset, FS_CardinalityType

LEMMA QuorumLasts ==
  ASSUME TypeInv, Kept, NEW r \in 1..revision, NEW o, Quorum(r, o)
  PROVE  Quorum(r, o)'
<1>1. r \in Revisions /\ bar'[r] = bar[r] /\ bar[r] \in Nat
  BY PanelAssumption DEF TypeInv, TypeOK, Kept, Revisions
<1>2. RequiredVotes[LowestRound(r)] \in Nat /\ MaxRound \in Nat
  BY LadderAssumption DEF LowestRound
<1>3. Len(PanelSpecFor(r, MaxRound)) \in Nat
  BY LadderAssumption DEF PanelSpecFor
<1> QED  BY <1>1, <1>2, <1>3, CountsGrow DEF Quorum

-----------------------------------------------------------------------------
(***************************************************************************)
(* What a handler knows when it counts ballots and when it publishes.      *)
(***************************************************************************)
Knows(x) ==
  /\ x.pc = "ballots" => /\ x.revision \in 1..revision
                         /\ x.round = PanelRoundFor(x.revision, x.jury)
                         /\ x.jury <= Cardinality(Submitted(x.revision))
  /\ x.pc = "publish" => x.revision \in 1..revision /\ Quorum(x.revision, x.outcome)

QuorumInv ==
  /\ TypeInv
  /\ decided \in {revision - 1, revision}
  /\ \A w \in Workers : Knows(worker[w])
  /\ \A r \in 1..decided : Quorum(r, decision[r].outcome)

LEMMA QuorumInit == Init => QuorumInv
<1> SUFFICES ASSUME Init PROVE QuorumInv
  OBVIOUS
<1>1. \A w \in Workers : Knows(worker[w])
  BY DEF Init, Idle, Knows
<1> QED  BY <1>1, TypeInit DEF Init, QuorumInv

\* What a handler knows lasts, ...
LEMMA KnowledgeLasts ==
  ASSUME TypeInv, TypeInv', Kept, NEW x \in WorkerState, Knows(x)
  PROVE  Knows(x)'
<1>0. 1..revision \subseteq Revisions /\ 1..revision \subseteq 1..revision'
  <2>1. /\ revision \in 1..MaxRevision /\ revision' \in 1..MaxRevision
        /\ revision <= revision' /\ MaxRevision \in Nat
    BY PanelAssumption DEF TypeInv, TypeOK, Kept, Revisions
  <2>2. /\ \A r \in 1..revision : r \in 1..MaxRevision
        /\ \A r \in 1..revision : r \in 1..revision'
    BY <2>1
  <2> QED  BY <2>2 DEF Revisions
<1>1. CASE x.pc = "ballots"
  <2>1. x.revision \in 1..revision /\ x.revision \in Revisions /\ x.jury \in Nat
    BY <1>0, <1>1, WorkerFields DEF Knows
  <2>2. /\ Cardinality(Submitted(x.revision)) <= Cardinality(Submitted(x.revision))'
        /\ Cardinality(Submitted(x.revision)) \in Nat
        /\ Cardinality(Submitted(x.revision))' \in Nat
    BY <2>1, CountsGrow
  <2>3. PanelRoundFor(x.revision, x.jury)' = PanelRoundFor(x.revision, x.jury)
    OBVIOUS
  <2> QED  BY <1>0, <1>1, <2>1, <2>2, <2>3 DEF Knows
<1>2. CASE x.pc = "publish"
  <2>1. x.revision \in 1..revision /\ Quorum(x.revision, x.outcome)
    BY <1>2 DEF Knows
  <2>2. Quorum(x.revision, x.outcome)'
    BY <2>1, QuorumLasts
  <2> QED  BY <1>0, <1>2, <2>1, <2>2 DEF Knows
<1> QED  BY <1>1, <1>2 DEF Knows

\* ... and so does what was published.
LEMMA PublishedLasts ==
  ASSUME QuorumInv, Kept, NEW r \in 1..decided, decision'[r] = decision[r]
  PROVE  Quorum(r, decision[r].outcome)'
<1>1. PICK o : o = decision[r].outcome
  OBVIOUS
<1>2. r \in 1..revision /\ Quorum(r, o) /\ TypeInv
  <2>1. /\ revision \in 1..MaxRevision /\ MaxRevision \in Nat
        /\ decided \in {revision - 1, revision}
    BY PanelAssumption DEF QuorumInv, TypeInv, TypeOK, Revisions
  <2>2. r \in 1..revision
    BY <2>1
  <2> QED  BY <1>1, <2>2 DEF QuorumInv
<1>3. Quorum(r, o)'
  BY <1>2, QuorumLasts
<1> QED  BY <1>1, <1>3

\* Counting a complete panel's ballots against the round of its seats.
LEMMA EvaluationKnows ==
  ASSUME TypeInv, NEW w \in Workers, EvaluateCase(w)
  PROVE  \E x : worker' = [worker EXCEPT ![w] = x] /\ Knows(x)
<1>0. revision \in Revisions /\ revision \in 1..revision
  BY PanelAssumption DEF TypeInv, TypeOK, Revisions
<1>1. CASE Proceed(w, Return(w))
  <2>1. Knows(Return(w))
    BY DEF Return, Knows
  <2> QED  BY <1>1, <2>1 DEF Proceed
<1>2. CASE ~Proceed(w, Return(w))
  <2> DEFINE jury == Cardinality(Serving(revision))
             x == [pc |-> "ballots", event |-> Event(w), revision |-> revision,
                   round |-> PanelRoundFor(revision, jury), jury |-> jury]
  <2>1. PendingSeats(revision) = {} /\ Proceed(w, x)
    BY <1>2 DEF EvaluateCase
  <2>2. Serving(revision) = Submitted(revision)
    BY <2>1 DEF PendingSeats, Serving, Submitted, SeatsWith
  <2>3. jury \in Nat /\ jury = Cardinality(Submitted(revision))
    BY <1>0, <2>2, CountsAreNat DEF Serving
  <2>4. jury <= Cardinality(Submitted(revision))
    BY <2>3
  <2>5. Knows(x)
    BY <1>0, <2>4 DEF Knows
  <2> QED  BY <2>1, <2>5 DEF Proceed
<1> QED  BY <1>1, <1>2

\* An outcome that is published has its quorum.
LEMMA BallotsKnow ==
  ASSUME AppealMinRound < MaxRound, QuorumInv, NEW w \in Workers, ReadBallots(w)
  PROVE  \E x : worker' = [worker EXCEPT ![w] = x] /\ Knows(x)
<1>0. TypeInv /\ worker[w] \in WorkerState /\ Knows(worker[w])
  BY DEF QuorumInv, TypeInv, TypeOK
<1>1. PICK r, round, jury : /\ r = worker[w].revision /\ round = worker[w].round
                            /\ jury = worker[w].jury
  OBVIOUS
<1>2. /\ r \in Revisions /\ r \in 1..revision /\ jury \in Nat
      /\ round = PanelRoundFor(r, jury) /\ jury <= Cardinality(Submitted(r))
  BY <1>0, <1>1, WorkerFields DEF ReadBallots, At, Knows
<1>3. /\ round \in 1..MaxRound /\ LowestRound(r) \in 1..MaxRound
      /\ LowestRound(r) <= round /\ LowestRound(r) < MaxRound
      /\ round # LowestRound(r) => Len(PanelSpecFor(r, round)) <= jury
  <2>1. LowestRound(r) < MaxRound
    BY <1>2, LadderAssumption, PanelAssumption DEF LowestRound, Revisions
  <2>2. /\ PanelRoundFor(r, jury) \in LowestRound(r)..MaxRound
        /\ PanelRoundFor(r, jury) \in 1..MaxRound /\ LowestRound(r) \in 1..MaxRound
        /\ PanelRoundFor(r, jury) # LowestRound(r) =>
             Len(PanelSpecFor(r, PanelRoundFor(r, jury))) <= jury
    BY <1>2, RoundIsRound
  <2> QED  BY <1>2, <2>1, <2>2
<1>4. ASSUME NEW v \in Agreed(r, round) PROVE Quorum(r, v)
  <2>1. v \in Positions /\ v # "inconclusive"
    BY PanelAssumption DEF Agreed
  <2>2. Votes(r, v) >= RequiredVotes[round] /\ Votes(r, v) >= bar[r]
    BY DEF Agreed, EnoughVotes
  <2>3. RequiredVotes[LowestRound(r)] <= RequiredVotes[round]
    BY <1>3, LadderAssumption
  <2>4. /\ RequiredVotes[LowestRound(r)] \in Nat /\ RequiredVotes[round] \in Nat
        /\ Votes(r, v) \in Nat
    <3>1. Votes(r, v) = Cardinality({x \in Submitted(r) : seat[<<r, x>>].vote = v})
      BY DEF Votes
    <3>2. {x \in Submitted(r) : seat[<<r, x>>].vote = v} \in SUBSET Reviewers
      BY DEF Submitted, SeatsWith
    <3>3. Votes(r, v) \in Nat
      BY <3>1, <3>2, PanelAssumption, FS_Subset, FS_CardinalityType
    <3> QED  BY <1>3, <3>3, LadderAssumption
  <2> QED  BY <2>1, <2>2, <2>3, <2>4 DEF Quorum
<1>5. ASSUME ~MayExpand(round) PROVE Quorum(r, "inconclusive")
  <2>1. round = MaxRound /\ Len(PanelSpecFor(r, MaxRound)) <= jury
    BY <1>3, <1>5, LadderAssumption DEF MayExpand
  <2>2. Len(PanelSpecFor(r, MaxRound)) \in Nat /\ Cardinality(Submitted(r)) \in Nat
    BY <1>2, CountsAreNat, LadderAssumption DEF PanelSpecFor, Submitted
  <2> QED  BY <1>2, <2>1, <2>2, PanelAssumption DEF Quorum
<1>6. ASSUME NEW o, Quorum(r, o)
      PROVE  Knows([pc |-> "publish", event |-> Event(w), revision |-> r,
                    outcome |-> o, jury |-> jury])
  BY <1>2, <1>6 DEF Knows
<1>7. \A kind, n : Knows(Draw(w, kind, n))
  BY DEF Draw, Knows
<1> QED  BY <1>1, <1>4, <1>5, <1>6, <1>7 DEF ReadBallots, Proceed

\* Every other step of a handler leaves it nothing to know.
LEMMA OthersKnow ==
  ASSUME NEW w \in Workers, HandlerStep(w) \/ Die(w), ~EvaluateCase(w), ~ReadBallots(w)
  PROVE  \E x : worker' = [worker EXCEPT ![w] = x] /\ Knows(x)
<1>1. /\ \A kind, n : Knows(Draw(w, kind, n))
      /\ Knows(Return(w)) /\ Knows(Idle)
      /\ \A e : Knows([pc |-> "start", event |-> e]) /\ Knows([pc |-> "link", event |-> e])
      /\ \A e, d, row : Knows([pc |-> "commit", event |-> e, seats |-> d, draw |-> row])
  BY DEF Knows, Draw, Return, Idle
<1> QED
  BY <1>1 DEF HandlerStep, Claim, Ack, Die, HandleCaseReadyForReview,
     HandleAssignmentVacated, Publish, OpenPanel, CommitDraw, LinkReplacement, Throw, Proceed

LEMMA QuorumNext ==
  ASSUME AppealMinRound < MaxRound, QuorumInv, [Next]_vars
  PROVE  QuorumInv'
<1>0. TypeInv /\ TypeInv' /\ Kept /\ TypeOK
  BY TypeNext, BallotsAreKept DEF QuorumInv, TypeInv
<1>1. ASSUME NEW w \in Workers, HandlerStep(w) \/ Die(w) PROVE \A q \in Workers : Knows(worker[q])'
  <2>1. \E x : worker' = [worker EXCEPT ![w] = x] /\ Knows(x)
    BY <1>0, <1>1, EvaluationKnows, BallotsKnow, OthersKnow
  <2>2. PICK x : worker' = [worker EXCEPT ![w] = x] /\ Knows(x)
    BY <2>1
  <2>3. x \in WorkerState
    BY <1>0, <2>2 DEF TypeInv, TypeOK
  <2>4. ASSUME NEW q \in Workers PROVE Knows(worker[q])'
    <3>1. PICK y : y = worker'[q]
      OBVIOUS
    <3>2. y \in WorkerState /\ Knows(y)
      BY <1>0, <2>2, <3>1 DEF QuorumInv, TypeInv, TypeOK
    <3>3. Knows(y)'
      BY <1>0, <3>2, KnowledgeLasts
    <3> QED  BY <3>1, <3>3
  <2> QED  BY <2>4
<1>2. ASSUME worker' = worker PROVE \A q \in Workers : Knows(worker[q])'
  <2>1. ASSUME NEW q \in Workers PROVE Knows(worker[q])'
    <3>1. PICK y : y = worker[q]
      OBVIOUS
    <3>2. y \in WorkerState /\ Knows(y)
      BY <1>0, <3>1 DEF QuorumInv, TypeOK
    <3>3. Knows(y)'
      BY <1>0, <3>2, KnowledgeLasts
    <3> QED  BY <1>2, <3>1, <3>3
  <2> QED  BY <2>1
<1>3. \A q \in Workers : Knows(worker[q])'
  <2>1. ASSUME NEW s \in SeatIds, LeaveOrVote(s) PROVE worker' = worker
    BY <2>1 DEF LeaveOrVote, Vacate, SubmitReview, Environment
  <2>2. FileAppeal => worker' = worker
    BY DEF FileAppeal
  <2> QED  BY <1>1, <1>2, <2>1, <2>2 DEF Next, vars
<1>4. ASSUME NEW w \in Workers, Publish(w), revision = worker[w].revision,
             decided < worker[w].revision
      PROVE  /\ decided' \in {revision - 1, revision}'
             /\ \A q \in 1..decided' : Quorum(q, decision[q].outcome)'
  <2>1. PICK r, o, row : /\ r = worker[w].revision /\ o = worker[w].outcome
                         /\ row = [outcome |-> o, jury |-> worker[w].jury]
    OBVIOUS
  <2>2. /\ r = revision /\ decided = r - 1 /\ Quorum(r, o) /\ r \in 1..revision
        /\ r \in Revisions /\ r \in Nat
    BY <1>0, <1>4, <2>1, PanelAssumption
    DEF Publish, At, QuorumInv, Knows, TypeOK, Revisions
  <2>3. /\ decided' = r /\ revision' = revision
        /\ decision' = [decision EXCEPT ![r] = row]
    BY <1>4, <2>1 DEF Publish
  <2>4. Quorum(r, o)'
    BY <1>0, <2>2, QuorumLasts
  <2>5. decision'[r] = row /\ \A q \in 1..decided : decision'[q] = decision[q]
    BY <1>0, <2>2, <2>3, PanelAssumption DEF TypeOK, Revisions
  <2>6. ASSUME NEW q \in 1..decided' PROVE Quorum(q, decision[q].outcome)'
    <3>1. CASE q = r
      BY <2>1, <2>4, <2>5, <3>1
    <3>2. CASE q # r
      <4>1. q \in 1..decided
        BY <2>2, <2>3, <3>2
      <4> QED  BY <1>0, <2>5, <4>1, PublishedLasts
    <3> QED  BY <3>1, <3>2
  <2> QED  BY <2>2, <2>3, <2>6
<1>5. ASSUME UNCHANGED <<decided, decision>>, revision' = revision \/ FileAppeal
      PROVE  /\ decided' \in {revision - 1, revision}'
             /\ \A q \in 1..decided' : Quorum(q, decision[q].outcome)'
  <2>1. decided' \in {revision - 1, revision}'
    BY <1>0, <1>5, PanelAssumption DEF QuorumInv, FileAppeal, TypeOK, Revisions
  <2> QED  BY <1>0, <1>5, <2>1, PublishedLasts
<1>6. /\ decided' \in {revision - 1, revision}'
      /\ \A q \in 1..decided' : Quorum(q, decision[q].outcome)'
  <2>1. ASSUME NEW w \in Workers, HandlerStep(w) \/ Die(w), ~Publish(w)
        PROVE  UNCHANGED caseVars
    BY <2>1 DEF HandlerStep, Claim, Ack, Die, HandleCaseReadyForReview,
       HandleAssignmentVacated, EvaluateCase, ReadBallots, OpenPanel, CommitDraw,
       LinkReplacement, Throw, Proceed
  <2>2. ASSUME NEW w \in Workers, Publish(w),
               ~(revision = worker[w].revision /\ decided < worker[w].revision)
        PROVE  UNCHANGED <<decided, decision, revision>>
    BY <2>2 DEF Publish
  <2>3. ASSUME NEW s \in SeatIds, LeaveOrVote(s) PROVE UNCHANGED caseVars
    BY <2>3 DEF LeaveOrVote, Vacate, SubmitReview, Environment
  <2>4. FileAppeal => UNCHANGED <<decided, decision>>
    BY DEF FileAppeal
  <2> QED  BY <1>4, <1>5, <2>1, <2>2, <2>3, <2>4 DEF Next, vars, caseVars
<1> QED  BY <1>0, <1>3, <1>6 DEF QuorumInv

(***************************************************************************)
(* However many handlers overlap, die and repeat their work, and whoever   *)
(* leaves: no outcome is published that too few jurors stand behind, and   *)
(* none is given up on before the last round was seated.  The appeal must  *)
(* start below the last round, as APPEAL_MIN_ROUND = 2 of 3 does: else an  *)
(* appeal's first panel, however small, would be counted as its last.      *)
(***************************************************************************)
THEOREM DecisionsHaveQuorum ==
  ASSUME AppealMinRound < MaxRound
  PROVE  Spec => []DecisionHasQuorum
<1>1. QuorumInv => DecisionHasQuorum
  <2> SUFFICES ASSUME QuorumInv, NEW r \in 1..decided
               PROVE  /\ decision[r].outcome \in Positions =>
                           Votes(r, decision[r].outcome)
                             >= Max({RequiredVotes[LowestRound(r)], bar[r]})
                      /\ decision[r].outcome = "inconclusive" =>
                           Cardinality(Submitted(r)) >= Len(PanelSpecFor(r, MaxRound))
    BY DEF DecisionHasQuorum
  <2>1. Quorum(r, decision[r].outcome) /\ r \in Revisions
    BY PanelAssumption DEF QuorumInv, TypeInv, TypeOK, Revisions
  <2>2. bar[r] \in Int /\ RequiredVotes[LowestRound(r)] \in Int
    BY <2>1, LadderAssumption DEF LowestRound, QuorumInv, TypeInv, TypeOK
  <2>3. Max({RequiredVotes[LowestRound(r)], bar[r]}) \in {RequiredVotes[LowestRound(r)], bar[r]}
    BY <2>2, OfTwo
  <2> QED  BY <2>1, <2>3 DEF Quorum
<1>2. QuorumInv /\ [Next]_vars => QuorumInv'
  BY QuorumNext
<1> QED  BY <1>1, <1>2, QuorumInit, PTL DEF Spec

-----------------------------------------------------------------------------
(***************************************************************************)
(* Who was ever seated, and what handlers know of it as long as nobody     *)
(* changes the panel under one that is in flight.                          *)
(***************************************************************************)
LEMMA CrossingsAreKept ==
  ASSUME [Next]_vars, crossed' = {}
  PROVE  crossed = {}
<1>1. ASSUME NEW s \in SeatIds, LeaveOrVote(s) PROVE UNCHANGED crossed
  BY <1>1 DEF LeaveOrVote, Vacate, SubmitReview, Environment
<1>2. ASSUME NEW w \in Workers, HandlerStep(w) \/ Die(w) PROVE crossed \subseteq crossed'
  BY <1>2
  DEF HandlerStep, Claim, Ack, Die, HandleCaseReadyForReview, HandleAssignmentVacated,
      EvaluateCase, ReadBallots, Publish, OpenPanel, CommitDraw, LinkReplacement, Throw,
      Proceed, Crosses, panelVars
<1>3. CASE FileAppeal \/ UNCHANGED vars
  BY <1>3 DEF FileAppeal, vars, panelVars
<1> QED  BY <1>1, <1>2, <1>3 DEF Next

\* Who changes a panel without crossing anybody finds the others not in flight.
LEMMA NoneInFlight ==
  ASSUME crossed' = {}, NEW w \in Workers, Crosses(w), NEW v \in Workers \ {w}
  PROVE  worker[v].pc \notin InFlight
BY DEF Crosses

IsUsed(s) == seat[s].status # "none"

\* A handler runs for a vacancy that stays one, only such a handler replaces
\* anybody, and those it is about to seat sit nowhere.
Serves(x) ==
  /\ x.pc # "idle" /\ x.event.type = "assignment.vacated" =>
       seat[x.event.seat].status = "vacated"
  /\ x.pc = "draw" /\ x.kind = "replacement" => x.event.type = "assignment.vacated"
  /\ x.pc = "commit" /\ x.draw.kind = "replacement" => x.event.type = "assignment.vacated"
  /\ x.pc = "link" => x.event.type = "assignment.vacated"
  /\ x.pc = "commit" => \A s \in SeatIds : s[2] \in DOMAIN x.seats => ~IsUsed(s)

SeatsOnce ==
  /\ \A s \in SeatIds : ~IsUsed(s) => seat[s] = NoSeat
  /\ \A p, q \in Revisions, x \in Reviewers :
       IsUsed(<<p, x>>) /\ IsUsed(<<q, x>>) => p = q

ServiceInv ==
  /\ TypeInv
  /\ SeatsOnce
  /\ \A e \in queue : e.type = "assignment.vacated" => seat[e.seat].status = "vacated"
  /\ \A w \in Workers : Serves(worker[w])

LEMMA ServiceInit == Init => ServiceInv
<1> SUFFICES ASSUME Init PROVE ServiceInv
  OBVIOUS
<1>1. \A s \in SeatIds : seat[s] = NoSeat /\ ~IsUsed(s)
  BY DEF Init, NoSeat, IsUsed
<1>2. \A p \in Revisions, x \in Reviewers : <<p, x>> \in SeatIds
  BY DEF SeatIds
<1>3. \A w \in Workers : Serves(worker[w])
  BY DEF Init, Idle, Serves
<1> QED  BY <1>1, <1>2, <1>3, TypeInit DEF Init, ServiceInv, SeatsOnce, Ready

\* No seat is taken, and no vacancy disappears.
NobodySeated ==
  \A s \in SeatIds : /\ ~IsUsed(s) <=> ~IsUsed(s)'
                     /\ ~IsUsed(s) => seat'[s] = seat[s]
                     /\ seat[s].status = "vacated" => seat'[s].status = "vacated"

\* Every step but a draw's commit seats nobody.
LEMMA OnlyDrawsSeat ==
  ASSUME ServiceInv, [Next]_vars, ~\E w \in Workers : CommitDraw(w) /\ ~Throw(w)
  PROVE  NobodySeated
<1>0. seat \in [SeatIds -> SeatRow] /\ \A w \in Workers : worker[w] \in WorkerState
  BY DEF ServiceInv, TypeInv, TypeOK
<1>1. CASE UNCHANGED seat
  BY <1>1 DEF NobodySeated, IsUsed
<1>2. ASSUME NEW s \in SeatIds, LeaveOrVote(s) PROVE NobodySeated
  <2>1. seat[s].status = "open" /\ seat[s] \in SeatRow
    BY <1>0, <1>2 DEF LeaveOrVote, Vacate, SubmitReview
  <2>2. PICK row : seat' = [seat EXCEPT ![s] = row] /\ row.status \in {"vacated", "submitted"}
    <3>1. \A v : /\ [seat[s] EXCEPT !.status = "vacated"].status = "vacated"
                 /\ [seat[s] EXCEPT !.status = "submitted", !.vote = v].status = "submitted"
      BY <2>1 DEF SeatRow
    <3>2. \/ seat' = [seat EXCEPT ![s] = [seat[s] EXCEPT !.status = "vacated"]]
          \/ \E v \in Positions :
               seat' = [seat EXCEPT ![s] = [seat[s] EXCEPT !.status = "submitted", !.vote = v]]
      BY <1>2 DEF LeaveOrVote, Vacate, SubmitReview
    <3> QED  BY <3>1, <3>2
  <2>3. seat'[s] = row /\ \A q \in SeatIds \ {s} : seat'[q] = seat[q]
    BY <1>0, <2>2
  <2> QED  BY <2>1, <2>2, <2>3 DEF NobodySeated, IsUsed
<1>3. ASSUME NEW w \in Workers, LinkReplacement(w) PROVE NobodySeated
  <2>1. /\ seat[Event(w).seat].status = "vacated"
        /\ Event(w) \in Events /\ Event(w).type = "assignment.vacated"
    BY <1>0, <1>3, WorkerFields DEF LinkReplacement, At, Event, ServiceInv, Serves
  <2>2. PICK q \in SeatIds : q = Event(w).seat
    BY <2>1, EventTypes
  <2>3. seat' = [seat EXCEPT ![q].replaced = TRUE]
    BY <1>3, <2>2 DEF LinkReplacement
  <2>4. \A row \in SeatRow : [row EXCEPT !.replaced = TRUE].status = row.status
    BY DEF SeatRow
  <2>5. seat'[q].status = seat[q].status /\ \A s \in SeatIds \ {q} : seat'[s] = seat[s]
    BY <1>0, <2>3, <2>4
  <2> QED  BY <2>1, <2>2, <2>5 DEF NobodySeated, IsUsed
<1>4. ASSUME NEW w \in Workers, HandlerStep(w) \/ Die(w), ~LinkReplacement(w)
      PROVE  UNCHANGED seat
  BY <1>4 DEF HandlerStep, Claim, Ack, Die, HandleCaseReadyForReview,
     HandleAssignmentVacated, EvaluateCase, ReadBallots, Publish, OpenPanel, CommitDraw,
     Throw, Proceed, caseVars, panelVars
<1>5. CASE FileAppeal \/ UNCHANGED vars
  BY <1>1, <1>5 DEF FileAppeal, vars, panelVars
<1> QED  BY <1>1, <1>2, <1>3, <1>4, <1>5 DEF Next

\* What a handler knows lasts while nobody is seated.
LEMMA ServesLasts ==
  ASSUME NobodySeated, NEW x \in WorkerState, Serves(x)
  PROVE  Serves(x)'
<1>1. ASSUME x.pc # "idle", x.event.type = "assignment.vacated"
      PROVE  seat'[x.event.seat].status = "vacated"
  <2>1. x.event.seat \in SeatIds
    BY <1>1, WorkerFields, EventTypes
  <2> QED  BY <1>1, <2>1 DEF Serves, NobodySeated
<1>2. ASSUME x.pc = "commit", NEW s \in SeatIds, s[2] \in DOMAIN x.seats PROVE ~IsUsed(s)'
  BY <1>2 DEF Serves, NobodySeated
<1> QED  BY <1>1, <1>2 DEF Serves

\* A draw seats people the case never seated.
LEMMA DrawServes ==
  ASSUME ServiceInv, NEW w \in Workers, OpenPanel(w)
  PROVE  \E x : worker' = [worker EXCEPT ![w] = x] /\ Serves(x)
<1>0. worker[w] \in WorkerState /\ Serves(worker[w]) /\ worker[w].pc = "draw"
  BY DEF ServiceInv, TypeInv, TypeOK, OpenPanel, At
<1>1. Serves(Idle) /\ Serves(Return(w))
  BY <1>0 DEF Serves, Idle, Return, Event
<1>2. ASSUME NEW d \in Panels(RequestedSlots(w), Reviewers \ PriorJurors(revision)),
             Proceed(w, [pc |-> "commit", event |-> Event(w), seats |-> d,
                         draw |-> [revision |-> revision, kind |-> worker[w].kind,
                                   round |-> DrawRound(w)]])
      PROVE  \E x : worker' = [worker EXCEPT ![w] = x] /\ Serves(x)
  <2> DEFINE x == [pc |-> "commit", event |-> Event(w), seats |-> d,
                   draw |-> [revision |-> revision, kind |-> worker[w].kind,
                             round |-> DrawRound(w)]]
  <2>1. DOMAIN d \subseteq Reviewers \ PriorJurors(revision)
    BY PanelsAreDrawn
  <2>2. ASSUME NEW s \in SeatIds, s[2] \in DOMAIN d PROVE ~IsUsed(s)
    <3>1. s = <<s[1], s[2]>> /\ s[1] \in Revisions /\ s[2] \in Reviewers
      BY DEF SeatIds
    <3>2. s[2] \notin SeatsWith(s[1], {"open", "submitted", "vacated"})
      BY <2>1, <2>2, <3>1 DEF PriorJurors
    <3>3. seat[s].status \notin {"open", "submitted", "vacated"}
      BY <3>1, <3>2 DEF SeatsWith
    <3>4. seat[s].status \in {"none", "open", "submitted", "vacated"}
      BY DEF ServiceInv, TypeInv, TypeOK, SeatRow
    <3> QED  BY <3>3, <3>4 DEF IsUsed
  <2>3. Serves(x)
    BY <1>0, <2>2 DEF Serves, Event
  <2> QED  BY <1>2, <2>3 DEF Proceed
<1> QED  BY <1>1, <1>2 DEF OpenPanel, Throw, Proceed

\* A handler takes nothing but a vacancy for one.
LEMMA HandlerServes ==
  ASSUME ServiceInv, NEW w \in Workers, HandlerStep(w) \/ Die(w), ~CommitDraw(w)
  PROVE  \E x : worker' = [worker EXCEPT ![w] = x] /\ Serves(x)
<1>0. Serves(worker[w]) /\ worker[w] \in WorkerState
  BY DEF ServiceInv, TypeInv, TypeOK
<1>1. Serves(Idle)
  BY DEF Serves, Idle
<1>2. worker[w].pc # "idle" => Serves(Return(w))
  BY <1>0 DEF Serves, Return, Event
<1>3. CASE Claim(w)
  <2>1. PICK e \in queue : worker' = [worker EXCEPT ![w] = [pc |-> "start", event |-> e]]
    BY <1>3 DEF Claim
  <2>2. Serves([pc |-> "start", event |-> e])
    BY DEF Serves, ServiceInv
  <2> QED  BY <2>1, <2>2
<1>4. CASE Ack(w) \/ Die(w) \/ Publish(w) \/ LinkReplacement(w)
  <2>1. Publish(w) \/ LinkReplacement(w) => worker[w].pc # "idle"
    BY DEF Publish, LinkReplacement, At
  <2> QED  BY <1>1, <1>2, <1>4, <2>1 DEF Ack, Die, Publish, LinkReplacement
<1>5. CASE HandleCaseReadyForReview(w) \/ HandleAssignmentVacated(w)
  <2>1. worker[w].pc = "start"
    BY <1>5 DEF HandleCaseReadyForReview, HandleAssignmentVacated, At
  <2>2. Serves(Draw(w, "initial", 0))
    BY <1>0, <2>1 DEF Serves, Draw, Event
  <2>3. Event(w).type = "assignment.vacated" => Serves(Draw(w, "replacement", 0))
    BY <1>0, <2>1 DEF Serves, Draw, Event
  <2> QED
    BY <1>2, <1>5, <2>1, <2>2, <2>3
    DEF HandleCaseReadyForReview, HandleAssignmentVacated, Proceed
<1>6. CASE EvaluateCase(w)
  <2> DEFINE jury == Cardinality(Serving(revision))
             x == [pc |-> "ballots", event |-> Event(w), revision |-> revision,
                   round |-> PanelRoundFor(revision, jury), jury |-> jury]
  <2>1. worker[w].pc = "start"
    BY <1>6 DEF EvaluateCase, At
  <2>2. Serves(x)
    BY <1>0, <2>1 DEF Serves, Event
  <2>3. worker' = [worker EXCEPT ![w] = Return(w)] \/ worker' = [worker EXCEPT ![w] = x]
    BY <1>6 DEF EvaluateCase, Proceed
  <2> QED  BY <1>2, <2>1, <2>2, <2>3
<1>7. CASE ReadBallots(w)
  <2> DEFINE x(o) == [pc |-> "publish", event |-> Event(w), revision |-> worker[w].revision,
                      outcome |-> o, jury |-> worker[w].jury]
  <2>1. worker[w].pc = "ballots"
    BY <1>7 DEF ReadBallots, At
  <2>2. \A o : Serves(x(o))
    BY <1>0, <2>1 DEF Serves, Event
  <2>3. Serves(Draw(w, "expansion", worker[w].round + 1))
    BY <1>0, <2>1 DEF Serves, Draw, Event
  <2>4. \/ \E o : worker' = [worker EXCEPT ![w] = x(o)]
        \/ worker' = [worker EXCEPT ![w] = Draw(w, "expansion", worker[w].round + 1)]
    BY <1>7 DEF ReadBallots, Proceed
  <2> QED  BY <2>2, <2>3, <2>4
<1>8. CASE OpenPanel(w)
  BY <1>8, DrawServes
<1> QED  BY <1>3, <1>4, <1>5, <1>6, <1>7, <1>8 DEF HandlerStep

\* The events left in the queue are of vacancies that last.
LEMMA QueueServes ==
  ASSUME ServiceInv, [Next]_vars, NobodySeated
  PROVE  \A e \in queue' : e.type = "assignment.vacated" => seat'[e.seat].status = "vacated"
<1>0. queue \subseteq Events /\ seat \in [SeatIds -> SeatRow]
  BY DEF ServiceInv, TypeInv, TypeOK
<1>1. ASSUME NEW e \in queue, e.type = "assignment.vacated"
      PROVE  seat'[e.seat].status = "vacated"
  <2>1. e.seat \in SeatIds
    BY <1>0, <1>1, EventTypes
  <2> QED  BY <1>1, <2>1 DEF ServiceInv, NobodySeated
<1>2. ASSUME NEW s \in SeatIds, Vacate(s)
      PROVE  queue' = queue \cup {Vacated(s)} /\ seat'[s].status = "vacated"
  <2>1. \A row \in SeatRow : [row EXCEPT !.status = "vacated"].status = "vacated"
    BY DEF SeatRow
  <2> QED  BY <1>0, <1>2, <2>1 DEF Vacate
<1>3. ASSUME NEW s \in SeatIds, NEW v \in Positions, SubmitReview(s, v)
      PROVE  queue' = queue \cup {ReviewSubmitted(s)}
  BY <1>3 DEF SubmitReview
<1>4. FileAppeal => queue' = queue \cup {Ready(revision + 1)}
  BY DEF FileAppeal
<1>5. ASSUME NEW w \in Workers, HandlerStep(w) \/ Die(w) PROVE queue' \subseteq queue
  BY <1>5 DEF HandlerStep, Claim, Ack, Die, HandleCaseReadyForReview,
     HandleAssignmentVacated, EvaluateCase, ReadBallots, Publish, OpenPanel, CommitDraw,
     LinkReplacement, Throw, Proceed
<1>6. UNCHANGED vars => queue' = queue
  BY DEF vars
<1>7. \/ queue' \subseteq queue
      \/ \E s \in SeatIds : queue' = queue \cup {Vacated(s)} /\ seat'[s].status = "vacated"
      \/ \E s \in SeatIds : queue' = queue \cup {ReviewSubmitted(s)}
      \/ queue' = queue \cup {Ready(revision + 1)}
  BY <1>2, <1>3, <1>4, <1>5, <1>6 DEF Next, LeaveOrVote
<1> QED  BY <1>1, <1>7 DEF Vacated, ReviewSubmitted, Ready

\* A draw that commits seats each of its people for the first time.
LEMMA CommitServes ==
  ASSUME crossed' = {}, ServiceInv, NEW w \in Workers, CommitDraw(w), ~Throw(w)
  PROVE  ServiceInv'
<1>1. PICK r, drawn : r = worker[w].draw.revision /\ drawn = worker[w].seats
  OBVIOUS
<1>2. /\ seat' = [s \in SeatIds |-> IF s[1] = r /\ s[2] \in DOMAIN drawn
                                    THEN OpenSeat(drawn[s[2]]) ELSE seat[s]]
      /\ queue' = queue /\ worker[w].pc = "commit"
      /\ worker' = [worker EXCEPT ![w] =
           IF worker[w].draw.kind = "replacement"
             THEN [pc |-> "link", event |-> Event(w)] ELSE Return(w)]
  BY <1>1 DEF CommitDraw, At
<1>3. TypeInv' /\ worker[w] \in WorkerState /\ Serves(worker[w])
  BY CommitType DEF ServiceInv, TypeInv, TypeOK
<1>4. \A s \in SeatIds : s[2] \in DOMAIN drawn => ~IsUsed(s)
  BY <1>1, <1>2, <1>3 DEF Serves
<1>5. \A t : OpenSeat(t).status = "open"
  BY DEF OpenSeat, NoSeat
<1>6. ASSUME NEW s \in SeatIds
      PROVE  IF s[1] = r /\ s[2] \in DOMAIN drawn
               THEN IsUsed(s)' /\ seat'[s].status = "open" /\ ~IsUsed(s)
               ELSE seat'[s] = seat[s] /\ (IsUsed(s)' <=> IsUsed(s))
  BY <1>2, <1>4, <1>5 DEF IsUsed
<1>7. \A s \in SeatIds : seat[s].status = "vacated" => seat'[s].status = "vacated"
  BY <1>6 DEF IsUsed
<1>8. SeatsOnce'
  <2>1. ASSUME NEW s \in SeatIds, ~IsUsed(s)' PROVE seat'[s] = NoSeat
    BY <1>6, <2>1 DEF ServiceInv, SeatsOnce
  <2>2. ASSUME NEW p \in Revisions, NEW q \in Revisions, NEW x \in Reviewers,
               IsUsed(<<p, x>>)', IsUsed(<<q, x>>)'
        PROVE  p = q
    <3>1. /\ <<p, x>> \in SeatIds /\ <<q, x>> \in SeatIds
          /\ <<p, x>>[1] = p /\ <<q, x>>[1] = q /\ <<p, x>>[2] = x /\ <<q, x>>[2] = x
      BY DEF SeatIds
    <3>2. CASE x \in DOMAIN drawn
      <4>1. ~IsUsed(<<p, x>>) /\ ~IsUsed(<<q, x>>)
        BY <1>4, <3>1, <3>2
      <4> QED  BY <1>6, <2>2, <3>1, <4>1
    <3>3. CASE x \notin DOMAIN drawn
      <4>1. IsUsed(<<p, x>>) /\ IsUsed(<<q, x>>)
        BY <1>6, <2>2, <3>1, <3>3
      <4> QED  BY <4>1 DEF ServiceInv, SeatsOnce
    <3> QED  BY <3>2, <3>3
  <2> QED  BY <2>1, <2>2 DEF SeatsOnce
<1>9. ASSUME NEW e \in queue', e.type = "assignment.vacated"
      PROVE  seat'[e.seat].status = "vacated"
  <2>1. e \in queue /\ e.seat \in SeatIds
    BY <1>2, <1>9, EventTypes DEF ServiceInv, TypeInv, TypeOK
  <2> QED  BY <1>7, <1>9, <2>1 DEF ServiceInv
<1>10. ASSUME NEW v \in Workers, v # w PROVE Serves(worker[v])'
  <2>1. PICK x : x = worker[v]
    OBVIOUS
  <2>2. x.pc \notin InFlight /\ x \in WorkerState /\ Serves(x)
    BY <1>10, <2>1, NoneInFlight DEF CommitDraw, ServiceInv, TypeInv, TypeOK
  <2>3. x.pc # "idle" /\ x.event.type = "assignment.vacated" => x.event.seat \in SeatIds
    BY <2>2, WorkerFields, EventTypes
  <2>4. Serves(x)'
    BY <1>7, <2>2, <2>3 DEF Serves, InFlight
  <2>5. worker'[v] = x
    BY <1>2, <1>10, <2>1 DEF ServiceInv, TypeInv, TypeOK
  <2> QED  BY <2>4, <2>5
<1>11. Serves(worker[w])'
  <2>1. PICK x : x = worker'[w]
    OBVIOUS
  <2>2. /\ x.pc \in {"link", "ack"} /\ x.event = Event(w)
        /\ x.pc = "link" => Event(w).type = "assignment.vacated"
    BY <1>2, <1>3, <2>1 DEF Return, Serves, Event, ServiceInv, TypeInv, TypeOK
  <2>3. Event(w).type = "assignment.vacated" => seat'[Event(w).seat].status = "vacated"
    <3>1. Event(w) \in Events
      BY <1>2, <1>3, WorkerFields DEF Event
    <3> QED  BY <1>2, <1>3, <1>7, <3>1, EventTypes DEF Serves, Event
  <2>4. Serves(x)'
    BY <2>2, <2>3 DEF Serves
  <2> QED  BY <2>1, <2>4
<1> QED  BY <1>3, <1>8, <1>9, <1>10, <1>11 DEF ServiceInv

LEMMA ServiceNext ==
  ASSUME crossed' = {}, ServiceInv, [Next]_vars
  PROVE  ServiceInv'
<1>1. CASE \E w \in Workers : CommitDraw(w) /\ ~Throw(w)
  BY <1>1, CommitServes
<1>2. CASE ~\E w \in Workers : CommitDraw(w) /\ ~Throw(w)
  <2>1. NobodySeated /\ TypeInv /\ TypeInv'
    BY <1>2, OnlyDrawsSeat, TypeNext DEF ServiceInv
  <2>2. SeatsOnce'
    <3>1. \A p \in Revisions, x \in Reviewers : <<p, x>> \in SeatIds
      BY DEF SeatIds
    <3> QED  BY <2>1, <3>1 DEF ServiceInv, SeatsOnce, NobodySeated
  <2>3. ASSUME NEW v \in Workers PROVE Serves(worker[v])'
    <3>1. worker[v] \in WorkerState /\ worker'[v] \in WorkerState /\ Serves(worker[v])
      BY <2>1 DEF ServiceInv, TypeInv, TypeOK
    <3>2. Serves(worker'[v])
      <4>1. ASSUME NEW w \in Workers, HandlerStep(w) \/ Die(w) PROVE Serves(worker'[v])
        <5>1. \E x : worker' = [worker EXCEPT ![w] = x] /\ Serves(x)
          <6>1. CASE CommitDraw(w)
            <7>1. worker' = [worker EXCEPT ![w] = Idle]
              BY <1>2, <6>1 DEF Throw, Proceed
            <7>2. Serves(Idle)
              BY DEF Serves, Idle
            <7> QED  BY <7>1, <7>2
          <6> QED  BY <4>1, <6>1, HandlerServes
        <5> QED  BY <3>1, <5>1 DEF ServiceInv, TypeInv, TypeOK
      <4>2. ASSUME worker' = worker PROVE Serves(worker'[v])
        BY <3>1, <4>2
      <4>3. ASSUME NEW s \in SeatIds, LeaveOrVote(s) PROVE worker' = worker
        BY <4>3 DEF LeaveOrVote, Vacate, SubmitReview, Environment
      <4>4. FileAppeal \/ UNCHANGED vars => worker' = worker
        BY DEF FileAppeal, vars
      <4> QED  BY <4>1, <4>2, <4>3, <4>4 DEF Next
    <3>3. PICK x : x = worker'[v]
      OBVIOUS
    <3>4. Serves(x)'
      BY <2>1, <3>1, <3>2, <3>3, ServesLasts
    <3> QED  BY <3>3, <3>4
  <2> QED  BY <2>1, <2>2, <2>3, QueueServes DEF ServiceInv
<1> QED  BY <1>1, <1>2

(***************************************************************************)
(* However handlers overlap, die and are run again: while none of them     *)
(* changes a panel under another one in flight, a draw that was delayed or *)
(* repeated, for a new panel, a vacancy or an appeal, never seats anybody  *)
(* the case seated before.                                                 *)
(***************************************************************************)
THEOREM NobodyServesTwice == Spec => []JurorsServeOnce
<1>1. ServiceInv => JurorsServeOnce
  <2> SUFFICES ASSUME ServiceInv, NEW x \in Reviewers
               PROVE  Cardinality({r \in Revisions : seat[<<r, x>>] # NoSeat}) <= 1
    BY DEF JurorsServeOnce
  <2>1. PICK S : S = {r \in Revisions : seat[<<r, x>>] # NoSeat}
    OBVIOUS
  <2>2. \A r \in Revisions : <<r, x>> \in SeatIds
    BY DEF SeatIds
  <2>3. \A p, q \in S : p = q
    BY <2>1, <2>2 DEF ServiceInv, SeatsOnce
  <2>4. S = {} \/ \E p : S = {p}
    BY <2>3
  <2>5. Cardinality(S) \in {0, 1}
    BY <2>4, FS_EmptySet, FS_Singleton
  <2> QED  BY <2>1, <2>5
<1> DEFINE Inv == crossed = {} => ServiceInv
<1>2. Init => Inv
  BY ServiceInit
<1>3. Inv /\ [Next]_vars => Inv'
  BY ServiceNext, CrossingsAreKept
<1>4. Inv => JurorsServeOnce
  BY <1>1 DEF JurorsServeOnce
<1> HIDE DEF Inv
<1> QED  BY <1>2, <1>3, <1>4, PTL DEF Spec

-----------------------------------------------------------------------------
(***************************************************************************)
(* What a jury that was heard looks like, and what a handler that nobody   *)
(* crosses knows of the jury it evaluates or draws for.                    *)
(***************************************************************************)
Complete(r) == SeatsWith(r, {"open"}) = {} /\ OutstandingVacancies(r) = {}

\* The outcome is what all the ballots of the jury, counted once more, say.
Verdict(r, o) ==
  LET round == PanelRoundFor(r, Cardinality(Submitted(r)))
  IN  IF Agreed(r, round) # {} THEN o \in Agreed(r, round)
      ELSE o = "inconclusive" /\ round = MaxRound

Heard(r, o) == Complete(r) /\ HasPanel(r) /\ Verdict(r, o)

Evaluates(x) ==
  /\ x.pc \in {"ballots", "publish"} =>
       x.revision \in 1..revision /\ Complete(x.revision) /\ HasPanel(x.revision)
  /\ x.pc = "ballots" => /\ x.jury = Cardinality(Submitted(x.revision))
                         /\ x.round = PanelRoundFor(x.revision, x.jury)
  /\ x.pc = "publish" => Verdict(x.revision, x.outcome)

\* Why a draw was begun holds until it is committed, so nobody decides meanwhile.
Undecided(kind, e) ==
  /\ kind = "initial" => ~HasPanel(revision)
  /\ kind = "replacement" => ~seat[e.seat].replaced
  /\ kind = "expansion" => Complete(revision) /\ \A o : ~Verdict(revision, o)

\* Seats are only drawn for a revision that is not decided, and replaced in it.
DrawsFor(x) ==
  /\ x.pc \in {"draw", "commit", "link"} => decided < revision
  /\ x.pc = "draw" => /\ x.kind = "replacement" => x.event.seat[1] = revision
                      /\ Undecided(x.kind, x.event)
  /\ x.pc = "commit" => /\ x.draw.revision = revision
                        /\ x.draw.kind = "replacement" => x.event.seat[1] = revision
                        /\ Undecided(x.draw.kind, x.event)
  /\ x.pc = "link" => /\ x.event.seat[1] = revision
                      /\ Undecided("replacement", x.event)

HeardInv ==
  /\ ServiceInv
  /\ decided \in {revision - 1, revision}
  /\ \A s \in SeatIds : IsUsed(s) => s[1] <= revision
  /\ \A r \in 1..decided : Heard(r, decision[r].outcome)
  /\ \A w \in Workers : Evaluates(worker[w]) /\ DrawsFor(worker[w])

\* A step leaves the jury of a revision alone.
Untouched(r) ==
  bar'[r] = bar[r] /\ \A x \in Reviewers : seat'[<<r, x>>] = seat[<<r, x>>]

LEMMA UntouchedJury ==
  ASSUME NEW r \in Revisions, Untouched(r)
  PROVE  /\ Complete(r)' <=> Complete(r)
         /\ HasPanel(r)' <=> HasPanel(r)
         /\ Submitted(r)' = Submitted(r) /\ Serving(r)' = Serving(r)
         /\ \A n : Agreed(r, n)' = Agreed(r, n)
         /\ \A o : Verdict(r, o)' <=> Verdict(r, o)
<1>1. \A statuses : SeatsWith(r, statuses)' = SeatsWith(r, statuses)
  BY DEF Untouched, SeatsWith
<1>2. OutstandingVacancies(r)' = OutstandingVacancies(r)
  BY <1>1 DEF OutstandingVacancies, SeatsWith, Untouched
<1>3. Submitted(r)' = Submitted(r) /\ Serving(r)' = Serving(r)
  BY <1>1 DEF Submitted, Serving
<1>4. \A v : Votes(r, v)' = Votes(r, v)
  <2>1. \A v : {x \in Submitted(r) : seat[<<r, x>>].vote = v}'
               = {x \in Submitted(r) : seat[<<r, x>>].vote = v}
    BY <1>3 DEF Submitted, SeatsWith, Untouched
  <2> QED  BY <2>1 DEF Votes
<1>5. ASSUME NEW n PROVE Agreed(r, n)' = Agreed(r, n)
  BY <1>4 DEF Agreed, EnoughVotes, Untouched
<1>6. ASSUME NEW o PROVE Verdict(r, o)' <=> Verdict(r, o)
  BY <1>3, <1>5 DEF Verdict
<1>7. (Complete(r)' <=> Complete(r)) /\ (HasPanel(r)' <=> HasPanel(r))
  BY <1>1, <1>2 DEF Complete, HasPanel
<1> QED  BY <1>3, <1>5, <1>6, <1>7

LEMMA HeardInit == Init => HeardInv
<1> SUFFICES ASSUME Init PROVE HeardInv
  OBVIOUS
<1>1. ServiceInv
  BY ServiceInit
<1>2. decided = 0 /\ revision = 1
  BY DEF Init
<1>3. \A s \in SeatIds : ~IsUsed(s)
  BY DEF Init, NoSeat, IsUsed
<1>4. \A w \in Workers : Evaluates(worker[w]) /\ DrawsFor(worker[w])
  BY DEF Init, Idle, Evaluates, DrawsFor
<1> QED  BY <1>1, <1>2, <1>3, <1>4 DEF HeardInv

\* A step that seats somebody, or settles a vacancy.
WritesPanel(w) == (CommitDraw(w) /\ ~Throw(w)) \/ LinkReplacement(w)

\* Such a step moves a handler on.
LEMMA WritersMove ==
  ASSUME TypeOK, NEW w \in Workers, WritesPanel(w)
  PROVE  worker' # worker
<1>1. PICK x : worker' = [worker EXCEPT ![w] = x] /\ x.pc \in {"link", "ack"}
  <2>1. [pc |-> "link", event |-> Event(w)].pc = "link" /\ Return(w).pc = "ack"
    BY DEF Return
  <2>2. \E x \in {[pc |-> "link", event |-> Event(w)], Return(w)} :
          worker' = [worker EXCEPT ![w] = x]
    BY DEF WritesPanel, CommitDraw, LinkReplacement
  <2> QED  BY <2>1, <2>2
<1>2. worker'[w] = x
  BY <1>1 DEF TypeOK
<1>3. CASE worker[w].pc = "commit"
  BY <1>1, <1>2, <1>3
<1>4. CASE LinkReplacement(w)
  <2>1. Return(w).pc = "ack" /\ worker'[w] = Return(w) /\ worker[w].pc = "link"
    BY <1>4 DEF LinkReplacement, Return, At, TypeOK
  <2> QED  BY <2>1
<1> QED  BY <1>3, <1>4 DEF WritesPanel, CommitDraw, At

\* A decided jury is left alone, and so is a complete one unless somebody draws for it.
LEMMA JuryUntouched ==
  ASSUME HeardInv, [Next]_vars, NEW r \in 1..revision, Complete(r),
         r <= decided \/ \A w \in Workers : ~WritesPanel(w)
  PROVE  Untouched(r)
<1>0. TypeOK /\ ServiceInv /\ r \in Revisions /\ r \in Nat /\ revision \in Nat /\ decided \in Nat
  <2>1. TypeOK /\ ServiceInv
    BY DEF HeardInv, ServiceInv, TypeInv
  <2>2. revision \in 1..MaxRevision /\ decided \in 0..MaxRevision /\ MaxRevision \in Nat
    BY <2>1, PanelAssumption DEF TypeOK, Revisions
  <2> QED  BY <2>1, <2>2 DEF Revisions
<1>1. CASE UNCHANGED <<bar, seat>>
  BY <1>1 DEF Untouched
<1>2. ASSUME NEW s \in SeatIds, LeaveOrVote(s) PROVE Untouched(r)
  <2>1. /\ seat[s].status = "open" /\ UNCHANGED bar
        /\ \A q \in SeatIds \ {s} : seat'[q] = seat[q]
    BY <1>0, <1>2 DEF LeaveOrVote, Vacate, SubmitReview, Environment, caseVars, TypeOK
  <2>2. s = <<s[1], s[2]>> /\ s[2] \in Reviewers
    BY DEF SeatIds
  <2>3. s[1] # r
    BY <2>1, <2>2 DEF Complete, SeatsWith
  <2>4. \A x \in Reviewers : <<r, x>> \in SeatIds \ {s}
    BY <1>0, <2>2, <2>3 DEF SeatIds
  <2> QED  BY <2>1, <2>4 DEF Untouched
<1>3. CASE FileAppeal
  <2>1. UNCHANGED seat
    BY <1>3 DEF FileAppeal, panelVars
  <2>2. PICK n : bar' = [bar EXCEPT ![revision + 1] = n]
    BY <1>3 DEF FileAppeal
  <2>3. r # revision + 1
    BY <1>0
  <2> QED  BY <1>0, <2>1, <2>2, <2>3 DEF Untouched, TypeOK
<1>4. ASSUME NEW w \in Workers, CommitDraw(w), ~Throw(w) PROVE Untouched(r)
  <2>1. /\ seat' = [s \in SeatIds |->
                      IF s[1] = worker[w].draw.revision /\ s[2] \in DOMAIN worker[w].seats
                      THEN OpenSeat(worker[w].seats[s[2]]) ELSE seat[s]]
        /\ UNCHANGED bar /\ worker[w].pc = "commit"
    BY <1>4 DEF CommitDraw, caseVars, At
  <2>2. worker[w].draw.revision = revision /\ decided < revision /\ r <= decided
    BY <1>4, <2>1 DEF HeardInv, DrawsFor, WritesPanel
  <2>3. r # revision
    BY <1>0, <2>2
  <2>4. \A x \in Reviewers : <<r, x>> \in SeatIds /\ <<r, x>>[1] = r
    BY <1>0 DEF SeatIds
  <2> QED  BY <2>1, <2>2, <2>3, <2>4 DEF Untouched
<1>5. ASSUME NEW w \in Workers, LinkReplacement(w) PROVE Untouched(r)
  <2>1. worker[w].pc = "link" /\ UNCHANGED bar
        /\ seat' = [seat EXCEPT ![worker[w].event.seat].replaced = TRUE]
    BY <1>5 DEF LinkReplacement, At, Event, caseVars
  <2>2. worker[w].event.seat[1] = revision /\ decided < revision /\ r <= decided
    BY <1>5, <2>1 DEF HeardInv, DrawsFor, WritesPanel
  <2>3. \A x \in Reviewers : <<r, x>> \in SeatIds /\ <<r, x>>[1] # revision
    BY <1>0, <2>2 DEF SeatIds
  <2> QED  BY <1>0, <2>1, <2>2, <2>3 DEF Untouched, TypeOK
<1>6. ASSUME NEW w \in Workers, HandlerStep(w) \/ Die(w), ~LinkReplacement(w),
             ~CommitDraw(w) \/ Throw(w)
      PROVE  UNCHANGED <<bar, seat>>
  BY <1>6 DEF HandlerStep, Claim, Ack, Die, HandleCaseReadyForReview,
     HandleAssignmentVacated, EvaluateCase, ReadBallots, Publish, OpenPanel, Throw,
     Proceed, caseVars, panelVars
<1>7. CASE UNCHANGED vars
  BY <1>1, <1>7 DEF vars, caseVars, panelVars
<1> QED  BY <1>1, <1>2, <1>3, <1>4, <1>5, <1>6, <1>7 DEF Next

\* A panel that waits for nobody has voted in full.
LEMMA CompleteHasVoted ==
  ASSUME NEW r, Complete(r)
  PROVE  Serving(r) = Submitted(r)
BY DEF Complete, Serving, Submitted, SeatsWith

\* What the handler moves to, for each of its steps.
Follows(w) ==
  \E x : worker' = [worker EXCEPT ![w] = x] /\ Evaluates(x) /\ DrawsFor(x)

LEMMA Ignorant ==
  /\ \A x : x.pc \in {"idle", "start", "ack"} => Evaluates(x) /\ DrawsFor(x)
  /\ \A x : x.pc = "link" => Evaluates(x)
BY DEF Evaluates, DrawsFor

\* A vacancy that is owed is one of the current revision, before its decision.
LEMMA VacancyIsCurrent ==
  ASSUME HeardInv, NEW s \in SeatIds, seat[s].status = "vacated", ~seat[s].replaced
  PROVE  s[1] = revision /\ decided < revision
<1>0. decided \in Nat /\ revision \in Nat /\ decided \in {revision - 1, revision}
  BY PanelAssumption DEF HeardInv, ServiceInv, TypeInv, TypeOK, Revisions
<1>1. s = <<s[1], s[2]>> /\ s[1] \in Nat \ {0} /\ s[2] \in Reviewers
  BY PanelAssumption DEF SeatIds, Revisions
<1>2. s[1] <= revision
  BY DEF HeardInv, IsUsed
<1>3. s[2] \in OutstandingVacancies(s[1])
  BY <1>1 DEF OutstandingVacancies, SeatsWith
<1>4. s[1] \notin 1..decided
  BY <1>3 DEF HeardInv, Heard, Complete
<1> QED  BY <1>0, <1>1, <1>2, <1>4

LEMMA EntryFollows ==
  ASSUME HeardInv, NEW w \in Workers,
         HandleCaseReadyForReview(w) \/ HandleAssignmentVacated(w) \/ EvaluateCase(w)
  PROVE  Follows(w)
<1>0. /\ decided \in Nat /\ revision \in Nat \ {0} /\ decided \in {revision - 1, revision}
      /\ revision \in 1..revision /\ revision \in Revisions
  BY PanelAssumption DEF HeardInv, ServiceInv, TypeInv, TypeOK, Revisions
<1>1. worker[w].pc = "start" /\ worker[w] \in WorkerState /\ Serves(worker[w])
  BY DEF HandleCaseReadyForReview, HandleAssignmentVacated, EvaluateCase, At,
     HeardInv, ServiceInv, TypeInv, TypeOK
<1>2. Evaluates(Return(w)) /\ DrawsFor(Return(w))
  BY Ignorant DEF Return
<1>3. CASE HandleCaseReadyForReview(w)
  <2>1. ASSUME ~HasPanel(revision) PROVE decided < revision
    BY <1>0, <2>1 DEF HeardInv, Heard
  <2>2. decided < revision /\ ~HasPanel(revision) =>
          Evaluates(Draw(w, "initial", 0)) /\ DrawsFor(Draw(w, "initial", 0))
    BY DEF Evaluates, DrawsFor, Draw, Undecided
  <2> QED
    BY <1>2, <1>3, <2>1, <2>2 DEF HandleCaseReadyForReview, Proceed, Follows
<1>4. CASE HandleAssignmentVacated(w)
  <2>1. /\ Event(w).seat \in SeatIds /\ seat[Event(w).seat].status = "vacated"
        /\ Event(w) = worker[w].event
    BY <1>1, <1>4, WorkerFields, EventTypes DEF HandleAssignmentVacated, Event, Serves
  <2>2. ASSUME ~seat[Event(w).seat].replaced
        PROVE  Evaluates(Draw(w, "replacement", 0)) /\ DrawsFor(Draw(w, "replacement", 0))
    <3>1. Event(w).seat[1] = revision /\ decided < revision
      BY <2>1, <2>2, VacancyIsCurrent
    <3> QED  BY <2>2, <3>1 DEF Evaluates, DrawsFor, Draw, Undecided
  <2> QED  BY <1>2, <1>4, <2>2 DEF HandleAssignmentVacated, Proceed, Follows
<1>5. CASE EvaluateCase(w)
  <2> DEFINE jury == Cardinality(Serving(revision))
             x == [pc |-> "ballots", event |-> Event(w), revision |-> revision,
                   round |-> PanelRoundFor(revision, jury), jury |-> jury]
  <2>1. CASE Proceed(w, Return(w))
    BY <1>2, <2>1 DEF Proceed, Follows
  <2>2. CASE ~Proceed(w, Return(w))
    <3>1. /\ Serving(revision) # {} /\ OutstandingVacancies(revision) = {}
          /\ PendingSeats(revision) = {} /\ Proceed(w, x)
      BY <1>5, <2>2 DEF EvaluateCase
    <3>2. Complete(revision) /\ HasPanel(revision)
      BY <3>1 DEF Complete, PendingSeats, HasPanel, Serving, SeatsWith
    <3>3. Serving(revision) = Submitted(revision)
      BY <3>2, CompleteHasVoted
    <3>4. Evaluates(x) /\ DrawsFor(x)
      BY <1>0, <3>2, <3>3 DEF Evaluates, DrawsFor
    <3> QED  BY <3>1, <3>4 DEF Proceed, Follows
  <2> QED  BY <2>1, <2>2
<1> QED  BY <1>3, <1>4, <1>5

\* What is published is the verdict; what is expanded is not decided.
LEMMA BallotsFollow ==
  ASSUME HeardInv, NEW w \in Workers, ReadBallots(w)
  PROVE  /\ Follows(w)
         /\ worker'[w].pc = "draw" =>
              /\ worker[w].revision = revision
              /\ worker'[w] = Draw(w, "expansion", worker[w].round + 1)
              /\ worker[w].round < MaxRound
<1>0. /\ TypeOK /\ worker[w].pc = "ballots" /\ Evaluates(worker[w])
      /\ decided \in Nat /\ revision \in Nat /\ decided \in {revision - 1, revision}
  BY PanelAssumption DEF HeardInv, ServiceInv, TypeInv, TypeOK, Revisions, ReadBallots, At
<1>1. PICK r, round, jury : /\ r = worker[w].revision /\ round = worker[w].round
                            /\ jury = worker[w].jury
  OBVIOUS
<1>2. /\ r \in 1..revision /\ Complete(r) /\ HasPanel(r)
      /\ jury = Cardinality(Submitted(r)) /\ round = PanelRoundFor(r, jury)
  BY <1>0, <1>1 DEF Evaluates
<1>3. round = PanelRoundFor(r, Cardinality(Submitted(r)))
  BY <1>2
<1>4. r \in Revisions /\ jury \in Nat
  BY <1>0, <1>2, PanelAssumption, CountsAreNat DEF TypeOK, Revisions, Submitted
<1>5. round \in 1..MaxRound /\ MaxRound \in Nat
  BY <1>2, <1>4, RoundIsRound, LadderAssumption
<1>6. ASSUME NEW o, Verdict(r, o),
             worker' = [worker EXCEPT ![w] =
               [pc |-> "publish", event |-> Event(w), revision |-> r,
                outcome |-> o, jury |-> jury]]
      PROVE  Follows(w) /\ worker'[w].pc = "publish"
  <2> DEFINE x == [pc |-> "publish", event |-> Event(w), revision |-> r,
                   outcome |-> o, jury |-> jury]
  <2>1. Evaluates(x) /\ DrawsFor(x)
    BY <1>2, <1>6 DEF Evaluates, DrawsFor
  <2> QED  BY <1>0, <1>6, <2>1 DEF Follows, TypeOK
<1>7. ASSUME NEW v \in Agreed(r, round) PROVE Verdict(r, v)
  BY <1>3, <1>7 DEF Verdict
<1>8. ASSUME Agreed(r, round) = {}, ~MayExpand(round) PROVE Verdict(r, "inconclusive")
  <2>1. round = MaxRound
    BY <1>5, <1>8 DEF MayExpand
  <2> QED  BY <1>3, <1>8, <2>1 DEF Verdict
<1>9. ASSUME Agreed(r, round) = {}, MayExpand(round),
             worker' = [worker EXCEPT ![w] = Draw(w, "expansion", round + 1)]
      PROVE  Follows(w) /\ r = revision /\ worker'[w] = Draw(w, "expansion", round + 1)
  <2>1. round < MaxRound /\ round # MaxRound
    BY <1>5, <1>9 DEF MayExpand
  <2>2. \A o : ~Verdict(r, o)
    BY <1>3, <1>9, <2>1 DEF Verdict
  <2>3. r \notin 1..decided
    BY <2>2 DEF HeardInv, Heard
  <2>4. r = revision /\ decided < revision
    BY <1>0, <1>2, <2>3
  <2>5. Evaluates(Draw(w, "expansion", round + 1)) /\ DrawsFor(Draw(w, "expansion", round + 1))
    BY <1>2, <2>2, <2>4 DEF Evaluates, DrawsFor, Draw, Undecided
  <2> QED  BY <1>0, <1>9, <2>4, <2>5 DEF Follows, TypeOK
<1>10. \/ \E o : /\ Verdict(r, o)
                 /\ worker' = [worker EXCEPT ![w] =
                      [pc |-> "publish", event |-> Event(w), revision |-> r,
                       outcome |-> o, jury |-> jury]]
       \/ /\ Agreed(r, round) = {} /\ MayExpand(round)
          /\ worker' = [worker EXCEPT ![w] = Draw(w, "expansion", round + 1)]
  BY <1>1, <1>7, <1>8 DEF ReadBallots, Proceed
<1>11. CASE \E o : /\ Verdict(r, o)
                   /\ worker' = [worker EXCEPT ![w] =
                        [pc |-> "publish", event |-> Event(w), revision |-> r,
                         outcome |-> o, jury |-> jury]]
  BY <1>6, <1>11
<1> QED  BY <1>1, <1>9, <1>10, <1>11 DEF MayExpand

LEMMA HandlerFollows ==
  ASSUME HeardInv, NEW w \in Workers, HandlerStep(w) \/ Die(w)
  PROVE  Follows(w)
<1>0. DrawsFor(worker[w])
  BY DEF HeardInv
<1>1. CASE Claim(w) \/ Ack(w) \/ Die(w)
  <2>1. PICK x : worker' = [worker EXCEPT ![w] = x] /\ x.pc \in {"idle", "start"}
    BY <1>1 DEF Claim, Ack, Die, Idle
  <2>2. Evaluates(x) /\ DrawsFor(x)
    BY <2>1, Ignorant
  <2> QED  BY <2>1, <2>2 DEF Follows
<1>2. CASE Publish(w) \/ LinkReplacement(w)
  <2>1. worker' = [worker EXCEPT ![w] = Return(w)] /\ Return(w).pc = "ack"
    BY <1>2 DEF Publish, LinkReplacement, Return
  <2>2. Evaluates(Return(w)) /\ DrawsFor(Return(w))
    BY <2>1, Ignorant
  <2> QED  BY <2>1, <2>2 DEF Follows
<1>3. CASE OpenPanel(w)
  <2>1. worker[w].pc = "draw"
    BY <1>3 DEF OpenPanel, At
  <2>2. \/ \E x : worker' = [worker EXCEPT ![w] = x] /\ x.pc \in {"idle", "ack"}
        \/ \E d : worker' = [worker EXCEPT ![w] =
             [pc |-> "commit", event |-> Event(w), seats |-> d,
              draw |-> [revision |-> revision, kind |-> worker[w].kind,
                        round |-> DrawRound(w)]]]
    BY <1>3 DEF OpenPanel, Throw, Proceed, Idle, Return
  <2>3. \A d : LET x == [pc |-> "commit", event |-> Event(w), seats |-> d,
                         draw |-> [revision |-> revision, kind |-> worker[w].kind,
                                   round |-> DrawRound(w)]]
               IN  Evaluates(x) /\ DrawsFor(x)
    BY <1>0, <2>1 DEF Evaluates, DrawsFor, Event
  <2>4. ASSUME NEW x, worker' = [worker EXCEPT ![w] = x], x.pc \in {"idle", "ack"}
        PROVE  Follows(w)
    <3>1. Evaluates(x) /\ DrawsFor(x)
      BY <2>4, Ignorant
    <3> QED  BY <2>4, <3>1 DEF Follows
  <2>5. ASSUME NEW x, worker' = [worker EXCEPT ![w] = x], Evaluates(x), DrawsFor(x)
        PROVE  Follows(w)
    BY <2>5 DEF Follows
  <2> QED  BY <2>2, <2>3, <2>4, <2>5
<1>4. CASE CommitDraw(w)
  <2>1. worker[w].pc = "commit"
    BY <1>4 DEF CommitDraw, At
  <2>2. \/ worker' = [worker EXCEPT ![w] = Idle]
        \/ worker' = [worker EXCEPT ![w] = Return(w)]
        \/ /\ worker[w].draw.kind = "replacement"
           /\ worker' = [worker EXCEPT ![w] = [pc |-> "link", event |-> Event(w)]]
    BY <1>4 DEF CommitDraw, Throw, Proceed
  <2>3. LET x == [pc |-> "link", event |-> Event(w)]
        IN  worker[w].draw.kind = "replacement" => Evaluates(x) /\ DrawsFor(x)
    BY <1>0, <2>1 DEF Evaluates, DrawsFor, Event
  <2>4. Evaluates(Idle) /\ DrawsFor(Idle) /\ Evaluates(Return(w)) /\ DrawsFor(Return(w))
    BY Ignorant DEF Idle, Return
  <2> QED  BY <2>2, <2>3, <2>4 DEF Follows
<1> QED  BY <1>1, <1>2, <1>3, <1>4, EntryFollows, BallotsFollow DEF HandlerStep

\* Steps that leave the case and its panel as they are.
LEMMA QuietSteps ==
  ASSUME NEW w \in Workers, HandlerStep(w) \/ Die(w), ~Publish(w), ~LinkReplacement(w),
         ~CommitDraw(w) \/ Throw(w)
  PROVE  UNCHANGED <<caseVars, panelVars>>
BY DEF HandlerStep, Claim, Ack, Die, HandleCaseReadyForReview, HandleAssignmentVacated,
   EvaluateCase, ReadBallots, OpenPanel, Throw, Proceed

\* The decision that a step adds is what its handler counted.
LEMMA PublishIsHeard ==
  ASSUME HeardInv, NEW w \in Workers, Publish(w)
  PROVE  /\ UNCHANGED <<revision, bar, seat>>
         /\ decided' \in {revision - 1, revision}
         /\ \A r \in 1..decided' : Heard(r, decision'[r].outcome)
<1>0. /\ TypeOK /\ decided \in Nat /\ revision \in Nat \ {0}
      /\ decided \in {revision - 1, revision} /\ revision \in Revisions
  <2>1. TypeOK /\ decided \in {revision - 1, revision}
    BY DEF HeardInv, ServiceInv, TypeInv
  <2>2. revision \in Revisions /\ decided \in 0..MaxRevision
    BY <2>1 DEF TypeOK
  <2> QED
    BY <2>1, <2>2, PanelAssumption DEF Revisions
<1>1. UNCHANGED <<revision, bar, seat>>
  BY DEF Publish, panelVars
<1>2. CASE UNCHANGED <<decided, decision>>
  BY <1>0, <1>1, <1>2 DEF HeardInv
<1>3. CASE ~UNCHANGED <<decided, decision>>
  <2>1. /\ worker[w].revision = revision /\ decided < revision /\ decided' = revision
        /\ decision' = [decision EXCEPT ![revision] =
             [outcome |-> worker[w].outcome, jury |-> worker[w].jury]]
        /\ worker[w].pc = "publish"
    BY <1>3 DEF Publish, At
  <2>2. Heard(revision, worker[w].outcome)
    BY <2>1 DEF HeardInv, Evaluates, Heard
  <2>3. decision'[revision].outcome = worker[w].outcome
    BY <1>0, <2>1 DEF TypeOK
  <2>4. ASSUME NEW r \in 1..decided PROVE Heard(r, decision'[r].outcome)
    <3>1. r # revision /\ r \in Revisions
      BY <1>0, <2>1, PanelAssumption DEF TypeOK, Revisions
    <3>2. decision'[r] = decision[r]
      BY <1>0, <2>1, <3>1 DEF TypeOK
    <3> QED  BY <3>2 DEF HeardInv
  <2>5. \A r \in 1..decided' : r = revision \/ r \in 1..decided
    BY <1>0, <2>1
  <2> QED  BY <1>0, <1>1, <2>1, <2>2, <2>3, <2>4, <2>5
<1> QED  BY <1>2, <1>3

\* Only the pointer of a vacancy settles it.
LEMMA OnlyLinksReplace ==
  ASSUME ServiceInv, [Next]_vars, \A w \in Workers : ~LinkReplacement(w),
         NEW s \in SeatIds, IsUsed(s)
  PROVE  seat'[s].replaced = seat[s].replaced
<1>0. seat \in [SeatIds -> SeatRow] /\ \A w \in Workers : Serves(worker[w])
  BY DEF ServiceInv, TypeInv, TypeOK
<1>1. ASSUME NEW q \in SeatIds, LeaveOrVote(q) PROVE seat'[s].replaced = seat[s].replaced
  <2>1. LET row == [seat[q] EXCEPT !.status = "vacated"] IN row.replaced = seat[q].replaced
    BY <1>0 DEF SeatRow
  <2>2. \A v : LET row == [seat[q] EXCEPT !.status = "submitted", !.vote = v]
               IN  row.replaced = seat[q].replaced
    BY <1>0 DEF SeatRow
  <2>3. PICK row : seat' = [seat EXCEPT ![q] = row] /\ row.replaced = seat[q].replaced
    <3>1. CASE Vacate(q)
      BY <2>1, <3>1 DEF Vacate
    <3>2. ASSUME NEW v \in Positions, SubmitReview(q, v)
          PROVE  \E row : seat' = [seat EXCEPT ![q] = row] /\ row.replaced = seat[q].replaced
      <4>1. PICK row : /\ row = [seat[q] EXCEPT !.status = "submitted", !.vote = v]
                       /\ row.replaced = seat[q].replaced
        BY <2>2
      <4> QED  BY <3>2, <4>1 DEF SubmitReview
    <3> QED  BY <1>1, <3>1, <3>2 DEF LeaveOrVote
  <2> QED  BY <1>0, <2>3
<1>2. ASSUME NEW w \in Workers, CommitDraw(w), ~Throw(w)
      PROVE  seat'[s].replaced = seat[s].replaced
  <2>1. /\ seat' = [q \in SeatIds |->
                      IF q[1] = worker[w].draw.revision /\ q[2] \in DOMAIN worker[w].seats
                      THEN OpenSeat(worker[w].seats[q[2]]) ELSE seat[q]]
        /\ worker[w].pc = "commit"
    BY <1>2 DEF CommitDraw, At
  <2>2. s[2] \notin DOMAIN worker[w].seats
    BY <1>0, <2>1 DEF Serves
  <2> QED  BY <2>1, <2>2
<1>3. ASSUME NEW w \in Workers, HandlerStep(w) \/ Die(w), ~CommitDraw(w) \/ Throw(w)
      PROVE  UNCHANGED seat
  BY <1>3 DEF HandlerStep, Claim, Ack, Die, HandleCaseReadyForReview,
     HandleAssignmentVacated, EvaluateCase, ReadBallots, Publish, OpenPanel, Throw,
     Proceed, panelVars
<1>4. CASE FileAppeal \/ UNCHANGED vars
  BY <1>4 DEF FileAppeal, vars, panelVars
<1> QED  BY <1>1, <1>2, <1>3, <1>4 DEF Next

\* What a draw waits for is unchanged by votes and vacancies.
LEMMA UndecidedLasts ==
  ASSUME HeardInv, [Next]_vars, UNCHANGED <<revision, worker>>, NEW kind, NEW e,
         kind = "replacement" => e.seat \in SeatIds /\ IsUsed(e.seat),
         Undecided(kind, e)
  PROVE  Undecided(kind, e)'
<1>0. /\ ServiceInv /\ TypeOK /\ revision \in Revisions /\ revision \in 1..revision
      /\ seat \in [SeatIds -> SeatRow]
  BY PanelAssumption DEF HeardInv, ServiceInv, TypeInv, TypeOK, Revisions
<1>1. \A w \in Workers : ~WritesPanel(w)
  BY <1>0, WritersMove
<1>2. NobodySeated
  BY <1>0, <1>1, OnlyDrawsSeat DEF WritesPanel
<1>3. HasPanel(revision)' => HasPanel(revision)
  <2>1. ASSUME NEW p \in Reviewers,
               seat'[<<revision, p>>].status \in {"open", "submitted", "vacated"}
        PROVE  seat[<<revision, p>>].status \in {"open", "submitted", "vacated"}
    <3>1. <<revision, p>> \in SeatIds
      BY <1>0 DEF SeatIds
    <3>2. IsUsed(<<revision, p>>)'
      BY <2>1 DEF IsUsed
    <3>3. IsUsed(<<revision, p>>)
      BY <1>2, <3>1, <3>2 DEF NobodySeated
    <3>4. seat[<<revision, p>>].status \in {"none", "open", "submitted", "vacated"}
      BY <1>0, <3>1 DEF SeatRow
    <3> QED  BY <3>3, <3>4 DEF IsUsed
  <2> QED  BY <2>1 DEF HasPanel, SeatsWith
<1>4. kind = "replacement" => seat'[e.seat].replaced = seat[e.seat].replaced
  BY <1>0, <1>1, OnlyLinksReplace DEF WritesPanel
<1>5. Complete(revision) => Untouched(revision)
  BY <1>0, <1>1, JuryUntouched
<1>6. CASE kind = "expansion"
  <2>1. Untouched(revision)
    BY <1>5, <1>6 DEF Undecided
  <2>2. Complete(revision)' /\ \A o : ~Verdict(revision, o)'
    BY <1>0, <1>6, <2>1, UntouchedJury DEF Undecided
  <2> QED  BY <1>6, <2>2 DEF Undecided
<1>7. CASE kind # "expansion"
  BY <1>3, <1>4, <1>7 DEF Undecided
<1> QED  BY <1>6, <1>7

\* Nobody publishes while a draw of the revision is on its way.
LEMMA PublishWaitsForDraws ==
  ASSUME HeardInv, NEW w \in Workers, Publish(w), NEW v \in Workers,
         worker[v].pc \in {"draw", "commit", "link"}
  PROVE  UNCHANGED caseVars
<1> SUFFICES ASSUME ~UNCHANGED <<decided, decision>> PROVE FALSE
  BY DEF Publish, caseVars
<1>1. /\ worker[w].pc = "publish" /\ worker[w].revision = revision
  BY DEF Publish, At
<1>2. /\ Complete(revision) /\ HasPanel(revision)
      /\ \E o : Verdict(revision, o)
  BY <1>1 DEF HeardInv, Evaluates
<1>3. /\ TypeOK /\ worker[v] \in WorkerState /\ Serves(worker[v]) /\ DrawsFor(worker[v])
  BY DEF HeardInv, ServiceInv, TypeInv, TypeOK
<1>4. PICK kind : /\ kind \in Kinds /\ Undecided(kind, worker[v].event)
                  /\ kind = "replacement" => /\ worker[v].event.type = "assignment.vacated"
                                             /\ worker[v].event.seat[1] = revision
  <2>1. CASE worker[v].pc = "draw"
    BY <1>3, <2>1, WorkerFields DEF DrawsFor, Serves
  <2>2. CASE worker[v].pc = "commit"
    <3>1. worker[v].draw.kind \in Kinds
      BY <1>3, <2>2, WorkerFields DEF DrawRow
    <3> QED  BY <1>3, <2>2, <3>1 DEF DrawsFor, Serves
  <2>3. CASE worker[v].pc = "link"
    BY <1>3, <2>3 DEF DrawsFor, Serves, Kinds
  <2> QED  BY <2>1, <2>2, <2>3
<1>5. kind = "replacement"
  BY <1>2, <1>4 DEF Undecided, Kinds
<1>6. worker[v].event.seat \in SeatIds /\ seat[worker[v].event.seat].status = "vacated"
  BY <1>3, <1>4, <1>5, WorkerFields, EventTypes DEF Serves
<1>7. PICK s \in SeatIds : s = worker[v].event.seat
  BY <1>6
<1>8. s = <<s[1], s[2]>> /\ s[2] \in Reviewers
  BY DEF SeatIds
<1>9. s[2] \in OutstandingVacancies(revision)
  BY <1>4, <1>5, <1>6, <1>7, <1>8 DEF OutstandingVacancies, SeatsWith, Undecided
<1> QED  BY <1>2, <1>9 DEF Complete

\* What a handler knows outlasts a step of anybody who does not cross it.
LEMMA KnowledgeFollows ==
  ASSUME crossed' = {}, HeardInv, [Next]_vars, NEW v \in Workers
  PROVE  Evaluates(worker[v])' /\ DrawsFor(worker[v])'
<1>0. /\ TypeOK /\ decided \in Nat /\ revision \in Nat /\ ServiceInv
      /\ Evaluates(worker[v]) /\ DrawsFor(worker[v]) /\ Serves(worker[v])
      /\ worker[v] \in WorkerState
  BY PanelAssumption DEF HeardInv, ServiceInv, TypeInv, TypeOK, Revisions
<1>1. PICK x : x = worker'[v]
  OBVIOUS
<1>i. \A r : Complete(r) /\ r \in 1..revision /\ (\A w \in Workers : ~WritesPanel(w))
             => Untouched(r)
  BY JuryUntouched
<1>2. ASSUME Evaluates(x), UNCHANGED <<revision, bar, seat>> PROVE Evaluates(x)'
  <2>1. \A r : (Complete(r)' <=> Complete(r)) /\ (HasPanel(r)' <=> HasPanel(r))
               /\ Submitted(r)' = Submitted(r) /\ \A o : Verdict(r, o)' <=> Verdict(r, o)
    BY <1>2 DEF Complete, HasPanel, Submitted, OutstandingVacancies, SeatsWith, Verdict,
       Agreed, EnoughVotes, Votes
  <2> QED  BY <1>2, <2>1 DEF Evaluates
<1>3. ASSUME DrawsFor(x), UNCHANGED <<revision, decided, bar, seat>> PROVE DrawsFor(x)'
  <2>1. \A r : (Complete(r)' <=> Complete(r)) /\ (HasPanel(r)' <=> HasPanel(r))
               /\ \A o : Verdict(r, o)' <=> Verdict(r, o)
    BY <1>3 DEF Complete, HasPanel, Submitted, OutstandingVacancies, SeatsWith, Verdict,
       Agreed, EnoughVotes, Votes
  <2>2. \A kind, e : Undecided(kind, e)' <=> Undecided(kind, e)
    BY <1>3, <2>1 DEF Undecided
  <2> QED  BY <1>3, <2>2 DEF DrawsFor
<1>4. ASSUME NEW s \in SeatIds, LeaveOrVote(s) PROVE Evaluates(x)' /\ DrawsFor(x)'
  <2>1. /\ worker' = worker /\ UNCHANGED <<revision, decided>> /\ x = worker[v]
        /\ Evaluates(x) /\ DrawsFor(x) /\ Serves(x) /\ x \in WorkerState
    BY <1>0, <1>1, <1>4 DEF LeaveOrVote, Vacate, SubmitReview, Environment, caseVars
  <2>2. \A w \in Workers : ~WritesPanel(w)
    BY <1>0, <2>1, WritersMove
  <2>3. ASSUME x.pc \in {"ballots", "publish"} PROVE Evaluates(x)'
    <3>1. x.revision \in Revisions
      BY <1>0, <2>1, <2>3, PanelAssumption DEF Evaluates, TypeOK, Revisions
    <3>2. Untouched(x.revision)
      BY <1>i, <2>1, <2>2, <2>3 DEF Evaluates
    <3> QED  BY <2>1, <2>3, <3>1, <3>2, UntouchedJury DEF Evaluates
  <2>4. x.pc \notin {"ballots", "publish"} => Evaluates(x)'
    BY DEF Evaluates
  <2>5. x.pc # "idle" /\ x.event.type = "assignment.vacated"
        => x.event.seat \in SeatIds /\ IsUsed(x.event.seat)
    BY <2>1, WorkerFields, EventTypes DEF Serves, IsUsed
  <2>6. \A kind : /\ Undecided(kind, x.event)
                  /\ kind = "replacement" =>
                       x.event.seat \in SeatIds /\ IsUsed(x.event.seat)
                  => Undecided(kind, x.event)'
    BY <2>1, UndecidedLasts
  <2>7. DrawsFor(x)'
    BY <2>1, <2>5, <2>6 DEF DrawsFor, Serves
  <2> QED  BY <2>3, <2>4, <2>7
<1>5. ASSUME FileAppeal PROVE Evaluates(x)' /\ DrawsFor(x)'
  <2>1. decided = revision /\ revision' = revision + 1 /\ worker' = worker
    BY <1>5 DEF FileAppeal
  <2>2. Evaluates(x) /\ DrawsFor(x) /\ x = worker[v]
    BY <1>0, <1>1, <2>1
  <2>3. x.pc \notin {"draw", "commit", "link"}
    BY <1>0, <2>1, <2>2 DEF DrawsFor
  <2>4. CASE x.pc \in {"ballots", "publish"}
    <3>1. x.revision \in Revisions /\ x.revision \in 1..revision'
      BY <1>0, <2>1, <2>2, <2>4, PanelAssumption DEF Evaluates, TypeOK, Revisions
    <3>2. Untouched(x.revision)
      BY <1>0, <1>i, <2>1, <2>2, <2>4, WritersMove DEF Evaluates
    <3>3. Evaluates(x)'
      BY <2>2, <2>4, <3>1, <3>2, UntouchedJury DEF Evaluates
    <3> QED  BY <2>3, <3>3 DEF DrawsFor
  <2>5. CASE x.pc \notin {"ballots", "publish"}
    BY <2>3, <2>5 DEF Evaluates, DrawsFor
  <2> QED  BY <2>4, <2>5
<1>6. ASSUME NEW w \in Workers, HandlerStep(w) \/ Die(w), ~WritesPanel(w)
      PROVE  Evaluates(x)' /\ DrawsFor(x)'
  <2>1. UNCHANGED <<revision, bar, seat>>
    BY <1>6, QuietSteps DEF WritesPanel, Publish, caseVars, panelVars
  <2>2. Evaluates(x) /\ DrawsFor(x)
    <3>1. CASE v = w
      BY <1>0, <1>1, <1>6, <3>1, HandlerFollows DEF Follows, TypeOK
    <3>2. CASE v # w
      <4>1. Follows(w)
        BY <1>6, HandlerFollows
      <4> QED  BY <1>0, <1>1, <3>2, <4>1 DEF Follows, TypeOK
    <3> QED  BY <3>1, <3>2
  <2>3. x.pc \in {"draw", "commit", "link"} => UNCHANGED decided
    <3>1. CASE Publish(w)
      <4>1. v = w => x = Return(w)
        BY <1>0, <1>1, <3>1 DEF Publish, TypeOK
      <4>2. v # w => x = worker[v]
        BY <1>0, <1>1, <3>1 DEF Publish, TypeOK
      <4> QED
        BY <3>1, <4>1, <4>2, PublishWaitsForDraws DEF Return, caseVars
    <3>2. CASE ~Publish(w)
      BY <1>6, <3>2, QuietSteps DEF WritesPanel, caseVars
    <3> QED  BY <3>1, <3>2
  <2>4. CASE x.pc \in {"draw", "commit", "link"}
    BY <1>2, <1>3, <2>1, <2>2, <2>3, <2>4
  <2>5. CASE x.pc \notin {"draw", "commit", "link"}
    BY <1>2, <2>1, <2>2, <2>5 DEF DrawsFor
  <2> QED  BY <2>4, <2>5
<1>7. ASSUME NEW w \in Workers, WritesPanel(w) PROVE Evaluates(x)' /\ DrawsFor(x)'
  <2>1. CASE v # w
    <3>1. worker[v].pc \notin InFlight
      BY <1>7, <2>1, NoneInFlight DEF WritesPanel, CommitDraw, LinkReplacement
    <3>2. x = worker[v]
      BY <1>0, <1>1, <1>7, <2>1 DEF WritesPanel, CommitDraw, LinkReplacement, TypeOK
    <3> QED  BY <3>1, <3>2 DEF InFlight, Evaluates, DrawsFor
  <2>2. CASE v = w
    <3>1. /\ UNCHANGED <<revision, decided>>
          /\ x = Return(w) \/ x = [pc |-> "link", event |-> Event(w)]
      BY <1>0, <1>1, <1>7, <2>2 DEF WritesPanel, CommitDraw, LinkReplacement, TypeOK, caseVars
    <3>2. CASE x.pc = "ack"
      BY <3>2 DEF Evaluates, DrawsFor
    <3>3. CASE x.pc # "ack"
      <4>1. /\ CommitDraw(w) /\ ~Throw(w) /\ worker[w].pc = "commit"
            /\ worker[w].draw.kind = "replacement"
            /\ x = [pc |-> "link", event |-> Event(w)]
        <5>1. Return(w).pc = "ack"
          BY DEF Return
        <5>2. x # Return(w)
          BY <3>3, <5>1
        <5> QED
          BY <1>0, <1>1, <1>7, <2>2, <3>1, <5>2
          DEF WritesPanel, CommitDraw, LinkReplacement, TypeOK, At
      <4>2. /\ Event(w) \in Events /\ Event(w).type = "assignment.vacated"
            /\ decided < revision /\ Event(w).seat[1] = revision
            /\ ~seat[Event(w).seat].replaced
            /\ seat[Event(w).seat].status = "vacated"
        BY <1>0, <2>2, <4>1, WorkerFields DEF DrawsFor, Serves, Event, Undecided
      <4>3. Event(w).seat \in SeatIds /\ IsUsed(Event(w).seat)
        BY <4>2, EventTypes DEF IsUsed
      <4>4. \A q \in Workers : ~LinkReplacement(q)
        <5>1. ASSUME NEW q \in Workers, LinkReplacement(q) PROVE FALSE
          <6>1. worker'[q] = Return(q) /\ Return(q).pc = "ack" /\ worker[q].pc = "link"
            BY <1>0, <5>1 DEF LinkReplacement, At, Return, TypeOK
          <6>2. q = w
            BY <1>0, <4>1, <6>1 DEF CommitDraw, TypeOK
          <6> QED  BY <4>1, <6>1, <6>2
        <5> QED  BY <5>1
      <4>5. seat'[Event(w).seat].replaced = seat[Event(w).seat].replaced
        BY <1>0, <4>3, <4>4, OnlyLinksReplace
      <4>6. ~seat'[Event(w).seat].replaced
        BY <4>2, <4>5
      <4>7. PICK e : e = Event(w)
        OBVIOUS
      <4>8. /\ x.pc = "link" /\ x.event = e /\ e.seat[1] = revision' /\ decided' < revision'
            /\ ~seat'[e.seat].replaced
        BY <3>1, <4>1, <4>2, <4>6, <4>7
      <4> QED  BY <4>8 DEF Evaluates, DrawsFor, Undecided
    <3> QED  BY <3>2, <3>3
  <2> QED  BY <2>1, <2>2
<1>8. ASSUME UNCHANGED vars PROVE Evaluates(x)' /\ DrawsFor(x)'
  BY <1>0, <1>1, <1>2, <1>3, <1>8 DEF vars, caseVars, panelVars
<1>9. Evaluates(x)' /\ DrawsFor(x)'
  BY <1>4, <1>5, <1>6, <1>7, <1>8 DEF Next
<1> QED  BY <1>1, <1>9

LEMMA HeardNext ==
  ASSUME crossed' = {}, HeardInv, [Next]_vars
  PROVE  HeardInv'
<1>0. /\ TypeOK /\ decided \in Nat /\ revision \in Nat /\ ServiceInv
      /\ decided \in {revision - 1, revision}
  BY PanelAssumption DEF HeardInv, ServiceInv, TypeInv, TypeOK, Revisions
<1>1. ServiceInv'
  BY <1>0, ServiceNext
<1>2. /\ ~FileAppeal => revision' = revision
      /\ ~(\E w \in Workers : Publish(w)) => UNCHANGED <<decided, decision>>
      /\ FileAppeal => /\ revision' = revision + 1 /\ decided = revision
                       /\ UNCHANGED <<decided, decision>>
  BY DEF Next, LeaveOrVote, Vacate, SubmitReview, Environment, FileAppeal, HandlerStep, Die,
     Claim, Ack, HandleCaseReadyForReview, HandleAssignmentVacated, EvaluateCase,
     ReadBallots, Publish, OpenPanel, CommitDraw, LinkReplacement, Throw, Proceed,
     caseVars, vars
<1>3. \A w \in Workers : Evaluates(worker[w])' /\ DrawsFor(worker[w])'
  BY KnowledgeFollows
<1>4. \A r \in 1..decided : Untouched(r) /\ r \in Revisions
  <2>1. \A r \in 1..decided : r \in 1..revision /\ r \in Revisions /\ r <= decided
    BY <1>0, PanelAssumption DEF TypeOK, Revisions
  <2> QED  BY <2>1, JuryUntouched DEF HeardInv, Heard
<1>5. \A o : \A r \in 1..decided : Heard(r, o) => Heard(r, o)'
  BY <1>4, UntouchedJury DEF Heard
<1>6. (\A r \in 1..decided : Heard(r, decision[r].outcome))'
      /\ decided' \in {revision' - 1, revision'}
  <2>1. CASE UNCHANGED <<decided, decision>>
    <3>1. \A r \in 1..decided : Heard(r, decision[r].outcome)'
      <4>1. ASSUME NEW r \in 1..decided PROVE Heard(r, decision[r].outcome)'
        <5>1. PICK o : o = decision[r].outcome /\ o = decision'[r].outcome
          BY <2>1
        <5>2. Heard(r, o)'
          BY <1>5, <5>1 DEF HeardInv
        <5> QED  BY <5>1, <5>2
      <4> QED  BY <4>1
    <3> QED  BY <1>0, <1>2, <2>1, <3>1
  <2>2. ASSUME NEW w \in Workers, Publish(w)
        PROVE  (\A r \in 1..decided : Heard(r, decision[r].outcome))'
               /\ decided' \in {revision' - 1, revision'}
    <3>1. /\ UNCHANGED <<revision, bar, seat>> /\ decided' \in {revision - 1, revision}
          /\ \A r \in 1..decided' : Heard(r, decision'[r].outcome)
      BY <2>2, PublishIsHeard
    <3>2. \A r, o : Heard(r, o)' <=> Heard(r, o)
      BY <3>1 DEF Heard, Complete, HasPanel, Submitted, OutstandingVacancies, SeatsWith,
         Verdict, Agreed, EnoughVotes, Votes
    <3>3. ASSUME NEW r \in 1..decided' PROVE Heard(r, decision[r].outcome)'
      <4>1. PICK o : o = decision'[r].outcome
        OBVIOUS
      <4>2. Heard(r, o)'
        BY <3>1, <3>2, <3>3, <4>1
      <4> QED  BY <4>1, <4>2
    <3> QED  BY <3>1, <3>3
  <2> QED  BY <1>2, <2>1, <2>2
<1>7. (\A s \in SeatIds : IsUsed(s) => s[1] <= revision)'
  <2>1. revision <= revision' /\ revision' \in Nat
    BY <1>0, <1>2
  <2>2. \A s \in SeatIds : s[1] \in Nat
    BY PanelAssumption DEF SeatIds, Revisions
  <2>3. CASE ~\E w \in Workers : CommitDraw(w) /\ ~Throw(w)
    <3>1. NobodySeated
      BY <1>0, <2>3, OnlyDrawsSeat
    <3> QED  BY <1>0, <2>1, <2>2, <3>1 DEF HeardInv, NobodySeated
  <2>4. ASSUME NEW w \in Workers, CommitDraw(w), ~Throw(w)
        PROVE  \A s \in SeatIds : IsUsed(s)' => s[1] <= revision
    <3>1. /\ seat' = [s \in SeatIds |->
                      IF s[1] = worker[w].draw.revision /\ s[2] \in DOMAIN worker[w].seats
                      THEN OpenSeat(worker[w].seats[s[2]]) ELSE seat[s]]
          /\ worker[w].pc = "commit"
      BY <2>4 DEF CommitDraw, At
    <3>2. worker[w].draw.revision = revision
      BY <3>1 DEF HeardInv, DrawsFor
    <3>3. \A s \in SeatIds : s[1] # revision => seat'[s] = seat[s]
      BY <3>1, <3>2
    <3> QED  BY <1>0, <2>2, <3>3 DEF HeardInv, IsUsed
  <2>5. ASSUME NEW s \in SeatIds, IsUsed(s)', s[1] <= revision PROVE s[1] <= revision'
    BY <1>0, <2>1, <2>2, <2>5
  <2> QED  BY <2>3, <2>4, <2>5
<1> QED  BY <1>1, <1>3, <1>6, <1>7 DEF HeardInv

(***************************************************************************)
(* However handlers overlap and die: while none of them changes a panel    *)
(* under another one in flight, every seat of a decided jury has voted or  *)
(* was replaced, and what is published is what the ballots say when they   *)
(* are counted once more.                                                  *)
(***************************************************************************)
THEOREM JuriesAreHeard == Spec => []JuryWasHeard
<1> DEFINE Inv == crossed = {} => HeardInv
<1>1. HeardInv => JuryWasHeard
  BY DEF HeardInv, Heard, Complete, Verdict, JuryWasHeard, OutstandingVacancies
<1>2. Init => Inv
  BY HeardInit
<1>3. Inv /\ [Next]_vars => Inv'
  BY HeardNext, CrossingsAreKept
<1>4. Inv => JuryWasHeard
  BY <1>1 DEF JuryWasHeard
<1> HIDE DEF Inv
<1> QED  BY <1>2, <1>3, <1>4, PTL DEF Spec

-----------------------------------------------------------------------------
(***************************************************************************)
(* Counting seats.                                                         *)
(***************************************************************************)

\* A set that is no larger than another fits into it.
LEMMA SmallerInjects ==
  ASSUME NEW A, IsFiniteSet(A), NEW B, IsFiniteSet(B), Cardinality(A) <= Cardinality(B)
  PROVE  \E g \in [A -> B] : \A i, j \in A : g[i] = g[j] => i = j
<1>1. /\ Cardinality(A) \in Nat /\ ExistsBijection(1..Cardinality(A), A)
      /\ Cardinality(B) \in Nat /\ ExistsBijection(1..Cardinality(B), B)
  BY FS_CardinalityType
<1>2. ExistsInjection(A, 1..Cardinality(A)) /\ ExistsInjection(1..Cardinality(B), B)
  BY <1>1, Fun_ExistsBijEquiv
<1>3. ExistsInjection(1..Cardinality(A), 1..Cardinality(B))
  BY <1>1, Fun_NatInjLeq
<1>4. ExistsInjection(A, 1..Cardinality(B))
  BY <1>2, <1>3, Fun_ExistsInjTransitive
<1>5. ExistsInjection(A, B)
  BY <1>2, <1>4, Fun_ExistsInjTransitive
<1> QED  BY <1>5 DEF ExistsInjection, Injection, IsInjective

\* The slots of each type in a specification are finitely many.
LEMMA SpecIsFinite ==
  ASSUME NEW r \in Revisions, NEW n \in LowestRound(r)..MaxRound
  PROVE  /\ n \in 1..MaxRound /\ PanelSpecFor(r, n) \in Seq(SlotTypes)
         /\ \A t : /\ IsFiniteSet({i \in DOMAIN PanelSpecFor(r, n) : PanelSpecFor(r, n)[i] = t})
                   /\ CountOf(t, PanelSpecFor(r, n)) \in Nat
<1>1. LowestRound(r) \in 1..MaxRound /\ MaxRound \in Nat
  BY LadderAssumption DEF LowestRound
<1>2. n \in 1..MaxRound
  BY <1>1
<1>3. PanelSpecFor(r, n) \in Seq(SlotTypes)
  BY <1>1, <1>2, LadderAssumption DEF PanelSpecFor, LowestRound
<1>4. PICK spec \in Seq(SlotTypes) : spec = PanelSpecFor(r, n)
  BY <1>3
<1>5. IsFiniteSet(DOMAIN spec)
  BY FS_Interval
<1>6. \A t : {i \in DOMAIN spec : spec[i] = t} \in SUBSET DOMAIN spec
  OBVIOUS
<1>7. \A t : IsFiniteSet({i \in DOMAIN spec : spec[i] = t})
  BY <1>5, <1>6, FS_Subset
<1>8. \A t : CountOf(t, spec) \in Nat
  BY <1>7, FS_CardinalityType DEF CountOf
<1> QED  BY <1>2, <1>4, <1>7, <1>8

\* Who fills every type of a specification fills the specification.
LEMMA FilledSpec ==
  ASSUME NEW spec \in Seq(SlotTypes), NEW S, IsFiniteSet(S), NEW slotOf \in [S -> SlotTypes],
         \A t \in SlotTypes : CountOf(t, spec) <= Cardinality({x \in S : slotOf[x] = t})
  PROVE  Len(spec) <= Cardinality(S)
<1> DEFINE Slots(t) == {i \in DOMAIN spec : spec[i] = t}
           People(t) == {x \in S : slotOf[x] = t}
           Fits(g, t) == g \in [Slots(t) -> People(t)]
                         /\ \A i, j \in Slots(t) : g[i] = g[j] => i = j
           h == [i \in DOMAIN spec |-> (CHOOSE g : Fits(g, spec[i]))[i]]
<1>1. ASSUME NEW t \in SlotTypes PROVE \E g : Fits(g, t)
  <2>1. IsFiniteSet(Slots(t))
    BY FS_Interval, FS_Subset, IsFiniteSet(DOMAIN spec), Slots(t) \in SUBSET DOMAIN spec
  <2>2. IsFiniteSet(People(t))
    BY FS_Subset, People(t) \in SUBSET S
  <2>3. Cardinality(Slots(t)) <= Cardinality(People(t))
    BY DEF CountOf
  <2> HIDE DEF Slots, People
  <2> QED  BY <2>1, <2>2, <2>3, SmallerInjects
<1>2. ASSUME NEW t \in SlotTypes PROVE Fits(CHOOSE g : Fits(g, t), t)
  <2> HIDE DEF Fits
  <2> QED  BY <1>1
<1>3. ASSUME NEW i \in DOMAIN spec
      PROVE  /\ h[i] \in S /\ slotOf[h[i]] = spec[i]
             /\ Fits(CHOOSE g : Fits(g, spec[i]), spec[i])
             /\ h[i] = (CHOOSE g : Fits(g, spec[i]))[i]
  <2>1. spec[i] \in SlotTypes /\ i \in Slots(spec[i])
    OBVIOUS
  <2>2. Fits(CHOOSE g : Fits(g, spec[i]), spec[i])
    BY <1>2, <2>1
  <2>3. h[i] = (CHOOSE g : Fits(g, spec[i]))[i]
    OBVIOUS
  <2>4. h[i] \in People(spec[i])
    <3> HIDE DEF h, Slots, People
    <3> QED  BY <2>1, <2>2, <2>3
  <2> QED  BY <2>2, <2>3, <2>4
<1> HIDE DEF h
<1>4. ASSUME NEW i \in DOMAIN spec, NEW j \in DOMAIN spec, h[i] = h[j] PROVE i = j
  <2>1. spec[i] = spec[j]
    <3> HIDE DEF Fits, Slots, People
    <3> QED  BY <1>3, <1>4
  <2>2. PICK t : t = spec[i]
    OBVIOUS
  <2>3. PICK g : g = (CHOOSE f : Fits(f, t))
    OBVIOUS
  <2>4. Fits(g, t) /\ h[i] = g[i] /\ h[j] = g[j]
    <3> HIDE DEF Fits, Slots, People
    <3> QED  BY <1>3, <2>1, <2>2, <2>3
  <2>5. i \in Slots(t) /\ j \in Slots(t)
    BY <2>1, <2>2
  <2>6. g[i] = g[j] => i = j
    <3> HIDE DEF Slots, People
    <3> QED  BY <2>4, <2>5
  <2> QED  BY <1>4, <2>4, <2>6
<1>5. h \in [DOMAIN spec -> S]
  BY <1>3 DEF h
<1>6. h \in Injection(DOMAIN spec, S)
  BY <1>4, <1>5 DEF Injection, IsInjective
<1>7. Cardinality(DOMAIN spec) <= Cardinality(S)
  BY <1>6, FS_Injection
<1>8. DOMAIN spec = 1..Len(spec) /\ Len(spec) \in Nat
  OBVIOUS
<1>9. Cardinality(1..Len(spec)) = Len(spec)
  <2>1. \A m \in Nat : Cardinality(1..m) = m
    BY FS_Interval
  <2> QED  BY <1>8, <2>1
<1> QED  BY <1>7, <1>8, <1>9

\* Who fills a round is in that round or above it.
LEMMA RoundIsReached ==
  ASSUME NEW r \in Revisions, NEW n \in LowestRound(r)..MaxRound, NEW k \in Nat,
         Len(PanelSpecFor(r, n)) <= k
  PROVE  PanelRoundFor(r, k) >= n
<1> DEFINE filled == {m \in LowestRound(r)..MaxRound : Len(PanelSpecFor(r, m)) <= k}
           rounds == filled \cup {LowestRound(r)}
<1>1. LowestRound(r) \in 1..MaxRound /\ MaxRound \in Nat
  BY LadderAssumption DEF LowestRound
<1>2. rounds \subseteq LowestRound(r)..MaxRound /\ rounds \subseteq Int
  BY <1>1
<1>3. IsFiniteSet(rounds)
  <2>1. IsFiniteSet(LowestRound(r)..MaxRound)
    BY <1>1, FS_Interval
  <2>2. rounds \in SUBSET (LowestRound(r)..MaxRound)
    BY <1>2
  <2> QED  BY <2>1, <2>2, FS_Subset
<1>4. \A y \in rounds : Max(rounds) >= y
  BY <1>2, <1>3, MaxIsGreatest
<1>5. n \in rounds
  OBVIOUS
<1> HIDE DEF filled
<1>6. PanelRoundFor(r, k) = Max(rounds)
  BY DEF PanelRoundFor, filled
<1> QED  BY <1>4, <1>5, <1>6

-----------------------------------------------------------------------------
(***************************************************************************)
(* The seats of a type that are held or owed, and the rounds they fill.    *)
(***************************************************************************)
Held(r, t) ==
  Seated(r, t) \cup {x \in OutstandingVacancies(r) : seat[<<r, x>>].slot = t}

Meets(r, round, gone) ==
  \A t \in SlotTypes : Cardinality(Held(r, t) \ gone) >= CountOf(t, PanelSpecFor(r, round))

\* Every round the revision was drawn to is met, without the seats of `gone'.
MeetsDraws(r, gone) ==
  \A i \in DOMAIN draws :
    draws[i].revision = r /\ draws[i].kind # "replacement" => Meets(r, draws[i].round, gone)

\* The seats of a type that a draw is about to fill.
Drawn(seats, t) == {y \in DOMAIN seats : seats[y] = t}

\* An initial draw finds no panel, an expansion one that is complete and does
\* not fill its round.
Extends(kind, round) ==
  /\ kind = "initial" => ~HasPanel(revision)
  /\ kind = "expansion" =>
       /\ Complete(revision) /\ round \in LowestRound(revision)..MaxRound
       /\ PanelRoundFor(revision, Cardinality(Serving(revision))) < round

Plans(x) ==
  /\ x.pc = "draw" => /\ Extends(x.kind, x.toRound)
                      /\ x.kind = "replacement" => ~seat[x.event.seat].replaced
  /\ x.pc = "commit" =>
       /\ Extends(x.draw.kind, x.draw.round) /\ DOMAIN x.seats # {}
       /\ x.draw.round \in LowestRound(revision)..MaxRound
       /\ x.draw.kind # "replacement" => \A t \in SlotTypes :
            Cardinality(Seated(revision, t)) + Cardinality(Drawn(x.seats, t))
              >= CountOf(t, PanelSpecFor(revision, x.draw.round))
       /\ x.draw.kind = "replacement" =>
            /\ ~seat[x.event.seat].replaced
            /\ Drawn(x.seats, seat[x.event.seat].slot) # {}
  /\ x.pc = "link" => MeetsDraws(revision, {x.event.seat[2]})

PlanInv ==
  /\ HeardInv
  /\ \A s \in SeatIds : seat[s].replaced => seat[s].status = "vacated"
  /\ \A s \in SeatIds : IsUsed(s) => seat[s].slot \in SlotTypes
  /\ \A i \in DOMAIN draws : draws[i].kind # "replacement" =>
       HasPanel(draws[i].revision)
       /\ draws[i].round \in LowestRound(draws[i].revision)..MaxRound
  /\ \A r \in Revisions : MeetsDraws(r, {})
  /\ OneWavePerRound
  /\ \A w \in Workers : Plans(worker[w])

LEMMA PlanInit == Init => PlanInv
<1> SUFFICES ASSUME Init PROVE PlanInv
  OBVIOUS
<1>1. HeardInv /\ draws = <<>>
  BY HeardInit DEF Init
<1>2. \A s \in SeatIds : seat[s] = NoSeat /\ ~seat[s].replaced /\ ~IsUsed(s)
  BY DEF Init, NoSeat, IsUsed
<1>3. \A w \in Workers : Plans(worker[w])
  BY DEF Init, Idle, Plans
<1>4. DOMAIN draws = {}
  BY <1>1
<1> QED  BY <1>1, <1>2, <1>3, <1>4 DEF PlanInv, MeetsDraws, OneWavePerRound

\* A seat that is held or owed, by its row.
HeldSeat(row, t) ==
  /\ row.slot = t
  /\ row.status \in {"open", "submitted"} \/ (row.status = "vacated" /\ ~row.replaced)

LEMMA HeldSeats ==
  ASSUME NEW r, NEW t
  PROVE  /\ Held(r, t) = {x \in Reviewers : HeldSeat(seat[<<r, x>>], t)}
         /\ Held(r, t)' = {x \in Reviewers : HeldSeat(seat'[<<r, x>>], t)}
         /\ Held(r, t) \in SUBSET Reviewers /\ IsFiniteSet(Held(r, t))
         /\ Held(r, t)' \in SUBSET Reviewers /\ IsFiniteSet(Held(r, t)')
         /\ Seated(r, t) \in SUBSET Held(r, t)
<1>1. /\ Held(r, t) = {x \in Reviewers : HeldSeat(seat[<<r, x>>], t)}
      /\ Held(r, t)' = {x \in Reviewers : HeldSeat(seat'[<<r, x>>], t)}
  <2>1. /\ Held(r, t) \in SUBSET Reviewers /\ Held(r, t)' \in SUBSET Reviewers
        /\ \A x \in Reviewers :
             /\ x \in Held(r, t) <=> HeldSeat(seat[<<r, x>>], t)
             /\ x \in Held(r, t)' <=> HeldSeat(seat'[<<r, x>>], t)
    BY DEF Held, Seated, Serving, OutstandingVacancies, SeatsWith, HeldSeat
  <2> QED  BY <2>1
<1>2. Held(r, t) \in SUBSET Reviewers /\ Held(r, t)' \in SUBSET Reviewers
  BY <1>1
<1>3. IsFiniteSet(Held(r, t)) /\ IsFiniteSet(Held(r, t)')
  BY <1>2, PanelAssumption, FS_Subset
<1> QED  BY <1>1, <1>2, <1>3 DEF Held

\* A round stays met while its seats are held or owed.
LEMMA StaysMet ==
  ASSUME NEW r \in Revisions, NEW n \in LowestRound(r)..MaxRound, NEW gone, NEW left,
         Meets(r, n, gone),
         \A t \in SlotTypes : Held(r, t) \ gone \subseteq Held(r, t)' \ left
  PROVE  Meets(r, n, left)'
<1> SUFFICES ASSUME NEW t \in SlotTypes
             PROVE  Cardinality(Held(r, t)' \ left) >= CountOf(t, PanelSpecFor(r, n))
  BY DEF Meets
<1>1. Held(r, t)' \ left \in SUBSET Reviewers /\ Held(r, t) \ gone \in SUBSET (Held(r, t)' \ left)
  BY HeldSeats
<1>2. IsFiniteSet(Held(r, t)' \ left)
  BY <1>1, PanelAssumption, FS_Subset
<1>3. /\ Cardinality(Held(r, t) \ gone) <= Cardinality(Held(r, t)' \ left)
      /\ IsFiniteSet(Held(r, t) \ gone)
  BY <1>1, <1>2, FS_Subset
<1>4. Cardinality(Held(r, t)' \ left) \in Nat /\ Cardinality(Held(r, t) \ gone) \in Nat
  BY <1>2, <1>3, FS_CardinalityType
<1>5. Cardinality(Held(r, t) \ gone) >= CountOf(t, PanelSpecFor(r, n))
  BY DEF Meets
<1>6. CountOf(t, PanelSpecFor(r, n)) \in Nat
  BY SpecIsFinite
<1> QED  BY <1>3, <1>4, <1>5, <1>6

\* What the draws so far were for.
LEMMA DrawsAreRows ==
  ASSUME PlanInv, NEW i \in DOMAIN draws
  PROVE  /\ draws[i] \in DrawRow /\ draws[i].revision \in Revisions /\ draws[i].kind \in Kinds
         /\ draws[i].kind # "replacement" =>
              /\ HasPanel(draws[i].revision)
              /\ draws[i].round \in LowestRound(draws[i].revision)..MaxRound
<1>1. draws \in Seq(DrawRow)
  BY DEF PlanInv, HeardInv, ServiceInv, TypeInv, TypeOK
<1>2. draws[i] \in DrawRow
  BY <1>1
<1> QED  BY <1>2 DEF PlanInv, DrawRow

LEMMA DrawsStayMet ==
  ASSUME PlanInv, NEW r \in Revisions, NEW gone, NEW left,
         MeetsDraws(r, gone), UNCHANGED draws,
         \A t \in SlotTypes : Held(r, t) \ gone \subseteq Held(r, t)' \ left
  PROVE  MeetsDraws(r, left)'
<1> SUFFICES ASSUME NEW i \in DOMAIN draws,
                    draws[i].revision = r, draws[i].kind # "replacement"
             PROVE  Meets(r, draws[i].round, left)'
  BY DEF MeetsDraws
<1>1. PICK n : n = draws[i].round
  OBVIOUS
<1>2. n \in LowestRound(r)..MaxRound /\ Meets(r, n, gone)
  BY <1>1, DrawsAreRows DEF MeetsDraws
<1>3. Meets(r, n, left)'
  BY <1>2, StaysMet
<1>4. draws'[i].round = n
  BY <1>1
<1> QED  BY <1>1, <1>3, <1>4 DEF Meets

-----------------------------------------------------------------------------
\* A panel that is complete and meets a round is in that round or above it.
LEMMA MetIsReached ==
  ASSUME HeardInv, NEW r \in Revisions, NEW n \in LowestRound(r)..MaxRound,
         Complete(r), Meets(r, n, {}),
         \A s \in SeatIds : IsUsed(s) => seat[s].slot \in SlotTypes
  PROVE  PanelRoundFor(r, Cardinality(Serving(r))) >= n
<1> DEFINE S == Serving(r)
           slotOf == [x \in S |-> seat[<<r, x>>].slot]
<1>1. S \in SUBSET Reviewers /\ IsFiniteSet(S) /\ Cardinality(S) \in Nat
  BY CountsAreNat DEF Serving, SeatsWith
<1>2. \A x \in S : <<r, x>> \in SeatIds /\ IsUsed(<<r, x>>)
  BY DEF Serving, SeatsWith, SeatIds, IsUsed
<1>3. slotOf \in [S -> SlotTypes]
  BY <1>2
<1>4. ASSUME NEW t \in SlotTypes
      PROVE  CountOf(t, PanelSpecFor(r, n)) <= Cardinality({x \in S : slotOf[x] = t})
  <2>1. Held(r, t) \ {} = {x \in S : slotOf[x] = t}
    BY DEF Held, Seated, Complete
  <2>2. Cardinality(Held(r, t) \ {}) >= CountOf(t, PanelSpecFor(r, n))
    BY DEF Meets
  <2>3. CountOf(t, PanelSpecFor(r, n)) \in Nat
    BY SpecIsFinite
  <2>4. Cardinality({x \in S : slotOf[x] = t}) \in Nat
    <3>1. {x \in S : slotOf[x] = t} \in SUBSET S
      OBVIOUS
    <3> HIDE DEF S, slotOf
    <3> QED  BY <1>1, <3>1, FS_Subset, FS_CardinalityType
  <2> HIDE DEF S, slotOf
  <2> QED  BY <2>1, <2>2, <2>3, <2>4
<1>5. PanelSpecFor(r, n) \in Seq(SlotTypes)
  BY SpecIsFinite
<1> HIDE DEF S, slotOf
<1>6. Len(PanelSpecFor(r, n)) <= Cardinality(S)
  BY <1>1, <1>3, <1>4, <1>5, FilledSpec
<1> QED  BY <1>1, <1>6, RoundIsReached DEF S

\* A draw about to commit is not one of those made, unless it replaces somebody.
LEMMA DrawIsFresh ==
  ASSUME PlanInv, NEW w \in Workers, worker[w].pc = "commit",
         worker[w].draw.kind # "replacement", NEW i \in DOMAIN draws
  PROVE  draws[i] # worker[w].draw
<1> SUFFICES ASSUME draws[i] = worker[w].draw PROVE FALSE
  OBVIOUS
<1>1. PICK d : d = draws[i] /\ d = worker[w].draw
  OBVIOUS
<1>2. /\ d.revision = revision /\ revision \in Revisions /\ d.kind \in Kinds
      /\ d.kind # "replacement" /\ HasPanel(revision)
      /\ d.round \in LowestRound(revision)..MaxRound
  BY <1>1, DrawsAreRows DEF PlanInv, HeardInv, DrawsFor
<1>3. Extends(d.kind, d.round)
  BY <1>1 DEF PlanInv, Plans
<1>4. d.kind = "expansion" /\ Complete(revision)
      /\ PanelRoundFor(revision, Cardinality(Serving(revision))) < d.round
  BY <1>2, <1>3 DEF Extends, Kinds
<1>5. Meets(revision, d.round, {})
  BY <1>1, <1>2 DEF PlanInv, MeetsDraws
<1>6. PanelRoundFor(revision, Cardinality(Serving(revision))) >= d.round
  BY <1>2, <1>4, <1>5, MetIsReached DEF PlanInv
<1>7. PanelRoundFor(revision, Cardinality(Serving(revision))) \in 1..MaxRound
  <2>1. Cardinality(Serving(revision)) \in Nat
    BY <1>2, CountsAreNat DEF Serving
  <2> QED  BY <1>2, <2>1, RoundIsRound
<1>8. d.round \in 1..MaxRound /\ MaxRound \in Nat
  BY <1>2, SpecIsFinite, LadderAssumption
<1> QED  BY <1>4, <1>6, <1>7, <1>8

-----------------------------------------------------------------------------
(***************************************************************************)
(* What a handler plans outlasts the votes and vacancies of the jury.      *)
(***************************************************************************)
LEMMA PlansLast ==
  ASSUME PlanInv, NEW x \in WorkerState, Plans(x), revision' = revision,
         x.pc = "draw" /\ x.kind # "replacement" => Untouched(revision),
         x.pc = "draw" /\ x.kind = "replacement" =>
           seat'[x.event.seat] = seat[x.event.seat],
         x.pc = "commit" /\ x.draw.kind # "replacement" => Untouched(revision),
         x.pc = "commit" /\ x.draw.kind = "replacement" =>
           seat'[x.event.seat] = seat[x.event.seat],
         x.pc = "link" => MeetsDraws(revision, {x.event.seat[2]})'
  PROVE  Plans(x)'
<1>0. revision \in Revisions
  BY DEF PlanInv, HeardInv, ServiceInv, TypeInv, TypeOK
<1>1. ASSUME NEW kind, NEW n, Extends(kind, n), Untouched(revision) PROVE Extends(kind, n)'
  <2>1. /\ HasPanel(revision)' <=> HasPanel(revision)
        /\ Complete(revision)' <=> Complete(revision)
        /\ Serving(revision)' = Serving(revision)
    <3>1. PICK r \in Revisions : r = revision
      BY <1>0
    <3>2. /\ HasPanel(r)' <=> HasPanel(r)
          /\ Complete(r)' <=> Complete(r)
          /\ Serving(r)' = Serving(r)
      BY <1>1, <3>1, UntouchedJury
    <3>3. r = revision'
      BY <3>1
    <3> QED  BY <3>1, <3>2, <3>3 DEF HasPanel, Complete, Serving, SeatsWith,
                OutstandingVacancies
  <2> QED  BY <1>1, <2>1 DEF Extends
<1>2. \A n : Extends("replacement", n) /\ Extends("replacement", n)'
  BY DEF Extends
<1>3. Untouched(revision) =>
        \A t : Seated(revision, t)' = Seated(revision, t)
  <2> SUFFICES ASSUME Untouched(revision), NEW t
               PROVE  Seated(revision, t)' = Seated(revision, t)
    OBVIOUS
  <2>1. \A y \in Reviewers : seat'[<<revision', y>>] = seat[<<revision, y>>]
    BY DEF Untouched
  <2>2. /\ Seated(revision, t) =
             {y \in Reviewers : seat[<<revision, y>>].status \in {"open", "submitted"}
                                /\ seat[<<revision, y>>].slot = t}
        /\ Seated(revision, t)' =
             {y \in Reviewers : seat'[<<revision', y>>].status \in {"open", "submitted"}
                                /\ seat'[<<revision', y>>].slot = t}
    BY DEF Seated, Serving, SeatsWith
  <2> QED  BY <2>1, <2>2
<1>4. CASE x.pc = "draw"
  BY <1>1, <1>2, <1>4 DEF Plans
<1>5. CASE x.pc = "commit"
  <2>1. CASE x.draw.kind = "replacement"
    BY <1>2, <1>5, <2>1 DEF Plans, LowestRound
  <2>2. CASE x.draw.kind # "replacement"
    <3>1. Extends(x.draw.kind, x.draw.round)'
      BY <1>1, <1>5, <2>2 DEF Plans
    <3>2. (\A t \in SlotTypes :
            Cardinality(Seated(revision, t)) + Cardinality(Drawn(x.seats, t))
              >= CountOf(t, PanelSpecFor(revision, x.draw.round)))'
      BY <1>3, <1>5, <2>2 DEF Plans, PanelSpecFor
    <3> QED  BY <1>5, <2>2, <3>1, <3>2 DEF Plans, LowestRound
  <2> QED  BY <2>1, <2>2
<1>6. CASE x.pc = "link"
  BY <1>6 DEF Plans
<1> QED  BY <1>4, <1>5, <1>6 DEF Plans

\* A vote or a vacancy leaves the seat its slot and its replacement.
LEMMA VoteRow ==
  ASSUME NEW s \in SeatIds, seat[s] \in SeatRow, ~seat[s].replaced, LeaveOrVote(s)
  PROVE  \E row : /\ seat' = [seat EXCEPT ![s] = row]
                  /\ row.status \in {"vacated", "submitted"}
                  /\ row.slot = seat[s].slot /\ ~row.replaced
<1>1. LET row == [seat[s] EXCEPT !.status = "vacated"]
      IN  row.status = "vacated" /\ row.slot = seat[s].slot /\ row.replaced = seat[s].replaced
  BY DEF SeatRow
<1>2. \A v : LET row == [seat[s] EXCEPT !.status = "submitted", !.vote = v]
             IN  /\ row.status = "submitted" /\ row.slot = seat[s].slot
                 /\ row.replaced = seat[s].replaced
  BY DEF SeatRow
<1>3. CASE Vacate(s)
  BY <1>1, <1>3 DEF Vacate
<1>4. CASE \E v \in Positions : SubmitReview(s, v)
  <2>1. PICK v \in Positions : SubmitReview(s, v)
    BY <1>4
  <2> DEFINE row == [seat[s] EXCEPT !.status = "submitted", !.vote = v]
  <2>3. /\ row.status = "submitted" /\ row.slot = seat[s].slot
        /\ row.replaced = seat[s].replaced
    BY <1>2
  <2>4. seat' = [seat EXCEPT ![s] = row]
    BY <2>1 DEF SubmitReview
  <2> HIDE DEF row
  <2> QED  BY <2>3, <2>4
<1> QED  BY <1>3, <1>4 DEF LeaveOrVote

LEMMA VotePlans ==
  ASSUME PlanInv, HeardInv', NEW s \in SeatIds, LeaveOrVote(s)
  PROVE  PlanInv'
<1>0. /\ TypeOK /\ ServiceInv /\ revision \in Revisions /\ s = <<s[1], s[2]>>
      /\ seat \in [SeatIds -> SeatRow]
  <2>1. s = <<s[1], s[2]>>
    BY DEF SeatIds
  <2> QED  BY <2>1 DEF PlanInv, HeardInv, ServiceInv, TypeInv, TypeOK
<1>1. seat[s].status = "open" /\ seat[s] \in SeatRow /\ ~seat[s].replaced
  BY <1>0 DEF LeaveOrVote, Vacate, SubmitReview, PlanInv, SeatRow
<1>2. PICK row : /\ seat' = [seat EXCEPT ![s] = row] /\ row.status \in {"vacated", "submitted"}
                 /\ row.slot = seat[s].slot /\ ~row.replaced
  BY <1>1, VoteRow
<1>3. seat'[s] = row /\ \A q \in SeatIds \ {s} : seat'[q] = seat[q]
  BY <1>0, <1>2
<1>4. UNCHANGED <<revision, bar, draws, worker>>
  BY DEF LeaveOrVote, Vacate, SubmitReview, Environment, caseVars
<1>5. /\ (\A q \in SeatIds : seat[q].replaced => seat[q].status = "vacated")'
      /\ (\A q \in SeatIds : IsUsed(q) => seat[q].slot \in SlotTypes)'
  BY <1>1, <1>2, <1>3 DEF PlanInv, IsUsed
<1>6. ASSUME NEW r \in Revisions, HasPanel(r) PROVE HasPanel(r)'
  <2>1. PICK x \in Reviewers : seat[<<r, x>>].status \in {"open", "submitted", "vacated"}
    BY <1>6 DEF HasPanel, SeatsWith
  <2>2. seat'[<<r, x>>].status \in {"open", "submitted", "vacated"}
    BY <1>2, <1>3, <2>1 DEF SeatIds
  <2> QED  BY <2>2 DEF HasPanel, SeatsWith
<1>7. ASSUME NEW r \in Revisions, NEW t PROVE Held(r, t)' = Held(r, t)
  <2>1. \A x \in Reviewers : <<r, x>> \in SeatIds
    BY DEF SeatIds
  <2>2. HeldSeat(seat[s], t) <=> HeldSeat(row, t)
    BY <1>1, <1>2 DEF HeldSeat
  <2>3. \A x \in Reviewers : HeldSeat(seat'[<<r, x>>], t) <=> HeldSeat(seat[<<r, x>>], t)
    BY <1>3, <2>1, <2>2
  <2> QED  BY <2>3, HeldSeats
<1>8. \A gone : \A r \in Revisions : MeetsDraws(r, gone) => MeetsDraws(r, gone)'
  BY <1>4, <1>7, DrawsStayMet
<1>9. (\A i \in DOMAIN draws : draws[i].kind # "replacement" =>
        /\ HasPanel(draws[i].revision)
        /\ draws[i].round \in LowestRound(draws[i].revision)..MaxRound)'
  <2>1. ASSUME NEW i \in DOMAIN draws, draws[i].kind # "replacement"
        PROVE  /\ HasPanel(draws[i].revision)'
               /\ draws[i].round \in LowestRound(draws[i].revision)..MaxRound
    <3>1. PICK r \in Revisions : r = draws[i].revision
      BY DrawsAreRows
    <3>2. HasPanel(r) /\ draws[i].round \in LowestRound(r)..MaxRound
      BY <2>1, <3>1, DrawsAreRows
    <3>3. HasPanel(r)' /\ r = draws'[i].revision
      BY <1>4, <1>6, <3>1, <3>2
    <3> QED  BY <3>1, <3>2, <3>3 DEF HasPanel, SeatsWith
  <2> QED  BY <1>4, <2>1 DEF LowestRound
<1>10. ASSUME NEW v \in Workers PROVE Plans(worker[v])'
  <2>1. PICK x : x = worker[v] /\ x = worker'[v]
    BY <1>4
  <2>2. x \in WorkerState /\ Plans(x) /\ Serves(x) /\ DrawsFor(x)
    BY <1>0, <2>1 DEF PlanInv, HeardInv, ServiceInv, TypeOK
  <2>3. ASSUME NEW kind \in Kinds, NEW n, Extends(kind, n), kind # "replacement"
        PROVE  Untouched(revision)
    <3>1. SeatsWith(revision, {"open"}) = {}
      BY <2>3 DEF Extends, Kinds, HasPanel, Complete, SeatsWith
    <3>2. s[1] # revision
      BY <1>0, <1>1, <3>1 DEF SeatsWith, SeatIds
    <3>3. \A y \in Reviewers : <<revision, y>> \in SeatIds \ {s}
      BY <1>0, <3>2 DEF SeatIds
    <3> QED  BY <1>3, <1>4, <3>3 DEF Untouched
  <2>4. x.pc # "idle" /\ x.event.type = "assignment.vacated" =>
          seat'[x.event.seat] = seat[x.event.seat]
    <3>1. x.pc # "idle" /\ x.event.type = "assignment.vacated" =>
            x.event.seat \in SeatIds /\ seat[x.event.seat].status = "vacated"
      BY <2>2, WorkerFields, EventTypes DEF Serves
    <3> QED  BY <1>1, <1>3, <3>1
  <2>5. x.pc = "link" => MeetsDraws(revision, {x.event.seat[2]})'
    <3>1. PICK r \in Revisions : r = revision /\ r = revision'
      BY <1>0, <1>4
    <3>2. x.pc = "link" => MeetsDraws(r, {x.event.seat[2]})'
      BY <1>8, <2>2, <3>1 DEF Plans
    <3> QED  BY <3>1, <3>2 DEF MeetsDraws
  <2>6. /\ x.pc = "draw" => x.kind \in Kinds /\ Extends(x.kind, x.toRound)
        /\ x.pc = "commit" => /\ x.draw \in DrawRow /\ x.draw.kind \in Kinds
                              /\ Extends(x.draw.kind, x.draw.round)
    BY <2>2, WorkerFields DEF Plans, DrawRow
  <2>7. /\ x.pc = "draw" /\ x.kind = "replacement" => x.event.type = "assignment.vacated"
        /\ x.pc = "commit" /\ x.draw.kind = "replacement" =>
             x.event.type = "assignment.vacated"
    BY <2>2 DEF Serves
  <2>8. Plans(x)'
    BY <1>4, <2>2, <2>3, <2>4, <2>5, <2>6, <2>7, PlansLast
  <2> QED  BY <2>1, <2>8
<1>11. OneWavePerRound'
  BY <1>4 DEF PlanInv, OneWavePerRound
<1> QED  BY <1>5, <1>8, <1>9, <1>10, <1>11 DEF PlanInv

-----------------------------------------------------------------------------
(***************************************************************************)
(* What a handler plans when it decides to draw, and when it has sampled.  *)
(***************************************************************************)
PlansNext(w) == \E x : worker' = [worker EXCEPT ![w] = x] /\ Plans(x)

LEMMA NoPlans == \A x : x.pc \notin {"draw", "commit", "link"} => Plans(x)
BY DEF Plans

LEMMA EntryPlans ==
  ASSUME PlanInv, NEW w \in Workers,
         HandleCaseReadyForReview(w) \/ HandleAssignmentVacated(w) \/ EvaluateCase(w)
  PROVE  PlansNext(w)
<1>1. Plans(Return(w))
  BY NoPlans DEF Return
<1>2. CASE HandleCaseReadyForReview(w)
  <2>1. ~HasPanel(revision) => Plans(Draw(w, "initial", 0))
    BY DEF Plans, Extends, Draw
  <2> QED  BY <1>1, <1>2, <2>1 DEF HandleCaseReadyForReview, Proceed, PlansNext
<1>3. CASE HandleAssignmentVacated(w)
  <2>1. ~seat[Event(w).seat].replaced => Plans(Draw(w, "replacement", 0))
    BY DEF Plans, Extends, Draw
  <2> QED  BY <1>1, <1>3, <2>1 DEF HandleAssignmentVacated, Proceed, PlansNext
<1>4. CASE EvaluateCase(w)
  <2>1. \A r, n, k : Plans([pc |-> "ballots", event |-> Event(w), revision |-> r,
                            round |-> n, jury |-> k])
    BY NoPlans
  <2> QED  BY <1>1, <1>4, <2>1 DEF EvaluateCase, Proceed, PlansNext
<1> QED  BY <1>2, <1>3, <1>4

\* An expansion is to the round above the panel's own.
LEMMA BallotsPlan ==
  ASSUME PlanInv, NEW w \in Workers, ReadBallots(w)
  PROVE  PlansNext(w)
<1>0. /\ worker[w].pc = "ballots" /\ Evaluates(worker[w]) /\ HeardInv
      /\ worker \in [Workers -> WorkerState] /\ revision \in Revisions
  BY DEF PlanInv, HeardInv, ServiceInv, TypeInv, TypeOK, ReadBallots, At
<1>1. PICK x : worker' = [worker EXCEPT ![w] = x] /\ x = worker'[w]
  BY <1>0 DEF ReadBallots, Proceed
<1>2. CASE x.pc = "draw"
  <2>1. /\ worker[w].revision = revision /\ x = Draw(w, "expansion", worker[w].round + 1)
        /\ worker[w].round < MaxRound
    BY <1>0, <1>1, <1>2, BallotsFollow
  <2>2. PICK round : round = worker[w].round
    OBVIOUS
  <2>3. /\ Complete(revision) /\ Serving(revision) = Submitted(revision)
        /\ round = PanelRoundFor(revision, Cardinality(Serving(revision)))
    BY <1>0, <2>1, <2>2, CompleteHasVoted DEF Evaluates
  <2>4. Cardinality(Serving(revision)) \in Nat
    BY <1>0, CountsAreNat DEF Serving
  <2>5. round \in LowestRound(revision)..MaxRound /\ LowestRound(revision) \in 1..MaxRound
    BY <1>0, <2>3, <2>4, RoundIsRound
  <2>6. /\ round + 1 \in LowestRound(revision)..MaxRound
        /\ PanelRoundFor(revision, Cardinality(Serving(revision))) < round + 1
    BY <2>1, <2>2, <2>3, <2>5, LadderAssumption
  <2>7. Extends("expansion", round + 1)
    BY <2>3, <2>6 DEF Extends
  <2>8. Plans(x)
    BY <2>1, <2>2, <2>7 DEF Plans, Draw
  <2> QED  BY <1>1, <2>8 DEF PlansNext
<1>3. CASE x.pc # "draw"
  <2>1. \/ \E r, o, k : worker' = [worker EXCEPT ![w] =
             [pc |-> "publish", event |-> Event(w), revision |-> r,
              outcome |-> o, jury |-> k]]
        \/ \E n : worker' = [worker EXCEPT ![w] = Draw(w, "expansion", n)]
    BY DEF ReadBallots, Proceed
  <2>2. \A n : Draw(w, "expansion", n).pc = "draw"
    BY DEF Draw
  <2>3. x.pc = "publish"
    <3>1. ASSUME NEW y, worker' = [worker EXCEPT ![w] = y] PROVE x = y
      BY <1>0, <1>1, <3>1
    <3>2. \A n : worker' # [worker EXCEPT ![w] = Draw(w, "expansion", n)]
      BY <1>3, <2>2, <3>1
    <3>3. PICK r, o, k : worker' = [worker EXCEPT ![w] =
            [pc |-> "publish", event |-> Event(w), revision |-> r,
             outcome |-> o, jury |-> k]]
      BY <2>1, <3>2
    <3>4. PICK y : y = [pc |-> "publish", event |-> Event(w), revision |-> r,
                        outcome |-> o, jury |-> k]
      OBVIOUS
    <3>5. y.pc = "publish" /\ x = y
      BY <3>1, <3>3, <3>4
    <3> QED  BY <3>5
  <2>4. Plans(x)
    BY <2>3, NoPlans
  <2> QED  BY <1>1, <2>4 DEF PlansNext
<1> QED  BY <1>2, <1>3

\* What was sampled fills what its round still lacks.
LEMMA OpenPanelPlans ==
  ASSUME PlanInv, NEW w \in Workers, OpenPanel(w)
  PROVE  PlansNext(w)
<1>0. /\ worker[w].pc = "draw" /\ Plans(worker[w]) /\ Serves(worker[w]) /\ HeardInv
      /\ worker[w] \in WorkerState /\ revision \in Revisions
  BY DEF PlanInv, HeardInv, ServiceInv, TypeInv, TypeOK, OpenPanel, At
<1>1. Plans(Idle) /\ Plans(Return(w))
  BY NoPlans DEF Idle, Return
<1>2. ASSUME SeatCount(RequestedSlots(w)) > 0,
             NEW d \in Panels(RequestedSlots(w), Reviewers \ PriorJurors(revision)),
             Proceed(w, [pc |-> "commit", event |-> Event(w), seats |-> d,
                         draw |-> [revision |-> revision, kind |-> worker[w].kind,
                                   round |-> DrawRound(w)]])
      PROVE  PlansNext(w)
  <2> DEFINE x == [pc |-> "commit", event |-> Event(w), seats |-> d,
                   draw |-> [revision |-> revision, kind |-> worker[w].kind,
                             round |-> DrawRound(w)]]
             n == DrawRound(w)
             kind == worker[w].kind
  <2>1. kind \in Kinds /\ Extends(kind, worker[w].toRound)
    BY <1>0, WorkerFields DEF Plans
  <2>2. n \in LowestRound(revision)..MaxRound
    <3>1. Cardinality(Serving(revision)) \in Nat
      BY <1>0, CountsAreNat DEF Serving
    <3>2. PanelRoundFor(revision, Cardinality(Serving(revision)))
            \in LowestRound(revision)..MaxRound
      BY <1>0, <3>1, RoundIsRound
    <3> QED  BY <2>1, <3>2 DEF DrawRound, Extends
  <2>3. Extends(kind, n)
    BY <2>1 DEF Extends, DrawRound
  <2>4. /\ DOMAIN d \in SUBSET Reviewers /\ Cardinality(DOMAIN d) = SeatCount(RequestedSlots(w))
        /\ \A t \in SlotTypes : Cardinality(Drawn(d, t)) = RequestedSlots(w)[t]
    BY DEF Panels, kSubset, Drawn
  <2>5. DOMAIN d # {}
    <3>1. Cardinality({}) = 0
      BY FS_EmptySet
    <3> QED  BY <1>2, <2>4, <3>1
  <2>6. ASSUME kind # "replacement", NEW t \in SlotTypes
        PROVE  Cardinality(Seated(revision, t)) + Cardinality(Drawn(d, t))
                 >= CountOf(t, PanelSpecFor(revision, n))
    <3> DEFINE have == Cardinality(Seated(revision, t))
               want == CountOf(t, PanelSpecFor(revision, n))
    <3>1. Cardinality(Drawn(d, t)) = Max({0, want - have})
      BY <2>4, <2>6 DEF RequestedSlots, SlotsStillToFill
    <3>2. want \in Nat
      BY <1>0, <2>2, SpecIsFinite
    <3>3. have \in Nat
      <4>1. Seated(revision, t) \in SUBSET Reviewers
        BY DEF Seated, Serving, SeatsWith
      <4> QED  BY <4>1, PanelAssumption, FS_Subset, FS_CardinalityType
    <3> HIDE DEF have, want
    <3>4. {0, want - have} \subseteq Int /\ IsFiniteSet({0, want - have})
      <4>1. IsFiniteSet({0} \cup {want - have})
        BY FS_Singleton, FS_AddElement
      <4>2. {0} \cup {want - have} = {0, want - have}
        OBVIOUS
      <4> QED  BY <3>2, <3>3, <4>1, <4>2
    <3>5. Max({0, want - have}) >= want - have /\ Max({0, want - have}) \in Int
      <4>1. \A y \in {0, want - have} : Max({0, want - have}) >= y
        BY <3>4, MaxIsGreatest
      <4>2. Max({0, want - have}) \in {0, want - have}
        BY <3>4, MaxIsGreatest
      <4> QED  BY <3>4, <4>1, <4>2
    <3>6. have + Cardinality(Drawn(d, t)) >= want
      BY <3>1, <3>2, <3>3, <3>5
    <3> QED  BY <3>6 DEF have, want
  <2>7. ASSUME kind = "replacement"
        PROVE  /\ ~seat[Event(w).seat].replaced
               /\ Drawn(d, seat[Event(w).seat].slot) # {}
    <3>1. Event(w).type = "assignment.vacated" /\ Event(w) \in Events
      BY <1>0, <2>7, WorkerFields DEF Serves, Event
    <3>2. Event(w).seat \in SeatIds /\ IsUsed(Event(w).seat)
      BY <1>0, <3>1, EventTypes DEF Serves, Event, IsUsed
    <3>3. seat[Event(w).seat].slot \in SlotTypes
      BY <3>2 DEF PlanInv
    <3>4. Cardinality(Drawn(d, seat[Event(w).seat].slot)) = 1
      BY <2>4, <2>7, <3>3 DEF RequestedSlots, VacatedSlot
    <3> QED  BY <1>0, <2>7, <3>4, FS_EmptySet DEF Plans, Event
  <2>8. Plans(x)
    <3>1. /\ x.pc = "commit" /\ x.draw.kind = kind /\ x.draw.round = n /\ x.seats = d
          /\ x.event = Event(w)
      OBVIOUS
    <3> HIDE DEF x, n, kind
    <3> QED  BY <2>2, <2>3, <2>5, <2>6, <2>7, <3>1 DEF Plans
  <2> HIDE DEF x
  <2>9. worker' = [worker EXCEPT ![w] = x]
    BY <1>2 DEF Proceed, x
  <2> QED  BY <2>8, <2>9 DEF PlansNext
<1> QED  BY <1>1, <1>2 DEF OpenPanel, Throw, Proceed, PlansNext

LEMMA HandlerPlans ==
  ASSUME PlanInv, NEW w \in Workers, HandlerStep(w) \/ Die(w),
         ~CommitDraw(w) \/ Throw(w), ~LinkReplacement(w)
  PROVE  PlansNext(w)
<1>1. CASE \/ Claim(w) \/ Ack(w) \/ Die(w) \/ Publish(w) \/ Throw(w)
  <2>1. PICK x : worker' = [worker EXCEPT ![w] = x] /\ x.pc \in {"idle", "start", "ack"}
    BY <1>1 DEF Claim, Ack, Die, Publish, Throw, Proceed, Idle, Return
  <2>2. Plans(x)
    BY <2>1, NoPlans
  <2> QED  BY <2>1, <2>2 DEF PlansNext
<1> QED  BY <1>1, EntryPlans, BallotsPlan, OpenPanelPlans DEF HandlerStep

\* A step that leaves the panel and the revision leaves what is planned.
LEMMA SamePlans ==
  ASSUME UNCHANGED <<revision, panelVars>>, NEW x, Plans(x)
  PROVE  Plans(x)'
<1>1. /\ HasPanel(revision)' <=> HasPanel(revision)
      /\ Complete(revision)' <=> Complete(revision)
      /\ Serving(revision)' = Serving(revision)
      /\ \A t : Seated(revision, t)' = Seated(revision, t)
  BY DEF panelVars, HasPanel, Complete, Serving, Seated, SeatsWith, OutstandingVacancies
<1>2. \A gone : MeetsDraws(revision, gone)' <=> MeetsDraws(revision, gone)
  BY DEF panelVars, MeetsDraws, Meets, Held, Seated, Serving, SeatsWith, OutstandingVacancies
<1>3. \A kind, n : Extends(kind, n)' <=> Extends(kind, n)
  BY <1>1 DEF Extends
<1> QED  BY <1>1, <1>2, <1>3 DEF Plans, panelVars

LEMMA PanelPlans ==
  ASSUME PlanInv, HeardInv', UNCHANGED panelVars, \A v \in Workers : Plans(worker[v])'
  PROVE  PlanInv'
<1>1. \A r : (HasPanel(r)' <=> HasPanel(r)) /\ (MeetsDraws(r, {})' <=> MeetsDraws(r, {}))
  BY DEF panelVars, HasPanel, MeetsDraws, Meets, Held, Seated, Serving, SeatsWith,
     OutstandingVacancies
<1>2. \A s : IsUsed(s)' <=> IsUsed(s)
  BY DEF panelVars, IsUsed
<1>3. OneWavePerRound'
  BY DEF PlanInv, OneWavePerRound, panelVars
<1>4. (\A i \in DOMAIN draws : draws[i].kind # "replacement" =>
        /\ HasPanel(draws[i].revision)
        /\ draws[i].round \in LowestRound(draws[i].revision)..MaxRound)'
  BY DEF PlanInv, panelVars, HasPanel, SeatsWith
<1> QED  BY <1>1, <1>2, <1>3, <1>4 DEF PlanInv, panelVars

LEMMA QuietPlans ==
  ASSUME PlanInv, HeardInv', NEW w \in Workers, HandlerStep(w) \/ Die(w),
         ~CommitDraw(w) \/ Throw(w), ~LinkReplacement(w)
  PROVE  PlanInv'
<1>1. UNCHANGED <<revision, panelVars>>
  <2>1. CASE Publish(w)
    BY <2>1 DEF Publish
  <2>2. CASE ~Publish(w)
    BY <2>2, QuietSteps DEF caseVars
  <2> QED  BY <2>1, <2>2
<1>2. PICK x : worker' = [worker EXCEPT ![w] = x] /\ Plans(x)
  BY HandlerPlans DEF PlansNext
<1>3. ASSUME NEW v \in Workers PROVE Plans(worker[v])'
  <2>1. PICK y : y = worker'[v] /\ Plans(y)
    BY <1>2 DEF PlanInv, HeardInv, ServiceInv, TypeInv, TypeOK
  <2>2. Plans(y)'
    BY <1>1, <2>1, SamePlans
  <2> QED  BY <2>1, <2>2
<1> QED  BY <1>1, <1>3, PanelPlans

\* An appeal is filed when nobody draws, and a stutter plans nothing new.
LEMMA AppealPlans ==
  ASSUME PlanInv, HeardInv', FileAppeal \/ UNCHANGED vars
  PROVE  PlanInv'
<1>1. UNCHANGED panelVars /\ UNCHANGED worker
  BY DEF FileAppeal, vars
<1>2. ASSUME NEW v \in Workers PROVE Plans(worker[v])'
  <2>1. PICK x : x = worker[v] /\ x = worker'[v]
    BY <1>1
  <2>2. CASE UNCHANGED vars
    <3>1. Plans(x)'
      BY <2>1, <2>2, SamePlans DEF PlanInv, vars, caseVars
    <3> QED  BY <2>1, <3>1
  <2>3. CASE FileAppeal
    <3>1. decided = revision /\ DrawsFor(x) /\ revision \in Nat
      BY <2>1, <2>3, PanelAssumption
      DEF FileAppeal, PlanInv, HeardInv, ServiceInv, TypeInv, TypeOK, Revisions
    <3>2. x.pc \notin {"draw", "commit", "link"}
      BY <3>1 DEF DrawsFor
    <3>3. Plans(x)'
      BY <3>2 DEF Plans
    <3> QED  BY <2>1, <3>3
  <2> QED  BY <2>2, <2>3
<1> QED  BY <1>1, <1>2, PanelPlans

-----------------------------------------------------------------------------
(***************************************************************************)
(* A replacement's pointer lets go of the seat that was left, which the    *)
(* new one has made up for.                                                *)
(***************************************************************************)
LEMMA LinkPlans ==
  ASSUME crossed' = {}, PlanInv, HeardInv', NEW w \in Workers, LinkReplacement(w)
  PROVE  PlanInv'
<1>0. /\ worker[w].pc = "link" /\ worker[w] \in WorkerState /\ Serves(worker[w])
      /\ DrawsFor(worker[w]) /\ Plans(worker[w]) /\ HeardInv
      /\ seat \in [SeatIds -> SeatRow] /\ revision \in Revisions
      /\ worker \in [Workers -> WorkerState]
  BY DEF LinkReplacement, At, PlanInv, HeardInv, ServiceInv, TypeInv, TypeOK
<1>1. PICK s \in SeatIds : s = worker[w].event.seat
  BY <1>0, WorkerFields, EventTypes DEF Serves
<1>2. /\ seat[s].status = "vacated" /\ s[1] = revision /\ s = <<revision, s[2]>>
      /\ MeetsDraws(revision, {s[2]})
  <2>1. s = <<s[1], s[2]>>
    BY DEF SeatIds
  <2> QED  BY <1>0, <1>1, <2>1 DEF Serves, DrawsFor, Plans
<1>3. /\ seat' = [seat EXCEPT ![s] = [seat[s] EXCEPT !.replaced = TRUE]]
      /\ worker' = [worker EXCEPT ![w] = Return(w)] /\ UNCHANGED <<revision, draws>>
  BY <1>1 DEF LinkReplacement, Event, caseVars
<1>4. PICK row : /\ row = [seat[s] EXCEPT !.replaced = TRUE]
                 /\ row.status = seat[s].status /\ row.slot = seat[s].slot /\ row.replaced
  <2>1. \A a \in SeatRow : /\ [a EXCEPT !.replaced = TRUE].status = a.status
                           /\ [a EXCEPT !.replaced = TRUE].slot = a.slot
                           /\ [a EXCEPT !.replaced = TRUE].replaced
    BY DEF SeatRow
  <2> QED  BY <1>0, <2>1
<1>5. seat'[s] = row /\ \A q \in SeatIds \ {s} : seat'[q] = seat[q]
  BY <1>0, <1>3, <1>4
<1>6. \A q \in SeatIds : seat'[q].status = seat[q].status /\ seat'[q].slot = seat[q].slot
  BY <1>4, <1>5
<1>7. /\ (\A q \in SeatIds : seat[q].replaced => seat[q].status = "vacated")'
      /\ (\A q \in SeatIds : IsUsed(q) => seat[q].slot \in SlotTypes)'
  BY <1>2, <1>5, <1>6 DEF PlanInv, IsUsed
<1>8. \A r \in Revisions : HasPanel(r)' <=> HasPanel(r)
  <2>1. \A r \in Revisions, x \in Reviewers : <<r, x>> \in SeatIds
    BY DEF SeatIds
  <2> QED  BY <1>6, <2>1 DEF HasPanel, SeatsWith
<1>9. ASSUME NEW r \in Revisions, NEW t
      PROVE  /\ r # revision => Held(r, t)' = Held(r, t)
             /\ Held(r, t) \ {s[2]} \subseteq Held(r, t)'
  <2>1. ASSUME NEW x \in Reviewers, <<r, x>> # s
        PROVE  HeldSeat(seat'[<<r, x>>], t) <=> HeldSeat(seat[<<r, x>>], t)
    <3>1. <<r, x>> \in SeatIds \ {s}
      BY <2>1 DEF SeatIds
    <3> QED  BY <1>5, <3>1
  <2>2. /\ \A x \in Reviewers : r # revision => <<r, x>> # s
        /\ \A x \in Reviewers : x # s[2] => <<r, x>> # s
    BY <1>2
  <2>3. /\ Held(r, t) = {x \in Reviewers : HeldSeat(seat[<<r, x>>], t)}
        /\ Held(r, t)' = {x \in Reviewers : HeldSeat(seat'[<<r, x>>], t)}
    BY HeldSeats
  <2>4. ASSUME r # revision PROVE Held(r, t)' = Held(r, t)
    BY <2>1, <2>2, <2>3, <2>4
  <2>5. ASSUME NEW x \in Held(r, t) \ {s[2]} PROVE x \in Held(r, t)'
    BY <2>1, <2>2, <2>3, <2>5
  <2> QED  BY <2>4, <2>5
<1>10. ASSUME NEW r \in Revisions PROVE MeetsDraws(r, {})'
  <2>1. CASE r = revision
    <3>1. \A t \in SlotTypes : Held(r, t) \ {s[2]} \subseteq Held(r, t)' \ {}
      BY <1>9
    <3>2. MeetsDraws(r, {s[2]}) /\ UNCHANGED draws
      BY <1>2, <1>3, <2>1
    <3> QED  BY <3>1, <3>2, DrawsStayMet
  <2>2. CASE r # revision
    <3>1. \A t \in SlotTypes : Held(r, t) \ {} \subseteq Held(r, t)' \ {}
      BY <1>9, <2>2
    <3>2. MeetsDraws(r, {}) /\ UNCHANGED draws
      BY <1>3 DEF PlanInv
    <3> QED  BY <3>1, <3>2, DrawsStayMet
  <2> QED  BY <2>1, <2>2
<1>11. (\A i \in DOMAIN draws : draws[i].kind # "replacement" =>
        /\ HasPanel(draws[i].revision)
        /\ draws[i].round \in LowestRound(draws[i].revision)..MaxRound)'
  <2>1. ASSUME NEW i \in DOMAIN draws, draws[i].kind # "replacement"
        PROVE  /\ HasPanel(draws[i].revision)'
               /\ draws[i].round \in LowestRound(draws[i].revision)..MaxRound
    <3>1. PICK r \in Revisions : r = draws[i].revision
      BY DrawsAreRows
    <3>2. HasPanel(r) /\ draws[i].round \in LowestRound(r)..MaxRound
      BY <2>1, <3>1, DrawsAreRows
    <3>3. HasPanel(r)' /\ r = draws'[i].revision
      BY <1>3, <1>8, <3>1, <3>2
    <3> QED  BY <3>1, <3>2, <3>3 DEF HasPanel, SeatsWith
  <2> QED  BY <1>3, <2>1 DEF LowestRound
<1>12. ASSUME NEW v \in Workers PROVE Plans(worker[v])'
  <2>1. PICK x : x = worker'[v]
    OBVIOUS
  <2>2. x.pc \notin InFlight
    <3>1. CASE v = w
      BY <1>0, <1>3, <2>1, <3>1 DEF Return, InFlight
    <3>2. CASE v # w
      <4>1. worker[v].pc \notin InFlight
        BY <3>2, NoneInFlight DEF LinkReplacement
      <4> QED  BY <1>0, <1>3, <2>1, <3>2, <4>1
    <3> QED  BY <3>1, <3>2
  <2>3. Plans(x)'
    BY <2>2 DEF Plans, InFlight
  <2> QED  BY <2>1, <2>3
<1>13. OneWavePerRound'
  BY <1>3 DEF PlanInv, OneWavePerRound
<1> QED  BY <1>7, <1>10, <1>11, <1>12, <1>13 DEF PlanInv

-----------------------------------------------------------------------------
\* One goes and another comes.
LEMMA OneForAnother ==
  ASSUME NEW S, IsFiniteSet(S), NEW T, IsFiniteSet(T), NEW x, NEW y, y \notin S, x # y,
         S \ {x} \subseteq T, y \in T
  PROVE  Cardinality(S) <= Cardinality(T)
<1>1. /\ IsFiniteSet(S \ {x}) /\ Cardinality(S) \in Nat /\ Cardinality(T) \in Nat
      /\ Cardinality(S \ {x}) = IF x \in S THEN Cardinality(S) - 1 ELSE Cardinality(S)
  BY FS_RemoveElement, FS_CardinalityType
<1>2. Cardinality((S \ {x}) \cup {y}) = Cardinality(S \ {x}) + 1
  BY <1>1, FS_AddElement
<1>3. (S \ {x}) \cup {y} \in SUBSET T
  OBVIOUS
<1>4. Cardinality((S \ {x}) \cup {y}) <= Cardinality(T)
  BY <1>3, FS_Subset
<1> QED  BY <1>1, <1>2, <1>4

\* The seats of a draw that commits: who takes them sat nowhere.
LEMMA CommitSeats ==
  ASSUME PlanInv, NEW w \in Workers, CommitDraw(w), ~Throw(w)
  PROVE  /\ worker[w].draw.revision = revision /\ revision \in Revisions
         /\ worker[w].draw \in DrawRow /\ UNCHANGED revision
         /\ draws' = Append(draws, worker[w].draw) /\ draws \in Seq(DrawRow)
         /\ \A s \in SeatIds :
              IF s[1] = revision /\ s[2] \in DOMAIN worker[w].seats
                THEN /\ seat[s].status = "none" /\ ~seat[s].replaced
                     /\ seat'[s].status = "open" /\ ~seat'[s].replaced
                     /\ seat'[s].slot = worker[w].seats[s[2]]
                     /\ seat'[s].slot \in SlotTypes
                ELSE seat'[s] = seat[s]
<1>0. /\ worker[w].pc = "commit" /\ worker[w] \in WorkerState /\ Serves(worker[w])
      /\ DrawsFor(worker[w]) /\ revision \in Revisions /\ draws \in Seq(DrawRow) /\ SeatsOnce
  BY DEF CommitDraw, At, PlanInv, HeardInv, ServiceInv, TypeInv, TypeOK
<1>1. PICK drawn : drawn = worker[w].seats
  OBVIOUS
<1>2. /\ worker[w].draw.revision = revision /\ worker[w].draw \in DrawRow
      /\ drawn \in DrawnSeats
  BY <1>0, <1>1, WorkerFields DEF DrawsFor
<1>3. /\ seat' = [s \in SeatIds |-> IF s[1] = revision /\ s[2] \in DOMAIN drawn
                                    THEN OpenSeat(drawn[s[2]]) ELSE seat[s]]
      /\ draws' = Append(draws, worker[w].draw) /\ UNCHANGED revision
  BY <1>1, <1>2 DEF CommitDraw, caseVars
<1>4. /\ \A t : OpenSeat(t).status = "open" /\ ~OpenSeat(t).replaced /\ OpenSeat(t).slot = t
      /\ NoSeat.status = "none" /\ ~NoSeat.replaced
  BY DEF OpenSeat, NoSeat
<1>5. \A y \in DOMAIN drawn : drawn[y] \in SlotTypes
  BY <1>2 DEF DrawnSeats
<1>6. ASSUME NEW s \in SeatIds, s[1] = revision, s[2] \in DOMAIN drawn
      PROVE  /\ seat[s].status = "none" /\ ~seat[s].replaced
             /\ seat'[s].status = "open" /\ ~seat'[s].replaced
             /\ seat'[s].slot = drawn[s[2]] /\ seat'[s].slot \in SlotTypes
  <2>1. seat[s] = NoSeat
    BY <1>0, <1>1, <1>6 DEF Serves, SeatsOnce
  <2>2. seat'[s] = OpenSeat(drawn[s[2]])
    BY <1>3, <1>6
  <2> QED  BY <1>4, <1>5, <1>6, <2>1, <2>2
<1>7. ASSUME NEW s \in SeatIds, ~(s[1] = revision /\ s[2] \in DOMAIN drawn)
      PROVE  seat'[s] = seat[s]
  BY <1>3, <1>7
<1> QED  BY <1>0, <1>1, <1>2, <1>3, <1>6, <1>7

LEMMA CommitHolds ==
  ASSUME PlanInv, NEW w \in Workers, CommitDraw(w), ~Throw(w), NEW t
  PROVE  /\ \A r \in Revisions : Held(r, t) \subseteq Held(r, t)'
         /\ Drawn(worker[w].seats, t) \subseteq Held(revision, t)'
         /\ Drawn(worker[w].seats, t) \cap Held(revision, t) = {}
         /\ \A y \in DOMAIN worker[w].seats : <<revision, y>> \in SeatIds
<1>1. PICK drawn : drawn = worker[w].seats
  OBVIOUS
<1>2. /\ revision \in Revisions
      /\ \A s \in SeatIds :
              IF s[1] = revision /\ s[2] \in DOMAIN drawn
                THEN /\ seat[s].status = "none"
                     /\ seat'[s].status = "open" /\ seat'[s].slot = drawn[s[2]]
                ELSE seat'[s] = seat[s]
  BY <1>1, CommitSeats
<1>3. \A r \in Revisions, x \in Reviewers :
        <<r, x>> \in SeatIds /\ <<r, x>>[1] = r /\ <<r, x>>[2] = x
  BY DEF SeatIds
<1>4. DOMAIN drawn \subseteq Reviewers
  <2>1. worker[w] \in WorkerState /\ worker[w].pc = "commit"
    BY DEF CommitDraw, At, PlanInv, HeardInv, ServiceInv, TypeInv, TypeOK
  <2> QED  BY <1>1, <2>1, WorkerFields DEF DrawnSeats
<1>5. \A r : /\ Held(r, t) = {x \in Reviewers : HeldSeat(seat[<<r, x>>], t)}
             /\ Held(r, t)' = {x \in Reviewers : HeldSeat(seat'[<<r, x>>], t)}
  BY HeldSeats
<1>6. ASSUME NEW r \in Revisions, NEW x \in Held(r, t) PROVE x \in Held(r, t)'
  <2>1. x \in Reviewers /\ HeldSeat(seat[<<r, x>>], t)
    BY <1>5
  <2>2. seat'[<<r, x>>] = seat[<<r, x>>]
    BY <1>2, <1>3, <2>1 DEF HeldSeat
  <2> QED  BY <1>5, <2>1, <2>2
<1>7. ASSUME NEW y \in Drawn(drawn, t)
      PROVE  y \in Held(revision, t)' /\ y \notin Held(revision, t)
  <2>1. y \in DOMAIN drawn /\ drawn[y] = t /\ y \in Reviewers
    BY <1>4 DEF Drawn
  <2>2. /\ seat[<<revision, y>>].status = "none"
        /\ seat'[<<revision, y>>].status = "open" /\ seat'[<<revision, y>>].slot = t
    BY <1>2, <1>3, <2>1
  <2>3. HeldSeat(seat'[<<revision, y>>], t) /\ ~HeldSeat(seat[<<revision, y>>], t)
    BY <2>2 DEF HeldSeat
  <2>4. y \in {x \in Reviewers : HeldSeat(seat'[<<revision, x>>], t)}
    BY <2>1, <2>3
  <2>5. y \in Held(revision, t)'
    <3>1. PICK r : r = revision
      OBVIOUS
    <3>2. r = revision'
      BY <3>1, CommitSeats
    <3>3. y \in Held(r, t)'
      BY <1>5, <2>4, <3>1
    <3> QED  BY <3>2, <3>3 DEF Held, Seated, Serving, SeatsWith, OutstandingVacancies
  <2>6. y \notin Held(revision, t)
    BY <1>5, <2>3
  <2> QED  BY <2>5, <2>6
<1> QED  BY <1>1, <1>2, <1>3, <1>4, <1>6, <1>7

\* A draw that opens or expands a panel meets the round it was for.
LEMMA CommitMeets ==
  ASSUME PlanInv, NEW w \in Workers, CommitDraw(w), ~Throw(w),
         worker[w].draw.kind # "replacement",
         NEW r, r = revision, NEW n, n = worker[w].draw.round
  PROVE  Meets(r, n, {})'
<1>0. /\ worker[w].pc = "commit" /\ worker[w] \in WorkerState /\ Plans(worker[w])
      /\ revision \in Revisions /\ revision' = revision
  BY CommitSeats DEF CommitDraw, At, PlanInv, HeardInv, ServiceInv, TypeInv, TypeOK
<1>1. PICK drawn : drawn = worker[w].seats
  OBVIOUS
<1>2. n \in LowestRound(r)..MaxRound /\ r \in Revisions
  BY <1>0, <1>1 DEF Plans
<1>3. ASSUME NEW t \in SlotTypes
      PROVE  Cardinality(Held(r, t)' \ {}) >= CountOf(t, PanelSpecFor(r, n))
  <2>1. Cardinality(Seated(r, t)) + Cardinality(Drawn(drawn, t))
          >= CountOf(t, PanelSpecFor(r, n))
    BY <1>0, <1>1 DEF Plans
  <2>2. /\ Seated(r, t) \subseteq Held(r, t)' /\ Drawn(drawn, t) \subseteq Held(r, t)'
        /\ Seated(r, t) \cap Drawn(drawn, t) = {}
    <3>1. /\ Drawn(drawn, t) \subseteq Held(r, t)' /\ Drawn(drawn, t) \cap Held(r, t) = {}
          /\ Held(r, t) \subseteq Held(r, t)'
      <4>1. /\ Drawn(drawn, t) \subseteq Held(revision, t)'
            /\ Drawn(drawn, t) \cap Held(revision, t) = {}
            /\ \A q \in Revisions : Held(q, t) \subseteq Held(q, t)'
        BY <1>1, CommitHolds
      <4>2. r = revision'
        BY <1>0
      <4>3. Held(r, t)' = Held(revision, t)'
        BY <4>2 DEF Held, Seated, Serving, SeatsWith, OutstandingVacancies
      <4> QED  BY <1>2, <4>1, <4>3
    <3>2. Seated(r, t) \subseteq Held(r, t)
      BY HeldSeats
    <3> QED  BY <3>1, <3>2
  <2>3. IsFiniteSet(Held(r, t)')
    BY HeldSeats
  <2>4. PICK A, B, C : A = Seated(r, t) /\ B = Drawn(drawn, t) /\ C = Held(r, t)'
    OBVIOUS
  <2>5. A \in SUBSET C /\ B \in SUBSET C /\ A \cap B = {} /\ IsFiniteSet(C)
    BY <2>2, <2>3, <2>4
  <2>6. IsFiniteSet(A) /\ IsFiniteSet(B)
    BY <2>5, FS_Subset
  <2>7. Cardinality(A \cup B) = Cardinality(A) + Cardinality(B)
    <3>1. Cardinality(A \cup B) = Cardinality(A) + Cardinality(B) - Cardinality(A \cap B)
      BY <2>6, FS_Union
    <3>2. Cardinality(A \cap B) = 0
      BY <2>5, FS_EmptySet
    <3>3. Cardinality(A) \in Nat /\ Cardinality(B) \in Nat
      BY <2>6, FS_CardinalityType
    <3> QED  BY <3>1, <3>2, <3>3
  <2>8. Cardinality(A \cup B) <= Cardinality(C)
    <3>1. A \cup B \in SUBSET C
      BY <2>5
    <3> QED  BY <2>5, <3>1, FS_Subset
  <2>9. /\ Cardinality(A) \in Nat /\ Cardinality(B) \in Nat /\ Cardinality(C) \in Nat
        /\ CountOf(t, PanelSpecFor(r, n)) \in Nat
    BY <1>2, <2>5, <2>6, FS_CardinalityType, SpecIsFinite
  <2>10. Cardinality(C) >= CountOf(t, PanelSpecFor(r, n))
    BY <2>1, <2>4, <2>7, <2>8, <2>9
  <2>11. Held(r, t)' \ {} = C
    BY <2>4
  <2> QED  BY <2>10, <2>11
<1> QED  BY <1>3 DEF Meets

\* Its predecessors' rounds stay met ...
LEMMA CommitKeeps ==
  ASSUME PlanInv, NEW w \in Workers, CommitDraw(w), ~Throw(w),
         NEW i \in DOMAIN draws, draws[i].kind # "replacement",
         NEW r, r = draws[i].revision, NEW n, n = draws[i].round
  PROVE  Meets(r, n, {})'
<1>1. r \in Revisions
  BY DrawsAreRows
<1>2. n \in LowestRound(r)..MaxRound /\ Meets(r, n, {})
  BY <1>1, DrawsAreRows DEF PlanInv, MeetsDraws
<1>3. \A t \in SlotTypes : Held(r, t) \ {} \subseteq Held(r, t)' \ {}
  BY <1>1, CommitHolds
<1> QED  BY <1>1, <1>2, <1>3, StaysMet

\* ... also while a replacement sits and the seat it fills still counts.
LEMMA CommitReplaces ==
  ASSUME PlanInv, NEW w \in Workers, CommitDraw(w), ~Throw(w),
         worker[w].draw.kind = "replacement",
         NEW i \in DOMAIN draws, draws[i].kind # "replacement", draws[i].revision = revision,
         NEW n, n = draws[i].round, NEW x, x = worker[w].event.seat[2],
         NEW r, r = revision
  PROVE  Meets(r, n, {x})'
<1>0. /\ worker[w].pc = "commit" /\ worker[w] \in WorkerState /\ Plans(worker[w])
      /\ Serves(worker[w]) /\ DrawsFor(worker[w]) /\ r' = r /\ r \in Revisions
      /\ revision' = revision
  BY CommitSeats DEF CommitDraw, At, PlanInv, HeardInv, ServiceInv, TypeInv, TypeOK
<1>1. PICK s \in SeatIds : s = worker[w].event.seat
  BY <1>0, WorkerFields, EventTypes DEF Serves
<1>2. /\ s = <<r, x>> /\ x \in Reviewers /\ seat[s].status = "vacated"
      /\ Drawn(worker[w].seats, seat[s].slot) # {}
  <2>1. s = <<s[1], s[2]>> /\ s[2] \in Reviewers
    BY DEF SeatIds
  <2> QED  BY <1>0, <1>1, <2>1 DEF Serves, DrawsFor, Plans
<1>3. n \in LowestRound(r)..MaxRound /\ Meets(r, n, {})
  BY <1>0, DrawsAreRows DEF PlanInv, MeetsDraws
<1>4. ASSUME NEW t \in SlotTypes
      PROVE  Cardinality(Held(r, t)' \ {x}) >= CountOf(t, PanelSpecFor(r, n))
  <2>0. PICK A, B, D : A = Held(r, t) /\ B = Held(r, t)' /\ D = Drawn(worker[w].seats, t)
    OBVIOUS
  <2>1. /\ A \subseteq B /\ D \subseteq B /\ D \cap A = {}
        /\ \A y \in DOMAIN worker[w].seats : <<revision, y>> \in SeatIds
    <3>1. B = Held(revision, t)'
      <4>1. r = revision'
        BY <1>0
      <4> QED  BY <2>0, <4>1 DEF Held, Seated, Serving, SeatsWith, OutstandingVacancies
    <3>2. A = Held(revision, t)
      BY <2>0
    <3> QED  BY <1>0, <2>0, <3>1, <3>2, CommitHolds
  <2>2. /\ IsFiniteSet(A) /\ IsFiniteSet(B) /\ IsFiniteSet(B \ {x})
        /\ Cardinality(A) \in Nat /\ Cardinality(B \ {x}) \in Nat
    <3>1. IsFiniteSet(A) /\ IsFiniteSet(B)
      BY <2>0, HeldSeats
    <3>2. IsFiniteSet(B \ {x})
      BY <3>1, FS_RemoveElement
    <3> QED  BY <3>1, <3>2, FS_CardinalityType
  <2>3. /\ Cardinality(A) >= CountOf(t, PanelSpecFor(r, n))
        /\ CountOf(t, PanelSpecFor(r, n)) \in Nat
    <3>1. A \ {} = A
      OBVIOUS
    <3>2. Cardinality(A \ {}) >= CountOf(t, PanelSpecFor(r, n))
      BY <1>3, <2>0 DEF Meets
    <3> QED  BY <1>0, <1>3, <3>1, <3>2, SpecIsFinite
  <2>4. CASE t = seat[s].slot
    <3>1. PICK y \in D : TRUE
      BY <1>2, <2>0, <2>4
    <3>2. y \notin A /\ y \in B /\ y # x
      <4>1. y \in DOMAIN worker[w].seats
        BY <2>0, <3>1 DEF Drawn
      <4>2. seat[<<r, y>>].status = "none"
        <5>1. /\ <<revision, y>> \in SeatIds /\ <<revision, y>>[1] = revision
              /\ <<revision, y>>[2] = y
          BY <2>1, <4>1
        <5>2. seat[<<revision, y>>].status = "none"
          BY <4>1, <5>1, CommitSeats
        <5> QED  BY <5>2
      <4> QED  BY <1>2, <2>1, <3>1, <4>2
    <3>3. A \ {x} \subseteq B \ {x} /\ y \in B \ {x}
      BY <2>1, <3>2
    <3>4. Cardinality(A) <= Cardinality(B \ {x})
      BY <2>2, <3>2, <3>3, OneForAnother
    <3> QED  BY <2>0, <2>2, <2>3, <3>4
  <2>5. CASE t # seat[s].slot
    <3>1. ~HeldSeat(seat[<<r, x>>], t)
      BY <1>2, <2>5 DEF HeldSeat
    <3>2. A = {z \in Reviewers : HeldSeat(seat[<<r, z>>], t)}
      BY <2>0, HeldSeats
    <3>3. x \notin A
      BY <3>1, <3>2
    <3>4. A \in SUBSET (B \ {x})
      BY <2>1, <3>3
    <3>5. Cardinality(A) <= Cardinality(B \ {x})
      BY <2>2, <3>4, FS_Subset
    <3> QED  BY <2>0, <2>2, <2>3, <3>5
  <2> QED  BY <2>4, <2>5
<1> QED  BY <1>4 DEF Meets

\* What the draws are after one more.
LEMMA CommitDraws ==
  ASSUME PlanInv, NEW w \in Workers, CommitDraw(w), ~Throw(w), NEW i \in DOMAIN draws'
  PROVE  \/ i \in DOMAIN draws /\ draws'[i] = draws[i]
         \/ i = Len(draws) + 1 /\ i \notin DOMAIN draws /\ draws'[i] = worker[w].draw
<1>1. draws' = Append(draws, worker[w].draw) /\ draws \in Seq(DrawRow)
      /\ worker[w].draw \in DrawRow
  BY CommitSeats
<1> QED  BY <1>1

\* No draw that is not a replacement is made twice.
LEMMA CommitIsOneWave ==
  ASSUME PlanInv, NEW w \in Workers, CommitDraw(w), ~Throw(w)
  PROVE  OneWavePerRound'
<1> SUFFICES ASSUME NEW i \in DOMAIN draws', NEW j \in DOMAIN draws', i # j,
                    draws'[i] = draws'[j], draws'[i].kind # "replacement"
             PROVE  FALSE
  BY DEF OneWavePerRound
<1>1. worker[w].pc = "commit"
  BY DEF CommitDraw, At
<1>2. PICK d : d = worker[w].draw
  OBVIOUS
<1>3. ASSUME d.kind # "replacement", NEW k \in DOMAIN draws PROVE draws[k] # d
  BY <1>1, <1>2, <1>3, DrawIsFresh
<1>4. /\ \/ i \in DOMAIN draws /\ draws'[i] = draws[i]
         \/ i = Len(draws) + 1 /\ draws'[i] = d
      /\ \/ j \in DOMAIN draws /\ draws'[j] = draws[j]
         \/ j = Len(draws) + 1 /\ draws'[j] = d
  BY <1>2, CommitDraws
<1>5. CASE i \in DOMAIN draws /\ draws'[i] = draws[i] /\ j \in DOMAIN draws /\ draws'[j] = draws[j]
  BY <1>5 DEF PlanInv, OneWavePerRound
<1> QED  BY <1>3, <1>4, <1>5

LEMMA CommitPlans ==
  ASSUME crossed' = {}, PlanInv, HeardInv', NEW w \in Workers, CommitDraw(w), ~Throw(w)
  PROVE  PlanInv'
<1>0. /\ worker[w].pc = "commit" /\ worker[w] \in WorkerState /\ Plans(worker[w])
      /\ revision \in Revisions /\ worker[w].draw \in DrawRow
      /\ worker[w].draw.revision = revision /\ UNCHANGED revision
      /\ worker \in [Workers -> WorkerState]
  BY CommitSeats DEF CommitDraw, At, PlanInv, HeardInv, ServiceInv, TypeInv, TypeOK
<1>1. \A s \in SeatIds :
        \/ /\ seat[s].status = "none" /\ s[1] = revision
           /\ seat'[s].status = "open" /\ ~seat'[s].replaced /\ seat'[s].slot \in SlotTypes
        \/ seat'[s] = seat[s]
  BY CommitSeats
<1>2. /\ (\A s \in SeatIds : seat[s].replaced => seat[s].status = "vacated")'
      /\ (\A s \in SeatIds : IsUsed(s) => seat[s].slot \in SlotTypes)'
  BY <1>1 DEF PlanInv, IsUsed
<1>3. \A r \in Revisions, x \in Reviewers : <<r, x>> \in SeatIds
  BY DEF SeatIds
<1>4. ASSUME NEW r \in Revisions, HasPanel(r) PROVE HasPanel(r)'
  <2>1. PICK x \in Reviewers : seat[<<r, x>>].status \in {"open", "submitted", "vacated"}
    BY <1>4 DEF HasPanel, SeatsWith
  <2>2. seat'[<<r, x>>].status \in {"open", "submitted", "vacated"}
    BY <1>1, <1>3, <2>1
  <2> QED  BY <2>2 DEF HasPanel, SeatsWith
<1>5. ASSUME NEW r \in Revisions, r = revision PROVE HasPanel(r)'
  <2>1. PICK y : y \in DOMAIN worker[w].seats
    BY <1>0 DEF Plans
  <2>2. <<revision, y>> \in SeatIds /\ y \in Reviewers
        /\ <<revision, y>>[1] = revision /\ <<revision, y>>[2] = y
    <3>1. <<revision, y>> \in SeatIds
      BY <2>1, CommitHolds
    <3> QED  BY <3>1 DEF SeatIds
  <2>3. seat'[<<revision, y>>].status = "open"
    BY <2>1, <2>2, CommitSeats
  <2>4. seat'[<<r, y>>].status = "open"
    BY <1>5, <2>3
  <2> QED  BY <2>2, <2>4 DEF HasPanel, SeatsWith
<1>6. ASSUME NEW i \in DOMAIN draws', draws'[i].kind # "replacement"
      PROVE  \E r, n :
               /\ r \in Revisions /\ r = draws'[i].revision /\ n = draws'[i].round /\ HasPanel(r)'
               /\ n \in LowestRound(r)..MaxRound /\ Meets(r, n, {})'
  <2>1. CASE i \in DOMAIN draws /\ draws'[i] = draws[i]
    <3>1. PICK r, n : r = draws[i].revision /\ n = draws[i].round
      OBVIOUS
    <3>2. draws[i].kind # "replacement"
      BY <1>6, <2>1
    <3>3. r \in Revisions /\ HasPanel(r) /\ n \in LowestRound(r)..MaxRound
      BY <2>1, <3>1, <3>2, DrawsAreRows
    <3>4. HasPanel(r)' /\ Meets(r, n, {})'
      BY <1>4, <2>1, <3>1, <3>2, <3>3, CommitKeeps
    <3>5. r = draws'[i].revision /\ n = draws'[i].round
      BY <2>1, <3>1
    <3> QED  BY <3>3, <3>4, <3>5
  <2>2. CASE draws'[i] = worker[w].draw
    <3>1. PICK r, n : r = revision /\ n = worker[w].draw.round
      OBVIOUS
    <3>2. worker[w].draw.kind # "replacement"
      BY <1>6, <2>2
    <3>3. r \in Revisions /\ n \in LowestRound(r)..MaxRound
      BY <1>0, <3>1 DEF Plans
    <3>4. HasPanel(r)' /\ Meets(r, n, {})'
      BY <1>5, <3>1, <3>2, <3>3, CommitMeets
    <3>5. r = draws'[i].revision /\ n = draws'[i].round
      BY <1>0, <2>2, <3>1
    <3> QED  BY <3>3, <3>4, <3>5
  <2> QED  BY <2>1, <2>2, CommitDraws
<1>7. (\A i \in DOMAIN draws : draws[i].kind # "replacement" =>
        /\ HasPanel(draws[i].revision)
        /\ draws[i].round \in LowestRound(draws[i].revision)..MaxRound)'
  BY <1>6 DEF HasPanel, SeatsWith, LowestRound
<1>8. ASSUME NEW r \in Revisions PROVE MeetsDraws(r, {})'
  <2> SUFFICES ASSUME NEW i \in DOMAIN draws', draws'[i].revision = r,
                      draws'[i].kind # "replacement"
               PROVE  Meets(r, draws[i].round, {})'
    BY DEF MeetsDraws
  <2>1. PICK q, n : q = draws'[i].revision /\ n = draws'[i].round /\ Meets(q, n, {})'
    BY <1>6
  <2> QED  BY <2>1 DEF Meets
<1>9. OneWavePerRound'
  BY CommitIsOneWave
<1>10. Plans(worker[w])'
  <2>1. PICK x : x = worker'[w]
    OBVIOUS
  <2>2. worker' = [worker EXCEPT ![w] =
          IF worker[w].draw.kind = "replacement"
            THEN [pc |-> "link", event |-> Event(w)] ELSE Return(w)]
    BY DEF CommitDraw
  <2>3. x = IF worker[w].draw.kind = "replacement"
              THEN [pc |-> "link", event |-> Event(w)] ELSE Return(w)
    BY <1>0, <2>1, <2>2
  <2>4. CASE worker[w].draw.kind # "replacement"
    <3>1. x.pc = "ack"
      BY <2>3, <2>4 DEF Return
    <3>2. Plans(x)'
      BY <3>1 DEF Plans
    <3> QED  BY <2>1, <3>2
  <2>5. CASE worker[w].draw.kind = "replacement"
    <3>1. x.pc = "link" /\ x.event = worker[w].event
      BY <2>3, <2>5 DEF Event
    <3>2. PICK r, y : r = revision /\ y = worker[w].event.seat[2]
      OBVIOUS
    <3>3. MeetsDraws(r, {y})'
      <4> SUFFICES ASSUME NEW i \in DOMAIN draws', draws'[i].revision = r,
                          draws'[i].kind # "replacement"
                   PROVE  Meets(r, draws[i].round, {y})'
        BY DEF MeetsDraws
      <4>1. i \in DOMAIN draws /\ draws'[i] = draws[i]
        BY <2>5, CommitDraws
      <4>2. PICK n : n = draws[i].round
        OBVIOUS
      <4>3. Meets(r, n, {y})'
        BY <2>5, <3>2, <4>1, <4>2, CommitReplaces
      <4>4. n = draws'[i].round
        BY <4>1, <4>2
      <4> QED  BY <4>3, <4>4 DEF Meets
    <3>4. r = revision' /\ y = x.event.seat[2]
      BY <1>0, <3>1, <3>2
    <3>5. MeetsDraws(revision, {x.event.seat[2]})'
      BY <3>3, <3>4 DEF MeetsDraws
    <3>6. Plans(x)'
      BY <3>1, <3>5 DEF Plans
    <3> QED  BY <2>1, <3>6
  <2> QED  BY <2>4, <2>5
<1>11. ASSUME NEW v \in Workers, v # w PROVE Plans(worker[v])'
  <2>1. PICK x : x = worker[v] /\ x = worker'[v]
    BY <1>0, <1>11 DEF CommitDraw
  <2>2. x.pc \notin InFlight
    BY <1>11, <2>1, NoneInFlight DEF CommitDraw, Throw, Proceed
  <2>3. Plans(x)'
    BY <2>2 DEF Plans, InFlight
  <2> QED  BY <2>1, <2>3
<1>12. ASSUME NEW v \in Workers PROVE Plans(worker[v])'
  BY <1>10, <1>11
<1> QED  BY <1>2, <1>7, <1>8, <1>9, <1>12 DEF PlanInv

LEMMA PlanNext ==
  ASSUME crossed' = {}, PlanInv, [Next]_vars
  PROVE  PlanInv'
<1>1. HeardInv'
  BY HeardNext DEF PlanInv
<1>2. ASSUME NEW w \in Workers, HandlerStep(w) \/ Die(w) PROVE PlanInv'
  <2>1. CASE CommitDraw(w) /\ ~Throw(w)
    BY <1>1, <2>1, CommitPlans
  <2>2. CASE LinkReplacement(w)
    BY <1>1, <2>2, LinkPlans
  <2> QED  BY <1>1, <1>2, <2>1, <2>2, QuietPlans
<1> QED  BY <1>1, <1>2, VotePlans, AppealPlans DEF Next

\* The panel and the draws, as long as no handler crosses another.
LEMMA PlanHolds == Spec => [](crossed = {} => PlanInv)
<1> DEFINE Inv == crossed = {} => PlanInv
<1>1. Init => Inv
  BY PlanInit
<1>2. Inv /\ [Next]_vars => Inv'
  BY PlanNext, CrossingsAreKept
<1> HIDE DEF Inv
<1>3. Spec => []Inv
  BY <1>1, <1>2, PTL DEF Spec
<1> QED  BY <1>3 DEF Inv

(***************************************************************************)
(* However handlers overlap, die and are run again: a redelivered event    *)
(* opens no second panel for a revision, nor expands it twice to the same  *)
(* round, unless two draws were in flight at once.                         *)
(***************************************************************************)
THEOREM NoSecondWave == Spec => []OneWaveUncrossed
<1>1. (crossed = {} => PlanInv) => OneWaveUncrossed
  BY DEF PlanInv, OneWaveUncrossed
<1> QED  BY <1>1, PlanHolds, PTL

(***************************************************************************)
(* However handlers overlap and die, whoever leaves and whoever is drawn   *)
(* for them: while none of them changes a panel under another one in       *)
(* flight, a panel has or is owed every seat of each round it was drawn    *)
(* to.                                                                     *)
(***************************************************************************)
THEOREM SpecsAreKept == Spec => []PanelKeepsItsSpec
<1>1. (crossed = {} => PlanInv) => PanelKeepsItsSpec
  <2> SUFFICES ASSUME PlanInv, NEW i \in DOMAIN draws, NEW t \in SlotTypes,
                      draws[i].kind # "replacement"
               PROVE  LET r == draws[i].revision
                          owed == {x \in SeatsWith(r, {"vacated"}) :
                                     ~seat[<<r, x>>].replaced /\ seat[<<r, x>>].slot = t}
                      IN  Cardinality(Seated(r, t) \cup owed)
                            >= CountOf(t, PanelSpecFor(r, draws[i].round))
    BY DEF PanelKeepsItsSpec
  <2>1. PICK r \in Revisions : r = draws[i].revision
    BY DrawsAreRows
  <2>2. Cardinality(Held(r, t) \ {}) >= CountOf(t, PanelSpecFor(r, draws[i].round))
    BY <2>1 DEF PlanInv, MeetsDraws, Meets
  <2>3. Held(r, t) \ {} =
          Seated(r, t) \cup {x \in SeatsWith(r, {"vacated"}) :
                               ~seat[<<r, x>>].replaced /\ seat[<<r, x>>].slot = t}
    BY DEF Held, OutstandingVacancies
  <2> QED  BY <2>1, <2>2, <2>3
<1> QED  BY <1>1, PlanHolds, PTL
=============================================================================
