-------------------------------- MODULE Panel --------------------------------
(***************************************************************************)
(* The jury of one case: the sortition worker that draws, replaces and     *)
(* expands it (handleCaseReadyForReview, handleAssignmentVacated,          *)
(* openPanel), the consensus worker that waits for it and reads its        *)
(* ballots (evaluateCase), and the jurors who vote or leave meanwhile.     *)
(*                                                                         *)
(* The handlers run from the outbox, which delivers each event at least    *)
(* once: its timer starts a pass every second whether or not the last one  *)
(* ended, so handlers of a case may overlap, and a handler may die between *)
(* any two of its steps.  The case is of `standard' sensitivity, whose     *)
(* consensus has no structural requirement; a juror is anyone the case has *)
(* not seated before.                                                      *)
(***************************************************************************)
EXTENDS Integers, Sequences, FiniteSets, FiniteSetsExt, Functions

CONSTANTS
  Reviewers,      \* reviewer profiles
  SlotTypes,      \* SLOT_TYPES
  Positions,      \* what a juror may find
  MaxRound,       \* MAX_PANEL_ROUND (3)
  Rounds,         \* COMMUNITY_ROUNDS: the slots of each round
  AppealRounds,   \* COMMUNITY_APPEAL_ROUNDS, from APPEAL_MIN_ROUND up
  AppealMinRound, \* APPEAL_MIN_ROUND (2)
  RequiredVotes,  \* ROUND_AGREEING_VOTES
  Workers,        \* handlers that may run at once
  Overlap,        \* TRUE: a lease may expire under a running handler
  MaxRevision,    \* bound: revisions the case may reach
  MaxVacated,     \* bound: jurors who recuse or run out of time
  MaxRefusals,    \* bound: draws that find too few of the unseated eligible
  MaxCrashes      \* bound: handlers that die

ASSUME LadderAssumption ==
  /\ MaxRound \in Nat \ {0} /\ AppealMinRound \in 1..MaxRound
  /\ \A n \in 1..MaxRound : Rounds[n] \in Seq(SlotTypes)
  /\ \A n \in AppealMinRound..MaxRound : AppealRounds[n] \in Seq(SlotTypes)
  /\ RequiredVotes \in [1..MaxRound -> Nat \ {0}]
  /\ \A m, n \in 1..MaxRound : m <= n => RequiredVotes[m] <= RequiredVotes[n]
ASSUME PanelAssumption ==
  /\ IsFiniteSet(Reviewers) /\ MaxRevision \in Nat \ {0} /\ Overlap \in BOOLEAN
  /\ MaxRefusals \in Nat /\ MaxCrashes \in Nat
  /\ "none" \notin SlotTypes \cup Positions /\ "inconclusive" \notin Positions

VARIABLES
  revision,  \* cases.currentRevision
  decided,   \* cases.decidedRevision
  decision,  \* decisions of each revision: the outcome and the jury's size
  bar,       \* appeals.requiredAgreeingVotes of the appeal that opened it
  seat,      \* assignments (and the review of each), by revision and juror
  draws,     \* sortition_draws that seated somebody, oldest first
  crossed,   \* handlers that changed the panel under another one (history)
  queue,     \* outbox events not yet dispatched
  worker,    \* the handler each worker is running
  refusals,  \* draws refused although enough people were unseated
  crashes    \* handlers that died

caseVars == <<revision, decided, decision, bar>>
panelVars == <<seat, draws, crossed>>
vars == <<caseVars, panelVars, queue, worker, refusals, crashes>>

Revisions == 1..MaxRevision
SeatIds == Revisions \X Reviewers

\* `open' is offered or accepted, `vacated' recused or expired.
SeatRow == [status : {"none", "open", "submitted", "vacated"},
            slot : SlotTypes \cup {"none"}, vote : Positions \cup {"none"},
            replaced : BOOLEAN]
NoSeat == [status |-> "none", slot |-> "none", vote |-> "none", replaced |-> FALSE]
OpenSeat(t) == [NoSeat EXCEPT !.status = "open", !.slot = t]

Outcomes == Positions \cup {"inconclusive"}
NoDecision == [outcome |-> "none", jury |-> 0]

Ready(r) == [type |-> "case.ready_for_review", revision |-> r]
Vacated(s) == [type |-> "assignment.vacated", seat |-> s]
ReviewSubmitted(s) == [type |-> "review.submitted", seat |-> s]
Events == {Ready(r) : r \in Revisions}
          \cup {Vacated(s) : s \in SeatIds} \cup {ReviewSubmitted(s) : s \in SeatIds}

NoDraw == <<>>
Idle == [pc |-> "idle"]
Kinds == {"initial", "replacement", "expansion"}
DrawRow == [revision : Revisions, kind : Kinds, round : 1..MaxRound]
DrawnSeats == UNION {[D -> SlotTypes] : D \in SUBSET Reviewers}
WorkerState ==
  {Idle}
  \cup [pc : {"start", "link", "ack"}, event : Events]
  \cup [pc : {"ballots"}, event : Events, revision : Revisions,
        round : 1..MaxRound, jury : Nat]
  \cup [pc : {"publish"}, event : Events, revision : Revisions,
        outcome : Outcomes, jury : Nat]
  \cup [pc : {"draw"}, event : Events, kind : Kinds, toRound : 0..MaxRound]
  \cup [pc : {"commit"}, event : Events, draw : DrawRow, seats : DrawnSeats]

TypeOK ==
  /\ revision \in Revisions /\ decided \in 0..MaxRevision
  /\ decision \in [Revisions -> [outcome : Outcomes \cup {"none"}, jury : Nat]]
  /\ bar \in [Revisions -> Nat]
  /\ seat \in [SeatIds -> SeatRow]
  /\ draws \in Seq(DrawRow)
  /\ crossed \subseteq Workers
  /\ queue \subseteq Events
  /\ worker \in [Workers -> WorkerState]
  /\ refusals \in 0..MaxRefusals /\ crashes \in 0..MaxCrashes

Init ==
  /\ revision = 1 /\ decided = 0
  /\ decision = [r \in Revisions |-> NoDecision]
  /\ bar = [r \in Revisions |-> 0]
  /\ seat = [s \in SeatIds |-> NoSeat]
  /\ draws = <<>> /\ crossed = {}
  /\ queue = {Ready(1)}
  /\ worker = [w \in Workers |-> Idle]
  /\ refusals = 0 /\ crashes = 0

-----------------------------------------------------------------------------
(***************************************************************************)
(* What the handlers read: the seats of a revision.                        *)
(***************************************************************************)
SeatsWith(r, statuses) == {x \in Reviewers : seat[<<r, x>>].status \in statuses}

Serving(r) == SeatsWith(r, {"open", "submitted"})
Submitted(r) == SeatsWith(r, {"submitted"})

\* Mutant: evaluation does not wait for the seats that have not voted.
PendingSeats_None(r) == {}

PendingSeats(r) == SeatsWith(r, {"open"})

\* Mutant: a seat that was replaced is owed all the same.
OutstandingVacancies_Forever(r) == SeatsWith(r, {"vacated"})

\* Seats somebody left that nobody has replaced yet.
OutstandingVacancies(r) ==
  {x \in SeatsWith(r, {"vacated"}) : ~seat[<<r, x>>].replaced}

\* Mutant: only the jurors of the revision itself are excluded from a draw.
PriorJurors_ThisRevision(r) == SeatsWith(r, {"open", "submitted", "vacated"})

\* Everybody the case ever seated, in any revision (gatherParties).
PriorJurors(r) ==
  UNION {SeatsWith(q, {"open", "submitted", "vacated"}) : q \in Revisions}

LowestRound(r) == IF r > 1 THEN AppealMinRound ELSE 1
PanelSpecFor(r, round) == IF r > 1 THEN AppealRounds[round] ELSE Rounds[round]

\* panelRoundFor: the highest round that `seats' seats fill, or the lowest.
PanelRoundFor(r, seats) ==
  LET filled == {n \in LowestRound(r)..MaxRound : Len(PanelSpecFor(r, n)) <= seats}
  IN  Max(filled \cup {LowestRound(r)})

\* The jurors of revision r who sit in seats of type t.
Seated(r, t) == {x \in Serving(r) : seat[<<r, x>>].slot = t}

\* How many of these slots are of type t.
CountOf(t, slots) == Cardinality({i \in DOMAIN slots : slots[i] = t})

\* The seats of the round's specification that nobody sits in, by type.
SlotsStillToFill(r, round) ==
  [t \in SlotTypes |->
     Max({0, CountOf(t, PanelSpecFor(r, round)) - Cardinality(Seated(r, t))})]

-----------------------------------------------------------------------------
(***************************************************************************)
(* evaluateConsensus over the ballots of revision r, held to the threshold *)
(* of a round: one position ahead of every other with enough votes, or     *)
(* "none".                                                                 *)
(***************************************************************************)
Votes(r, v) == Cardinality({x \in Submitted(r) : seat[<<r, x>>].vote = v})

\* Mutant: an appeal is held to the ordinary threshold.
EnoughVotes_NoBar(n, r, round) == n >= RequiredVotes[round]

\* The round's threshold, or the appeal's where that is higher.
EnoughVotes(n, r, round) == n >= RequiredVotes[round] /\ n >= bar[r]

Agreed(r, round) ==
  {v \in Positions : /\ EnoughVotes(Votes(r, v), r, round)
                     /\ \A u \in Positions \ {v} : Votes(r, u) < Votes(r, v)}

-----------------------------------------------------------------------------
(***************************************************************************)
(* What happens around the handlers.                                       *)
(***************************************************************************)
Environment == UNCHANGED <<caseVars, draws, crossed, worker, refusals, crashes>>

\* submitReview: the seat is consumed, the ballot stored, the event appended.
SubmitReview(s, v) ==
  /\ seat[s].status = "open"
  /\ seat' = [seat EXCEPT ![s].status = "submitted", ![s].vote = v]
  /\ queue' = queue \cup {ReviewSubmitted(s)}
  /\ Environment

\* recuseAssignment, or the expiry sweep.
Vacate(s) ==
  /\ seat[s].status = "open"
  /\ Cardinality({q \in SeatIds : seat[q].status = "vacated"}) < MaxVacated
  /\ seat' = [seat EXCEPT ![s].status = "vacated"]
  /\ queue' = queue \cup {Vacated(s)}
  /\ Environment

(***************************************************************************)
(* appealRequiredVotes: what the lowest appeal round asks for; when the    *)
(* superseded decision was severe, one vote more than it needed, capped at *)
(* unanimity.                                                              *)
(***************************************************************************)
AppealRequiredVotes(severe) ==
  LET base == RequiredVotes[AppealMinRound]
      previous == RequiredVotes[PanelRoundFor(revision, decision[revision].jury)]
      unanimity == Len(AppealRounds[AppealMinRound])
  IN  IF severe THEN Max({base, Min({previous + 1, unanimity})}) ELSE base

\* fileAppeal opens the next revision (CaseRevision has the whole of it).
FileAppeal ==
  /\ decided = revision /\ revision < MaxRevision
  /\ revision' = revision + 1
  /\ \E severe \in BOOLEAN :
       bar' = [bar EXCEPT ![revision + 1] = AppealRequiredVotes(severe)]
  /\ queue' = queue \cup {Ready(revision + 1)}
  /\ UNCHANGED <<decided, decision, panelVars, worker, refusals, crashes>>

-----------------------------------------------------------------------------
(***************************************************************************)
(* The dispatcher gives a worker an event no other worker is running,      *)
(* unless that one's lease expired.                                        *)
(***************************************************************************)
RunningElsewhere(w, e) ==
  \E q \in Workers \ {w} : worker[q] # Idle /\ worker[q].event = e

Claim(w) ==
  /\ worker[w] = Idle
  /\ \E e \in queue :
       /\ Overlap \/ ~RunningElsewhere(w, e)
       /\ worker' = [worker EXCEPT ![w] = [pc |-> "start", event |-> e]]
  /\ UNCHANGED <<caseVars, panelVars, queue, refusals, crashes>>

At(w, pc) == worker[w].pc = pc
Event(w) == worker[w].event

\* A step that only moves the handler on.
Proceed(w, state) ==
  /\ worker' = [worker EXCEPT ![w] = state]
  /\ UNCHANGED <<caseVars, panelVars, queue, refusals, crashes>>

Return(w) == [pc |-> "ack", event |-> Event(w)]
Draw(w, kind, toRound) ==
  [pc |-> "draw", event |-> Event(w), kind |-> kind, toRound |-> toRound]

\* The handler returned: markDispatched.
Ack(w) ==
  /\ At(w, "ack")
  /\ worker' = [worker EXCEPT ![w] = Idle]
  /\ queue' = queue \ {Event(w)}
  /\ UNCHANGED <<caseVars, panelVars, refusals, crashes>>

\* The handler throws: the event is retried.
Throw(w) == Proceed(w, Idle)

\* The process dies, or the database fails it: the event is delivered again.
Die(w) ==
  /\ worker[w] # Idle /\ crashes < MaxCrashes
  /\ crashes' = crashes + 1
  /\ worker' = [worker EXCEPT ![w] = Idle]
  /\ UNCHANGED <<caseVars, panelVars, queue, refusals>>

\* Mutant: the replay guard looks at nothing.
HasPanel_Never(r) == FALSE

HasPanel(r) == SeatsWith(r, {"open", "submitted", "vacated"}) # {}

(***************************************************************************)
(* handleCaseReadyForReview: nothing to do if the current revision has     *)
(* seats.                                                                  *)
(***************************************************************************)
HandleCaseReadyForReview(w) ==
  /\ At(w, "start") /\ Event(w).type = "case.ready_for_review"
  /\ Proceed(w, IF HasPanel(revision)
                  THEN Return(w)
                  ELSE Draw(w, "initial", 0))

(***************************************************************************)
(* handleAssignmentVacated: nothing to do if the seat was replaced.        *)
(***************************************************************************)
HandleAssignmentVacated(w) ==
  /\ At(w, "start") /\ Event(w).type = "assignment.vacated"
  /\ Proceed(w, IF seat[Event(w).seat].replaced
                  THEN Return(w)
                  ELSE Draw(w, "replacement", 0))

(***************************************************************************)
(* evaluateCase reads the case and its panel: it waits for every open seat *)
(* and for every vacancy, and takes the round from the seats.              *)
(***************************************************************************)
EvaluateCase(w) ==
  /\ At(w, "start") /\ Event(w).type = "review.submitted"
  /\ Proceed(w,
       IF \/ Serving(revision) = {}
          \/ OutstandingVacancies(revision) # {}
          \/ PendingSeats(revision) # {}
         THEN Return(w)
         ELSE LET jury == Cardinality(Serving(revision))
              IN  [pc |-> "ballots", event |-> Event(w), revision |-> revision,
                   round |-> PanelRoundFor(revision, jury), jury |-> jury])

\* Mutant: the last round is expanded like any other.
MayExpand_Always(round) == TRUE

MayExpand(round) == round < MaxRound

(***************************************************************************)
(* ... then the ballots: it publishes what they agree on, expands to the   *)
(* next round, or publishes that the last round was inconclusive.          *)
(***************************************************************************)
ReadBallots(w) ==
  LET r == worker[w].revision
      round == worker[w].round
      publish(o) == Proceed(w, [pc |-> "publish", event |-> Event(w),
                                revision |-> r, outcome |-> o,
                                jury |-> worker[w].jury])
  IN  /\ At(w, "ballots")
      /\ \/ \E v \in Agreed(r, round) : publish(v)
         \/ /\ Agreed(r, round) = {} /\ MayExpand(round)
            /\ Proceed(w, Draw(w, "expansion", round + 1))
         \/ /\ Agreed(r, round) = {} /\ ~MayExpand(round)
            /\ publish("inconclusive")

\* publishDecision's compare-and-swap (CaseRevision has the whole of it).
Publish(w) ==
  LET r == worker[w].revision
  IN  /\ At(w, "publish")
      /\ worker' = [worker EXCEPT ![w] = Return(w)]
      /\ IF revision = r /\ decided < r
           THEN /\ decided' = r
                /\ decision' = [decision EXCEPT ![r] =
                     [outcome |-> worker[w].outcome, jury |-> worker[w].jury]]
           ELSE UNCHANGED <<decided, decision>>
      /\ UNCHANGED <<revision, bar, panelVars, queue, refusals, crashes>>

-----------------------------------------------------------------------------
\* The round of a draw: given to an expansion, else read off the seats.
DrawRound(w) ==
  IF worker[w].kind = "expansion" THEN worker[w].toRound
  ELSE PanelRoundFor(revision, Cardinality(Serving(revision)))

\* Mutant: a vacated seat is filled by whatever type of juror comes first.
VacatedSlot_First(s) == CHOOSE t \in SlotTypes : TRUE

VacatedSlot(s) == seat[s].slot

\* The seats a draw must fill: a vacated one, or what its round still lacks.
RequestedSlots(w) ==
  IF worker[w].kind = "replacement"
    THEN [t \in SlotTypes |-> IF t = VacatedSlot(Event(w).seat) THEN 1 ELSE 0]
    ELSE SlotsStillToFill(revision, DrawRound(w))

SeatCount(slots) == MapThenSumSet(LAMBDA t : slots[t], SlotTypes)

\* Every way to fill these slots with these people.
Panels(slots, people) ==
  UNION {{d \in [D -> SlotTypes] :
            \A t \in SlotTypes : Cardinality({x \in D : d[x] = t}) = slots[t]} :
         D \in kSubset(SeatCount(slots), people)}

(***************************************************************************)
(* openPanel reads the case again, its seats and the pool, and samples a   *)
(* panel; it throws when no seat is to fill, and refuses when too few      *)
(* people remain or too few of them are eligible.                          *)
(***************************************************************************)
OpenPanel(w) ==
  LET slots == RequestedSlots(w)
      people == Reviewers \ PriorJurors(revision)
  IN  /\ At(w, "draw")
      /\ \/ SeatCount(slots) = 0 /\ Throw(w)
         \/ /\ SeatCount(slots) > Cardinality(people)
            /\ Proceed(w, Return(w))
         \/ /\ SeatCount(slots) \in 1..Cardinality(people)
            /\ refusals < MaxRefusals
            /\ refusals' = refusals + 1
            /\ worker' = [worker EXCEPT ![w] = Return(w)]
            /\ UNCHANGED <<caseVars, panelVars, queue, crashes>>
         \/ /\ SeatCount(slots) > 0
            /\ \E d \in Panels(slots, people) :
                 Proceed(w, [pc |-> "commit", event |-> Event(w), seats |-> d,
                             draw |-> [revision |-> revision, kind |-> worker[w].kind,
                                       round |-> DrawRound(w)]])

\* Handlers between what they read of a panel and what they write.
InFlight == {"ballots", "publish", "draw", "commit", "link"}

\* A handler changes the panel under those that are in flight.
Crosses(w) ==
  crossed' = crossed \cup (IF \E v \in Workers \ {w} : worker[v].pc \in InFlight
                          THEN {w} ELSE {})

(***************************************************************************)
(* Its transaction writes the draw and the seats, whatever happened to the *)
(* case meanwhile; a juror seated twice in one revision undoes it.         *)
(***************************************************************************)
CommitDraw(w) ==
  LET drawn == worker[w].seats
      r == worker[w].draw.revision
      taken == \E x \in DOMAIN drawn : seat[<<r, x>>] # NoSeat
  IN  /\ At(w, "commit")
      /\ \/ taken /\ Throw(w)
         \/ /\ ~taken
            /\ seat' = [s \in SeatIds |-> IF s[1] = r /\ s[2] \in DOMAIN drawn
                                          THEN OpenSeat(drawn[s[2]]) ELSE seat[s]]
            /\ draws' = Append(draws, worker[w].draw)
            /\ Crosses(w)
            /\ worker' = [worker EXCEPT ![w] =
                 IF worker[w].draw.kind = "replacement"
                   THEN [pc |-> "link", event |-> Event(w)] ELSE Return(w)]
            /\ UNCHANGED <<caseVars, queue, refusals, crashes>>

\* The replacement's pointer, written after the draw committed.
LinkReplacement(w) ==
  /\ At(w, "link")
  /\ seat' = [seat EXCEPT ![Event(w).seat].replaced = TRUE]
  /\ Crosses(w)
  /\ worker' = [worker EXCEPT ![w] = Return(w)]
  /\ UNCHANGED <<caseVars, draws, queue, refusals, crashes>>

-----------------------------------------------------------------------------
HandlerStep(w) ==
  \/ Claim(w) \/ Ack(w)
  \/ HandleCaseReadyForReview(w) \/ HandleAssignmentVacated(w)
  \/ EvaluateCase(w) \/ ReadBallots(w) \/ Publish(w)
  \/ OpenPanel(w) \/ CommitDraw(w) \/ LinkReplacement(w)

LeaveOrVote(s) == Vacate(s) \/ \E v \in Positions : SubmitReview(s, v)

Next ==
  \/ \E s \in SeatIds : LeaveOrVote(s)
  \/ FileAppeal
  \/ \E w \in Workers : HandlerStep(w) \/ Die(w)

Spec == Init /\ [][Next]_vars

(***************************************************************************)
(* Handlers finish, and a seat does not stay open: its juror answers or    *)
(* the sweep expires it.                                                   *)
(***************************************************************************)
Fairness ==
  /\ \A w \in Workers : WF_vars(HandlerStep(w))
  /\ \A s \in SeatIds : WF_vars(LeaveOrVote(s))
FairSpec == Spec /\ Fairness

-----------------------------------------------------------------------------
(***************************************************************************)
(* A decision heard its whole jury: in a decided revision no seat is open  *)
(* and none is owed a replacement, and what was published is what all of   *)
(* its ballots, counted once more, say.  Votes, vacancies, redeliveries,   *)
(* deaths and overlapping reads cannot break it: only a handler that seats *)
(* jurors, or settles a vacancy, under another one in flight.              *)
(***************************************************************************)
JuryWasHeard == crossed = {} =>
  \A r \in 1..decided :
    LET round == PanelRoundFor(r, Cardinality(Submitted(r)))
    IN  /\ SeatsWith(r, {"open"}) = {}
        /\ \A x \in SeatsWith(r, {"vacated"}) : seat[<<r, x>>].replaced
        /\ IF Agreed(r, round) # {}
             THEN decision[r].outcome \in Agreed(r, round)
             ELSE decision[r].outcome = "inconclusive" /\ round = MaxRound

(***************************************************************************)
(* However handlers overlap, no outcome is published that too few jurors   *)
(* stand behind, and none is given up on before the last round was seated. *)
(***************************************************************************)
DecisionHasQuorum ==
  \A r \in 1..decided :
    /\ decision[r].outcome \in Positions =>
         Votes(r, decision[r].outcome) >= Max({RequiredVotes[LowestRound(r)], bar[r]})
    /\ decision[r].outcome = "inconclusive" =>
         Cardinality(Submitted(r)) >= Len(PanelSpecFor(r, MaxRound))

(***************************************************************************)
(* Nobody judges a case twice: an appeal's jurors are new ones, whatever   *)
(* draw was delayed or repeated, unless it was committed under another     *)
(* handler in flight.                                                      *)
(***************************************************************************)
JurorsServeOnce == crossed = {} =>
  \A x \in Reviewers :
    Cardinality({r \in Revisions : seat[<<r, x>>] # NoSeat}) <= 1

(***************************************************************************)
(* "A replayed event cannot draw a second wave of jurors": a revision has  *)
(* one initial draw, and one expansion to each round.                      *)
(***************************************************************************)
OneWavePerRound ==
  \A i, j \in DOMAIN draws :
    i # j /\ draws[i] = draws[j] => draws[i].kind = "replacement"

(***************************************************************************)
(* A second wave takes two draws in flight at once: a replay, a dead       *)
(* handler's event or a late evaluation alone never draws one.             *)
(***************************************************************************)
OneWaveUncrossed == crossed = {} => OneWavePerRound

(***************************************************************************)
(* A panel keeps the shape it was drawn to: for every round it was opened  *)
(* or expanded to, each type of seat is held, or its replacement is owed;  *)
(* vacancies are filled like for like, unless a draw was committed under   *)
(* another handler in flight.                                              *)
(***************************************************************************)
PanelKeepsItsSpec == crossed = {} =>
  \A i \in DOMAIN draws : \A t \in SlotTypes :
    LET r == draws[i].revision
        owed == {x \in SeatsWith(r, {"vacated"}) :
                   ~seat[<<r, x>>].replaced /\ seat[<<r, x>>].slot = t}
    IN  draws[i].kind # "replacement" =>
          Cardinality(Seated(r, t) \cup owed) >= CountOf(t, PanelSpecFor(r, draws[i].round))

(***************************************************************************)
(* "A replacement without lowering the threshold": the draw that fills a   *)
(* vacancy is held to the specification of the round the panel was drawn   *)
(* to.                                                                     *)
(***************************************************************************)
ReplacementKeepsRound ==
  \A i, j \in DOMAIN draws :
    i < j /\ draws[i].revision = draws[j].revision => draws[i].round <= draws[j].round

(***************************************************************************)
(* While the pool lasts, every revision is decided: no vote, vacancy,      *)
(* expansion or redelivery leaves a panel that nothing evaluates again.    *)
(***************************************************************************)
EventuallyDecided == \A r \in Revisions : revision = r ~> decided >= r

(***************************************************************************)
(* "The case keeps its status and is drawn again when something changes":  *)
(* once enough people are eligible again, a case whose draw was refused is *)
(* still decided.                                                          *)
(***************************************************************************)
RefusedIsDrawnAgain == refusals > 0 ~> decided = revision
=============================================================================
