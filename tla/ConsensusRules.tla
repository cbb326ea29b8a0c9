--------------------------- MODULE ConsensusRules ---------------------------
(***************************************************************************)
(* The consensus engine over one case (consensus.ts): its juries vote, are *)
(* evaluated when everyone has voted, and are expanded up the ladder; the  *)
(* case may be appealed, to a new jury held to a bar of its own.           *)
(*                                                                         *)
(* Ballots are counted by position: the six dimensions of a review are one *)
(* key, and of a position only its family and whether its severity is at   *)
(* least high matter here.  Of a juror, whether they are trusted and       *)
(* whether they are a specialist.  Panel has the same ladder with seats    *)
(* that are left, replaced and drawn; here a seat is a ballot.             *)
(***************************************************************************)
EXTENDS Integers, FiniteSets, FiniteSetsExt, Functions

CONSTANTS
  Positions,        \* the positions jurors may take (positionKey)
  FamilyOf,         \* the family of each position's primary finding, or "none"
  Serious,          \* positions whose severity is high or critical
  Appealable,       \* APPEALABLE_OUTCOMES: positions, and "inconclusive"
  MaxRound,         \* MAX_PANEL_ROUND
  RoundSeats,       \* the seats of each round's panel
  AgreeingVotes,    \* ROUND_AGREEING_VOTES
  MinimumVotes,     \* MINIMUM_AGREEING_VOTES
  AppealMinRound,   \* APPEAL_MIN_ROUND
  MaxAppeals        \* bound: appeals of the case

\* A `critical' case is never drawn a jury.
Risks == {"low", "medium", "high"}
Qualities == {"trusted", "specialist"}

ASSUME RulesAssumption ==
  /\ IsFiniteSet(Positions) /\ Serious \subseteq Positions
  /\ \A v \in Serious : FamilyOf[v] # "none"
  /\ MaxRound \in Nat \ {0} /\ AppealMinRound \in 1..MaxRound /\ MaxAppeals \in Nat
  /\ RoundSeats \in [1..MaxRound -> Nat \ {0}]
  /\ AgreeingVotes \in [1..MaxRound -> Nat \ {0}]
  /\ MinimumVotes \in [Risks -> Nat \ {0}]

\* "Every rung asks for more than half its seats."
ASSUME LadderOfMajorities == \A n \in 1..MaxRound : 2 * AgreeingVotes[n] > RoundSeats[n]

\* Panels grow from rung to rung, no rung asks for more votes than it has seats
\* ("3 of 3, 4 of 5, 5 of 7"), and the panel an appeal opens with has as many
\* as any risk asks for ("high needs five").
ASSUME LadderGrows == \A m, n \in 1..MaxRound : m <= n => RoundSeats[m] <= RoundSeats[n]
ASSUME LadderIsReachable ==
  /\ \A n \in 1..MaxRound : AgreeingVotes[n] <= RoundSeats[n]
  /\ \A r \in Risks : MinimumVotes[r] <= RoundSeats[AppealMinRound]

VARIABLES
  risk,      \* riskOf the case's sensitivity class
  round,     \* the round of its panel
  votes,     \* ballots of the current jury, by position
  present,   \* qualities some juror of it has
  appealBar, \* appeals.requiredAgreeingVotes, 0 in the first revision
  appeals,   \* appeals filed
  verdict    \* of the current jury: the status, and the position or outcome

rulesVars == <<risk, round, votes, present, appealBar, appeals, verdict>>

Open == [status |-> "open", result |-> "none"]
GivenUp == {"inconclusive", "escalated"}

RulesTypeOK ==
  /\ risk \in Risks /\ round \in 1..MaxRound
  /\ votes \in [Positions -> 0..RoundSeats[MaxRound]]
  /\ present \subseteq Qualities
  /\ appealBar \in 0..RoundSeats[MaxRound] /\ appeals \in 0..MaxAppeals
  /\ \/ verdict = Open
     \/ verdict \in [status : {"consensus"}, result : Positions]
     \/ verdict \in [status : {"exhausted"}, result : GivenUp]

RulesInit ==
  /\ risk \in Risks /\ round = 1
  /\ votes = [v \in Positions |-> 0]
  /\ present = {} /\ appealBar = 0 /\ appeals = 0 /\ verdict = Open

-----------------------------------------------------------------------------
\* Every ballot of the current jury.
DecisiveVotes == SumFunction(votes)

\* Mutant: the ladder alone sets the threshold.
RequiredAgreeingVotes_Ladder(n) == AgreeingVotes[n]

\* The higher of the round's and the risk's.
RequiredAgreeingVotes(n) == Max({AgreeingVotes[n], MinimumVotes[risk]})

(***************************************************************************)
(* unmetRequirements: qualities the risk asks for that no juror has, and   *)
(* for a high risk a conflict between families where one was serious.      *)
(***************************************************************************)
Held == {v \in Positions : votes[v] > 0}
CriticalConflict ==
  /\ \E u, v \in Held : FamilyOf[u] # FamilyOf[v] /\ "none" \notin {FamilyOf[u], FamilyOf[v]}
  /\ Held \cap Serious # {}

UnmetRequirements ==
  CASE risk = "low" -> {}
    [] risk = "medium" -> {"trusted"} \ present
    [] risk = "high" -> (Qualities \ present)
                          \cup (IF CriticalConflict THEN {"no_critical_conflict"} ELSE {})

\* Ahead of every other position.
Leads(v) == votes[v] > 0 /\ \A u \in Positions \ {v} : votes[u] < votes[v]

Agreed(v) ==
  /\ Leads(v) /\ UnmetRequirements = {}
  /\ votes[v] >= Max({RequiredAgreeingVotes(round), appealBar})

-----------------------------------------------------------------------------
\* A juror of the current panel votes.
CastBallot(v, qualities) ==
  /\ verdict = Open /\ DecisiveVotes < RoundSeats[round]
  /\ votes' = [votes EXCEPT ![v] = @ + 1]
  /\ present' = present \cup qualities
  /\ UNCHANGED <<risk, round, appealBar, appeals, verdict>>

(***************************************************************************)
(* evaluateConsensus, once every seat has voted: consensus, expansion to   *)
(* the next round, or the end of the ladder.                               *)
(***************************************************************************)
EvaluateConsensus ==
  /\ verdict = Open /\ DecisiveVotes = RoundSeats[round]
  /\ \/ /\ \E v \in Positions :
             Agreed(v) /\ verdict' = [status |-> "consensus", result |-> v]
        /\ UNCHANGED round
     \/ /\ ~\E v \in Positions : Agreed(v)
        /\ round < MaxRound /\ round' = round + 1
        /\ UNCHANGED verdict
     \/ /\ ~\E v \in Positions : Agreed(v)
        /\ round = MaxRound /\ UNCHANGED round
        /\ verdict' = [status |-> "exhausted",
                       result |-> IF UnmetRequirements # {} THEN "escalated"
                                  ELSE "inconclusive"]
  /\ UNCHANGED <<risk, votes, present, appealBar, appeals>>

\* Mutant: one vote more than before, however few seats the panel has.
RaisedVotes_Uncapped(previous) == previous + 1

RaisedVotes(previous) == Min({previous + 1, RoundSeats[AppealMinRound]})

(***************************************************************************)
(* fileAppeal: a new jury, held to appealRequiredVotes.  The bar the first *)
(* decision was held to is read off the size of its jury; a severe         *)
(* consequence raises it, which a serious finding always is.               *)
(***************************************************************************)
FileAppeal ==
  /\ verdict # Open /\ verdict.result \in Appealable /\ appeals < MaxAppeals
  /\ \E severe \in BOOLEAN :
       /\ verdict.result \in Serious => severe
       /\ LET base == RequiredAgreeingVotes(AppealMinRound)
          IN  appealBar' = IF severe
                             THEN Max({base, RaisedVotes(RequiredAgreeingVotes(round))})
                             ELSE base
  /\ appeals' = appeals + 1
  /\ round' = AppealMinRound
  /\ votes' = [v \in Positions |-> 0]
  /\ present' = {} /\ verdict' = Open
  /\ UNCHANGED risk

RulesNext ==
  \/ \E v \in Positions, q \in SUBSET Qualities : CastBallot(v, q)
  \/ EvaluateConsensus \/ FileAppeal

RulesSpec == RulesInit /\ [][RulesNext]_rulesVars

-----------------------------------------------------------------------------
(***************************************************************************)
(* "Every rung asks for more than half its seats": a position is published *)
(* only over the votes of more than half of the jury, of as many jurors as *)
(* the case's risk asks for at least, whatever appeal or expansion it took.*)
(***************************************************************************)
MajorityStandsBehind ==
  verdict.status = "consensus" =>
    LET v == verdict.result
    IN  2 * votes[v] > DecisiveVotes /\ votes[v] >= MinimumVotes[risk]

(***************************************************************************)
(* The cap "stops the rule from consuming itself": a unanimous appeal jury *)
(* composed as its risk requires decides, on the panel it was opened with. *)
(***************************************************************************)
UnanimousAppealDecides ==
  [][appeals > 0 /\ appeals' = appeals /\ round' # round
       => Cardinality(Held) > 1 \/ UnmetRequirements # {}]_rulesVars
=============================================================================
