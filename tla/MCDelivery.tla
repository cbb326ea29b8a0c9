----------------------------- MODULE MCDelivery -----------------------------
(***************************************************************************)
(* A report's way to CrowdSource and a decision's way back, for TLC: the   *)
(* ingress and triage, a reviewer on the way to the pool, the juries'      *)
(* count, the webhook channel, and the tenant's side.  A behaviour runs    *)
(* one of the five, its focus, and leaves the others as they start: they   *)
(* share no state, each standing for what the next one is given.  The      *)
(* channel has two foci: overlapping passes with a receiver that answers   *)
(* anything, and one pass at a time with the receiving application.  So    *)
(* has the tenant: decisions that come in turn, whatever fails, and        *)
(* decisions in any order while nothing fails.                             *)
(***************************************************************************)
EXTENDS Ingestion, ReviewerProfile, ConsensusRules, DecisionChannel, Integration, TLC

CONSTANTS x, y,  \* actors: tasks, requests, sessions, handlers and passes
          i, j   \* items: reports and submissions

VARIABLE focus

mcVars ==
  <<focus, ingestVars, profileVars, rulesVars, allVars, intVars>>

\* A violation that is labelled, one that is removed, and the correction.
CorrectedPlan == << <<"flag">>, <<"restrict">>, <<"restore", "unflag">> >>

\* A draft its author did not flag.
Drafts == {[status |-> "draft", flagged |-> FALSE]}

\* Two reports of one id under two keys, the same id with other terms, and two
\* more of another id, one of them with the first one's key.
Envelopes == {[external |-> 1, key |-> 1, kind |-> "open"],
              [external |-> 1, key |-> 2, kind |-> "open"],
              [external |-> 1, key |-> 1, kind |-> "private"],
              [external |-> 2, key |-> 1, kind |-> "private"],
              [external |-> 2, key |-> 2, kind |-> "urgent"]}

\* Actors are interchangeable, and so are items.
Interchangeable == Permutations({x, y}) \cup Permutations({i, j})

\* A reliability good for nothing yet, and one good for every promotion.
Reliabilities == {{}, {"trusted", "specialist", "appeals"}}

\* The ladder of the source.
LadderSeats == <<3, 5, 7>>
LadderVotes == <<3, 4, 5>>
VotesOfRisk == "low" :> 3 @@ "medium" :> 4 @@ "high" :> 5

\* No violation, too little context, a violation, and a serious one.
Families == "clear" :> "none" @@ "unclear" :> "none"
            @@ "insult" :> "harassment" @@ "threat" :> "safety"

Focuses == {"ingestion", "profile", "rules", "passes", "channel",
            "integration", "disorder"}

\* Bound: of a sender's passes, one failure or one replay.
OneMishap == faults + Cardinality({d \in Deliveries : replayCount[d] > 0}) <= 1

\* Bound: a channel's passes come one after the other.
OnePass == Cardinality({v \in Workers : passAt[v] # "idle"}) <= 1

\* Bound: one interruption, or one deletion, expiry or refusal; both, while the last
\* revision has not come.
OneTrouble ==
  tainted + troubles > 1 => \A e \in ApplyRows : e[2] = MaxRevision => boxStatus[e] = "absent"

MCInit ==
  /\ focus \in Focuses
  /\ IngestInit /\ ProfileInit /\ RulesInit /\ ChannelInit /\ AppInit
  /\ focus # "ingestion" => \A q \in Submissions : body[q].kind = "urgent"
  /\ focus # "rules" => risk = "low"
  /\ focus \notin {"integration", "disorder"} => mode = "automatic"

MCNext ==
  /\ UNCHANGED focus
  /\ \/ focus = "ingestion" /\ IngestNext
        /\ UNCHANGED <<profileVars, rulesVars, allVars, intVars>>
     \/ focus = "profile" /\ ProfileNext
        /\ UNCHANGED <<ingestVars, rulesVars, allVars, intVars>>
     \/ focus = "rules" /\ RulesNext
        /\ UNCHANGED <<ingestVars, profileVars, allVars, intVars>>
     \/ focus = "passes" /\ DeliveryNext /\ OneMishap'
        /\ UNCHANGED <<ingestVars, profileVars, rulesVars, channelVars, intVars>>
     \/ focus = "channel" /\ ChannelNext /\ OnePass' /\ OneMishap'
        /\ UNCHANGED <<ingestVars, profileVars, rulesVars, intVars>>
     \/ focus = "integration" /\ AppNext /\ early' = {} /\ OneTrouble'
        /\ UNCHANGED <<ingestVars, profileVars, rulesVars, allVars>>
     \/ focus = "disorder" /\ AppNext /\ tainted' = 0 /\ troubles' = 0
        /\ UNCHANGED <<ingestVars, profileVars, rulesVars, allVars>>

MCSpec == MCInit /\ [][MCNext]_mcVars

-----------------------------------------------------------------------------
(***************************************************************************)
(* The type invariants of the modules composed here.                       *)
(***************************************************************************)
DeliveryTypesOK ==
  /\ IngestTypeOK /\ ProfileTypeOK /\ RulesTypeOK
  /\ ChannelTypeOK /\ AppTypeOK
=============================================================================
