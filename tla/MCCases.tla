------------------------------ MODULE MCCases ------------------------------
(***************************************************************************)
(* The life of a case, for TLC: its events in the outbox, the jury that    *)
(* they draw and evaluate, and the record of its decisions and appeals.    *)
(* A behaviour runs one of them, its focus, and leaves the others as they  *)
(* start: they share no state, and Panel and CaseRevision say what they    *)
(* take of each other.  The jury has two foci: handlers one after the      *)
(* other through an appeal, and handlers that overlap before any appeal.   *)
(***************************************************************************)
EXTENDS Outbox, Panel, CaseRevision, TLC

CONSTANTS
  x, y,   \* actors: passes, handlers, deciders
  i, j,   \* items: events and requests
  k1, k2, \* an appeal's keys
  a1, a2  \* and contents

VARIABLE focus

mcVars == <<focus, outboxVars, vars, recordVars>>

\* Two jurors, then a specialist; an appeal starts at the second round.
ShortLadder == << <<"general", "general">>, <<"general", "general", "specialist">> >>
ShortAppealLadder == 2 :> <<"general", "general", "specialist">>
ShortVotes == <<2, 2>>

\* Actors are interchangeable, and so are items.
Interchangeable ==
  Permutations({x, y}) \cup Permutations({i, j})

\* Jurors are interchangeable too: a draw seats the first ones nobody seated, unless
\* another draw is about to be committed.
InOrder ==
  \A w \in Workers :
    /\ worker[w].pc = "draw" /\ worker'[w].pc = "commit"
    /\ \A v \in Workers : worker[v].pc # "commit"
    => LET free == Reviewers \ PriorJurors(revision)
           drawn == DOMAIN worker'[w].seats
       IN  \A p \in drawn, q \in free \ drawn : p < q

\* Bound: a filing, its key with other contents, and its contents under another key.
ThreeFilings == \A f \in Filers : filer[f].key = k2 => filer[f].payload = a1

\* Bound: one handler at a time.
OneAtWork == Cardinality({w \in Workers : worker[w] # Idle}) <= 1

\* Bound: of overlapping handlers, no appeal, no death, and as many jurors as one
\* replacement or one expansion needs.
FewMishaps ==
  /\ revision = 1 /\ refusals = 0 /\ crashes = 0
  /\ Cardinality(OutstandingVacancies(1)) <= 1
  /\ Cardinality(PriorJurors(1)) <= 3

MCInit ==
  /\ focus \in {"outbox", "jury", "handlers", "record"}
  /\ OutboxInit /\ Init /\ CaseInit

MCNext ==
  /\ UNCHANGED focus
  /\ \/ focus = "outbox" /\ OutboxNext /\ UNCHANGED <<vars, recordVars>>
     \/ focus = "jury" /\ Next /\ InOrder /\ OneAtWork' /\ UNCHANGED <<outboxVars, recordVars>>
     \/ focus = "handlers" /\ Next /\ InOrder /\ FewMishaps' /\ UNCHANGED <<outboxVars, recordVars>>
     \/ focus = "record" /\ CaseNext /\ ThreeFilings' /\ UNCHANGED <<outboxVars, vars>>

MCSpec == MCInit /\ [][MCNext]_mcVars
=============================================================================
