---------------------------- MODULE CommunityNotes ----------------------------
(***************************************************************************)
(* The community notes of one tenant: written, rated by raters they were   *)
(* assigned to, scored again after every rating, withdrawn.  Each change   *)
(* of a note's status is a revision, announced by an event of its own.     *)
(***************************************************************************)
EXTENDS Naturals, Sequences, FiniteSets

CONSTANTS
  Notes, Raters,
  Scorers,        \* dispatchers that may handle a rated event at a time
  MinRatings,     \* SCORING.MIN_RATINGS
  Fit(_, _),      \* the status that fitting the tenant's ratings gives a note
  MaxNoteMishaps, \* bound: assignments that expire and rescores that fail
  NoNote

Scores == {"needs_ratings", "shown", "not_shown"}
Rating == [note : Notes, rater : Raters, helpful : BOOLEAN]

ASSUME NotesAssumption ==
  /\ MinRatings \in Nat \ {0} /\ MaxNoteMishaps \in Nat /\ NoNote \notin Notes
  /\ \A n \in Notes, R \in SUBSET Rating : Fit(n, R) \in Scores

VARIABLES
  history,       \* the statuses each note went through: its revisions
  assignment,    \* the rating assignment of each note and rater
  ratings,       \* the ratings given
  rated,         \* the note each rater's request found open, about to commit
  withdrawing,   \* the revision each author's request read (0: none)
  ratedQueue,    \* community_note.rated events not yet dispatched
  scorer,        \* what each handler has read
  announced,     \* the revisions named by status_changed events, in order
  noteMishaps    \* counter of the bound

noteVars == <<history, assignment, ratings, rated, withdrawing, ratedQueue, scorer,
              announced, noteMishaps>>

NoteStatuses == Scores \cup {"withdrawn"}
NotScoring == [at |-> "idle", ratings |-> {}, seen |-> [n \in Notes |-> 0]]

Revision(n) == Len(history[n])
Status(n) == IF Revision(n) = 0 THEN "absent" ELSE history[n][Revision(n)]

NotesTypeOK ==
  /\ history \in [Notes -> Seq(NoteStatuses)]
  /\ assignment \in [Notes \X Raters -> {"none", "live", "expired", "rated"}]
  /\ ratings \subseteq Rating
  /\ rated \in [Raters -> Notes \cup {NoNote}]
  /\ withdrawing \in [Notes -> Nat]
  /\ ratedQueue \in Nat /\ announced \in [Notes -> Seq(Nat)]
  /\ scorer \in [Scorers -> [at : {"idle", "claimed", "rated", "read"},
                             ratings : SUBSET Rating, seen : [Notes -> Nat]]]
  /\ noteMishaps \in 0..MaxNoteMishaps

NotesInit ==
  /\ history = [n \in Notes |-> <<>>]
  /\ assignment = [x \in Notes \X Raters |-> "none"]
  /\ ratings = {} /\ rated = [r \in Raters |-> NoNote]
  /\ withdrawing = [n \in Notes |-> 0]
  /\ ratedQueue = 0 /\ scorer = [w \in Scorers |-> NotScoring]
  /\ announced = [n \in Notes |-> <<>>] /\ noteMishaps = 0

NoteMishap == noteMishaps < MaxNoteMishaps /\ noteMishaps' = noteMishaps + 1

-----------------------------------------------------------------------------
writeCommunityNote(n) ==
  /\ Revision(n) = 0
  /\ history' = [history EXCEPT ![n] = <<"needs_ratings">>]
  /\ UNCHANGED <<assignment, ratings, rated, withdrawing, ratedQueue, scorer, announced,
                 noteMishaps>>

\* Open, and never assigned to the rater, or assigned, expired and not rated.
Assignable(n, r) ==
  Status(n) = "needs_ratings" /\ assignment[<<n, r>>] \in {"none", "expired"}

issueCommunityNoteAssignment(n, r) ==
  /\ Assignable(n, r)
  /\ assignment' = [assignment EXCEPT ![<<n, r>>] = "live"]
  /\ UNCHANGED <<history, ratings, rated, withdrawing, ratedQueue, scorer, announced,
                 noteMishaps>>

AssignmentExpires(n, r) ==
  /\ assignment[<<n, r>>] = "live" /\ NoteMishap
  /\ assignment' = [assignment EXCEPT ![<<n, r>>] = "expired"]
  /\ UNCHANGED <<history, ratings, rated, withdrawing, ratedQueue, scorer, announced>>

\* A rating's transaction finds the note and an assignment.
FindNoteToRate(n, r) ==
  /\ rated[r] = NoNote /\ assignment[<<n, r>>] # "none"
  /\ Status(n) # "withdrawn"
  /\ rated' = [rated EXCEPT ![r] = n]
  /\ UNCHANGED <<history, assignment, ratings, withdrawing, ratedQueue, scorer,
                 announced, noteMishaps>>

\* It commits if the assignment is still live and unused, and is refused otherwise.
rateCommunityNote(r, helpful) ==
  LET n == rated[r]
  IN  /\ n # NoNote
      /\ rated' = [rated EXCEPT ![r] = NoNote]
      /\ IF assignment[<<n, r>>] = "live"
         THEN /\ assignment' = [assignment EXCEPT ![<<n, r>>] = "rated"]
              /\ ratings' = ratings \cup
                   {[note |-> n, rater |-> r, helpful |-> helpful]}
              /\ ratedQueue' = ratedQueue + 1
         ELSE UNCHANGED <<assignment, ratings, ratedQueue>>
      /\ UNCHANGED <<history, withdrawing, scorer, announced, noteMishaps>>

-----------------------------------------------------------------------------
\* Mutant: the note is moved whatever became of it since it was read.
MayMove_Always(n, from) == TRUE

\* The compare-and-swap on the note's revision.
MayMove(n, from) == Revision(n) = from /\ Status(n) # "withdrawn"

\* Moves a set of notes, each to a new status from the revision read of it.
Move(S, to, from) ==
  LET won == {n \in S : MayMove(n, from[n])}
  IN  /\ history' = [n \in Notes |->
           IF n \in won THEN Append(history[n], to[n]) ELSE history[n]]
      /\ announced' = [n \in Notes |->
           IF n \in won THEN Append(announced[n], from[n] + 1) ELSE announced[n]]

\* The author's request reads the note.
FindNoteToWithdraw(n) ==
  /\ withdrawing[n] = 0 /\ Status(n) \notin {"absent", "withdrawn"}
  /\ withdrawing' = [withdrawing EXCEPT ![n] = Revision(n)]
  /\ UNCHANGED <<history, assignment, ratings, rated, ratedQueue, scorer, announced,
                 noteMishaps>>

\* It commits, or the note has moved and the author is told to retry.
withdrawCommunityNote(n) ==
  /\ withdrawing[n] > 0
  /\ Move({n}, [m \in Notes |-> "withdrawn"], withdrawing)
  /\ withdrawing' = [withdrawing EXCEPT ![n] = 0]
  /\ UNCHANGED <<assignment, ratings, rated, ratedQueue, scorer, noteMishaps>>

-----------------------------------------------------------------------------
ClaimRated(w) ==
  /\ scorer[w].at = "idle" /\ ratedQueue > 0
  /\ ratedQueue' = ratedQueue - 1
  /\ scorer' = [scorer EXCEPT ![w].at = "claimed"]
  /\ UNCHANGED <<history, assignment, ratings, rated, withdrawing, announced,
                 noteMishaps>>

\* The ratings of notes that are not withdrawn, then, in a second statement, the
\* revisions of the notes they rate.
findRatingsForScoring(w) ==
  /\ scorer[w].at = "claimed"
  /\ scorer' = [scorer EXCEPT ![w].at = "rated",
                  ![w].ratings = {x \in ratings : Status(x.note) # "withdrawn"}]
  /\ UNCHANGED <<history, assignment, ratings, rated, withdrawing, ratedQueue,
                 announced, noteMishaps>>

findCommunityNoteStatuses(w) ==
  /\ scorer[w].at = "rated"
  /\ scorer' = [scorer EXCEPT ![w].at = "read",
                  ![w].seen = [n \in Notes |-> Revision(n)]]
  /\ UNCHANGED <<history, assignment, ratings, rated, withdrawing, ratedQueue,
                 announced, noteMishaps>>

RatingsOf(n, R) == {x \in R : x.note = n}

statusFor(n, R) ==
  IF Cardinality(RatingsOf(n, R)) < MinRatings THEN "needs_ratings" ELSE Fit(n, R)

\* A rated note whose status, as read, is not the one it scores, and not withdrawn.
Moves(w, n) ==
  LET R == scorer[w].ratings
      v == scorer[w].seen[n]
  IN  RatingsOf(n, R) # {} /\ history[n][v] \notin {"withdrawn", statusFor(n, R)}

rescoreCommunityNotes(w) ==
  /\ scorer[w].at = "read"
  /\ Move({n \in Notes : Moves(w, n)},
          [n \in Notes |-> statusFor(n, scorer[w].ratings)], scorer[w].seen)
  /\ scorer' = [scorer EXCEPT ![w] = NotScoring]
  /\ UNCHANGED <<assignment, ratings, rated, withdrawing, ratedQueue, noteMishaps>>

\* Its transaction is rolled back and the event is delivered again.
ScorerDies(w) ==
  /\ scorer[w].at # "idle" /\ NoteMishap
  /\ scorer' = [scorer EXCEPT ![w] = NotScoring]
  /\ ratedQueue' = ratedQueue + 1
  /\ UNCHANGED <<history, assignment, ratings, rated, withdrawing, announced>>

ScorerStep(w) ==
  \/ ClaimRated(w) \/ findRatingsForScoring(w) \/ findCommunityNoteStatuses(w)
  \/ rescoreCommunityNotes(w)

NotesNext ==
  \/ \E n \in Notes :
       \/ writeCommunityNote(n) \/ FindNoteToWithdraw(n) \/ withdrawCommunityNote(n)
       \/ \E r \in Raters : \/ issueCommunityNoteAssignment(n, r)
                            \/ AssignmentExpires(n, r) \/ FindNoteToRate(n, r)
  \/ \E r \in Raters, helpful \in BOOLEAN : rateCommunityNote(r, helpful)
  \/ \E w \in Scorers : ScorerStep(w) \/ ScorerDies(w)

NotesSpec == NotesInit /\ [][NotesNext]_noteVars
-----------------------------------------------------------------------------
(***************************************************************************)
(* "The history never holds a status the note never had": under rescores   *)
(* and withdrawals that race, every revision is a change, follows the last *)
(* one, is announced exactly once, and nothing follows a withdrawal.       *)
(***************************************************************************)
HistoryTells ==
  \A n \in Notes :
    /\ announced[n] = [m \in 1..Len(announced[n]) |-> m + 1]
    /\ Revision(n) > 0 => Len(announced[n]) = Revision(n) - 1
    /\ \A m \in 1..Revision(n) - 1 :
         history[n][m] \notin {history[n][m + 1], "withdrawn"}
=============================================================================
