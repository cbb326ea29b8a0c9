--------------------------- MODULE ReviewerProfile ---------------------------
(***************************************************************************)
(* The profile of one reviewer (reviewer.service.ts): the way from         *)
(* applicant to the states that may be drawn, and up from there.           *)
(*                                                                         *)
(* Sessions of the reviewer run at once.  Each resolves the profile from   *)
(* its session (ensureReviewerProfile), and a write is a read-modify-write *)
(* (mutateProfile): it reads the row to check the change of state and to   *)
(* derive the personhood confidence, then updates the columns it changes.  *)
(* Reviews are counted, and promotions earned, in the review's own         *)
(* transaction.                                                            *)
(*                                                                         *)
(* Dates are TRUE once set.  Consent, exposure limits and declared         *)
(* conflicts, which preferences carry too, decide only who is eligible;    *)
(* nothing in the repository suspends a reviewer.                          *)
(***************************************************************************)
EXTENDS Integers

CONSTANTS
  Sessions,          \* requests that may run at once
  TrainingModules,   \* TRAINING_MODULES
  Grades,            \* reliabilities a passed calibration may leave
  TrustedReviews,    \* PROMOTION.trustedMinReviews (50)
  SpecialistReviews, \* PROMOTION.specialistMinReviews (150)
  AppealsReviews,    \* PROMOTION.appealsMinReviews (300)
  MaxReviews         \* bound: reviews counted

\* A grade is the set of promotions its reliability is high enough for.
ASSUME GradesAssumption == Grades \subseteq SUBSET {"trusted", "specialist", "appeals"}
ASSUME ReviewsAssumption ==
  /\ TrustedReviews \in Nat /\ SpecialistReviews \in Nat /\ AppealsReviews \in Nat
  /\ MaxReviews \in Nat

VARIABLES
  profile,  \* the row of reviewer_profiles, its state `none' before it exists
  session   \* what each request is about to do, and what it read for it

profileVars == <<profile, session>>

DrawableStates == {"community", "trusted", "specialist", "appeals"}
ReviewerStates == {"applicant", "calibrating"} \cup DrawableStates

ProfileRow ==
  [state : ReviewerStates \cup {"none"}, oxyAccountVerified : BOOLEAN,
   rulesAccepted : BOOLEAN, capable : BOOLEAN, trained : SUBSET TrainingModules,
   trainingCompleted : BOOLEAN, calibrationPassed : BOOLEAN,
   reliability : Grades \cup {{}}, reviews : 0..MaxReviews, confidence : 0..10]

\* personhoodConfidence, in tenths.
PersonhoodConfidence(p) ==
  3 + (IF p.oxyAccountVerified THEN 4 ELSE 0)
    + (IF p.trainingCompleted THEN 1 ELSE 0)
    + (IF p.calibrationPassed THEN 2 ELSE 0)

NoProfile ==
  [state |-> "none", oxyAccountVerified |-> FALSE, rulesAccepted |-> FALSE,
   capable |-> FALSE, trained |-> {}, trainingCompleted |-> FALSE,
   calibrationPassed |-> FALSE, reliability |-> {}, reviews |-> 0, confidence |-> 0]
NewProfile(verified) ==
  [NoProfile EXCEPT !.state = "applicant", !.oxyAccountVerified = verified,
                    !.confidence = IF verified THEN 7 ELSE 3]

\* No column.
NoChange == [x \in {} |-> FALSE]

\* A row with some of its columns changed.
Updated(p, change) ==
  [x \in DOMAIN p |-> IF x \in DOMAIN change THEN change[x] ELSE p[x]]

AtRest == [pc |-> "idle"]
Continuations == {"handle", "open", "promote", "return"}

ProfileTypeOK ==
  /\ profile \in ProfileRow
  /\ \A r \in Sessions :
       \/ session[r] = AtRest \/ session[r] = [pc |-> "handle"]
       \/ session[r] \in [pc : {"insert"}, verified : BOOLEAN]
       \/ /\ session[r].pc \in {"merge", "write"}
          /\ session[r].then \in Continuations
          /\ Updated(profile, session[r].change) \in ProfileRow

ProfileInit ==
  /\ profile = NoProfile
  /\ session = [r \in Sessions |-> AtRest]

-----------------------------------------------------------------------------
SessionAt(r, pc) == session[r].pc = pc

\* A step that only moves the request on.
GoesOn(r, state) ==
  /\ session' = [session EXCEPT ![r] = state]
  /\ UNCHANGED profile

\* mutateProfile, called with this change.
Mutate(change, then) == [pc |-> "merge", change |-> change, then |-> then]

(***************************************************************************)
(* ensureReviewerProfile: the first request creates the profile, each      *)
(* later one refreshes the verification its session reports.               *)
(***************************************************************************)
EnsureReviewerProfile(r) ==
  /\ SessionAt(r, "idle")
  /\ \E verified \in BOOLEAN :
       GoesOn(r,
         IF profile.state = "none"
           THEN [pc |-> "insert", verified |-> verified]
         ELSE IF profile.oxyAccountVerified = verified
           THEN [pc |-> "handle"]
         ELSE Mutate([oxyAccountVerified |-> verified], "handle"))

InsertProfile(r) ==
  /\ SessionAt(r, "insert")
  /\ profile' = IF profile.state = "none" THEN NewProfile(session[r].verified) ELSE profile
  /\ session' = [session EXCEPT ![r] = [pc |-> "handle"]]

(***************************************************************************)
(* updateReviewerPreferences: the languages and categories, the rules,     *)
(* which are accepted once, both, or neither but another preference.       *)
(***************************************************************************)
UpdateReviewerPreferences(r) ==
  /\ SessionAt(r, "handle")
  /\ \E columns \in SUBSET {"capable", "rulesAccepted"}, value \in BOOLEAN :
       /\ "rulesAccepted" \in columns => value /\ ~profile.rulesAccepted
       /\ GoesOn(r, Mutate([x \in columns |-> value], "open"))

CompleteTrainingModule(r, m) ==
  LET completed == profile.trained \cup {m}
  IN  /\ SessionAt(r, "handle")
      /\ GoesOn(r, Mutate([trained |-> completed,
                           trainingCompleted |-> completed = TrainingModules], "open"))

\* A failed attempt only counts itself; a passed one also grades.
SubmitCalibration(r) ==
  /\ SessionAt(r, "handle") /\ profile.trained = TrainingModules
  /\ \/ GoesOn(r, Mutate(NoChange, "return"))
     \/ \E grade \in Grades :
          GoesOn(r, Mutate([calibrationPassed |-> TRUE, reliability |-> grade], "promote"))

\* A request that only reads, or is refused.
Return(r) == SessionAt(r, "handle") /\ GoesOn(r, AtRest)

-----------------------------------------------------------------------------
\* ALLOWED_TRANSITIONS.
MovesTo ==
  [applicant |-> {"calibrating"}, calibrating |-> {"community", "calibrating"},
   community |-> {"trusted", "calibrating"},
   trusted |-> {"specialist", "appeals", "community", "calibrating"},
   specialist |-> {"appeals", "trusted", "calibrating"},
   appeals |-> {"specialist", "trusted", "calibrating"}]

CanTransition(from, to) == from = to \/ to \in MovesTo[from]

\* Mutant: whoever was trained calibrates, with the rules accepted or not.
OpensCalibration_NoRules(p) ==
  /\ p.state = "applicant" /\ p.trained = TrainingModules /\ p.capable

\* openCalibrationIfReady's conditions, on the row just written.
OpensCalibration(p) ==
  /\ p.state = "applicant"
  /\ p.rulesAccepted /\ p.trained = TrainingModules /\ p.capable

(***************************************************************************)
(* mutateProfile reads the row, refuses an illegal change of state, and    *)
(* derives the confidence from the row it read and the change ...          *)
(***************************************************************************)
ReadAndMerge(r) ==
  LET change == session[r].change
      merged == Updated(profile, change)
      derived == [x \in DOMAIN change \cup {"confidence"} |->
                    IF x = "confidence" THEN PersonhoodConfidence(merged) ELSE change[x]]
  IN  /\ SessionAt(r, "merge")
      /\ GoesOn(r,
           IF CanTransition(profile.state, merged.state)
             THEN [pc |-> "write", change |-> derived, then |-> session[r].then]
             ELSE AtRest)

\* ... then updates these columns; what follows reads the row as written.
WriteProfile(r) ==
  LET written == Updated(profile, session[r].change)
      then == session[r].then
  IN  /\ SessionAt(r, "write")
      /\ profile' = written
      /\ session' = [session EXCEPT ![r] =
           CASE then = "handle" -> [pc |-> "handle"]
             [] then = "open" /\ OpensCalibration(written) ->
                  Mutate([state |-> "calibrating"], "return")
             [] then = "promote" /\ written.state = "calibrating" ->
                  Mutate([state |-> "community"], "return")
             [] OTHER -> AtRest]

-----------------------------------------------------------------------------
\* promotionFor: the highest state this row has earned, or its own.
PromotionFor(p) ==
  LET earns(state, reviews) == p.reviews >= reviews /\ state \in p.reliability
  IN  IF p.state \in {"specialist", "trusted"} /\ earns("appeals", AppealsReviews)
        THEN "appeals"
      ELSE IF p.state = "trusted" /\ earns("specialist", SpecialistReviews)
        THEN "specialist"
      ELSE IF p.state = "community" /\ earns("trusted", TrustedReviews)
        THEN "trusted"
      ELSE p.state

\* recordSubmittedReview, in the transaction of a juror's review.
RecordSubmittedReview ==
  /\ profile.state \in DrawableStates /\ profile.reviews < MaxReviews
  /\ LET counted == [profile EXCEPT !.reviews = @ + 1]
     IN  profile' = [counted EXCEPT !.state = PromotionFor(counted)]
  /\ UNCHANGED session

-----------------------------------------------------------------------------
SessionStep(r) ==
  \/ EnsureReviewerProfile(r) \/ InsertProfile(r)
  \/ UpdateReviewerPreferences(r) \/ SubmitCalibration(r) \/ Return(r)
  \/ \E m \in TrainingModules : CompleteTrainingModule(r, m)
  \/ ReadAndMerge(r) \/ WriteProfile(r)

ProfileNext == RecordSubmittedReview \/ \E r \in Sessions : SessionStep(r)

ProfileSpec == ProfileInit /\ [][ProfileNext]_profileVars

-----------------------------------------------------------------------------
(***************************************************************************)
(* Whoever may be drawn has passed calibration and accepted the rules:     *)
(* "nothing reaches community without calibrating", nor real case material *)
(* without consent, whatever requests of one reviewer overlap.             *)
(***************************************************************************)
DrawnAreQualified ==
  profile.state \in DrawableStates =>
    profile.calibrationPassed /\ profile.rulesAccepted

(***************************************************************************)
(* "Every write recomputes it from the signals on the document, so it      *)
(* cannot drift away from the inputs that justify it": the stored          *)
(* confidence is the one its signals give.                                 *)
(***************************************************************************)
ConfidenceIsDerived ==
  profile.state # "none" => profile.confidence = PersonhoodConfidence(profile)
=============================================================================
