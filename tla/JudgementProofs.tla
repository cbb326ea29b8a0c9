-------------------------- MODULE JudgementProofs ---------------------------
(***************************************************************************)
(* Theorems about what people say of a report: who may be drawn to judge it*)
(* (the reviewer's profile), and what makes their votes a decision (the    *)
(* rules of consensus).                                                    *)
(***************************************************************************)
EXTENDS ReviewerProfile, ConsensusRules, FiniteSetTheorems, TLAPS

(***************************************************************************)
(* The reviewer's profile, for any number of requests at once and of       *)
(* training modules, any grades and any thresholds of promotion.           *)
(***************************************************************************)
Columns == DOMAIN NoProfile

\* What the row is, as far as the proof needs it.
RowShaped ==
  /\ profile = [x \in Columns |-> profile[x]]
  /\ profile.state \in ReviewerStates \cup {"none"}
  /\ session = [r \in Sessions |-> session[r]]

(***************************************************************************)
(* The rules precede calibration, and calibration the states that are      *)
(* drawn.  Neither is ever taken back, which is why a request may rely on  *)
(* the row it last read, however old that is.                              *)
(***************************************************************************)
StepsInOrder ==
  /\ profile.state \in {"calibrating"} \cup DrawableStates => profile.rulesAccepted = TRUE
  /\ profile.state \in DrawableStates => profile.calibrationPassed = TRUE

(***************************************************************************)
(* What a request is about to write: it only sets the two dates, it moves  *)
(* the state only when what that state needs is on the row already, and    *)
(* whoever looks for a promotion has passed with this very write.          *)
(***************************************************************************)
Sound(change, then) ==
  /\ "rulesAccepted" \in DOMAIN change => change["rulesAccepted"] = TRUE
  /\ "calibrationPassed" \in DOMAIN change => change["calibrationPassed"] = TRUE
  /\ "state" \in DOMAIN change =>
       /\ change["state"] \in {"calibrating", "community"}
       /\ profile.rulesAccepted = TRUE
       /\ change["state"] = "community" => profile.calibrationPassed = TRUE
  /\ then = "promote" => "calibrationPassed" \in DOMAIN change

PendingSound ==
  \A r \in Sessions :
    /\ session[r].pc \in {"handle", "merge", "write"} => profile.state # "none"
    /\ session[r].pc \in {"merge", "write"} => Sound(session[r].change, session[r].then)

Qualified == RowShaped /\ StepsInOrder /\ PendingSound

LEMMA ColumnsAre ==
  Columns = {"state", "oxyAccountVerified", "rulesAccepted", "capable", "trained",
             "trainingCompleted", "calibrationPassed", "reliability", "reviews", "confidence"}
  BY DEF Columns, NoProfile

LEMMA QualifiedInit == ProfileInit => Qualified
  BY DEF ProfileInit, Qualified, RowShaped, StepsInOrder, PendingSound, Columns, NoProfile,
     AtRest, DrawableStates

(***************************************************************************)
(* A request that only moves on keeps the invariant, if what it is about   *)
(* to write is sound.                                                      *)
(***************************************************************************)
LEMMA MovingOn ==
  ASSUME NEW r \in Sessions, NEW s, Qualified, GoesOn(r, s),
         s.pc \in {"handle", "merge", "write"} => profile.state # "none",
         s.pc \in {"merge", "write"} => Sound(s.change, s.then)
  PROVE  Qualified'
<1>1. /\ profile' = profile /\ session' = [session EXCEPT ![r] = s]
      /\ session'[r] = s /\ \A q \in Sessions \ {r} : session'[q] = session[q]
  BY DEF GoesOn, Qualified, RowShaped
<1>2. RowShaped' /\ StepsInOrder'
  BY <1>1 DEF Qualified, RowShaped, StepsInOrder
<1>3. ASSUME NEW q \in Sessions
      PROVE  /\ (session[q].pc \in {"handle", "merge", "write"} => profile.state # "none")'
             /\ (session[q].pc \in {"merge", "write"} => Sound(session[q].change, session[q].then))'
  <2>1. CASE q = r
    BY <1>1, <2>1 DEF Sound
  <2>2. CASE q # r
    BY <1>1, <2>2 DEF Qualified, PendingSound, Sound
  <2> QED  BY <2>1, <2>2
<1> QED
  BY <1>2, <1>3 DEF Qualified, PendingSound

(***************************************************************************)
(* A row that loses neither date and stays in order keeps every other      *)
(* request's write sound.                                                  *)
(***************************************************************************)
LEMMA RowMovesOn ==
  ASSUME Qualified, NEW q \in Sessions,
         session'[q] = session[q],
         profile.rulesAccepted = TRUE => profile'.rulesAccepted = TRUE,
         profile.calibrationPassed = TRUE => profile'.calibrationPassed = TRUE,
         profile.state # "none" => profile'.state # "none"
  PROVE  /\ (session[q].pc \in {"handle", "merge", "write"} => profile.state # "none")'
         /\ (session[q].pc \in {"merge", "write"} => Sound(session[q].change, session[q].then))'
  BY DEF Qualified, PendingSound, Sound

\* A change whose columns all stay as some sound write leaves them.
LEMMA MutateMovesOn ==
  ASSUME NEW r \in Sessions, NEW change, NEW then, Qualified,
         GoesOn(r, Mutate(change, then)), profile.state # "none", Sound(change, then)
  PROVE  Qualified'
<1> DEFINE s == Mutate(change, then)
<1>1. s.pc = "merge" /\ s.change = change /\ s.then = then
  BY DEF Mutate
<1> HIDE DEF s
<1> QED
  BY <1>1, MovingOn DEF s

LEMMA EnsureKeeps ==
  ASSUME NEW r \in Sessions, Qualified, EnsureReviewerProfile(r)
  PROVE  Qualified'
<1>1. PICK verified \in BOOLEAN :
        GoesOn(r,
         IF profile.state = "none"
           THEN [pc |-> "insert", verified |-> verified]
         ELSE IF profile.oxyAccountVerified = verified
           THEN [pc |-> "handle"]
         ELSE Mutate([oxyAccountVerified |-> verified], "handle"))
  BY DEF EnsureReviewerProfile
<1>2. CASE profile.state = "none"
  BY <1>1, <1>2, MovingOn
<1>3. CASE profile.state # "none" /\ profile.oxyAccountVerified = verified
  BY <1>1, <1>3, MovingOn
<1>4. CASE profile.state # "none" /\ profile.oxyAccountVerified # verified
  <2>1. GoesOn(r, Mutate([oxyAccountVerified |-> verified], "handle"))
    BY <1>1, <1>4
  <2>2. Sound([oxyAccountVerified |-> verified], "handle")
    BY DEF Sound
  <2> QED
    BY <1>4, <2>1, <2>2, MutateMovesOn
<1> QED
  BY <1>2, <1>3, <1>4

LEMMA InsertKeeps ==
  ASSUME NEW r \in Sessions, Qualified, InsertProfile(r)
  PROVE  Qualified'
<1>1. /\ session' = [session EXCEPT ![r] = [pc |-> "handle"]]
      /\ session'[r] = [pc |-> "handle"]
      /\ \A q \in Sessions \ {r} : session'[q] = session[q]
  BY DEF InsertProfile, Qualified, RowShaped
<1>2. CASE profile.state # "none"
  <2>1. profile' = profile
    BY <1>2 DEF InsertProfile
  <2>2. RowShaped' /\ StepsInOrder'
    BY <1>1, <2>1 DEF Qualified, RowShaped, StepsInOrder
  <2>3. ASSUME NEW q \in Sessions \ {r}
        PROVE  /\ (session[q].pc \in {"handle", "merge", "write"} => profile.state # "none")'
               /\ (session[q].pc \in {"merge", "write"}
                     => Sound(session[q].change, session[q].then))'
    BY <1>1, <2>1, RowMovesOn
  <2>4. PendingSound'
    BY <1>1, <1>2, <2>1, <2>3 DEF PendingSound
  <2> QED  BY <2>2, <2>4 DEF Qualified
<1>3. CASE profile.state = "none"
  <2>1. profile' = NewProfile(session[r].verified)
    BY <1>3 DEF InsertProfile
  <2>2. profile' = [x \in Columns |-> profile'[x]] /\ profile'.state = "applicant"
    BY <2>1 DEF NewProfile, NoProfile, Columns
  <2>3. RowShaped' /\ StepsInOrder'
    BY <1>1, <2>2 DEF Qualified, RowShaped, StepsInOrder, ReviewerStates, DrawableStates
  <2>4. PendingSound'
    BY <1>1, <1>3, <2>2 DEF Qualified, PendingSound
  <2> QED  BY <2>3, <2>4 DEF Qualified
<1> QED
  BY <1>2, <1>3

LEMMA PreferencesKeep ==
  ASSUME NEW r \in Sessions, Qualified, UpdateReviewerPreferences(r)
  PROVE  Qualified'
<1>1. PICK columns \in SUBSET {"capable", "rulesAccepted"}, value \in BOOLEAN :
        /\ "rulesAccepted" \in columns => value /\ ~profile.rulesAccepted
        /\ GoesOn(r, Mutate([x \in columns |-> value], "open"))
  BY DEF UpdateReviewerPreferences
<1>2. "rulesAccepted" \in columns => value = TRUE
  BY <1>1
<1>3. Sound([x \in columns |-> value], "open")
  BY <1>2, columns \subseteq {"capable", "rulesAccepted"} DEF Sound
<1>4. profile.state # "none"
  BY DEF UpdateReviewerPreferences, SessionAt, Qualified, PendingSound
<1> QED
  BY <1>1, <1>3, <1>4, MutateMovesOn

LEMMA TrainingKeeps ==
  ASSUME NEW r \in Sessions, NEW m \in TrainingModules, Qualified, CompleteTrainingModule(r, m)
  PROVE  Qualified'
<1> DEFINE change == [trained |-> profile.trained \cup {m},
                      trainingCompleted |-> profile.trained \cup {m} = TrainingModules]
<1>1. GoesOn(r, Mutate(change, "open")) /\ SessionAt(r, "handle")
  BY DEF CompleteTrainingModule
<1>2. DOMAIN change = {"trained", "trainingCompleted"}
  OBVIOUS
<1> HIDE DEF change
<1>3. Sound(change, "open")
  BY <1>2 DEF Sound
<1> QED
  BY <1>1, <1>3, MutateMovesOn DEF SessionAt, Qualified, PendingSound

LEMMA CalibrationKeeps ==
  ASSUME NEW r \in Sessions, Qualified, SubmitCalibration(r)
  PROVE  Qualified'
<1>1. profile.state # "none"
  BY DEF SubmitCalibration, SessionAt, Qualified, PendingSound
<1>2. CASE GoesOn(r, Mutate(NoChange, "return"))
  <2>1. Sound(NoChange, "return")
    BY DEF Sound, NoChange
  <2> QED  BY <1>1, <1>2, <2>1, MutateMovesOn
<1>3. ASSUME NEW grade \in Grades,
             GoesOn(r, Mutate([calibrationPassed |-> TRUE, reliability |-> grade], "promote"))
      PROVE  Qualified'
  <2>1. Sound([calibrationPassed |-> TRUE, reliability |-> grade], "promote")
    BY DEF Sound
  <2> QED  BY <1>1, <1>3, <2>1, MutateMovesOn
<1> QED
  BY <1>2, <1>3 DEF SubmitCalibration

LEMMA MergeKeeps ==
  ASSUME NEW r \in Sessions, Qualified, ReadAndMerge(r)
  PROVE  Qualified'
<1> DEFINE change == session[r].change
           merged == Updated(profile, change)
           derived == [x \in DOMAIN change \cup {"confidence"} |->
                         IF x = "confidence" THEN PersonhoodConfidence(merged) ELSE change[x]]
<1>1. Sound(change, session[r].then) /\ profile.state # "none"
  BY DEF ReadAndMerge, SessionAt, Qualified, PendingSound
<1>2. Sound(derived, session[r].then)
  BY <1>1 DEF Sound
<1>3. \/ GoesOn(r, [pc |-> "write", change |-> derived, then |-> session[r].then])
      \/ GoesOn(r, AtRest)
  BY DEF ReadAndMerge
<1> HIDE DEF derived
<1>4. CASE GoesOn(r, [pc |-> "write", change |-> derived, then |-> session[r].then])
  BY <1>1, <1>2, <1>4, MovingOn
<1>5. CASE GoesOn(r, AtRest)
  BY <1>5, MovingOn DEF AtRest
<1> QED
  BY <1>3, <1>4, <1>5

LEMMA WriteKeeps ==
  ASSUME NEW r \in Sessions, Qualified, WriteProfile(r)
  PROVE  Qualified'
<1> DEFINE change == session[r].change
           then == session[r].then
           written == Updated(profile, change)
<1>1. Sound(change, then) /\ profile.state # "none"
  BY DEF WriteProfile, SessionAt, Qualified, PendingSound
<1>2. /\ profile' = written
      /\ \A q \in Sessions \ {r} : session'[q] = session[q]
      /\ session' = [q \in Sessions |-> session'[q]]
      /\ session'[r] =
           CASE then = "handle" -> [pc |-> "handle"]
             [] then = "open" /\ OpensCalibration(written) ->
                  Mutate([state |-> "calibrating"], "return")
             [] then = "promote" /\ written.state = "calibrating" ->
                  Mutate([state |-> "community"], "return")
             [] OTHER -> AtRest
  BY DEF WriteProfile, Qualified, RowShaped
<1>3. /\ DOMAIN profile = Columns /\ written = [x \in Columns |-> written[x]]
      /\ \A x \in Columns :
           written[x] = IF x \in DOMAIN change THEN change[x] ELSE profile[x]
  BY DEF Updated, Qualified, RowShaped
<1>4. /\ profile.rulesAccepted = TRUE => written.rulesAccepted = TRUE
      /\ profile.calibrationPassed = TRUE => written.calibrationPassed = TRUE
      /\ then = "promote" => written.calibrationPassed = TRUE
  BY <1>1, <1>3, ColumnsAre DEF Sound
<1>5. /\ written.state \in ReviewerStates
      /\ written.state \in {"calibrating"} \cup DrawableStates => written.rulesAccepted = TRUE
      /\ written.state \in DrawableStates => written.calibrationPassed = TRUE
  <2>1. CASE "state" \in DOMAIN change
    BY <1>1, <1>3, <1>4, <2>1, ColumnsAre DEF Sound, ReviewerStates, DrawableStates
  <2>2. CASE "state" \notin DOMAIN change
    BY <1>1, <1>3, <1>4, <2>2, ColumnsAre DEF Qualified, RowShaped, StepsInOrder
  <2> QED  BY <2>1, <2>2
<1>6. RowShaped' /\ StepsInOrder'
  BY <1>2, <1>3, <1>5 DEF RowShaped, StepsInOrder
<1>7. written.state # "none"
  BY <1>5 DEF ReviewerStates, DrawableStates
<1>8. (session[r].pc \in {"merge", "write"} => Sound(session[r].change, session[r].then))'
  <2>1. CASE session'[r] \in {[pc |-> "handle"], AtRest}
    BY <2>1 DEF AtRest
  <2>2. CASE /\ OpensCalibration(written)
             /\ session'[r] = Mutate([state |-> "calibrating"], "return")
    BY <1>2, <2>2 DEF Mutate, OpensCalibration, Sound
  <2>3. CASE /\ then = "promote" /\ written.state = "calibrating"
             /\ session'[r] = Mutate([state |-> "community"], "return")
    BY <1>2, <1>4, <1>5, <2>3 DEF Mutate, Sound
  <2> QED
    BY <1>2, <2>1, <2>2, <2>3
<1>9. ASSUME NEW q \in Sessions \ {r}
      PROVE  /\ (session[q].pc \in {"handle", "merge", "write"} => profile.state # "none")'
             /\ (session[q].pc \in {"merge", "write"}
                   => Sound(session[q].change, session[q].then))'
  BY <1>2, <1>4, <1>7, RowMovesOn
<1>10. PendingSound'
  BY <1>2, <1>7, <1>8, <1>9 DEF PendingSound
<1> QED
  BY <1>6, <1>10 DEF Qualified

LEMMA ReviewKeeps ==
  ASSUME Qualified, RecordSubmittedReview
  PROVE  Qualified'
<1> DEFINE counted == [profile EXCEPT !.reviews = @ + 1]
<1>1. /\ profile.state \in DrawableStates
      /\ profile' = [counted EXCEPT !.state = PromotionFor(counted)] /\ session' = session
  BY DEF RecordSubmittedReview
<1>2. counted = [x \in Columns |-> counted[x]] /\ counted.state = profile.state
  BY ColumnsAre DEF Qualified, RowShaped
<1>3. PromotionFor(counted) \in DrawableStates
  BY <1>1, <1>2 DEF PromotionFor, DrawableStates
<1>4. /\ profile' = [x \in Columns |-> profile'[x]] /\ profile'.state \in DrawableStates
      /\ profile'.rulesAccepted = profile.rulesAccepted
      /\ profile'.calibrationPassed = profile.calibrationPassed
  BY <1>1, <1>2, <1>3, ColumnsAre DEF Qualified, RowShaped
<1>5. RowShaped' /\ StepsInOrder'
  BY <1>1, <1>4 DEF Qualified, RowShaped, StepsInOrder, ReviewerStates
<1>6. profile'.state # "none"
  BY <1>4 DEF DrawableStates
<1>7. PendingSound'
  BY <1>1, <1>4, <1>6, RowMovesOn DEF PendingSound
<1> QED
  BY <1>5, <1>7 DEF Qualified

LEMMA QualifiedNext == Qualified /\ [ProfileNext]_profileVars => Qualified'
<1> SUFFICES ASSUME Qualified, [ProfileNext]_profileVars PROVE Qualified'
  OBVIOUS
<1>1. ASSUME NEW r \in Sessions, SessionStep(r) PROVE Qualified'
  <2>1. CASE \E m \in TrainingModules : CompleteTrainingModule(r, m)
    BY <2>1, TrainingKeeps
  <2>2. CASE EnsureReviewerProfile(r)  BY <2>2, EnsureKeeps
  <2>3. CASE InsertProfile(r)  BY <2>3, InsertKeeps
  <2>4. CASE UpdateReviewerPreferences(r)  BY <2>4, PreferencesKeep
  <2>5. CASE SubmitCalibration(r)  BY <2>5, CalibrationKeeps
  <2>6. CASE Return(r)  BY <2>6, MovingOn DEF Return, AtRest
  <2>7. CASE ReadAndMerge(r)  BY <2>7, MergeKeeps
  <2>8. CASE WriteProfile(r)  BY <2>8, WriteKeeps
  <2> QED
    BY <1>1, <2>1, <2>2, <2>3, <2>4, <2>5, <2>6, <2>7, <2>8 DEF SessionStep
<1>2. CASE RecordSubmittedReview  BY <1>2, ReviewKeeps
<1>3. CASE UNCHANGED profileVars
  BY <1>3 DEF profileVars, Qualified, RowShaped, StepsInOrder, PendingSound, Sound
<1> QED
  BY <1>1, <1>2, <1>3 DEF ProfileNext

(***************************************************************************)
(* Nobody is drawn before accepting the rules and passing calibration,     *)
(* although a change of state is written on what an older read of the row  *)
(* showed (openCalibrationIfReady, submitCalibration, promotionFor).       *)
(***************************************************************************)
THEOREM JurorsAreQualified == ProfileSpec => []DrawnAreQualified
<1>1. Qualified => DrawnAreQualified
  BY DEF Qualified, StepsInOrder, DrawnAreQualified
<1> QED
  BY <1>1, QualifiedInit, QualifiedNext, PTL DEF ProfileSpec

-----------------------------------------------------------------------------
(***************************************************************************)
(* The values of each column.  What a request is about to write fits its   *)
(* columns whatever row it is written to, and however old the row is that  *)
(* the request read.                                                       *)
(***************************************************************************)
Values ==
  [state |-> ReviewerStates \cup {"none"}, oxyAccountVerified |-> BOOLEAN,
   rulesAccepted |-> BOOLEAN, capable |-> BOOLEAN, trained |-> SUBSET TrainingModules,
   trainingCompleted |-> BOOLEAN, calibrationPassed |-> BOOLEAN,
   reliability |-> Grades \cup {{}}, reviews |-> 0..MaxReviews, confidence |-> 0..10]

ChangeFits(change) ==
  DOMAIN change \subseteq Columns /\ \A x \in DOMAIN change : change[x] \in Values[x]

SessionFits(s) ==
  \/ s = AtRest \/ s = [pc |-> "handle"]
  \/ s \in [pc : {"insert"}, verified : BOOLEAN]
  \/ s.pc \in {"merge", "write"} /\ s.then \in Continuations /\ ChangeFits(s.change)

ProfileFits ==
  /\ profile \in ProfileRow
  /\ session = [r \in Sessions |-> session[r]]
  /\ \A r \in Sessions : SessionFits(session[r])

LEMMA ValuesAre ==
  /\ Values["trained"] = SUBSET TrainingModules /\ Values["trainingCompleted"] = BOOLEAN
  /\ Values["calibrationPassed"] = BOOLEAN /\ Values["reliability"] = Grades \cup {{}}
  BY DEF Values

LEMMA RowIs ==
  ASSUME NEW p
  PROVE  p \in ProfileRow
           <=> p = [x \in Columns |-> p[x]] /\ \A x \in Columns : p[x] \in Values[x]
<1>1. ASSUME p \in ProfileRow
      PROVE  p = [x \in Columns |-> p[x]] /\ \A x \in Columns : p[x] \in Values[x]
  BY <1>1, ColumnsAre DEF ProfileRow, Values
<1>2. ASSUME p = [x \in Columns |-> p[x]], \A x \in Columns : p[x] \in Values[x]
      PROVE  p \in ProfileRow
  <2>1. /\ p.state \in ReviewerStates \cup {"none"} /\ p.oxyAccountVerified \in BOOLEAN
        /\ p.rulesAccepted \in BOOLEAN /\ p.capable \in BOOLEAN
        /\ p.trained \in SUBSET TrainingModules /\ p.trainingCompleted \in BOOLEAN
        /\ p.calibrationPassed \in BOOLEAN /\ p.reliability \in Grades \cup {{}}
        /\ p.reviews \in 0..MaxReviews /\ p.confidence \in 0..10
    BY <1>2, ColumnsAre DEF Values
  <2>2. p = [x \in {"state", "oxyAccountVerified", "rulesAccepted", "capable", "trained",
                    "trainingCompleted", "calibrationPassed", "reliability", "reviews",
                    "confidence"} |-> p[x]]
    BY <1>2, ColumnsAre
  <2> QED
    BY <2>1, <2>2 DEF ProfileRow
<1> QED
  BY <1>1, <1>2

LEMMA UpdateFits ==
  ASSUME NEW p \in ProfileRow, NEW change, ChangeFits(change)
  PROVE  Updated(p, change) \in ProfileRow
<1> DEFINE u == Updated(p, change)
<1>1. DOMAIN p = Columns /\ \A x \in Columns : p[x] \in Values[x]
  BY RowIs
<1>2. /\ u = [x \in Columns |-> u[x]]
      /\ \A x \in Columns : u[x] = IF x \in DOMAIN change THEN change[x] ELSE p[x]
  BY <1>1 DEF Updated
<1> HIDE DEF u
<1>3. \A x \in Columns : u[x] \in Values[x]
  BY <1>1, <1>2 DEF ChangeFits
<1>4. u \in ProfileRow
  BY <1>2, <1>3, RowIs
<1> QED
  BY <1>4 DEF u

\* The confidence is at most ten tenths.
LEMMA ConfidenceFits ==
  ASSUME NEW p
  PROVE  PersonhoodConfidence(p) \in 0..10
  BY DEF PersonhoodConfidence

LEMMA ProfileFitsInit == ProfileInit => ProfileFits
<1> SUFFICES ASSUME ProfileInit PROVE ProfileFits
  OBVIOUS
<1>1. NoProfile \in ProfileRow
  BY ReviewsAssumption DEF NoProfile, ProfileRow
<1> QED
  BY <1>1 DEF ProfileInit, ProfileFits, SessionFits

\* A request that only moves on, to something that fits.
LEMMA MovingFits ==
  ASSUME ProfileFits, NEW r \in Sessions, NEW s, GoesOn(r, s), SessionFits(s)
  PROVE  ProfileFits'
<1>1. /\ profile' = profile /\ session' = [q \in Sessions |-> session'[q]]
      /\ \A q \in Sessions : session'[q] = IF q = r THEN s ELSE session[q]
  BY DEF GoesOn, ProfileFits
<1> QED
  BY <1>1 DEF ProfileFits

LEMMA MutateFits ==
  ASSUME NEW change, NEW then \in Continuations, ChangeFits(change)
  PROVE  SessionFits(Mutate(change, then))
  BY DEF SessionFits, Mutate

LEMMA EnsureFits ==
  ASSUME ProfileFits, NEW r \in Sessions, EnsureReviewerProfile(r)
  PROVE  ProfileFits'
<1>1. PICK verified \in BOOLEAN :
        GoesOn(r,
         IF profile.state = "none"
           THEN [pc |-> "insert", verified |-> verified]
         ELSE IF profile.oxyAccountVerified = verified
           THEN [pc |-> "handle"]
         ELSE Mutate([oxyAccountVerified |-> verified], "handle"))
  BY DEF EnsureReviewerProfile
<1>2. SessionFits([pc |-> "insert", verified |-> verified]) /\ SessionFits([pc |-> "handle"])
  BY DEF SessionFits
<1>3. ChangeFits([oxyAccountVerified |-> verified])
  BY ColumnsAre DEF ChangeFits, Values
<1>4. SessionFits(Mutate([oxyAccountVerified |-> verified], "handle"))
  BY <1>3, MutateFits DEF Continuations
<1> QED
  BY <1>1, <1>2, <1>4, MovingFits

LEMMA InsertFits ==
  ASSUME ProfileFits, NEW r \in Sessions, InsertProfile(r)
  PROVE  ProfileFits'
<1> DEFINE new == NewProfile(session[r].verified)
<1>1. session[r].verified \in BOOLEAN
  BY DEF InsertProfile, SessionAt, ProfileFits, SessionFits, AtRest
<1>2. new \in ProfileRow
  <2>1. NoProfile \in ProfileRow
    BY ReviewsAssumption DEF NoProfile, ProfileRow
  <2>2. new.confidence \in {3, 7} /\ new.confidence \in 0..10
    BY DEF NewProfile, NoProfile
  <2>3. /\ new = [x \in Columns |-> new[x]]
        /\ new.state = "applicant" /\ new.oxyAccountVerified = session[r].verified
        /\ \A x \in Columns \ {"state", "oxyAccountVerified", "confidence"} :
             new[x] = NoProfile[x]
    BY DEF NewProfile, NoProfile, Columns
  <2>4. Values["state"] = ReviewerStates \cup {"none"} /\ Values["confidence"] = 0..10
        /\ Values["oxyAccountVerified"] = BOOLEAN /\ "applicant" \in ReviewerStates
    BY DEF Values, ReviewerStates
  <2> HIDE DEF new
  <2>5. ASSUME NEW x \in Columns PROVE new[x] \in Values[x]
    <3>1. CASE x \in {"state", "oxyAccountVerified", "confidence"}
      BY <1>1, <2>2, <2>3, <2>4, <3>1
    <3>2. CASE x \notin {"state", "oxyAccountVerified", "confidence"}
      BY <2>1, <2>3, <3>2, RowIs
    <3> QED
      BY <3>1, <3>2
  <2> QED
    BY <2>3, <2>5, RowIs
<1>3. profile' \in ProfileRow
  BY <1>2 DEF InsertProfile, ProfileFits
<1>4. /\ session' = [q \in Sessions |-> session'[q]]
      /\ \A q \in Sessions : session'[q] = IF q = r THEN [pc |-> "handle"] ELSE session[q]
  BY DEF InsertProfile, ProfileFits
<1> QED
  BY <1>3, <1>4 DEF ProfileFits, SessionFits

LEMMA PreferencesFit ==
  ASSUME ProfileFits, NEW r \in Sessions, UpdateReviewerPreferences(r)
  PROVE  ProfileFits'
<1>1. PICK columns \in SUBSET {"capable", "rulesAccepted"}, value \in BOOLEAN :
        GoesOn(r, Mutate([x \in columns |-> value], "open"))
  BY DEF UpdateReviewerPreferences
<1>2. ChangeFits([x \in columns |-> value])
  BY <1>1, ColumnsAre DEF ChangeFits, Values
<1> QED
  BY <1>1, <1>2, MutateFits, MovingFits DEF Continuations

LEMMA TrainingFits ==
  ASSUME ProfileFits, NEW r \in Sessions, NEW m \in TrainingModules,
         CompleteTrainingModule(r, m)
  PROVE  ProfileFits'
<1> DEFINE completed == profile.trained \cup {m}
           change == [trained |-> completed,
                      trainingCompleted |-> completed = TrainingModules]
<1>1. completed \in SUBSET TrainingModules
  BY DEF ProfileFits, ProfileRow
<1>2. ChangeFits(change)
  <2> HIDE DEF completed
  <2>1. DOMAIN change = {"trained", "trainingCompleted"}
    OBVIOUS
  <2>2. change["trained"] = completed /\ change["trainingCompleted"] \in BOOLEAN
    OBVIOUS
  <2> HIDE DEF change
  <2> QED
    BY <1>1, <2>1, <2>2, ColumnsAre, ValuesAre DEF ChangeFits
<1>3. GoesOn(r, Mutate(change, "open"))
  BY DEF CompleteTrainingModule
<1> HIDE DEF change
<1> QED
  BY <1>2, <1>3, MutateFits, MovingFits DEF Continuations

LEMMA CalibrationFits ==
  ASSUME ProfileFits, NEW r \in Sessions, SubmitCalibration(r)
  PROVE  ProfileFits'
<1>1. CASE GoesOn(r, Mutate(NoChange, "return"))
  <2>1. ChangeFits(NoChange)
    BY DEF ChangeFits, NoChange
  <2> QED
    BY <1>1, <2>1, MutateFits, MovingFits DEF Continuations
<1>2. ASSUME NEW grade \in Grades,
             GoesOn(r, Mutate([calibrationPassed |-> TRUE, reliability |-> grade], "promote"))
      PROVE  ProfileFits'
  <2> DEFINE change == [calibrationPassed |-> TRUE, reliability |-> grade]
  <2>1. /\ DOMAIN change = {"calibrationPassed", "reliability"}
        /\ change["calibrationPassed"] = TRUE /\ change["reliability"] = grade
    OBVIOUS
  <2> HIDE DEF change
  <2>2. ChangeFits(change)
    BY <1>2, <2>1, ColumnsAre, ValuesAre DEF ChangeFits
  <2> QED
    BY <1>2, <2>2, MutateFits, MovingFits DEF Continuations, change
<1> QED
  BY <1>1, <1>2 DEF SubmitCalibration

LEMMA MergeFits ==
  ASSUME ProfileFits, NEW r \in Sessions, ReadAndMerge(r)
  PROVE  ProfileFits'
<1> DEFINE change == session[r].change
           merged == Updated(profile, change)
           derived == [x \in DOMAIN change \cup {"confidence"} |->
                         IF x = "confidence" THEN PersonhoodConfidence(merged) ELSE change[x]]
<1>1. ChangeFits(change) /\ session[r].then \in Continuations
  BY DEF ReadAndMerge, SessionAt, ProfileFits, SessionFits, AtRest
<1>2. PersonhoodConfidence(merged) \in 0..10
  BY ConfidenceFits
<1>3. ChangeFits(derived)
  <2> HIDE DEF merged
  <2> QED
    BY <1>1, <1>2, ColumnsAre DEF ChangeFits, Values
<1>4. \/ GoesOn(r, [pc |-> "write", change |-> derived, then |-> session[r].then])
      \/ GoesOn(r, AtRest)
  BY DEF ReadAndMerge
<1> HIDE DEF derived
<1>5. /\ SessionFits([pc |-> "write", change |-> derived, then |-> session[r].then])
      /\ SessionFits(AtRest)
  BY <1>1, <1>3 DEF SessionFits
<1> QED
  BY <1>4, <1>5, MovingFits

LEMMA WriteFits ==
  ASSUME ProfileFits, NEW r \in Sessions, WriteProfile(r)
  PROVE  ProfileFits'
<1>1. ChangeFits(session[r].change)
  BY DEF WriteProfile, SessionAt, ProfileFits, SessionFits, AtRest
<1>2. profile' \in ProfileRow
  BY <1>1, UpdateFits DEF WriteProfile, ProfileFits
<1>3. /\ session' = [q \in Sessions |-> session'[q]]
      /\ \A q \in Sessions \ {r} : session'[q] = session[q]
      /\ session'[r] \in {[pc |-> "handle"], AtRest,
                          Mutate([state |-> "calibrating"], "return"),
                          Mutate([state |-> "community"], "return")}
  BY DEF WriteProfile, ProfileFits
<1>4. ChangeFits([state |-> "calibrating"]) /\ ChangeFits([state |-> "community"])
  BY ColumnsAre DEF ChangeFits, Values, ReviewerStates, DrawableStates
<1>5. /\ SessionFits(Mutate([state |-> "calibrating"], "return"))
      /\ SessionFits(Mutate([state |-> "community"], "return"))
      /\ SessionFits([pc |-> "handle"]) /\ SessionFits(AtRest)
  BY <1>4, MutateFits DEF Continuations, SessionFits
<1>6. SessionFits(session'[r])
  BY <1>3, <1>5
<1> QED
  BY <1>2, <1>3, <1>6 DEF ProfileFits

LEMMA ReviewFits ==
  ASSUME ProfileFits, RecordSubmittedReview
  PROVE  ProfileFits'
<1> DEFINE counted == [profile EXCEPT !.reviews = @ + 1]
<1>1. counted \in ProfileRow /\ counted.state = profile.state
  BY ReviewsAssumption DEF RecordSubmittedReview, ProfileFits, ProfileRow
<1>2. /\ profile.state \in DrawableStates /\ session' = session
      /\ profile' = [counted EXCEPT !.state = PromotionFor(counted)]
  BY DEF RecordSubmittedReview
<1> HIDE DEF counted
<1>3. PromotionFor(counted) \in ReviewerStates
  BY <1>1, <1>2 DEF PromotionFor, DrawableStates, ReviewerStates
<1>4. profile' \in ProfileRow
  BY <1>1, <1>2, <1>3 DEF ProfileRow
<1> QED
  BY <1>2, <1>4 DEF ProfileFits

LEMMA ProfileFitsNext == ProfileFits /\ [ProfileNext]_profileVars => ProfileFits'
<1> SUFFICES ASSUME ProfileFits, [ProfileNext]_profileVars PROVE ProfileFits'
  OBVIOUS
<1>1. ASSUME NEW r \in Sessions, SessionStep(r) PROVE ProfileFits'
  <2>1. CASE \E m \in TrainingModules : CompleteTrainingModule(r, m)
    BY <2>1, TrainingFits
  <2>2. CASE EnsureReviewerProfile(r)  BY <2>2, EnsureFits
  <2>3. CASE InsertProfile(r)  BY <2>3, InsertFits
  <2>4. CASE UpdateReviewerPreferences(r)  BY <2>4, PreferencesFit
  <2>5. CASE SubmitCalibration(r)  BY <2>5, CalibrationFits
  <2>6. CASE Return(r)  BY <2>6, MovingFits DEF Return, SessionFits
  <2>7. CASE ReadAndMerge(r)  BY <2>7, MergeFits
  <2>8. CASE WriteProfile(r)  BY <2>8, WriteFits
  <2> QED
    BY <1>1, <2>1, <2>2, <2>3, <2>4, <2>5, <2>6, <2>7, <2>8 DEF SessionStep
<1>2. CASE RecordSubmittedReview  BY <1>2, ReviewFits
<1>3. CASE UNCHANGED profileVars
  BY <1>3 DEF profileVars, ProfileFits
<1> QED
  BY <1>1, <1>2, <1>3 DEF ProfileNext

(***************************************************************************)
(* The row and what each request is about to write are what their columns  *)
(* hold; a request that read an old row still writes a row.                *)
(***************************************************************************)
THEOREM ProfileTypeCorrect == ProfileSpec => []ProfileTypeOK
<1>1. ProfileFits => ProfileTypeOK
  BY UpdateFits DEF ProfileFits, SessionFits, ProfileTypeOK
<1> QED
  BY <1>1, ProfileFitsInit, ProfileFitsNext, PTL DEF ProfileSpec

-----------------------------------------------------------------------------
(***************************************************************************)
(* Induction, for what is computed over the elements of a set: of the sets *)
(* or numbers a claim fails for there is a smallest one.                   *)
(***************************************************************************)
LEMMA SmallestSet ==
  ASSUME NEW S, IsFiniteSet(S), NEW B \in SUBSET SUBSET S, B # {}
  PROVE  \E T \in B : \A U \in B : ~(U \subseteq T /\ U # T)
<1> DEFINE R == StrictSubsetOrdering(S)
<1>1. IsWellFoundedOn(R, SUBSET S)
  BY FS_StrictSubsetOrderingWellFounded, FS_FiniteSubsetsOfFinite
<1>2. \A T, U \in SUBSET S : U \subseteq T /\ U # T => <<U, T>> \in R
  BY DEF StrictSubsetOrdering
<1> HIDE DEF R
<1>3. PICK T \in B : \A U \in B : ~ (<<U, T>> \in R)
  BY <1>1, WFMin
<1>4. \A U \in B : ~(U \subseteq T /\ U # T)
  BY <1>2, <1>3
<1> QED
  BY <1>4

LEMMA LeastNumber ==
  ASSUME NEW T \in SUBSET Nat, T # {}
  PROVE  \E n \in T : \A m \in T : n <= m
<1> DEFINE R == OpToRel(<, Nat)
<1>1. IsWellFoundedOn(R, Nat)
  BY NatLessThanWellFounded
<1>2. \A n, m \in Nat : m < n => <<m, n>> \in R
  BY DEF OpToRel
<1> HIDE DEF R
<1>3. PICK n \in T : \A m \in T : ~ (<<m, n>> \in R)
  BY <1>1, WFMin
<1>4. \A m \in T : ~ (m < n)
  BY <1>2, <1>3
<1>5. \A m \in T : n <= m
  BY <1>4
<1> QED
  BY <1>5

-----------------------------------------------------------------------------
(***************************************************************************)
(* The sum of a function, as the library computes it: one element is taken *)
(* out after the other.                                                    *)
(***************************************************************************)
Picked(s) == CHOOSE x \in s : TRUE
IsSum(g, f, D) ==
  g = [s \in D |-> IF s = {} THEN 0 ELSE f[Picked(s)] + g[s \ {Picked(s)}]]

LEMMA PickedIsIn == ASSUME NEW s, s # {} PROVE Picked(s) \in s
  BY DEF Picked

\* Such a function exists, for sets of any size: by induction on the size.
LEMMA SumExists ==
  ASSUME NEW f, NEW S, IsFiniteSet(S)
  PROVE  \E g : IsSum(g, f, SUBSET S)
<1> DEFINE D(n) == {s \in SUBSET S : Cardinality(s) <= n}
           Bad == {n \in Nat : ~ \E g : IsSum(g, f, D(n))}
<1>0. \A s \in SUBSET S : IsFiniteSet(s) /\ Cardinality(s) \in Nat
  BY FS_Subset, FS_CardinalityType
<1>1. 0 \notin Bad
  <2> DEFINE h == [s \in D(0) |-> 0]
  <2>1. \A s \in D(0) : s = {}
    <3>1. ASSUME NEW s \in D(0) PROVE s = {}
      <4>1. Cardinality(s) = 0 /\ IsFiniteSet(s)
        BY <1>0
      <4> QED
        BY <4>1, FS_EmptySet
    <3> QED
      BY <3>1
  <2>2. h = [s \in D(0) |-> IF s = {} THEN 0 ELSE f[Picked(s)] + h[s \ {Picked(s)}]]
    BY <2>1
  <2> QED
    BY <2>2 DEF IsSum
<1>2. ASSUME NEW n \in Nat, n \notin Bad PROVE n + 1 \notin Bad
  <2>1. PICK g : IsSum(g, f, D(n))
    BY <1>2
  <2> DEFINE E(k, s) == IF s = {} THEN 0 ELSE f[Picked(s)] + k[s \ {Picked(s)}]
             h == [s \in D(n + 1) |-> E(g, s)]
  <2>2. \A s \in D(n) : g[s] = E(g, s)
    BY <2>1 DEF IsSum
  <2>3. \A s \in D(n) : s \in D(n + 1) /\ h[s] = g[s]
    BY <2>2, <1>0
  <2>4. \A s \in D(n + 1) : s # {} => s \ {Picked(s)} \in D(n)
    <3>1. ASSUME NEW s \in D(n + 1), s # {} PROVE s \ {Picked(s)} \in D(n)
      <4>1. IsFiniteSet(s) /\ Picked(s) \in s /\ Cardinality(s) <= n + 1 /\ Cardinality(s) \in Nat
        BY <1>0, <3>1, PickedIsIn
      <4>2. Cardinality(s \ {Picked(s)}) = Cardinality(s) - 1
        BY <4>1, FS_RemoveElement
      <4>3. Cardinality(s \ {Picked(s)}) <= n
        BY <4>1, <4>2
      <4> QED
        BY <4>3
    <3> QED
      BY <3>1
  <2> HIDE DEF D
  <2>5. \A s \in D(n + 1) : E(g, s) = E(h, s)
    BY <2>3, <2>4
  <2>6. h = [s \in D(n + 1) |-> E(h, s)]
    BY <2>5
  <2>7. IsSum(h, f, D(n + 1))
    BY <2>6 DEF IsSum
  <2> QED
    BY <2>7
<1>3. Bad = {}
  <2> SUFFICES ASSUME Bad # {} PROVE FALSE
    OBVIOUS
  <2>1. Bad \in SUBSET Nat
    OBVIOUS
  <2> HIDE DEF Bad
  <2>2. PICK n \in Bad : \A m \in Bad : n <= m
    BY <2>1, LeastNumber
  <2>3. n \in Nat /\ n # 0
    BY <1>1, <2>1, <2>2
  <2>4. n - 1 \in Nat /\ n - 1 \notin Bad /\ (n - 1) + 1 = n
    BY <2>2, <2>3
  <2> QED
    BY <1>2, <2>2, <2>4
<1>4. Cardinality(S) \in Nat /\ \A s \in SUBSET S : Cardinality(s) <= Cardinality(S)
  BY FS_CardinalityType, FS_Subset
<1>5. SUBSET S = D(Cardinality(S))
  BY <1>4
<1>6. \E g : IsSum(g, f, D(Cardinality(S)))
  BY <1>3, <1>4
<1> HIDE DEF D, Bad
<1> QED
  BY <1>5, <1>6

\* The sum the library defines is the value of such a function.
LEMMA SumHasFunction ==
  ASSUME NEW f, IsFiniteSet(DOMAIN f)
  PROVE  \E g : IsSum(g, f, SUBSET DOMAIN f) /\ SumFunction(f) = g[DOMAIN f]
<1> DEFINE g == CHOOSE h : IsSum(h, f, SUBSET DOMAIN f)
<1>1. IsSum(g, f, SUBSET DOMAIN f)
  BY SumExists
<1>2. SumFunction(f) = g[DOMAIN f]
  BY DEF SumFunction, SumFunctionOnSet, FoldFunctionOnSet, MapThenFoldSet, IsSum, Picked
<1> QED
  BY <1>1, <1>2

\* One equation of the function.
LEMMA SumUnfolds ==
  ASSUME NEW f, NEW S, NEW g, IsSum(g, f, SUBSET S)
  PROVE  \A s \in SUBSET S :
           /\ s = {} => g[s] = 0
           /\ s # {} => /\ Picked(s) \in s /\ s \ {Picked(s)} \in SUBSET S
                       /\ g[s] = f[Picked(s)] + g[s \ {Picked(s)}]
<1>1. \A s \in SUBSET S : g[s] = IF s = {} THEN 0 ELSE f[Picked(s)] + g[s \ {Picked(s)}]
  BY DEF IsSum
<1> QED
  BY <1>1, PickedIsIn

LEMMA SumOfNone ==
  ASSUME NEW f, NEW S, NEW g, IsSum(g, f, SUBSET S)
  PROVE  g[{}] = 0
  BY SumUnfolds

LEMMA SumIsNat ==
  ASSUME NEW S, IsFiniteSet(S), NEW f \in [S -> Nat], NEW g, IsSum(g, f, SUBSET S)
  PROVE  \A s \in SUBSET S : g[s] \in Nat
<1> DEFINE Bad == {s \in SUBSET S : g[s] \notin Nat}
<1> SUFFICES ASSUME Bad # {} PROVE FALSE
  OBVIOUS
<1>1. PICK s \in Bad : \A t \in Bad : ~(t \subseteq s /\ t # s)
  <2>1. Bad \in SUBSET SUBSET S
    OBVIOUS
  <2> HIDE DEF Bad
  <2> QED
    BY <2>1, SmallestSet
<1> DEFINE x == Picked(s)
<1>2. s # {} /\ x \in s /\ s \ {x} \in SUBSET S /\ g[s] = f[x] + g[s \ {x}]
  BY <1>1, SumUnfolds
<1>3. g[s \ {x}] \in Nat
  BY <1>1, <1>2
<1>4. f[x] \in Nat
  BY <1>1, <1>2
<1> HIDE DEF x
<1>5. g[s] \in Nat
  BY <1>2, <1>3, <1>4
<1> QED
  BY <1>1, <1>5

\* The sum may start with any element.
TakesAny(g, f, S) == \A s \in SUBSET S : \A v \in s : g[s] = f[v] + g[s \ {v}]

LEMMA SumTakesAny ==
  ASSUME NEW S, IsFiniteSet(S), NEW f \in [S -> Nat], NEW g, IsSum(g, f, SUBSET S)
  PROVE  TakesAny(g, f, S)
<1> DEFINE Bad == {s \in SUBSET S : \E v \in s : g[s] # f[v] + g[s \ {v}]}
<1> SUFFICES ASSUME Bad # {} PROVE FALSE
  BY DEF TakesAny
<1>1. PICK s \in Bad : \A t \in Bad : ~(t \subseteq s /\ t # s)
  <2>1. Bad \in SUBSET SUBSET S
    OBVIOUS
  <2> HIDE DEF Bad
  <2> QED
    BY <2>1, SmallestSet
<1>2. PICK v \in s : g[s] # f[v] + g[s \ {v}]
  BY <1>1
<1> DEFINE x == Picked(s)
<1>3. x \in s /\ g[s] = f[x] + g[s \ {x}]
  <2>1. s \in SUBSET S /\ s # {}
    BY <1>1, <1>2
  <2> QED
    BY <2>1, SumUnfolds
<1> HIDE DEF x
<1>4. x # v
  BY <1>2, <1>3
<1> DEFINE sx == s \ {x}
           sv == s \ {v}
           r == s \ {x, v}
<1>5. /\ sx \in SUBSET S /\ sv \in SUBSET S /\ r \in SUBSET S /\ sx # s /\ sv # s
      /\ v \in sx /\ x \in sv /\ sx \ {v} = r /\ sv \ {x} = r /\ x \in S /\ v \in S
      /\ sx \subseteq s /\ sv \subseteq s
  BY <1>1, <1>3, <1>4
<1>6. sx \notin Bad /\ sv \notin Bad
  BY <1>1, <1>5
<1>7. g[sx] = f[v] + g[r] /\ g[sv] = f[x] + g[r]
  BY <1>5, <1>6
<1>8. g[r] \in Nat /\ f[x] \in Nat /\ f[v] \in Nat
  BY <1>5, SumIsNat
<1>9. g[s] = f[x] + g[sx] /\ g[s] # f[v] + g[sv]
  BY <1>2, <1>3
<1> HIDE DEF sx, sv, r
<1>10. g[s] = f[x] + (f[v] + g[r]) /\ g[s] # f[v] + (f[x] + g[r])
  BY <1>7, <1>9
<1> DEFINE a == f[x]
           b == f[v]
           c == g[r]
<1>11. a \in Nat /\ b \in Nat /\ c \in Nat
  BY <1>8
<1>12. g[s] = a + (b + c) /\ g[s] # b + (a + c)
  BY <1>10
<1> HIDE DEF a, b, c
<1> QED
  BY <1>11, <1>12

LEMMA SumOfSame ==
  ASSUME NEW S, IsFiniteSet(S), NEW f, NEW e, NEW g, NEW h,
         IsSum(g, f, SUBSET S), IsSum(h, e, SUBSET S),
         NEW s \in SUBSET S, \A v \in s : f[v] = e[v]
  PROVE  g[s] = h[s]
<1> DEFINE Bad == {t \in SUBSET s : g[t] # h[t]}
<1> SUFFICES ASSUME Bad # {} PROVE FALSE
  OBVIOUS
<1>0. IsFiniteSet(s)
  BY FS_Subset
<1>1. PICK t \in Bad : \A u \in Bad : ~(u \subseteq t /\ u # t)
  <2>1. Bad \in SUBSET SUBSET s
    OBVIOUS
  <2> HIDE DEF Bad
  <2> QED
    BY <1>0, <2>1, SmallestSet
<1>2. t \in SUBSET S /\ t \in SUBSET s
  BY <1>1
<1> DEFINE x == Picked(t)
<1>3. /\ t # {} /\ x \in t /\ g[t] = f[x] + g[t \ {x}] /\ h[t] = e[x] + h[t \ {x}]
  <2>1. g[{}] = 0
    BY SumOfNone
  <2>5. h[{}] = 0
    BY SumOfNone
  <2>2. t # {}
    BY <1>1, <1>2, <2>1, <2>5
  <2>3. x \in t /\ g[t] = f[x] + g[t \ {x}]
    BY <1>2, <2>2, SumUnfolds
  <2>4. h[t] = e[x] + h[t \ {x}]
    BY <1>2, <2>2, SumUnfolds
  <2> QED
    BY <2>2, <2>3, <2>4
<1> HIDE DEF x
<1>4. t \ {x} \notin Bad /\ t \ {x} \in SUBSET s
  BY <1>1, <1>2, <1>3
<1>5. g[t \ {x}] = h[t \ {x}] /\ f[x] = e[x]
  BY <1>2, <1>3, <1>4
<1>6. g[t] = h[t]
  BY <1>3, <1>5
<1> QED
  BY <1>1, <1>6

NoneIn(f, s) == \A v \in s : f[v] = 0

LEMMA SumOfZeros ==
  ASSUME NEW S, IsFiniteSet(S), NEW f, NEW g, IsSum(g, f, SUBSET S),
         NEW s \in SUBSET S, NoneIn(f, s)
  PROVE  g[s] = 0
<1> DEFINE Bad == {t \in SUBSET s : g[t] # 0}
<1> SUFFICES ASSUME Bad # {} PROVE FALSE
  OBVIOUS
<1>0. IsFiniteSet(s)
  BY FS_Subset
<1>1. PICK t \in Bad : \A u \in Bad : ~(u \subseteq t /\ u # t)
  <2>1. Bad \in SUBSET SUBSET s
    OBVIOUS
  <2> HIDE DEF Bad
  <2> QED
    BY <1>0, <2>1, SmallestSet
<1>2. t \in SUBSET S /\ t \in SUBSET s
  BY <1>1
<1> DEFINE x == Picked(t)
<1>3. t # {} /\ x \in t /\ g[t] = f[x] + g[t \ {x}]
  <2>2. g[{}] = 0
    BY SumOfNone
  <2>1. t # {}
    BY <1>1, <1>2, <2>2
  <2> QED
    BY <1>2, <2>1, SumUnfolds
<1> HIDE DEF x
<1>4. t \ {x} \notin Bad /\ t \ {x} \in SUBSET s
  BY <1>1, <1>2, <1>3
<1>5. g[t \ {x}] = 0 /\ f[x] = 0
  BY <1>2, <1>3, <1>4 DEF NoneIn
<1>6. g[t] = 0
  BY <1>3, <1>5
<1> QED
  BY <1>1, <1>6

(***************************************************************************)
(* The total of a count per item: it is one number, no item exceeds it, an *)
(* item with everything has the total, and one more counts once.           *)
(***************************************************************************)
LEMMA TotalBounds ==
  ASSUME NEW S, IsFiniteSet(S), NEW f \in [S -> Nat]
  PROVE  /\ SumFunction(f) \in Nat
         /\ \A v \in S : f[v] <= SumFunction(f)
         /\ \A v \in S : (\A u \in S \ {v} : f[u] = 0) => SumFunction(f) = f[v]
         /\ (\A u \in S : f[u] = 0) => SumFunction(f) = 0
<1>1. PICK g : IsSum(g, f, SUBSET S) /\ SumFunction(f) = g[S]
  BY SumHasFunction
<1>2. \A s \in SUBSET S : g[s] \in Nat
  BY <1>1, SumIsNat
<1>3. \A v \in S : g[S] = f[v] + g[S \ {v}]
  <2>0. IsSum(g, f, SUBSET S)
    BY <1>1
  <2>1. TakesAny(g, f, S)
    BY <2>0, SumTakesAny
  <2>2. S \in SUBSET S
    OBVIOUS
  <2> QED
    BY <2>1, <2>2 DEF TakesAny
<1>4. ASSUME NEW v \in S PROVE /\ f[v] <= g[S]
                               /\ (\A u \in S \ {v} : f[u] = 0) => g[S] = f[v]
  <2> DEFINE a == f[v]
             b == g[S \ {v}]
             c == g[S]
  <2>1. a \in Nat /\ b \in Nat /\ c = a + b
    BY <1>2, <1>3
  <2>2. (\A u \in S \ {v} : f[u] = 0) => b = 0
    <3>1. S \ {v} \in SUBSET S /\ IsSum(g, f, SUBSET S)
      BY <1>1
    <3> HIDE DEF a, c
    <3>2. NoneIn(f, S \ {v}) => g[S \ {v}] = 0
      BY <3>1, SumOfZeros
    <3> QED
      BY <3>2 DEF NoneIn
  <2> HIDE DEF a, b, c
  <2>3. a <= c /\ (b = 0 => c = a)
    BY <2>1
  <2> QED
    BY <2>2, <2>3 DEF a, c
<1>5. (\A u \in S : f[u] = 0) => g[S] = 0
  <2>1. S \in SUBSET S /\ IsSum(g, f, SUBSET S)
    BY <1>1
  <2>2. NoneIn(f, S) => g[S] = 0
    BY <2>1, SumOfZeros
  <2> QED
    BY <2>2 DEF NoneIn
<1> QED
  BY <1>1, <1>2, <1>4, <1>5

LEMMA TotalGrows ==
  ASSUME NEW S, IsFiniteSet(S), NEW f \in [S -> Nat], NEW v \in S
  PROVE  SumFunction([f EXCEPT ![v] = @ + 1]) = SumFunction(f) + 1
<1> DEFINE e == [f EXCEPT ![v] = @ + 1]
<1>0. e \in [S -> Nat] /\ e[v] = f[v] + 1 /\ \A u \in S \ {v} : e[u] = f[u]
  OBVIOUS
<1> HIDE DEF e
<1>1. PICK g : IsSum(g, f, SUBSET S) /\ SumFunction(f) = g[S]
  BY SumHasFunction
<1>2. PICK h : IsSum(h, e, SUBSET S) /\ SumFunction(e) = h[S]
  BY <1>0, SumHasFunction
<1> DEFINE rest == S \ {v}
<1>r. S \in SUBSET S /\ rest \in SUBSET S
  OBVIOUS
<1>3. g[S] = f[v] + g[rest] /\ g[rest] \in Nat
  <2>1. TakesAny(g, f, S) /\ \A s \in SUBSET S : g[s] \in Nat
    BY <1>1, SumTakesAny, SumIsNat
  <2> QED
    BY <1>r, <2>1 DEF TakesAny
<1>4. h[S] = e[v] + h[rest]
  <2>1. IsSum(h, e, SUBSET S) /\ e \in [S -> Nat]
    BY <1>0, <1>2
  <2>2. TakesAny(h, e, S)
    BY <2>1, SumTakesAny
  <2> QED
    BY <1>r, <2>2 DEF TakesAny
<1>5. h[rest] = g[rest]
  BY <1>0, <1>1, <1>2, <1>r, SumOfSame
<1>6. h[S] = g[S] + 1
  <2> DEFINE a == f[v]
             b == g[rest]
  <2>1. a \in Nat /\ b \in Nat /\ h[S] = (a + 1) + b /\ g[S] = a + b
    BY <1>0, <1>3, <1>4, <1>5
  <2> HIDE DEF a, b
  <2> QED
    BY <2>1
<1> QED
  BY <1>1, <1>2, <1>6 DEF e

-----------------------------------------------------------------------------
(***************************************************************************)
(* The consensus engine, for any positions, any ladder that asks each rung *)
(* for more than half of its seats, any minimum per risk, and any number of*)
(* appeals.                                                                *)
(***************************************************************************)
USE RulesAssumption

\* What Max and Min of two numbers are.
LEMMA MaxOfTwo ==
  ASSUME NEW a \in Int, NEW b \in Int
  PROVE  Max({a, b}) \in {a, b} /\ Max({a, b}) >= a /\ Max({a, b}) >= b
<1>1. \E x \in {a, b} : \A y \in {a, b} : x >= y
  OBVIOUS
<1> QED
  BY <1>1 DEF Max

LEMMA MinOfTwo ==
  ASSUME NEW a \in Int, NEW b \in Int
  PROVE  Min({a, b}) \in {a, b}
<1>1. \E x \in {a, b} : \A y \in {a, b} : x =< y
  OBVIOUS
<1> QED
  BY <1>1 DEF Min

\* Each rung asks for as many votes as its ladder and its risk do.
LEMMA Thresholds ==
  ASSUME NEW n \in 1..MaxRound, risk \in Risks
  PROVE  /\ RequiredAgreeingVotes(n) \in Nat
         /\ RequiredAgreeingVotes(n) >= AgreeingVotes[n]
         /\ RequiredAgreeingVotes(n) >= MinimumVotes[risk]
<1> DEFINE a == AgreeingVotes[n]
           b == MinimumVotes[risk]
<1>1. a \in Nat /\ b \in Nat /\ a \in Int /\ b \in Int /\ RequiredAgreeingVotes(n) = Max({a, b})
  BY DEF RequiredAgreeingVotes
<1> HIDE DEF a, b
<1>2. Max({a, b}) \in {a, b} /\ Max({a, b}) >= a /\ Max({a, b}) >= b
  BY <1>1, MaxOfTwo
<1>3. Max({a, b}) \in Nat
  BY <1>1, <1>2
<1> QED
  BY <1>1, <1>2, <1>3 DEF a, b

(***************************************************************************)
(* A decision stands on its own rung, whose seats are the votes counted:   *)
(* the majority and the minimum both follow from the rung's threshold.     *)
(***************************************************************************)
VotesCounted ==
  /\ round \in 1..MaxRound /\ risk \in Risks /\ appealBar \in Nat
  /\ votes \in [Positions -> Nat]
  /\ verdict.status = "consensus" => verdict.result \in Positions
  /\ MajorityStandsBehind

LEMMA VotesCountedInit == RulesInit => VotesCounted
  BY DEF RulesInit, VotesCounted, MajorityStandsBehind, Open

LEMMA BallotKeeps ==
  ASSUME VotesCounted, NEW v \in Positions, NEW q \in SUBSET Qualities, CastBallot(v, q)
  PROVE  VotesCounted'
<1>1. verdict.status = "open" /\ verdict' = verdict
  BY DEF CastBallot, Open
<1> QED
  BY <1>1 DEF CastBallot, VotesCounted, MajorityStandsBehind

LEMMA EvaluationKeeps ==
  ASSUME VotesCounted, EvaluateConsensus
  PROVE  VotesCounted'
<1>1. /\ DecisiveVotes = RoundSeats[round] /\ votes' = votes /\ risk' = risk
      /\ appealBar' = appealBar /\ verdict.status = "open"
  BY DEF EvaluateConsensus, Open
<1>2. ASSUME NEW v \in Positions, Agreed(v), round' = round,
             verdict' = [status |-> "consensus", result |-> v]
      PROVE  VotesCounted'
  <2>1. /\ RequiredAgreeingVotes(round) \in Nat
        /\ RequiredAgreeingVotes(round) >= AgreeingVotes[round]
        /\ RequiredAgreeingVotes(round) >= MinimumVotes[risk]
    BY Thresholds DEF VotesCounted
  <2>2. votes[v] >= RequiredAgreeingVotes(round)
    <3> DEFINE a == RequiredAgreeingVotes(round)
               m == Max({a, appealBar})
    <3>1. votes[v] >= m
      BY <1>2 DEF Agreed
    <3>2. a \in Int /\ appealBar \in Int /\ votes[v] \in Int
      BY <2>1 DEF VotesCounted
    <3> HIDE DEF a
    <3>3. m \in {a, appealBar} /\ m >= a
      BY <3>2, MaxOfTwo
    <3> HIDE DEF m
    <3>4. votes[v] >= a
      BY <3>1, <3>2, <3>3
    <3> QED
      BY <3>4 DEF a
  <2>3. votes[v] >= AgreeingVotes[round] /\ votes[v] >= MinimumVotes[risk]
    BY <2>1, <2>2 DEF VotesCounted
  <2>4. 2 * votes[v] > RoundSeats[round]
    <3> DEFINE k == votes[v]
               g == AgreeingVotes[round]
               n == RoundSeats[round]
    <3>1. k \in Int /\ g \in Int /\ n \in Int
      BY DEF VotesCounted
    <3>2. 2 * g > n
      <4>1. round \in 1..MaxRound
        BY DEF VotesCounted
      <4> QED
        BY <4>1, LadderOfMajorities
    <3>3. k >= g
      BY <2>3
    <3> HIDE DEF k, g, n
    <3>4. 2 * k > n
      BY <3>1, <3>2, <3>3
    <3> QED
      BY <3>4 DEF k, n
  <2>5. DecisiveVotes' = DecisiveVotes
    BY <1>1 DEF DecisiveVotes
  <2> QED
    BY <1>1, <1>2, <2>3, <2>4, <2>5 DEF VotesCounted, MajorityStandsBehind
<1>3. CASE round < MaxRound /\ round' = round + 1 /\ verdict' = verdict
  BY <1>1, <1>3 DEF VotesCounted, MajorityStandsBehind
<1>4. CASE round' = round /\ verdict'.status = "exhausted"
  BY <1>1, <1>4 DEF VotesCounted, MajorityStandsBehind
<1> QED
  BY <1>2, <1>3, <1>4 DEF EvaluateConsensus

LEMMA AppealKeeps ==
  ASSUME VotesCounted, FileAppeal
  PROVE  VotesCounted'
<1>1. /\ round' = AppealMinRound /\ risk' = risk /\ verdict'.status = "open"
      /\ votes' \in [Positions -> Nat]
  BY DEF FileAppeal, Open
<1>2. appealBar' \in Nat
  <2>1. RequiredAgreeingVotes(AppealMinRound) \in Nat /\ RequiredAgreeingVotes(round) \in Nat
    BY Thresholds DEF VotesCounted
  <2> DEFINE base == RequiredAgreeingVotes(AppealMinRound)
             previous == RequiredAgreeingVotes(round)
             seats == RoundSeats[AppealMinRound]
             raised == Min({previous + 1, seats})
             bar == Max({base, raised})
  <2>2. appealBar' \in {base, bar} /\ seats \in Nat
    BY DEF FileAppeal, RaisedVotes
  <2> HIDE DEF base, previous, seats
  <2>3. raised \in {previous + 1, seats}
    BY <2>1, <2>2, MinOfTwo DEF base, previous
  <2>4. raised \in Nat /\ raised \in Int /\ base \in Int
    BY <2>1, <2>2, <2>3 DEF previous, base
  <2> HIDE DEF raised
  <2>5. bar \in {base, raised}
    BY <2>4, MaxOfTwo
  <2> HIDE DEF bar
  <2> QED
    BY <2>1, <2>2, <2>4, <2>5 DEF base
<1> QED
  BY <1>1, <1>2 DEF VotesCounted, MajorityStandsBehind

LEMMA VotesCountedNext == VotesCounted /\ [RulesNext]_rulesVars => VotesCounted'
<1> SUFFICES ASSUME VotesCounted, [RulesNext]_rulesVars PROVE VotesCounted'
  OBVIOUS
<1>1. ASSUME NEW v \in Positions, NEW q \in SUBSET Qualities, CastBallot(v, q) PROVE VotesCounted'
  BY <1>1, BallotKeeps
<1>2. CASE EvaluateConsensus  BY <1>2, EvaluationKeeps
<1>3. CASE FileAppeal  BY <1>3, AppealKeeps
<1>4. CASE UNCHANGED rulesVars
  <2>1. DecisiveVotes' = DecisiveVotes
    BY <1>4 DEF DecisiveVotes, rulesVars
  <2> QED
    BY <1>4, <2>1 DEF rulesVars, VotesCounted, MajorityStandsBehind
<1> QED
  BY <1>1, <1>2, <1>3, <1>4 DEF RulesNext

(***************************************************************************)
(* What is published has more than half of its jury behind it, and never   *)
(* fewer votes than the case's risk asks for: no tie and no appeal's bar   *)
(* gets around the rungs (evaluateConsensus, appealRequiredVotes).         *)
(***************************************************************************)
THEOREM MajorityDecides == RulesSpec => []MajorityStandsBehind
<1>1. VotesCounted => MajorityStandsBehind
  BY DEF VotesCounted
<1> QED
  BY <1>1, VotesCountedInit, VotesCountedNext, PTL DEF RulesSpec

(***************************************************************************)
(* No jury casts more ballots than it has seats; an appeal is on its rung  *)
(* or above; and its bar is one that rung's panel can reach.               *)
(***************************************************************************)
BallotsFit ==
  /\ RulesTypeOK
  /\ DecisiveVotes <= RoundSeats[round]
  /\ appeals > 0 => AppealMinRound <= round
  /\ appealBar <= RoundSeats[AppealMinRound]

LEMMA SeatsGrow ==
  /\ \A n \in 1..MaxRound : RoundSeats[n] \in Nat \ {0} /\ RoundSeats[n] <= RoundSeats[MaxRound]
  /\ MaxRound \in 1..MaxRound /\ AppealMinRound \in 1..MaxRound
<1>1. MaxRound \in 1..MaxRound
  OBVIOUS
<1>2. \A n \in 1..MaxRound : n <= MaxRound
  OBVIOUS
<1> QED
  BY <1>1, <1>2, LadderGrows

\* The ballots of the jury, as a number.
LEMMA BallotsBound ==
  ASSUME votes \in [Positions -> Nat]
  PROVE  /\ DecisiveVotes \in Nat
         /\ \A v \in Positions : votes[v] <= DecisiveVotes
         /\ \A v \in Positions :
              (\A u \in Positions \ {v} : votes[u] = 0) => DecisiveVotes = votes[v]
         /\ (\A u \in Positions : votes[u] = 0) => DecisiveVotes = 0
  BY TotalBounds DEF DecisiveVotes

LEMMA VotesAreNat ==
  ASSUME RulesTypeOK
  PROVE  votes \in [Positions -> Nat]
<1>1. 0..RoundSeats[MaxRound] \subseteq Nat
  BY SeatsGrow
<1> QED
  BY <1>1 DEF RulesTypeOK

\* No rung of an appeal asks for more votes than its panel has seats.
LEMMA AppealRungsReachable ==
  ASSUME NEW n \in 1..MaxRound, AppealMinRound <= n, risk \in Risks
  PROVE  RequiredAgreeingVotes(n) <= RoundSeats[n]
<1>1. /\ AgreeingVotes[n] <= RoundSeats[n] /\ MinimumVotes[risk] <= RoundSeats[AppealMinRound]
      /\ RoundSeats[AppealMinRound] <= RoundSeats[n]
  BY LadderIsReachable, LadderGrows
<1>2. /\ AgreeingVotes[n] \in Nat /\ MinimumVotes[risk] \in Nat
      /\ RoundSeats[n] \in Nat /\ RoundSeats[AppealMinRound] \in Nat
  BY SeatsGrow
<1>3. MinimumVotes[risk] <= RoundSeats[n]
  BY <1>1, <1>2
<1>4. RequiredAgreeingVotes(n) \in {AgreeingVotes[n], MinimumVotes[risk]}
  <2> DEFINE a == AgreeingVotes[n]
             b == MinimumVotes[risk]
  <2>1. a \in Int /\ b \in Int /\ RequiredAgreeingVotes(n) = Max({a, b})
    BY <1>2 DEF RequiredAgreeingVotes
  <2> HIDE DEF a, b
  <2>2. RequiredAgreeingVotes(n) \in {a, b}
    BY <2>1, MaxOfTwo
  <2> QED
    BY <2>2 DEF a, b
<1> QED
  BY <1>1, <1>3, <1>4

LEMMA BallotsFitInit == RulesInit => BallotsFit
<1> SUFFICES ASSUME RulesInit PROVE BallotsFit
  OBVIOUS
<1>1. votes \in [Positions -> Nat] /\ \A v \in Positions : votes[v] = 0
  BY DEF RulesInit
<1>2. DecisiveVotes = 0
  BY <1>1, BallotsBound
<1>3. round \in 1..MaxRound /\ RoundSeats[round] \in Nat /\ RoundSeats[MaxRound] \in Nat
      /\ RoundSeats[AppealMinRound] \in Nat
  BY SeatsGrow DEF RulesInit
<1>4. votes \in [Positions -> 0..RoundSeats[MaxRound]]
  BY <1>1, <1>3
<1> QED
  BY <1>2, <1>3, <1>4 DEF BallotsFit, RulesInit, RulesTypeOK, Open

\* A ballot takes a seat that had none.
LEMMA BallotFits ==
  ASSUME BallotsFit, NEW v \in Positions, NEW q \in SUBSET Qualities, CastBallot(v, q)
  PROVE  BallotsFit'
<1>1. votes \in [Positions -> Nat] /\ round \in 1..MaxRound
  BY VotesAreNat DEF BallotsFit, RulesTypeOK
<1>2. votes' \in [Positions -> Nat] /\ round' = round
  BY <1>1 DEF CastBallot
<1>3. DecisiveVotes' = DecisiveVotes + 1
  BY <1>1, TotalGrows DEF CastBallot, DecisiveVotes
<1>4. DecisiveVotes' <= RoundSeats[round]
  <2>1. DecisiveVotes \in Nat /\ RoundSeats[round] \in Nat /\ DecisiveVotes < RoundSeats[round]
    BY <1>1, BallotsBound, SeatsGrow DEF CastBallot
  <2> QED
    BY <1>3, <2>1
<1>5. votes' \in [Positions -> 0..RoundSeats[MaxRound]]
  <2>1. ASSUME NEW u \in Positions PROVE votes'[u] \in 0..RoundSeats[MaxRound]
    <3>1. /\ SumFunction(votes') \in Nat /\ votes'[u] <= SumFunction(votes')
      BY <1>2, TotalBounds
    <3>2. SumFunction(votes') = DecisiveVotes'
      BY DEF DecisiveVotes
    <3>3. /\ RoundSeats[round] \in Nat /\ RoundSeats[MaxRound] \in Nat
          /\ RoundSeats[round] <= RoundSeats[MaxRound] /\ votes'[u] \in Nat
      BY <1>1, <1>2, SeatsGrow
    <3> QED
      BY <1>4, <3>1, <3>2, <3>3
  <2> QED
    BY <1>2, <2>1
<1>6. /\ risk' = risk /\ present' \subseteq Qualities /\ appealBar' = appealBar
      /\ appeals' = appeals /\ verdict' = verdict
  BY DEF CastBallot, BallotsFit, RulesTypeOK
<1> QED
  BY <1>2, <1>4, <1>5, <1>6 DEF BallotsFit, RulesTypeOK

\* An evaluation moves to a rung with at least as many seats, or nowhere.
LEMMA EvaluationFits ==
  ASSUME BallotsFit, EvaluateConsensus
  PROVE  BallotsFit'
<1>1. /\ votes' = votes /\ risk' = risk /\ present' = present /\ appealBar' = appealBar
      /\ appeals' = appeals
  BY DEF EvaluateConsensus
<1>2. DecisiveVotes' = DecisiveVotes
  BY <1>1 DEF DecisiveVotes
<1>3. round \in 1..MaxRound /\ round' \in 1..MaxRound /\ round <= round'
  BY DEF EvaluateConsensus, BallotsFit, RulesTypeOK
<1>4. DecisiveVotes' <= RoundSeats[round']
  <2>1. RoundSeats[round] <= RoundSeats[round']
    BY <1>3, LadderGrows
  <2>2. DecisiveVotes \in Nat /\ RoundSeats[round] \in Nat /\ RoundSeats[round'] \in Nat
        /\ DecisiveVotes <= RoundSeats[round]
    BY <1>3, BallotsBound, VotesAreNat, SeatsGrow DEF BallotsFit
  <2> QED
    BY <1>2, <2>1, <2>2
<1>5. \/ verdict' = verdict
      \/ verdict' \in [status : {"consensus"}, result : Positions]
      \/ verdict' \in [status : {"exhausted"}, result : GivenUp]
  BY DEF EvaluateConsensus, GivenUp
<1>6. RulesTypeOK'
  BY <1>1, <1>3, <1>5 DEF BallotsFit, RulesTypeOK
<1>7. /\ appeals' > 0 => AppealMinRound <= round'
      /\ appealBar' <= RoundSeats[AppealMinRound]
  <2>1. AppealMinRound \in 1..MaxRound
    BY SeatsGrow
  <2>2. appeals > 0 => AppealMinRound <= round
    BY DEF BallotsFit
  <2>3. appealBar <= RoundSeats[AppealMinRound]
    BY DEF BallotsFit
  <2>4. AppealMinRound <= round => AppealMinRound <= round'
    BY <1>3, <2>1, RulesAssumption
  <2> QED
    BY <1>1, <2>2, <2>3, <2>4
<1> QED
  BY <1>4, <1>6, <1>7 DEF BallotsFit

\* The bar of an appeal is capped at the panel the appeal opens with.
LEMMA AppealFits ==
  ASSUME BallotsFit, FileAppeal
  PROVE  BallotsFit'
<1> DEFINE seats == RoundSeats[AppealMinRound]
           base == RequiredAgreeingVotes(AppealMinRound)
           previous == RequiredAgreeingVotes(round)
           raised == Min({previous + 1, seats})
           bar == Max({base, raised})
<1>1. risk \in Risks /\ round \in 1..MaxRound /\ seats \in Nat
  BY SeatsGrow DEF BallotsFit, RulesTypeOK
<1>2. base \in Nat /\ base <= seats
  BY <1>1, SeatsGrow, Thresholds, AppealRungsReachable
<1>3. raised \in Nat /\ raised <= seats
  <2>1. previous \in Nat
    BY <1>1, Thresholds
  <2> HIDE DEF previous, seats
  <2>2. raised \in {previous + 1, seats} /\ raised <= seats
    <3>1. \E x \in {previous + 1, seats} : \A y \in {previous + 1, seats} : x =< y
      BY <1>1, <2>1
    <3> QED
      BY <1>1, <2>1, <3>1 DEF Min
  <2> QED
    BY <1>1, <2>1, <2>2
<1>4. bar \in Nat /\ bar <= seats
  <2>0. base \in Int /\ raised \in Int
    BY <1>2, <1>3
  <2> HIDE DEF base, raised
  <2>1. bar \in {base, raised}
    BY <2>0, MaxOfTwo
  <2> HIDE DEF bar
  <2> QED
    BY <1>2, <1>3, <2>1
<1>5. appealBar' \in {base, bar}
  BY DEF FileAppeal, RaisedVotes
<1>6. appealBar' \in 0..RoundSeats[MaxRound] /\ appealBar' <= seats
  <2>1. seats <= RoundSeats[MaxRound] /\ RoundSeats[MaxRound] \in Nat
    BY SeatsGrow
  <2> HIDE DEF seats, base, bar
  <2> QED
    BY <1>1, <1>2, <1>4, <1>5, <2>1
<1>7. /\ round' = AppealMinRound /\ risk' = risk /\ verdict' = Open /\ present' = {}
      /\ votes' = [v \in Positions |-> 0] /\ appeals' \in 0..MaxAppeals
  BY DEF FileAppeal, BallotsFit, RulesTypeOK
<1>8. DecisiveVotes' = 0
  <2>1. votes' \in [Positions -> Nat] /\ \A v \in Positions : votes'[v] = 0
    BY <1>7
  <2>2. SumFunction(votes') = 0
    BY <2>1, TotalBounds
  <2> QED
    BY <2>2 DEF DecisiveVotes
<1>9. votes' \in [Positions -> 0..RoundSeats[MaxRound]]
  BY <1>7, SeatsGrow
<1>10. DecisiveVotes' <= RoundSeats[round']
  BY <1>1, <1>7, <1>8
<1> QED
  BY <1>1, <1>6, <1>7, <1>9, <1>10, SeatsGrow DEF BallotsFit, RulesTypeOK

LEMMA BallotsFitNext == BallotsFit /\ [RulesNext]_rulesVars => BallotsFit'
<1> SUFFICES ASSUME BallotsFit, [RulesNext]_rulesVars PROVE BallotsFit'
  OBVIOUS
<1>1. ASSUME NEW v \in Positions, NEW q \in SUBSET Qualities, CastBallot(v, q)
      PROVE  BallotsFit'
  BY <1>1, BallotFits
<1>2. CASE EvaluateConsensus  BY <1>2, EvaluationFits
<1>3. CASE FileAppeal  BY <1>3, AppealFits
<1>4. CASE UNCHANGED rulesVars
  <2>1. DecisiveVotes' = DecisiveVotes
    BY <1>4 DEF DecisiveVotes, rulesVars
  <2> QED
    BY <1>4, <2>1 DEF rulesVars, BallotsFit, RulesTypeOK
<1> QED
  BY <1>1, <1>2, <1>3, <1>4 DEF RulesNext

(***************************************************************************)
(* Votes, rungs, bars and verdicts stay what they are; in particular no    *)
(* position collects more votes than the largest panel has seats.          *)
(***************************************************************************)
THEOREM RulesTypeCorrect == RulesSpec => []RulesTypeOK
<1>1. BallotsFit => RulesTypeOK
  BY DEF BallotsFit
<1> QED
  BY <1>1, BallotsFitInit, BallotsFitNext, PTL DEF RulesSpec

\* A full panel of an appeal that stands on one position, with its
\* requirements met, agrees on it.
LEMMA UnanimousAgrees ==
  ASSUME BallotsFit, appeals > 0, DecisiveVotes = RoundSeats[round],
         Cardinality(Held) <= 1, UnmetRequirements = {}
  PROVE  \E v \in Positions : Agreed(v)
<1>1. /\ votes \in [Positions -> Nat] /\ round \in 1..MaxRound /\ risk \in Risks
      /\ appealBar \in Nat /\ RoundSeats[round] \in Nat \ {0} /\ AppealMinRound <= round
  BY VotesAreNat, SeatsGrow DEF BallotsFit, RulesTypeOK
<1>2. PICK v \in Positions : votes[v] > 0
  <2>1. (\A u \in Positions : votes[u] = 0) => DecisiveVotes = 0
    BY <1>1, BallotsBound
  <2>2. PICK u \in Positions : votes[u] # 0
    BY <1>1, <2>1
  <2> QED
    BY <1>1, <2>2
<1>3. \A u \in Positions \ {v} : votes[u] = 0
  <2>1. IsFiniteSet(Held) /\ v \in Held
    BY <1>2, FS_Subset DEF Held
  <2>2. Cardinality(Held) = 1
    <3>1. Cardinality(Held) \in Nat /\ Cardinality(Held) # 0
      BY <2>1, FS_CardinalityType, FS_EmptySet
    <3> QED
      BY <3>1
  <2>3. Held = {v}
    BY <2>1, <2>2, FS_Singleton
  <2> QED
    BY <1>1, <2>3 DEF Held
<1>4. votes[v] = RoundSeats[round]
  BY <1>1, <1>3, BallotsBound
<1>5. Leads(v)
  BY <1>2, <1>3 DEF Leads
<1>6. RequiredAgreeingVotes(round) \in Nat /\ RequiredAgreeingVotes(round) <= RoundSeats[round]
  BY <1>1, Thresholds, AppealRungsReachable
<1>7. appealBar <= RoundSeats[round]
  <2>1. /\ RoundSeats[AppealMinRound] \in Nat /\ RoundSeats[AppealMinRound] <= RoundSeats[round]
        /\ appealBar <= RoundSeats[AppealMinRound]
    BY <1>1, SeatsGrow, LadderGrows DEF BallotsFit
  <2> QED
    BY <1>1, <2>1
<1>8. votes[v] >= Max({RequiredAgreeingVotes(round), appealBar})
  <2> DEFINE a == RequiredAgreeingVotes(round)
             m == Max({a, appealBar})
  <2>1. a \in Int /\ appealBar \in Int /\ a <= RoundSeats[round]
    BY <1>1, <1>6
  <2> HIDE DEF a
  <2>2. m \in {a, appealBar}
    BY <2>1, MaxOfTwo
  <2> HIDE DEF m
  <2>3. m <= RoundSeats[round]
    BY <1>7, <2>1, <2>2
  <2>4. m \in Int /\ RoundSeats[round] \in Int
    BY <1>1, <2>1, <2>2
  <2>5. votes[v] >= m
    BY <1>4, <2>3, <2>4
  <2> QED
    BY <2>5 DEF m, a
<1> QED
  BY <1>2, <1>5, <1>8 DEF Agreed

(***************************************************************************)
(* The cap on an appeal's bar "stops the rule from consuming itself": an   *)
(* appeal's jury that stands on one position and is composed as its risk   *)
(* asks is never sent up the ladder, because the one position holds every  *)
(* ballot, as many as the panel has seats (evaluateConsensus,              *)
(* appealRequiredVotes).                                                   *)
(***************************************************************************)
THEOREM UnanimityDecides == RulesSpec => UnanimousAppealDecides
<1>1. ASSUME BallotsFit, [RulesNext]_rulesVars
      PROVE  [appeals > 0 /\ appeals' = appeals /\ round' # round
                => Cardinality(Held) > 1 \/ UnmetRequirements # {}]_rulesVars
  <2> SUFFICES ASSUME appeals > 0, appeals' = appeals, round' # round,
                      ~(Cardinality(Held) > 1), UnmetRequirements = {}
               PROVE  FALSE
    OBVIOUS
  <2>1. appeals \in Nat
    BY <1>1 DEF BallotsFit, RulesTypeOK
  <2>2. ~FileAppeal
    BY <2>1 DEF FileAppeal
  <2>3. EvaluateConsensus
    BY <1>1, <2>2 DEF RulesNext, CastBallot, rulesVars
  <2>4. DecisiveVotes = RoundSeats[round] /\ ~\E v \in Positions : Agreed(v)
    BY <2>3 DEF EvaluateConsensus
  <2>5. Cardinality(Held) <= 1
    <3>1. IsFiniteSet(Held)
      BY FS_Subset DEF Held
    <3>2. Cardinality(Held) \in Nat
      BY <3>1, FS_CardinalityType
    <3> QED
      BY <3>2
  <2> QED
    BY <1>1, <2>4, <2>5, UnanimousAgrees
<1> QED
  BY <1>1, BallotsFitInit, BallotsFitNext, PTL DEF RulesSpec, UnanimousAppealDecides

=============================================================================
