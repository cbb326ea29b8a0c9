---------------------------- MODULE AccountErasure ----------------------------
(***************************************************************************)
(* Erasing what the service holds for accounts deleted at Oxy.  Oxy pushes *)
(* a signed event for each deletion and lists them all on a feed; tasks    *)
(* read the feed forward under a lease, record each event once, and run    *)
(* every recorded erasure, transaction by transaction, until it finishes.  *)
(* Event e is the deletion of account e.  What a tenant sends of a deleted *)
(* account after its erasure is left out.                                  *)
(***************************************************************************)
EXTENDS Naturals

CONSTANTS
  Accounts,      \* accounts deleted, in the order of the feed: 1..Accounts
  Forged,        \* feed entries whose token does not verify
  Pullers,       \* tasks reading the feed
  Erasers,       \* erasures running at a time, in background or on a tick
  Places,        \* transactions of one erasure, in order: 1..Places
  Paged,         \* places rewritten a page at a time (reports, cases)
  Held,          \* bound: rows of an account in each place
  PageSize,      \* events a page of the feed holds
  MaxMishaps,    \* bound: failed calls, dead tasks and leases that lapse in use
  NoOne

ASSUME ErasureAssumption ==
  /\ Accounts \in Nat /\ Forged \subseteq 1..Accounts /\ PageSize \in Nat \ {0}
  /\ Places \in Nat \ {0} /\ Paged \subseteq 1..Places
  /\ Held \in Nat /\ MaxMishaps \in Nat /\ NoOne \notin Pullers

VARIABLES
  deleted,       \* accounts deleted at Oxy so far
  erasures,      \* account_erasures: the status of each event's row
  leased,        \* rows whose lease is set and has not passed
  personal,      \* rows that still name each account
  eraser,        \* the event each run works on (0: none) and the place it is at
  cursor,        \* account_event_cursors: the last event read,
  feedOwner,     \* the task that holds the feed,
  feedLeased,    \* and whether its lease has not passed
  puller,        \* a task's page: from after "from" to "upto", next to record "next"
  mishaps        \* counter of the bound

erasureVars == <<deleted, erasures, leased, personal, eraser, cursor, feedOwner,
                 feedLeased, puller, mishaps>>
ledgerVars == <<erasures, leased>>
feedVars == <<cursor, feedOwner, feedLeased>>

Deletions == 1..Accounts
ErasureStatuses == {"absent", "pending", "running", "failed", "completed"}
EraserState == [event : 0..Accounts, place : 1..Places + 1]
PullerState == [at : {"idle", "list", "record"}, from : 0..Accounts,
                next : 0..Accounts + 1, upto : 0..Accounts]
Resting == [event |-> 0, place |-> 1]
NotPulling == [at |-> "idle", from |-> 0, next |-> 0, upto |-> 0]
Listing(last) == [at |-> "list", from |-> last, next |-> 0, upto |-> 0]

ErasureTypeOK ==
  /\ deleted \in 0..Accounts /\ cursor \in 0..deleted
  /\ erasures \in [Deletions -> ErasureStatuses] /\ leased \subseteq Deletions
  /\ personal \in [Deletions -> [1..Places -> 0..Held]]
  /\ eraser \in [Erasers -> EraserState]
  /\ feedOwner \in Pullers \cup {NoOne} /\ feedLeased \in BOOLEAN
  /\ puller \in [Pullers -> PullerState]
  /\ mishaps \in 0..MaxMishaps

ErasureInit ==
  /\ deleted = 0 /\ cursor = 0 /\ feedOwner = NoOne /\ feedLeased = FALSE
  /\ erasures = [e \in Deletions |-> "absent"] /\ leased = {}
  /\ personal = [e \in Deletions |-> [p \in 1..Places |-> Held]]
  /\ eraser = [x \in Erasers |-> Resting]
  /\ puller = [t \in Pullers |-> NotPulling]
  /\ mishaps = 0

Mishap == mishaps < MaxMishaps /\ mishaps' = mishaps + 1
-----------------------------------------------------------------------------
AccountDeleted ==
  /\ deleted < Accounts /\ deleted' = deleted + 1
  /\ UNCHANGED <<ledgerVars, personal, eraser, feedVars, puller, mishaps>>

\* A second arrival of an event finds the row of the first.
recordAccountErasure(e) ==
  erasures' = [erasures EXCEPT ![e] = IF @ = "absent" THEN "pending" ELSE @]

\* Oxy's push.  One that is lost, refused or unverifiable changes nothing.
handleAccountEvent(e) ==
  /\ e <= deleted /\ e \notin Forged /\ erasures[e] = "absent"
  /\ recordAccountErasure(e)
  /\ UNCHANGED <<deleted, leased, personal, eraser, feedVars, puller, mishaps>>

-----------------------------------------------------------------------------
\* A pass, with an owner of its own, takes the feed if its lease is free or has
\* passed.  A pass that would find nothing new is left out.
claimAccountEventFeed(t) ==
  /\ puller[t].at = "idle" /\ ~feedLeased /\ cursor < deleted
  /\ feedOwner' = t /\ feedLeased' = TRUE
  /\ puller' = [puller EXCEPT ![t] = Listing(cursor)]
  /\ UNCHANGED <<deleted, ledgerVars, personal, eraser, cursor, mishaps>>

releaseAccountEventFeed(t) ==
  IF feedOwner = t THEN feedOwner' = NoOne /\ feedLeased' = FALSE
  ELSE UNCHANGED <<feedOwner, feedLeased>>

\* Mutant: a page is taken to be full.
PageEnd_Full(from) == from + PageSize

PageEnd(from) == IF from + PageSize < deleted THEN from + PageSize ELSE deleted

Recording(from) ==
  [at |-> "record", from |-> from, next |-> from + 1, upto |-> PageEnd(from)]

\* The feed answers with the page after the task's cursor; none is left.
list(t) ==
  /\ puller[t].at = "list"
  /\ IF puller[t].from < deleted
     THEN /\ puller' = [puller EXCEPT ![t] = Recording(puller[t].from)]
          /\ UNCHANGED <<feedOwner, feedLeased>>
     ELSE /\ puller' = [puller EXCEPT ![t] = NotPulling]
          /\ releaseAccountEventFeed(t)
  /\ UNCHANGED <<deleted, ledgerVars, personal, eraser, cursor, mishaps>>

\* One event of the page: recorded, or skipped because it does not verify.
acceptAccountEvent(t) ==
  /\ puller[t].at = "record" /\ puller[t].next <= puller[t].upto
  /\ IF puller[t].next \in Forged THEN UNCHANGED erasures
     ELSE recordAccountErasure(puller[t].next)
  /\ puller' = [puller EXCEPT ![t].next = @ + 1]
  /\ UNCHANGED <<deleted, leased, personal, eraser, feedVars, mishaps>>

\* Mutant: the cursor moves as soon as the page arrived.
PageRecorded_Listed(t) == puller[t].at = "record"

PageRecorded(t) == puller[t].at = "record" /\ puller[t].next > puller[t].upto

(***************************************************************************)
(* The cursor moves past a recorded page while the task owns the feed; the *)
(* pull goes on after a full page and ends otherwise.                      *)
(***************************************************************************)
advanceAccountEventCursor(t) ==
  LET full == puller[t].upto - puller[t].from = PageSize
      owns == feedOwner = t
  IN  /\ PageRecorded(t)
      /\ cursor' = IF owns THEN puller[t].upto ELSE cursor
      /\ IF owns /\ full
         THEN /\ puller' = [puller EXCEPT ![t] = Listing(puller[t].upto)]
              /\ UNCHANGED <<feedOwner, feedLeased>>
         ELSE /\ puller' = [puller EXCEPT ![t] = NotPulling]
              /\ releaseAccountEventFeed(t)
      /\ UNCHANGED <<deleted, ledgerVars, personal, eraser, mishaps>>

\* A call of the pull fails and it lets the feed go; a task that dies does not.
PullEnds(t, dies) ==
  /\ puller[t].at # "idle" /\ Mishap
  /\ puller' = [puller EXCEPT ![t] = NotPulling]
  /\ IF dies THEN UNCHANGED <<feedOwner, feedLeased>> ELSE releaseAccountEventFeed(t)
  /\ UNCHANGED <<deleted, ledgerVars, personal, eraser, cursor>>

\* The feed's lease passes: its owner is gone, or (a mishap) slower than the lease.
FeedLeaseLapses ==
  /\ feedLeased /\ feedLeased' = FALSE
  /\ IF feedOwner \in Pullers /\ puller[feedOwner].at # "idle" THEN Mishap
     ELSE UNCHANGED mishaps
  /\ UNCHANGED <<deleted, ledgerVars, personal, eraser, cursor, feedOwner, puller>>

-----------------------------------------------------------------------------
\* Mutant: an erasure whose task died is not retried.
Retryable_NotRunning(e) == e \notin leased /\ erasures[e] \in {"pending", "failed"}

\* Not finished, and not held by a lease that has not passed.
Retryable(e) == e \notin leased /\ erasures[e] \in {"pending", "failed", "running"}

\* Started in background when the event arrived, or by a tick: the same claim.
claimAccountErasure(x, e) ==
  /\ eraser[x] = Resting /\ Retryable(e)
  /\ erasures' = [erasures EXCEPT ![e] = "running"] /\ leased' = leased \cup {e}
  /\ eraser' = [eraser EXCEPT ![x] = [event |-> e, place |-> 1]]
  /\ UNCHANGED <<deleted, personal, feedVars, puller, mishaps>>

\* Mutant: a place is left after its first page.
MorePages_None(p, rewritten) == FALSE

\* A full page (of one row) may be followed by another.
MorePages(p, rewritten) == p \in Paged /\ rewritten

\* One transaction of the run: a page of a paged place, or all of the place.
eraseInPlace(x) ==
  LET e == eraser[x].event
      p == eraser[x].place
      rows == personal[e][p]
  IN  /\ e # 0 /\ p <= Places
      /\ personal' = [personal EXCEPT ![e][p] =
           IF p \in Paged /\ rows > 0 THEN rows - 1 ELSE 0]
      /\ eraser' = IF MorePages(p, rows > 0) THEN eraser
                   ELSE [eraser EXCEPT ![x].place = @ + 1]
      /\ UNCHANGED <<deleted, ledgerVars, feedVars, puller, mishaps>>

\* The outcome is written by the event's id alone, whoever holds the lease now.
Finishes(x, status) ==
  /\ erasures' = [erasures EXCEPT ![eraser[x].event] = status]
  /\ leased' = leased \ {eraser[x].event}
  /\ eraser' = [eraser EXCEPT ![x] = Resting]
  /\ UNCHANGED <<deleted, personal, feedVars, puller>>

completeAccountErasure(x) ==
  /\ eraser[x].event # 0 /\ eraser[x].place > Places
  /\ Finishes(x, "completed") /\ UNCHANGED mishaps

\* A transaction of the run, or the write of its completion, fails.
failAccountErasure(x) == eraser[x].event # 0 /\ Mishap /\ Finishes(x, "failed")

EraserDies(x) ==
  /\ eraser[x].event # 0 /\ Mishap
  /\ eraser' = [eraser EXCEPT ![x] = Resting]
  /\ UNCHANGED <<deleted, ledgerVars, personal, feedVars, puller>>

\* A row's lease passes: its run is dead, or (a mishap) slower than the lease.
ErasureLeaseLapses(e) ==
  /\ e \in leased /\ leased' = leased \ {e}
  /\ IF \E x \in Erasers : eraser[x].event = e THEN Mishap ELSE UNCHANGED mishaps
  /\ UNCHANGED <<deleted, erasures, personal, eraser, feedVars, puller>>

PullStep(t) ==
  \/ claimAccountEventFeed(t) \/ list(t) \/ acceptAccountEvent(t)
  \/ advanceAccountEventCursor(t)

EraserStep(x) ==
  \/ \E e \in Deletions : claimAccountErasure(x, e)
  \/ eraseInPlace(x) \/ completeAccountErasure(x)

ErasureNext ==
  \/ AccountDeleted \/ FeedLeaseLapses
  \/ \E e \in Deletions : handleAccountEvent(e) \/ ErasureLeaseLapses(e)
  \/ \E t \in Pullers : PullStep(t) \/ \E dies \in BOOLEAN : PullEnds(t, dies)
  \/ \E x \in Erasers : EraserStep(x) \/ failAccountErasure(x) \/ EraserDies(x)

ErasureSpec == ErasureInit /\ [][ErasureNext]_erasureVars

\* Every task's timer goes on, and leases pass.  Oxy's push may never come.
ErasureFairness ==
  /\ \A t \in Pullers : WF_erasureVars(PullStep(t))
  /\ \A x \in Erasers : WF_erasureVars(EraserStep(x))
  /\ WF_erasureVars(FeedLeaseLapses)
  /\ \A e \in Deletions : WF_erasureVars(ErasureLeaseLapses(e))

ErasureFairSpec == ErasureSpec /\ ErasureFairness
-----------------------------------------------------------------------------
(***************************************************************************)
(* "The cursor moves only past a page whose every event was recorded":     *)
(* whichever tasks read the feed, died or lost it half-way, no deletion    *)
(* that verifies is behind the cursor and unknown here.                    *)
(***************************************************************************)
CursorNeverSkips ==
  \A e \in Deletions : e <= cursor /\ e \notin Forged => erasures[e] # "absent"

(***************************************************************************)
(* "A re-run converges": a row on record as completed means that no row of *)
(* the account is left, however often runs failed, died or overlapped.     *)
(***************************************************************************)
CompletedIsErased ==
  \A e \in Deletions : erasures[e] = "completed"
                      => \A p \in 1..Places : personal[e][p] = 0

(***************************************************************************)
(* An account deleted at Oxy is erased in the end, though no push arrives, *)
(* the tasks die and their leases have to pass.                            *)
(***************************************************************************)
EventuallyErased ==
  \A e \in Deletions \ Forged : e <= deleted ~> erasures[e] = "completed"
=============================================================================
