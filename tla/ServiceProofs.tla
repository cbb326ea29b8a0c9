--------------------------- MODULE ServiceProofs ----------------------------
(***************************************************************************)
(* Theorems about the services around a case: the erasure of accounts, the *)
(* evidence files Oxy holds, the notes of the community, and the secrets   *)
(* that sign webhooks; and about the four run side by side.                *)
(***************************************************************************)
EXTENDS MCServices, FiniteSetTheorems, TLAPS

(***************************************************************************)
(* Account erasure, for any number of accounts, tasks, places and pages,   *)
(* and any number of failures, deaths and lapsed leases.                   *)
(***************************************************************************)
USE ErasureAssumption

(***************************************************************************)
(* A task's page lies within the feed.  Typing is not inductive without    *)
(* it: the cursor is never ahead of the feed because no page is.           *)
(***************************************************************************)
PagesFit ==
  \A t \in Pullers :
    /\ puller[t].at = "list" => puller[t].from <= deleted
    /\ puller[t].at = "record" => /\ puller[t].from < puller[t].next
                                  /\ puller[t].next <= puller[t].upto + 1
                                  /\ puller[t].upto <= deleted

Typed == ErasureTypeOK /\ PagesFit

LEMMA RestStates == Resting \in EraserState /\ NotPulling \in PullerState
  BY DEF Resting, EraserState, NotPulling, PullerState

\* A task about to ask for the page after an event.
LEMMA ListingTyped == \A n \in 0..Accounts : Listing(n) \in PullerState
  BY DEF Listing, PullerState

\* What the tasks' states and pages are, once a task's own has been replaced.
LEMMA PullersTyped ==
  ASSUME NEW t \in Pullers, NEW s, Typed, s \in PullerState, puller' = [puller EXCEPT ![t] = s],
         deleted' = deleted,
         s.at = "list" => s.from <= deleted,
         s.at = "record" => /\ s.from < s.next /\ s.next <= s.upto + 1 /\ s.upto <= deleted
  PROVE  puller' \in [Pullers -> PullerState] /\ PagesFit'
  BY DEF Typed, ErasureTypeOK, PagesFit

\* A mishap is counted within its bound.
LEMMA MishapTyped == ErasureTypeOK /\ Mishap => mishaps' \in 0..MaxMishaps
  BY DEF ErasureTypeOK, Mishap

LEMMA TypedInit == ErasureInit => Typed
<1> SUFFICES ASSUME ErasureInit PROVE Typed
  OBVIOUS
<1>1. PagesFit
  BY DEF ErasureInit, PagesFit, NotPulling
<1>2. eraser \in [Erasers -> EraserState] /\ puller \in [Pullers -> PullerState]
  BY RestStates DEF ErasureInit
<1>3. personal \in [Deletions -> [1..Places -> 0..Held]]
  BY DEF ErasureInit
<1>4. erasures \in [Deletions -> ErasureStatuses] /\ leased \subseteq Deletions
  BY DEF ErasureInit, ErasureStatuses
<1>5. deleted \in 0..Accounts /\ cursor \in 0..deleted /\ mishaps \in 0..MaxMishaps
  BY DEF ErasureInit
<1>6. feedOwner \in Pullers \cup {NoOne} /\ feedLeased \in BOOLEAN
  BY DEF ErasureInit
<1> QED
  BY <1>1, <1>2, <1>3, <1>4, <1>5, <1>6 DEF Typed, ErasureTypeOK

LEMMA TypedNext == Typed /\ [ErasureNext]_erasureVars => Typed'
<1> SUFFICES ASSUME Typed, [ErasureNext]_erasureVars PROVE Typed'
  OBVIOUS
<1>0. /\ ErasureTypeOK /\ PagesFit
      /\ \A t \in Pullers : puller[t] \in PullerState
      /\ \A x \in Erasers : eraser[x] \in EraserState
  BY DEF Typed, ErasureTypeOK
<1>1. CASE AccountDeleted
  BY <1>0, <1>1 DEF AccountDeleted, Typed, ErasureTypeOK, PagesFit, Deletions, ledgerVars,
     feedVars, PullerState
<1>2. CASE FeedLeaseLapses
  <2>1. mishaps' \in 0..MaxMishaps
    <3>1. CASE Mishap  BY <1>0, <3>1, MishapTyped
    <3>2. CASE UNCHANGED mishaps  BY <1>0, <3>2 DEF ErasureTypeOK
    <3> QED  BY <1>2, <3>1, <3>2 DEF FeedLeaseLapses
  <2> QED
    BY <1>0, <1>2, <2>1 DEF FeedLeaseLapses, Typed, ErasureTypeOK, PagesFit, ledgerVars
<1>3. ASSUME NEW e \in Deletions, handleAccountEvent(e) PROVE Typed'
  BY <1>0, <1>3 DEF handleAccountEvent, recordAccountErasure, Typed, ErasureTypeOK, PagesFit,
     ErasureStatuses, feedVars
<1>4. ASSUME NEW e \in Deletions, ErasureLeaseLapses(e) PROVE Typed'
  BY <1>0, <1>4 DEF ErasureLeaseLapses, Mishap, Typed, ErasureTypeOK, PagesFit, feedVars
<1>5. ASSUME NEW t \in Pullers, claimAccountEventFeed(t) PROVE Typed'
  <2> DEFINE s == Listing(cursor)
  <2>0. cursor \in 0..Accounts
    BY <1>0 DEF ErasureTypeOK
  <2>1. s \in PullerState /\ s.at = "list" /\ s.from = cursor
    BY <2>0, ListingTyped DEF Listing
  <2>2. cursor <= deleted /\ puller' = [puller EXCEPT ![t] = s] /\ deleted' = deleted
    BY <1>0, <1>5 DEF claimAccountEventFeed, ErasureTypeOK
  <2> HIDE DEF s
  <2>3. puller' \in [Pullers -> PullerState] /\ PagesFit'
    BY <2>1, <2>2, PullersTyped
  <2> QED
    BY <1>0, <1>5, <2>3 DEF claimAccountEventFeed, Typed, ErasureTypeOK, ledgerVars
<1>6. ASSUME NEW t \in Pullers, list(t) PROVE Typed'
  <2>1. CASE puller[t].from < deleted
    <3> DEFINE from == puller[t].from
               s == Recording(from)
    <3>1. /\ deleted \in 0..Accounts /\ from \in 0..Accounts
          /\ PageEnd(from) \in 0..deleted /\ from < PageEnd(from)
      BY <1>0, <2>1 DEF PageEnd, ErasureTypeOK, PullerState
    <3>2. from + 1 \in 0..Accounts + 1 /\ PageEnd(from) \in 0..Accounts
      BY <3>1
    <3>3. /\ s \in PullerState
          /\ s.at = "record" /\ s.from < s.next /\ s.next <= s.upto + 1 /\ s.upto <= deleted
      BY <3>1, <3>2 DEF Recording, PullerState
    <3>5. puller' = [puller EXCEPT ![t] = s] /\ deleted' = deleted
      BY <1>6, <2>1 DEF list
    <3> HIDE DEF s
    <3>4. puller' \in [Pullers -> PullerState] /\ PagesFit'
      BY <3>3, <3>5, PullersTyped
    <3> QED
      BY <1>0, <1>6, <2>1, <3>4 DEF list, Typed, ErasureTypeOK, ledgerVars
  <2>2. CASE ~(puller[t].from < deleted)
    <3>1. puller' \in [Pullers -> PullerState] /\ PagesFit'
      BY <1>6, <2>2, RestStates, PullersTyped DEF list, NotPulling
    <3> QED
      BY <1>0, <1>6, <2>2, <3>1 DEF list, releaseAccountEventFeed, Typed, ErasureTypeOK,
         ledgerVars
  <2> QED  BY <2>1, <2>2
<1>7. ASSUME NEW t \in Pullers, acceptAccountEvent(t) PROVE Typed'
  <2> DEFINE s == [puller[t] EXCEPT !.next = @ + 1]
  <2>0. /\ puller[t] \in PullerState /\ deleted \in 0..Accounts
        /\ puller[t].at = "record" /\ puller[t].next <= puller[t].upto
        /\ puller[t].from < puller[t].next /\ puller[t].upto <= deleted
    BY <1>0, <1>7 DEF acceptAccountEvent, ErasureTypeOK, PagesFit
  <2>1. /\ s \in PullerState
        /\ s.at = "record" /\ s.from < s.next /\ s.next <= s.upto + 1 /\ s.upto <= deleted
    BY <2>0 DEF PullerState
  <2>2. puller' = [puller EXCEPT ![t] = s] /\ deleted' = deleted
    BY <1>0, <1>7 DEF acceptAccountEvent, PullerState, ErasureTypeOK
  <2> HIDE DEF s
  <2>3. puller' \in [Pullers -> PullerState] /\ PagesFit'
    BY <2>1, <2>2, PullersTyped
  <2>4. erasures' \in [Deletions -> ErasureStatuses]
    BY <1>0, <1>7 DEF acceptAccountEvent, recordAccountErasure, ErasureTypeOK, ErasureStatuses
  <2> QED
    BY <1>0, <1>7, <2>3, <2>4 DEF acceptAccountEvent, Typed, ErasureTypeOK, feedVars
<1>8. ASSUME NEW t \in Pullers, advanceAccountEventCursor(t) PROVE Typed'
  <2> DEFINE s == Listing(puller[t].upto)
  <2>0. /\ puller[t] \in PullerState /\ deleted \in 0..Accounts
        /\ puller[t].upto \in 0..Accounts /\ puller[t].upto <= deleted
    BY <1>0, <1>8 DEF advanceAccountEventCursor, PageRecorded, PullerState, ErasureTypeOK,
       PagesFit
  <2>1. /\ s \in PullerState /\ s.at = "list" /\ s.from = puller[t].upto
        /\ puller[t].upto \in 0..deleted /\ s.from <= deleted
    BY <2>0, ListingTyped DEF Listing
  <2>2. puller' = [puller EXCEPT ![t] = s] \/ puller' = [puller EXCEPT ![t] = NotPulling]
    BY <1>8 DEF advanceAccountEventCursor
  <2> HIDE DEF s
  <2>3. deleted' = deleted
    BY <1>8 DEF advanceAccountEventCursor
  <2>4. CASE puller' = [puller EXCEPT ![t] = s]
    <3>1. puller' \in [Pullers -> PullerState] /\ PagesFit'
      BY <2>1, <2>3, <2>4, PullersTyped
    <3> QED
      BY <1>0, <1>8, <2>1, <3>1 DEF advanceAccountEventCursor, releaseAccountEventFeed, Typed,
         ErasureTypeOK, ledgerVars
  <2>5. CASE puller' = [puller EXCEPT ![t] = NotPulling]
    <3>1. puller' \in [Pullers -> PullerState] /\ PagesFit'
      BY <2>3, <2>5, RestStates, PullersTyped DEF NotPulling
    <3> QED
      BY <1>0, <1>8, <2>1, <3>1 DEF advanceAccountEventCursor, releaseAccountEventFeed, Typed,
         ErasureTypeOK, ledgerVars
  <2> QED  BY <2>2, <2>4, <2>5
<1>9. ASSUME NEW t \in Pullers, NEW dies \in BOOLEAN, PullEnds(t, dies) PROVE Typed'
  <2>1. puller' \in [Pullers -> PullerState] /\ PagesFit'
    BY <1>9, RestStates, PullersTyped DEF PullEnds, NotPulling
  <2> QED
    BY <1>0, <1>9, <2>1, MishapTyped DEF PullEnds, releaseAccountEventFeed, Typed,
       ErasureTypeOK, ledgerVars
<1>10. ASSUME NEW x \in Erasers, NEW e \in Deletions, claimAccountErasure(x, e) PROVE Typed'
  BY <1>0, <1>10 DEF claimAccountErasure, EraserState, Typed, ErasureTypeOK, PagesFit, Deletions,
     ErasureStatuses, feedVars
<1>11. ASSUME NEW x \in Erasers, eraseInPlace(x) PROVE Typed'
  <2> DEFINE e == eraser[x].event
             p == eraser[x].place
             s == [eraser[x] EXCEPT !.place = @ + 1]
  <2>1. e \in Deletions /\ p \in 1..Places /\ personal[e][p] \in 0..Held
    BY <1>0, <1>11 DEF eraseInPlace, EraserState, Deletions, ErasureTypeOK
  <2>2. personal' \in [Deletions -> [1..Places -> 0..Held]]
    <3> DEFINE rest == IF p \in Paged /\ personal[e][p] > 0 THEN personal[e][p] - 1 ELSE 0
    <3>1. rest \in 0..Held
      BY <2>1, ErasureAssumption
    <3>2. personal[e] \in [1..Places -> 0..Held]
      BY <1>0, <2>1 DEF ErasureTypeOK
    <3>3. [personal[e] EXCEPT ![p] = rest] \in [1..Places -> 0..Held]
      BY <3>1, <3>2
    <3>4. personal' = [personal EXCEPT ![e] = [personal[e] EXCEPT ![p] = rest]]
      BY <1>0, <1>11, <2>1 DEF eraseInPlace, ErasureTypeOK
    <3> HIDE DEF rest
    <3> QED
      BY <1>0, <3>3, <3>4 DEF ErasureTypeOK
  <2>3. s \in EraserState
    BY <1>0, <2>1 DEF EraserState
  <2>4. eraser' \in [Erasers -> EraserState]
    BY <1>0, <1>11, <2>3 DEF eraseInPlace, ErasureTypeOK, EraserState
  <2> QED
    BY <1>0, <1>11, <2>2, <2>4 DEF eraseInPlace, Typed, ErasureTypeOK, PagesFit, ledgerVars,
       feedVars
<1>12. ASSUME NEW x \in Erasers, completeAccountErasure(x) PROVE Typed'
  BY <1>0, <1>12, RestStates DEF completeAccountErasure, Finishes, EraserState, Typed,
     ErasureTypeOK, PagesFit, ErasureStatuses, feedVars
<1>13. ASSUME NEW x \in Erasers, failAccountErasure(x) PROVE Typed'
  BY <1>0, <1>13, RestStates, MishapTyped DEF failAccountErasure, Finishes, Typed,
     ErasureTypeOK, PagesFit, ErasureStatuses, feedVars
<1>14. ASSUME NEW x \in Erasers, EraserDies(x) PROVE Typed'
  BY <1>0, <1>14, RestStates DEF EraserDies, Mishap, Typed, ErasureTypeOK, PagesFit,
     ledgerVars, feedVars
<1>15. CASE UNCHANGED erasureVars
  BY <1>0, <1>15 DEF erasureVars, Typed, ErasureTypeOK, PagesFit
<1> QED
  BY <1>1, <1>2, <1>3, <1>4, <1>5, <1>6, <1>7, <1>8, <1>9, <1>10, <1>11, <1>12, <1>13,
     <1>14, <1>15 DEF ErasureNext, PullStep, EraserStep

(***************************************************************************)
(* Every variable of account erasure keeps its type, and no page runs      *)
(* ahead of the feed.                                                      *)
(***************************************************************************)
THEOREM ErasureTypeCorrect == ErasureSpec => []ErasureTypeOK
<1>1. Typed => ErasureTypeOK
  BY DEF Typed
<1> QED  BY TypedInit, TypedNext, <1>1, PTL DEF ErasureSpec
-----------------------------------------------------------------------------
(***************************************************************************)
(* What a pull has put behind it is on record.  CursorNeverSkips is not    *)
(* inductive alone: the cursor takes its next value from a task's page.    *)
(***************************************************************************)
Known(e) == e \in Forged \/ erasures[e] # "absent"

Behind(t, e) ==
  \/ puller[t].at = "list" /\ e <= puller[t].from
  \/ puller[t].at = "record" /\ e < puller[t].next

PulledIsKnown == \A t \in Pullers, e \in Deletions : Behind(t, e) => Known(e)

CursorInv == PulledIsKnown /\ CursorNeverSkips

\* A row, once there, stays: it only changes its status.
LEMMA KnownStays ==
  ASSUME Typed, [ErasureNext]_erasureVars, NEW e \in Deletions, Known(e)
  PROVE  Known(e)'
<1>0. erasures \in [Deletions -> ErasureStatuses]
  BY DEF Typed, ErasureTypeOK
<1>1. ASSUME NEW d \in Deletions, recordAccountErasure(d) PROVE Known(e)'
  BY <1>0, <1>1 DEF recordAccountErasure, Known
<1>2. ASSUME NEW x \in Erasers, NEW d \in Deletions, claimAccountErasure(x, d) PROVE Known(e)'
  BY <1>0, <1>2 DEF claimAccountErasure, Known
<1>3. ASSUME NEW x \in Erasers, NEW end \in {"completed", "failed"}, Finishes(x, end)
      PROVE  Known(e)'
  BY <1>0, <1>3 DEF Finishes, Known
<1>4. CASE UNCHANGED erasures
  BY <1>4 DEF Known
<1>5. ASSUME NEW t \in Pullers, acceptAccountEvent(t) PROVE Known(e)'
  <2>1. puller[t].next \in Deletions
    <3>1. puller[t] \in PullerState /\ deleted \in 0..Accounts
      BY DEF Typed, ErasureTypeOK
    <3>2. /\ puller[t].next \in 0..Accounts + 1 /\ puller[t].upto \in 0..Accounts
          /\ puller[t].from \in 0..Accounts
      BY <3>1 DEF PullerState
    <3>3. puller[t].from < puller[t].next /\ puller[t].next <= puller[t].upto
      BY <1>5 DEF acceptAccountEvent, Typed, PagesFit
    <3> QED
      BY <3>2, <3>3, ErasureAssumption DEF Deletions
  <2> QED  BY <1>1, <1>4, <1>5, <2>1 DEF acceptAccountEvent
<1> QED
  BY <1>1, <1>2, <1>3, <1>4, <1>5 DEF ErasureNext, AccountDeleted, FeedLeaseLapses,
     handleAccountEvent, ErasureLeaseLapses, PullStep, claimAccountEventFeed, list,
     advanceAccountEventCursor, PullEnds, EraserStep, eraseInPlace, completeAccountErasure,
     failAccountErasure, EraserDies, ledgerVars, erasureVars

LEMMA CursorInvInit == ErasureInit => CursorInv
  BY DEF ErasureInit, CursorInv, PulledIsKnown, Behind, NotPulling, CursorNeverSkips, Deletions

\* A step that gives one task a page with nothing unknown behind it.
LEMMA PageBehind ==
  ASSUME Typed, [ErasureNext]_erasureVars, PulledIsKnown,
         NEW t \in Pullers, NEW s, puller' = [puller EXCEPT ![t] = s],
         \A e \in Deletions : s.at = "list" /\ e <= s.from => Known(e)',
         \A e \in Deletions : s.at = "record" /\ e < s.next => Known(e)'
  PROVE  PulledIsKnown'
<1> SUFFICES ASSUME NEW u \in Pullers, NEW e \in Deletions, Behind(u, e)' PROVE Known(e)'
  BY DEF PulledIsKnown
<1>0. puller \in [Pullers -> PullerState]
  BY DEF Typed, ErasureTypeOK
<1>1. CASE u = t
  <2>1. puller'[u] = s
    BY <1>0, <1>1
  <2> QED  BY <2>1 DEF Behind
<1>2. CASE u # t
  <2>1. Behind(u, e)
    BY <1>0, <1>2 DEF Behind
  <2> QED  BY <2>1, KnownStays DEF PulledIsKnown
<1> QED  BY <1>1, <1>2

LEMMA NotPullingIsIdle == NotPulling.at = "idle"
  BY DEF NotPulling

\* The cursor moves only past events on record.
LEMMA CursorMoves ==
  ASSUME Typed, CursorInv, [ErasureNext]_erasureVars,
         \A e \in Deletions : e <= cursor' => e <= cursor \/ \E t \in Pullers : Behind(t, e)
  PROVE  CursorNeverSkips'
<1> SUFFICES ASSUME NEW e \in Deletions, e <= cursor' PROVE Known(e)'
  BY DEF CursorNeverSkips, Known
<1>1. Known(e)
  BY DEF CursorInv, PulledIsKnown, CursorNeverSkips, Known
<1> QED  BY <1>1, KnownStays

LEMMA CursorInvNext == Typed /\ CursorInv /\ [ErasureNext]_erasureVars => CursorInv'
<1> SUFFICES ASSUME Typed, CursorInv, [ErasureNext]_erasureVars PROVE CursorInv'
  OBVIOUS
<1>0. /\ PulledIsKnown
      /\ puller \in [Pullers -> PullerState] /\ deleted \in 0..Accounts
      /\ \A t \in Pullers : puller[t] \in PullerState
      /\ cursor \in 0..deleted
  BY DEF CursorInv, Typed, ErasureTypeOK
<1>k. \A e \in Deletions : Known(e) => Known(e)'
  BY KnownStays
<1>c. \A e \in Deletions : e <= cursor => Known(e)
  BY DEF CursorInv, CursorNeverSkips, Known
<1>1. CASE UNCHANGED <<puller, cursor>>
  <2>1. PulledIsKnown'
    BY <1>0, <1>1, <1>k DEF PulledIsKnown, Behind
  <2> QED  BY <1>1, <2>1, CursorMoves DEF CursorInv
<1>2. ASSUME NEW t \in Pullers, puller' = [puller EXCEPT ![t] = NotPulling], UNCHANGED cursor
      PROVE  CursorInv'
  <2>1. PulledIsKnown'
    BY <1>0, <1>2, NotPullingIsIdle, PageBehind
  <2> QED  BY <1>2, <2>1, CursorMoves DEF CursorInv
<1>3. ASSUME NEW t \in Pullers, claimAccountEventFeed(t) PROVE CursorInv'
  <2> DEFINE s == Listing(cursor)
  <2>1. /\ puller' = [puller EXCEPT ![t] = s] /\ UNCHANGED cursor
        /\ s.at = "list" /\ s.from = cursor
    BY <1>3 DEF claimAccountEventFeed, Listing
  <2> HIDE DEF s
  <2>2. PulledIsKnown'
    BY <1>0, <1>c, <1>k, <2>1, PageBehind
  <2> QED  BY <2>1, <2>2, CursorMoves DEF CursorInv
<1>4. ASSUME NEW t \in Pullers, list(t) PROVE CursorInv'
  <2>1. CASE puller[t].from < deleted
    <3> DEFINE s == Recording(puller[t].from)
    <3>1. /\ puller' = [puller EXCEPT ![t] = s] /\ UNCHANGED cursor
          /\ s.at = "record" /\ s.next = puller[t].from + 1
          /\ puller[t].at = "list" /\ puller[t].from \in Nat
      BY <1>0, <1>4, <2>1 DEF list, Recording, PullerState
    <3> HIDE DEF s
    <3>2. \A e \in Deletions : e < puller[t].from + 1 => Behind(t, e)
      BY <3>1 DEF Behind, Deletions
    <3>3. PulledIsKnown'
      BY <1>0, <1>k, <3>1, <3>2, PageBehind DEF PulledIsKnown
    <3> QED  BY <3>1, <3>3, CursorMoves DEF CursorInv
  <2>2. CASE ~(puller[t].from < deleted)
    BY <1>2, <1>4, <2>2 DEF list
  <2> QED  BY <2>1, <2>2
<1>5. ASSUME NEW t \in Pullers, acceptAccountEvent(t) PROVE CursorInv'
  <2>1. PICK n \in Deletions : n = puller[t].next
    BY <1>0, <1>5 DEF acceptAccountEvent, PullerState, Typed, PagesFit, Deletions
  <2> DEFINE s == [puller[t] EXCEPT !.next = @ + 1]
  <2>2. /\ puller' = [puller EXCEPT ![t] = s] /\ UNCHANGED cursor
        /\ s.at = "record" /\ s.next = n + 1 /\ puller[t].at = "record"
    BY <1>0, <1>5, <2>1 DEF acceptAccountEvent, PullerState, feedVars
  <2>3. Known(n)'
    BY <1>5, <2>1 DEF acceptAccountEvent, recordAccountErasure, Known, Typed, ErasureTypeOK
  <2> HIDE DEF s
  <2>4. \A e \in Deletions : e < n + 1 => e = n \/ Behind(t, e)
    BY <2>1, <2>2 DEF Behind, Deletions
  <2>5. \A e \in Deletions : e < n + 1 => Known(e)'
    BY <1>0, <1>k, <2>3, <2>4 DEF PulledIsKnown
  <2>6. PulledIsKnown'
    BY <1>0, <2>2, <2>5, PageBehind
  <2> QED  BY <2>2, <2>6, CursorMoves DEF CursorInv
<1>6. ASSUME NEW t \in Pullers, advanceAccountEventCursor(t) PROVE CursorInv'
  <2>1. /\ puller[t].upto \in Nat /\ puller[t].next \in Nat
        /\ cursor' \in {cursor, puller[t].upto}
        /\ puller[t].at = "record" /\ puller[t].next > puller[t].upto
    BY <1>0, <1>6 DEF advanceAccountEventCursor, PageRecorded, PullerState
  <2>2. \A e \in Deletions : e <= puller[t].upto => Behind(t, e)
    BY <2>1 DEF Behind, Deletions
  <2>3. CursorNeverSkips'
    BY <2>1, <2>2, CursorMoves
  <2>4. CASE puller' = [puller EXCEPT ![t] = NotPulling]
    <3>1. PulledIsKnown'
      BY <1>0, <2>4, NotPullingIsIdle, PageBehind
    <3> QED  BY <2>3, <3>1 DEF CursorInv
  <2>5. CASE puller' = [puller EXCEPT ![t] = Listing(puller[t].upto)]
    <3> DEFINE s == Listing(puller[t].upto)
    <3>1. s.at = "list" /\ s.from = puller[t].upto
      BY DEF Listing
    <3> HIDE DEF s
    <3>2. PulledIsKnown'
      BY <1>0, <1>k, <2>2, <2>5, <3>1, PageBehind DEF PulledIsKnown, s
    <3> QED  BY <2>3, <3>2 DEF CursorInv
  <2> QED  BY <1>6, <2>4, <2>5 DEF advanceAccountEventCursor
<1>7. ASSUME NEW t \in Pullers, NEW dies \in BOOLEAN, PullEnds(t, dies) PROVE CursorInv'
  BY <1>2, <1>7 DEF PullEnds
<1> QED
  BY <1>1, <1>3, <1>4, <1>5, <1>6, <1>7 DEF ErasureNext, erasureVars, AccountDeleted,
     FeedLeaseLapses, handleAccountEvent, ErasureLeaseLapses, EraserStep,
     claimAccountErasure, eraseInPlace, completeAccountErasure, failAccountErasure,
     EraserDies, Finishes, feedVars, PullStep

(***************************************************************************)
(* No deletion that verifies is behind the cursor and unknown here, for    *)
(* any number of tasks that read the feed, lose it or die.                 *)
(***************************************************************************)
THEOREM CursorIsSafe == ErasureSpec => []CursorNeverSkips
<1>1. CursorInv => CursorNeverSkips
  BY DEF CursorInv
<1> QED  BY TypedInit, TypedNext, CursorInvInit, CursorInvNext, <1>1, PTL DEF ErasureSpec
-----------------------------------------------------------------------------
(***************************************************************************)
(* A run leaves no row behind it, and rows do not come back: whatever other *)
(* runs of the same event do, the places a run has passed are empty.       *)
(***************************************************************************)
PassedIsErased ==
  \A x \in Erasers : eraser[x].event # 0 =>
    \A p \in 1..Places : p < eraser[x].place => personal[eraser[x].event][p] = 0

ErasedInv == PassedIsErased /\ CompletedIsErased

LEMMA ErasedInvInit == ErasureInit => ErasedInv
  BY DEF ErasureInit, ErasedInv, PassedIsErased, CompletedIsErased, Resting

\* An empty place stays empty.
LEMMA ErasedStays ==
  ASSUME Typed, [ErasureNext]_erasureVars, NEW e \in Deletions, NEW p \in 1..Places,
         personal[e][p] = 0
  PROVE  personal'[e][p] = 0
<1>1. ASSUME NEW x \in Erasers, eraseInPlace(x) PROVE personal'[e][p] = 0
  BY <1>1 DEF eraseInPlace, Typed, ErasureTypeOK
<1>2. CASE UNCHANGED personal
  BY <1>2
<1> QED
  BY <1>1, <1>2 DEF ErasureNext, erasureVars, AccountDeleted, FeedLeaseLapses,
     handleAccountEvent, ErasureLeaseLapses, EraserStep, claimAccountErasure,
     completeAccountErasure, failAccountErasure, EraserDies, Finishes, PullStep,
     claimAccountEventFeed, list, acceptAccountEvent, advanceAccountEventCursor, PullEnds

LEMMA ErasedInvNext == Typed /\ ErasedInv /\ [ErasureNext]_erasureVars => ErasedInv'
<1> SUFFICES ASSUME Typed, ErasedInv, [ErasureNext]_erasureVars PROVE ErasedInv'
  OBVIOUS
<1>0. /\ erasures \in [Deletions -> ErasureStatuses]
      /\ personal \in [Deletions -> [1..Places -> 0..Held]]
      /\ eraser \in [Erasers -> EraserState]
      /\ \A x \in Erasers : eraser[x] \in EraserState
  BY DEF Typed, ErasureTypeOK
<1>s. \A e \in Deletions, p \in 1..Places : personal[e][p] = 0 => personal'[e][p] = 0
  BY ErasedStays
<1>i. PassedIsErased /\ CompletedIsErased
  BY DEF ErasedInv
<1>e. \A x \in Erasers : eraser[x].event # 0 => eraser[x].event \in Deletions
  BY <1>0 DEF EraserState, Deletions
<1>1. CASE UNCHANGED <<eraser, erasures>>
  <2>1. PassedIsErased'
    BY <1>1, <1>s, <1>i, <1>e DEF PassedIsErased
  <2>2. CompletedIsErased'
    BY <1>1, <1>s, <1>i DEF CompletedIsErased
  <2> QED  BY <2>1, <2>2 DEF ErasedInv
<1>2. CASE UNCHANGED <<eraser, personal>> /\ \E e \in Deletions : recordAccountErasure(e)
  BY <1>2, <1>0, <1>i DEF PassedIsErased, CompletedIsErased, ErasedInv, recordAccountErasure
<1>3. ASSUME NEW x \in Erasers, NEW e \in Deletions, claimAccountErasure(x, e) PROVE ErasedInv'
  <2>1. PassedIsErased'
    BY <1>3, <1>0, <1>i DEF claimAccountErasure, PassedIsErased
  <2>2. CompletedIsErased'
    BY <1>3, <1>0, <1>i DEF claimAccountErasure, CompletedIsErased
  <2> QED  BY <2>1, <2>2 DEF ErasedInv
<1>4. ASSUME NEW x \in Erasers, eraseInPlace(x) PROVE ErasedInv'
  <2>1. PICK e \in Deletions, p \in 1..Places : e = eraser[x].event /\ p = eraser[x].place
    BY <1>4, <1>0 DEF eraseInPlace, EraserState, Deletions
  <2>2. personal[e][p] \in 0..Held
    BY <1>0
  <2>3. /\ UNCHANGED erasures
        /\ eraser' = IF MorePages(p, personal[e][p] > 0) THEN eraser
                     ELSE [eraser EXCEPT ![x].place = @ + 1]
        /\ personal' = [personal EXCEPT ![e][p] =
             IF p \in Paged /\ personal[e][p] > 0 THEN personal[e][p] - 1 ELSE 0]
    BY <1>4, <2>1 DEF eraseInPlace, ledgerVars
  <2>4. CompletedIsErased'
    BY <1>s, <1>i, <2>3 DEF CompletedIsErased
  <2>5. CASE eraser' = eraser
    <3>1. PassedIsErased'
      BY <1>s, <1>i, <1>e, <2>5 DEF PassedIsErased
    <3> QED  BY <2>4, <3>1 DEF ErasedInv
  <2>6. CASE /\ eraser' = [eraser EXCEPT ![x].place = @ + 1]
             /\ ~MorePages(p, personal[e][p] > 0)
    <3>1. personal'[e][p] = 0
      BY <1>0, <2>2, <2>3, <2>6 DEF MorePages
    <3>2. /\ \A y \in Erasers \ {x} : eraser'[y] = eraser[y]
          /\ eraser'[x].event = e /\ eraser'[x].place = p + 1
      BY <1>0, <2>1, <2>6 DEF EraserState
    <3>3. ASSUME NEW y \in Erasers, eraser'[y].event # 0, NEW q \in 1..Places,
                 q < eraser'[y].place
          PROVE  personal'[eraser'[y].event][q] = 0
      <4>1. CASE y # x
        BY <1>s, <1>i, <1>e, <3>2, <3>3, <4>1 DEF PassedIsErased
      <4>2. CASE y = x /\ q = p
        BY <3>1, <3>2, <4>2
      <4>3. CASE y = x /\ q # p
        <5>1. q < p
          BY <3>2, <3>3, <4>3
        <5>2. personal[e][q] = 0
          BY <1>i, <2>1, <5>1 DEF PassedIsErased, Deletions
        <5> QED  BY <1>s, <3>2, <4>3, <5>2
      <4> QED  BY <4>1, <4>2, <4>3
    <3>4. PassedIsErased'
      BY <3>3 DEF PassedIsErased
    <3> QED  BY <2>4, <3>4 DEF ErasedInv
  <2> QED  BY <2>3, <2>5, <2>6
<1>5. ASSUME NEW x \in Erasers, NEW end \in {"completed", "failed"}, Finishes(x, end),
             eraser[x].event # 0, end = "completed" => eraser[x].place > Places
      PROVE  ErasedInv'
  <2>1. PassedIsErased'
    BY <1>5, <1>0, <1>i DEF Finishes, PassedIsErased, Resting
  <2>2. ASSUME NEW e \in Deletions, erasures'[e] = "completed", NEW p \in 1..Places
        PROVE  personal'[e][p] = 0
    <3>1. UNCHANGED personal /\ eraser[x].place \in 1..Places + 1
      BY <1>5, <1>0 DEF Finishes, EraserState
    <3>2. CASE e = eraser[x].event
      BY <1>5, <1>0, <1>i, <2>2, <3>1, <3>2 DEF Finishes, PassedIsErased
    <3>3. CASE e # eraser[x].event
      BY <1>5, <1>0, <1>i, <2>2, <3>1, <3>3 DEF Finishes, CompletedIsErased
    <3> QED  BY <3>2, <3>3
  <2> QED  BY <2>1, <2>2 DEF ErasedInv, CompletedIsErased
<1>6. ASSUME NEW x \in Erasers, EraserDies(x) PROVE ErasedInv'
  BY <1>6, <1>0, <1>i DEF EraserDies, ErasedInv, PassedIsErased, CompletedIsErased, Resting,
     ledgerVars
<1>7. ASSUME NEW x \in Erasers, completeAccountErasure(x) PROVE ErasedInv'
  BY <1>5, <1>7 DEF completeAccountErasure
<1>8. ASSUME NEW x \in Erasers, failAccountErasure(x) PROVE ErasedInv'
  BY <1>5, <1>8 DEF failAccountErasure
<1>9. ASSUME NEW t \in Pullers, acceptAccountEvent(t) PROVE ErasedInv'
  <2>1. puller[t].next \in Deletions
    <3>1. /\ puller[t] \in PullerState /\ puller[t].at = "record"
          /\ puller[t].next <= puller[t].upto
      BY <1>9 DEF acceptAccountEvent, Typed, ErasureTypeOK
    <3>2. puller[t].from < puller[t].next
      BY <3>1 DEF Typed, PagesFit
    <3> QED
      BY <3>1, <3>2 DEF PullerState, Deletions
  <2> QED  BY <1>1, <1>2, <1>9, <2>1 DEF acceptAccountEvent
<1> QED
  BY <1>1, <1>2, <1>3, <1>4, <1>6, <1>7, <1>8, <1>9 DEF ErasureNext, erasureVars, AccountDeleted,
     FeedLeaseLapses, handleAccountEvent, ErasureLeaseLapses, EraserStep, PullStep,
     claimAccountEventFeed, list, advanceAccountEventCursor, PullEnds, ledgerVars

(***************************************************************************)
(* A completed erasure left no row of the account, for any number of runs, *)
(* failures, deaths and leases that lapse in use.                          *)
(***************************************************************************)
THEOREM ErasureIsComplete == ErasureSpec => []CompletedIsErased
<1>1. ErasedInv => CompletedIsErased
  BY DEF ErasedInv
<1> QED  BY TypedInit, TypedNext, ErasedInvInit, ErasedInvNext, <1>1, PTL DEF ErasureSpec

-----------------------------------------------------------------------------
(***************************************************************************)
(* Evidence files, for any number of cases, passes, events and failures.   *)
(***************************************************************************)
USE EvidenceAssumption

Claims == [Cases -> Owed \cup {"none"}]
PassAnswers == [Cases -> {"none", "yes", "no", "error"}]

LEMMA FilesTyped ==
  FilesTypeOK <=>
    /\ oxyEvents \in Seq(FileStatuses) /\ Len(oxyEvents) <= MaxEvents
    /\ recorded \subseteq DOMAIN oxyEvents
    /\ oxyHolds \subseteq Cases /\ admitted \subseteq Cases
    /\ evidence \in [Cases -> Row]
    /\ passAt \in [Passes -> {"idle", "add", "remove"}]
    /\ passRows \in [Passes -> Claims] /\ answers \in [Passes -> PassAnswers]
    /\ runListed \subseteq Cases /\ inventory \subseteq runListed
    /\ before \subseteq Cases /\ running \in BOOLEAN
    /\ failures \in 0..MaxFailures /\ runs \in 0..MaxRuns
  BY DEF FilesTypeOK, Claims, PassAnswers

(***************************************************************************)
(* The row is as the last of Oxy's events left it, or that event has not   *)
(* been delivered, or what it says is that the file is active.             *)
(***************************************************************************)
Current(c) ==
  \/ Len(oxyEvents) \in recorded =>
       evidence[c].stateAt = Len(oxyEvents) /\ evidence[c].status = OxyStatus
  \/ OxyStatus = "active"
  \/ evidence[c].status = "deleted"

\* Nothing follows the deletion of the file.
DeletionLast == \A i \in 1..Len(oxyEvents) - 1 : oxyEvents[i] # "deleted"

(***************************************************************************)
(* A row and what Oxy holds: a removal is owed for a deleted file only, an *)
(* absent row has no reference, a reconciliation does not drop a case that *)
(* may still be registered, and a registered row is current.               *)
(***************************************************************************)
CaseFits(c) ==
  /\ evidence[c].stateAt <= Len(oxyEvents)
  /\ evidence[c].reference \in {"removal_pending", "removed"} => evidence[c].status = "deleted"
  /\ evidence[c].status = "deleted" => OxyStatus = "deleted"
  /\ evidence[c].reference = "absent" => c \notin oxyHolds \cup before \cup inventory
  /\ c \in before /\ c \in runListed /\ c \notin inventory =>
       evidence[c].reference \notin {"pending", "registered"}
  /\ evidence[c].reference = "registered" => c \in oxyHolds /\ Current(c)
  /\ evidence[c].reference = "removed" => c \notin oxyHolds

(***************************************************************************)
(* What a pass still has to settle: a removal stays owed until it is made, *)
(* and what Oxy confirmed is still so if the row asks for it.              *)
(***************************************************************************)
ClaimFits(p, c) ==
  /\ evidence[c].reference = "absent" => passRows[p][c] = "none"
  /\ passRows[p][c] = "removal_pending" =>
       evidence[c].reference \in {"removal_pending", "removed"}
  /\ answers[p][c] # "none" => passRows[p][c] # "none"
  /\ answers[p][c] = "no" => passRows[p][c] = "pending"
  /\ answers[p][c] = "yes" /\ passRows[p][c] = "pending" /\ evidence[c].reference = "pending"
       => c \in oxyHolds /\ Current(c)
  /\ answers[p][c] = "yes" /\ passRows[p][c] = "removal_pending" => c \notin oxyHolds

\* A pass that is idle has settled what it was answered.
PassRests(p) == passAt[p] = "idle" => answers[p] = Nothing

FilesInv ==
  /\ FilesTypeOK /\ DeletionLast
  /\ \A c \in Cases : CaseFits(c)
  /\ \A p \in Passes : PassRests(p) /\ \A c \in Cases : ClaimFits(p, c)

-----------------------------------------------------------------------------
\* The rows that the operators on rows make, field by field.
RowOf(st, at, ref, k, d) ==
  [status |-> st, stateAt |-> at, reference |-> ref, claim |-> k, due |-> d]

LEMMA RowStated ==
  ASSUME NEW r \in Row, NEW st \in FileStatuses, NEW at \in 0..MaxEvents
  PROVE  [r EXCEPT !.status = st, !.stateAt = at]
              = RowOf(st, at, r.reference, r.claim, r.due)
<1>1. [r EXCEPT !.status = st] = RowOf(st, r.stateAt, r.reference, r.claim, r.due)
  BY DEF Row, RowOf
<1>2. [RowOf(st, r.stateAt, r.reference, r.claim, r.due) EXCEPT !.stateAt = at]
        = RowOf(st, at, r.reference, r.claim, r.due)
  BY DEF RowOf
<1> QED
  BY <1>1, <1>2, Zenon

LEMMA RowUpdates ==
  ASSUME NEW r \in Row,
         NEW ref \in ReferenceStates, NEW k \in Passes \cup {NoPass}, NEW d \in BOOLEAN
  PROVE  /\ [r EXCEPT !.reference = ref, !.due = d]
              = RowOf(r.status, r.stateAt, ref, r.claim, d)
         /\ [r EXCEPT !.claim = k, !.due = d]
              = RowOf(r.status, r.stateAt, r.reference, k, d)
         /\ [r EXCEPT !.claim = k]
              = RowOf(r.status, r.stateAt, r.reference, k, r.due)
         /\ [r EXCEPT !.due = d]
              = RowOf(r.status, r.stateAt, r.reference, r.claim, d)
<1>1. ASSUME NEW x \in Row
      PROVE  /\ [x EXCEPT !.reference = ref] = RowOf(x.status, x.stateAt, ref, x.claim, x.due)
             /\ [x EXCEPT !.claim = k] = RowOf(x.status, x.stateAt, x.reference, k, x.due)
             /\ [x EXCEPT !.due = d] = RowOf(x.status, x.stateAt, x.reference, x.claim, d)
  BY DEF Row, RowOf
<1>2. ASSUME NEW a, NEW b, NEW c, NEW e, NEW f
      PROVE  /\ [RowOf(a, b, c, e, f) EXCEPT !.due = d] = RowOf(a, b, c, e, d)
             /\ [RowOf(a, b, c, e, f) EXCEPT !.reference = ref] = RowOf(a, b, ref, e, f)
  BY DEF RowOf
<1>4. [r EXCEPT !.reference = ref, !.due = d] = RowOf(r.status, r.stateAt, ref, r.claim, d)
  <2>1. [r EXCEPT !.reference = ref] = RowOf(r.status, r.stateAt, ref, r.claim, r.due)
    BY <1>1
  <2>2. [RowOf(r.status, r.stateAt, ref, r.claim, r.due) EXCEPT !.due = d]
          = RowOf(r.status, r.stateAt, ref, r.claim, d)
    BY <1>2
  <2> QED
    BY <2>1, <2>2, Zenon
<1>5. [r EXCEPT !.claim = k] = RowOf(r.status, r.stateAt, r.reference, k, r.due)
  BY <1>1
<1>6. [RowOf(r.status, r.stateAt, r.reference, k, r.due) EXCEPT !.due = d]
        = RowOf(r.status, r.stateAt, r.reference, k, d)
  BY <1>2
<1>7. [r EXCEPT !.claim = k, !.due = d] = RowOf(r.status, r.stateAt, r.reference, k, d)
  BY <1>5, <1>6, Zenon
<1> QED
  BY <1>1, <1>4, <1>5, <1>7

LEMMA RowReleased ==
  ASSUME NEW r \in Row, NEW ref \in ReferenceStates, NEW k \in Passes \cup {NoPass},
         NEW d \in BOOLEAN
  PROVE  [r EXCEPT !.claim = k, !.due = d, !.reference = ref]
              = RowOf(r.status, r.stateAt, ref, k, d)
<1>1. [r EXCEPT !.claim = k] = RowOf(r.status, r.stateAt, r.reference, k, r.due)
  BY DEF Row, RowOf
<1>2. ASSUME NEW a, NEW b, NEW c, NEW e, NEW f
      PROVE  /\ [RowOf(a, b, c, e, f) EXCEPT !.due = d] = RowOf(a, b, c, e, d)
             /\ [RowOf(a, b, c, e, f) EXCEPT !.reference = ref] = RowOf(a, b, ref, e, f)
  BY DEF RowOf
<1>3. [RowOf(r.status, r.stateAt, r.reference, k, r.due) EXCEPT !.due = d]
        = RowOf(r.status, r.stateAt, r.reference, k, d)
  BY <1>2
<1>4. [RowOf(r.status, r.stateAt, r.reference, k, d) EXCEPT !.reference = ref]
        = RowOf(r.status, r.stateAt, ref, k, d)
  BY <1>2
<1> QED
  BY <1>1, <1>3, <1>4, Zenon

LEMMA FilesInvInit == FilesInit => FilesInv
<1> SUFFICES ASSUME FilesInit PROVE FilesInv
  OBVIOUS
<1> DEFINE r == RowOf("active", 0, "absent", NoPass, FALSE)
<1>1. evidence = [c \in Cases |-> r]
  BY DEF FilesInit, RowOf
<1>2. r \in Row /\ r.reference = "absent" /\ r.status = "active" /\ r.stateAt = 0
  BY DEF Row, RowOf, FileStatuses, ReferenceStates
<1> HIDE DEF r
<1>0. /\ oxyEvents = <<>> /\ recorded = {} /\ oxyHolds = {} /\ admitted = {}
      /\ passAt = [p \in Passes |-> "idle"] /\ passRows = [p \in Passes |-> Nothing]
      /\ answers = [p \in Passes |-> Nothing]
      /\ runListed = {} /\ inventory = {} /\ before = {} /\ running = FALSE
      /\ failures = 0 /\ runs = 0
  BY DEF FilesInit
<1>3. Nothing \in Claims /\ Nothing \in PassAnswers /\ \A c \in Cases : Nothing[c] = "none"
  BY DEF Nothing, Claims, PassAnswers, Owed
<1>e. oxyEvents \in Seq(FileStatuses) /\ Len(oxyEvents) = 0
  BY <1>0
<1>4. FilesTypeOK
  <2>1. evidence \in [Cases -> Row]
    BY <1>1, <1>2
  <2>2. passAt \in [Passes -> {"idle", "add", "remove"}]
        /\ passRows \in [Passes -> Claims] /\ answers \in [Passes -> PassAnswers]
    BY <1>0, <1>3
  <2>3. failures \in 0..MaxFailures /\ runs \in 0..MaxRuns /\ Len(oxyEvents) <= MaxEvents
    BY <1>0, <1>e
  <2> QED
    BY <1>0, <1>e, <2>1, <2>2, <2>3, FilesTyped
<1>5. \A c \in Cases : CaseFits(c)
  <2>1. \A c \in Cases : evidence[c].reference = "absent" /\ evidence[c].status = "active"
                           /\ evidence[c].stateAt = 0
    BY <1>1, <1>2
  <2>2. oxyHolds = {} /\ before = {} /\ inventory = {}
    BY <1>0
  <2> TAKE c \in Cases
  <2>3. evidence[c].stateAt <= Len(oxyEvents)
    BY <2>1, <1>e
  <2>4. evidence[c].reference = "absent" /\ evidence[c].status = "active"
    BY <2>1
  <2>5. c \notin oxyHolds \cup before \cup inventory
    BY <2>2
  <2> QED
    BY <2>3, <2>4, <2>5 DEF CaseFits
<1>6. \A p \in Passes : PassRests(p) /\ \A c \in Cases : ClaimFits(p, c)
  BY <1>0, <1>1, <1>2, <1>3 DEF PassRests, ClaimFits
<1>7. DeletionLast
  BY DEF FilesInit, DeletionLast
<1> QED
  BY <1>4, <1>5, <1>6, <1>7 DEF FilesInv

-----------------------------------------------------------------------------
\* What is asked of a row does not depend on who claims it or when it is due.
SameRow(c) ==
  /\ evidence'[c].status = evidence[c].status /\ evidence'[c].stateAt = evidence[c].stateAt
  /\ evidence'[c].reference = evidence[c].reference

LEMMA CaseSteady ==
  ASSUME NEW c \in Cases, CaseFits(c), SameRow(c), UNCHANGED <<oxyEvents, recorded>>,
         (c \in oxyHolds)' <=> c \in oxyHolds, (c \in before)' => c \in before,
         (c \in inventory)' => c \in inventory \/ evidence[c].reference # "absent",
         (c \in runListed)' /\ ~(c \in inventory)' /\ (c \in before)' =>
           c \in runListed /\ c \notin inventory
  PROVE  CaseFits(c)'
<1>1. OxyStatus' = OxyStatus
  BY DEF OxyStatus
<1>2. Current(c) => Current(c)'
  BY <1>1 DEF Current, SameRow
<1> QED
  BY <1>1, <1>2 DEF CaseFits, SameRow

LEMMA ClaimSteady ==
  ASSUME NEW c \in Cases, NEW p \in Passes, ClaimFits(p, c), SameRow(c),
         UNCHANGED <<oxyEvents, recorded>>, (c \in oxyHolds)' <=> c \in oxyHolds,
         passRows'[p][c] = passRows[p][c], answers'[p][c] = answers[p][c]
  PROVE  ClaimFits(p, c)'
<1>1. Current(c) => Current(c)'
  BY DEF Current, SameRow, OxyStatus
<1> QED
  BY <1>1 DEF ClaimFits, SameRow

\* Steps that leave the rows, the passes' claims and what Oxy holds alone.
LEMMA FilesQuiet ==
  ASSUME FilesInv, FilesTypeOK', \A c \in Cases : SameRow(c),
         UNCHANGED <<oxyEvents, recorded, oxyHolds, passRows, answers, before, runListed, inventory>>,
         \A p \in Passes : PassRests(p)'
  PROVE  FilesInv'
<1>1. \A c \in Cases : CaseFits(c)'
  BY CaseSteady DEF FilesInv
<1>2. \A p \in Passes, c \in Cases : ClaimFits(p, c)'
  BY ClaimSteady DEF FilesInv
<1> QED
  BY <1>1, <1>2 DEF FilesInv, DeletionLast

LEMMA ChangesKeeps ==
  ASSUME FilesInv, NEW s \in FileStatuses, OxyChanges(s)
  PROVE  FilesInv'
<1> DEFINE n == Len(oxyEvents)
<1>1. /\ FilesTypeOK /\ oxyEvents \in Seq(FileStatuses) /\ n \in Nat /\ n < MaxEvents
      /\ recorded \subseteq 1..n /\ DOMAIN oxyEvents = 1..n
      /\ oxyEvents' = Append(oxyEvents, s) /\ OxyStatus # "deleted"
      /\ UNCHANGED <<recorded, oxyHolds, admitted, evidence, passVars, runVars, failures>>
  BY FilesTyped DEF FilesInv, OxyChanges
<1>2. /\ oxyEvents' \in Seq(FileStatuses) /\ Len(oxyEvents') = n + 1
      /\ DOMAIN oxyEvents' = 1..n + 1
      /\ \A i \in 1..n : oxyEvents'[i] = oxyEvents[i]
  BY <1>1
<1> HIDE DEF n
<1>3. FilesTypeOK'
  <2>1. recorded' \subseteq DOMAIN oxyEvents' /\ Len(oxyEvents') <= MaxEvents
    BY <1>1, <1>2
  <2> QED
    BY <1>1, <1>2, <2>1 DEF FilesTypeOK, passVars, runVars
<1>4. DeletionLast'
  <2> SUFFICES ASSUME NEW i \in 1..Len(oxyEvents') - 1 PROVE oxyEvents'[i] # "deleted"
    BY DEF DeletionLast
  <2>1. i \in 1..n /\ oxyEvents'[i] = oxyEvents[i]
    BY <1>1, <1>2
  <2>2. CASE i = n
    <3>1. oxyEvents # <<>>
      BY <2>1, <2>2, <1>1 DEF n
    <3> QED
      BY <2>1, <2>2, <3>1, <1>1 DEF OxyStatus, n
  <2>3. CASE i # n
    <3>1. i \in 1..n - 1
      BY <2>1, <2>3, <1>1
    <3> QED
      BY <2>1, <3>1 DEF FilesInv, DeletionLast, n
  <2> QED
    BY <2>2, <2>3
<1>5. \A c \in Cases : Current(c)'
  BY <1>1, <1>2 DEF Current
<1>6. ASSUME NEW c \in Cases PROVE CaseFits(c)'
  <2>1. CaseFits(c) /\ evidence[c].status # "deleted"
    BY <1>1 DEF FilesInv, CaseFits
  <2>2. evidence'[c].stateAt <= Len(oxyEvents')
    <3>1. evidence[c].stateAt \in Nat /\ evidence[c].stateAt <= n
      BY <2>1, <1>1, FilesTyped DEF CaseFits, Row, n
    <3> QED
      BY <3>1, <1>1, <1>2
  <2> QED
    BY <2>1, <2>2, <1>1, <1>5 DEF CaseFits, passVars, runVars
<1>7. \A p \in Passes : PassRests(p)' /\ \A c \in Cases : ClaimFits(p, c)'
  BY <1>1, <1>5 DEF FilesInv, PassRests, ClaimFits, passVars, runVars
<1> QED
  BY <1>3, <1>4, <1>6, <1>7 DEF FilesInv

LEMMA InsertKeeps ==
  ASSUME FilesInv, NEW c \in Cases, insertCaseEvidenceFiles(c)
  PROVE  FilesInv'
<1> DEFINE r == evidence[c]
           next == RowOf(r.status, r.stateAt, "pending", r.claim, TRUE)
<1>1. /\ FilesTypeOK /\ r \in Row /\ evidence \in [Cases -> Row] /\ r.reference = "absent"
      /\ UNCHANGED <<oxyEvents, recorded, oxyHolds, admitted, passVars, runVars, failures>>
      /\ CaseFits(c)
  BY FilesTyped DEF FilesInv, insertCaseEvidenceFiles
<1>2. r.status \in FileStatuses /\ r.stateAt \in 0..MaxEvents /\ r.claim \in Passes \cup {NoPass}
      /\ "pending" \in ReferenceStates
  BY <1>1 DEF Row, ReferenceStates, Owed
<1>3. next \in Row /\ next.reference = "pending" /\ next.status = r.status
      /\ next.stateAt = r.stateAt
  BY <1>2 DEF Row, RowOf
<1>4. evidence' = [evidence EXCEPT ![c] = next]
  <2>1. evidence' = [evidence EXCEPT ![c] = [r EXCEPT !.reference = "pending", !.due = TRUE]]
    BY <1>1 DEF insertCaseEvidenceFiles
  <2> QED
    BY <2>1, <1>1, <1>2, RowUpdates
<1> HIDE DEF next
<1>5. FilesTypeOK'
  BY <1>1, <1>3, <1>4, FilesTyped DEF FilesTypeOK, passVars, runVars
<1>6. \A d \in Cases \ {c} : SameRow(d)
  BY <1>1, <1>4 DEF SameRow
<1>7. evidence'[c] = next
  BY <1>1, <1>4
<1>8. \A d \in Cases \ {c} : CaseFits(d)'
  BY <1>1, <1>6, CaseSteady DEF FilesInv, passVars, runVars
<1>9. CaseFits(c)'
  <2>1. OxyStatus' = OxyStatus
    BY <1>1 DEF OxyStatus
  <2> QED
    BY <2>1, <1>1, <1>3, <1>7 DEF CaseFits, passVars, runVars
<1>10. \A p \in Passes : PassRests(p)'
  BY <1>1 DEF FilesInv, PassRests, passVars
<1>11. \A p \in Passes, d \in Cases \ {c} : ClaimFits(p, d)'
  BY <1>1, <1>6, ClaimSteady DEF FilesInv, passVars
<1>12. ASSUME NEW p \in Passes PROVE ClaimFits(p, c)'
  <2>1. passRows[p][c] = "none" /\ answers[p][c] = "none"
    BY <1>1 DEF FilesInv, ClaimFits
  <2> QED
    BY <2>1, <1>1, <1>3, <1>7 DEF ClaimFits, passVars
<1> QED
  BY <1>1, <1>5, <1>8, <1>9, <1>10, <1>11, <1>12 DEF FilesInv, DeletionLast

\* What an event makes of a row that it is applied to.
LEMMA EventApplied ==
  ASSUME FilesInv, NEW i \in DOMAIN oxyEvents, NEW r \in Row
  PROVE  LET next == evidenceAfterEvent(r, i)
         IN  /\ next \in Row
             /\ \/ next = r /\ (r.reference = "absent" \/ r.status = "deleted" \/ i < r.stateAt)
                \/ /\ r.reference # "absent" /\ r.status # "deleted"
                   /\ next.status = oxyEvents[i] /\ next.stateAt = i
                   /\ \/ next.reference = r.reference
                         /\ (oxyEvents[i] = "deleted" => r.reference \notin {"pending", "registered"})
                      \/ oxyEvents[i] = "deleted" /\ next.reference = "removal_pending"
<1> DEFINE n == Len(oxyEvents)
<1>1. /\ oxyEvents \in Seq(FileStatuses) /\ n \in Nat /\ n <= MaxEvents /\ i \in 1..n
      /\ oxyEvents[i] \in FileStatuses
  BY FilesTyped DEF FilesInv
<1>2. i \in 0..MaxEvents
  BY <1>1
<1>3. r.reference \in ReferenceStates /\ r.claim \in Passes \cup {NoPass} /\ r.due \in BOOLEAN
      /\ "removal_pending" \in ReferenceStates
  BY DEF Row, ReferenceStates, Owed
<1> DEFINE a == RowOf(oxyEvents[i], i, r.reference, r.claim, r.due)
           b == RowOf(oxyEvents[i], i, "removal_pending", r.claim, TRUE)
<1>4. /\ a \in Row /\ a.status = oxyEvents[i] /\ a.stateAt = i /\ a.reference = r.reference
      /\ b \in Row /\ b.status = oxyEvents[i] /\ b.stateAt = i
      /\ b.reference = "removal_pending"
  BY <1>1, <1>2, <1>3 DEF Row, RowOf
<1>5. [r EXCEPT !.status = oxyEvents[i], !.stateAt = i] = a
  BY <1>1, <1>2, RowStated
<1>6. [a EXCEPT !.reference = "removal_pending", !.due = TRUE] = b
  <2>1. a.claim = r.claim
    BY DEF RowOf
  <2>2. [a EXCEPT !.reference = "removal_pending", !.due = TRUE]
          = RowOf(a.status, a.stateAt, "removal_pending", a.claim, TRUE)
    BY <1>1, <1>2, <1>3, <1>4, RowUpdates
  <2> QED
    BY <2>1, <2>2, <1>4
<1>7. evidenceAfterEvent(r, i) =
        IF r.reference = "absent" \/ r.status = "deleted" \/ i < r.stateAt THEN r
        ELSE IF oxyEvents[i] = "deleted" /\ r.reference \in {"pending", "registered"} THEN b ELSE a
  BY <1>5, <1>6, Zenon DEF evidenceAfterEvent
<1> HIDE DEF a, b
<1> QED
  BY <1>7, <1>4

LEMMA AcceptKeeps ==
  ASSUME FilesInv, NEW i \in 1..MaxEvents, acceptFileEvent(i)
  PROVE  FilesInv'
<1> DEFINE n == Len(oxyEvents)
<1>1. /\ FilesTypeOK /\ oxyEvents \in Seq(FileStatuses) /\ n \in Nat /\ n <= MaxEvents
      /\ i \in DOMAIN oxyEvents /\ DOMAIN oxyEvents = 1..n /\ i \in 1..n
      /\ recorded \subseteq 1..n /\ i \notin recorded
      /\ recorded' = recorded \cup {i} /\ evidence \in [Cases -> Row]
      /\ evidence' = [c \in Cases |-> evidenceAfterEvent(evidence[c], i)]
      /\ UNCHANGED <<oxyEvents, oxyHolds, admitted, passVars, runVars, failures>>
  BY FilesTyped DEF FilesInv, acceptFileEvent
<1>2. \A c \in Cases : evidence'[c] = evidenceAfterEvent(evidence[c], i)
  BY <1>1
<1>3. ASSUME NEW c \in Cases
      PROVE  /\ evidence'[c] \in Row
             /\ \/ /\ evidence'[c] = evidence[c]
                   /\ \/ evidence[c].reference = "absent" \/ evidence[c].status = "deleted"
                      \/ i < evidence[c].stateAt
                \/ /\ evidence[c].reference # "absent" /\ evidence[c].status # "deleted"
                   /\ evidence'[c].status = oxyEvents[i] /\ evidence'[c].stateAt = i
                   /\ \/ /\ evidence'[c].reference = evidence[c].reference
                         /\ oxyEvents[i] = "deleted" =>
                              evidence[c].reference \notin {"pending", "registered"}
                      \/ oxyEvents[i] = "deleted" /\ evidence'[c].reference = "removal_pending"
  <2> DEFINE next == evidenceAfterEvent(evidence[c], i)
  <2>1. evidence[c] \in Row /\ evidence'[c] = next
    BY <1>1, <1>2
  <2>2. /\ next \in Row
        /\ \/ /\ next = evidence[c]
              /\ \/ evidence[c].reference = "absent" \/ evidence[c].status = "deleted"
                 \/ i < evidence[c].stateAt
           \/ /\ evidence[c].reference # "absent" /\ evidence[c].status # "deleted"
              /\ next.status = oxyEvents[i] /\ next.stateAt = i
              /\ \/ /\ next.reference = evidence[c].reference
                    /\ oxyEvents[i] = "deleted" =>
                         evidence[c].reference \notin {"pending", "registered"}
                 \/ oxyEvents[i] = "deleted" /\ next.reference = "removal_pending"
    BY <2>1, <1>1, EventApplied
  <2> HIDE DEF next
  <2> QED
    BY <2>1, <2>2
<1>4. FilesTypeOK'
  <2>1. evidence' \in [Cases -> Row]
    BY <1>1, <1>3
  <2>2. recorded' \subseteq DOMAIN oxyEvents'
    BY <1>1
  <2> QED
    BY <1>1, <2>1, <2>2, FilesTyped DEF FilesTypeOK, passVars, runVars
<1>5. OxyStatus' = OxyStatus /\ OxyStatus = oxyEvents[n]
  BY <1>1 DEF OxyStatus
<1>6. oxyEvents[i] = "deleted" => i = n /\ OxyStatus = "deleted"
  <2> HIDE DEF n
  <2>1. i # n => i \in 1..n - 1
    BY <1>1
  <2> QED
    BY <2>1, <1>5 DEF FilesInv, DeletionLast, n
<1>7. \A c \in Cases : evidence[c].stateAt \in Nat /\ evidence[c].stateAt <= n
  BY <1>1 DEF FilesInv, CaseFits, Row
<1> HIDE DEF n
\* The row is as the last event left it when that event is this one.
<1>8. ASSUME NEW c \in Cases, evidence[c].reference # "absent", Current(c) \/ i = n
      PROVE  Current(c)'
  <2>1. CASE evidence'[c] = evidence[c] /\ (evidence[c].status = "deleted" \/ i < evidence[c].stateAt)
    <3>1. CASE evidence[c].status = "deleted"
      BY <3>1, <2>1 DEF Current
    <3>2. CASE evidence[c].status # "deleted"
      <4>1. i < evidence[c].stateAt
        BY <3>2, <2>1
      <4>2. i # n
        BY <4>1, <1>1, <1>7
      <4> QED
        BY <4>2, <3>2, <2>1, <1>1, <1>5, <1>8 DEF Current, n
    <3> QED
      BY <3>1, <3>2
  <2>2. CASE evidence'[c].status = oxyEvents[i] /\ evidence'[c].stateAt = i
             /\ evidence[c].status # "deleted"
    <3>2. CASE i = n
      BY <2>2, <3>2, <1>1, <1>5 DEF Current, n
    <3>3. CASE i # n
      <4>1. CASE n \in recorded /\ OxyStatus # "active"
        <5>1. evidence[c].stateAt = n
          BY <4>1, <2>2, <3>3, <1>8 DEF Current, n
        <5>2. i < evidence[c].stateAt
          BY <5>1, <3>3, <1>1
        <5>3. evidenceAfterEvent(evidence[c], i) = evidence[c]
          BY <5>2, Zenon DEF evidenceAfterEvent
        <5> QED
          BY <5>1, <5>3, <1>2, <2>2, <3>3
      <4>2. CASE ~(n \in recorded /\ OxyStatus # "active")
        BY <4>2, <3>3, <1>1, <1>5 DEF Current, n
      <4> QED
        BY <4>1, <4>2
    <3> QED
      BY <3>2, <3>3
  <2> QED
    BY <2>1, <2>2, <1>3, <1>8
<1>9. ASSUME NEW c \in Cases PROVE CaseFits(c)'
  <2>1. CaseFits(c)
    BY DEF FilesInv
  <2>2. evidence'[c].stateAt <= Len(oxyEvents')
    BY <1>1, <1>3, <1>7 DEF n
  <2>3. /\ evidence'[c].reference \in {"removal_pending", "removed"} =>
             evidence'[c].status = "deleted"
        /\ evidence'[c].status = "deleted" => OxyStatus = "deleted"
        /\ evidence'[c].reference = "absent" => evidence[c].reference = "absent"
        /\ evidence'[c].reference \in {"pending", "registered", "removed"} =>
             evidence'[c].reference = evidence[c].reference
    BY <1>3, <1>6, <2>1 DEF CaseFits
  <2>4. evidence'[c].reference = "registered" => Current(c)'
    BY <1>8, <2>1, <2>3 DEF CaseFits
  <2> QED
    BY <2>1, <2>2, <2>3, <2>4, <1>1, <1>5 DEF CaseFits, passVars, runVars
<1>10. ASSUME NEW p \in Passes, NEW c \in Cases PROVE ClaimFits(p, c)'
  <2>1. ClaimFits(p, c) /\ CaseFits(c)
    BY DEF FilesInv
  <2>2. /\ evidence'[c].reference = "absent" => evidence[c].reference = "absent"
        /\ evidence'[c].reference = "pending" => evidence[c].reference = "pending"
        /\ evidence[c].reference \in {"removal_pending", "removed"} =>
             evidence'[c].reference = evidence[c].reference
    BY <1>3, <2>1 DEF CaseFits
  <2>3. evidence[c].reference = "pending" /\ Current(c) => Current(c)'
    BY <1>8
  <2> QED
    BY <2>1, <2>2, <2>3, <1>1 DEF ClaimFits, passVars
<1> QED
  BY <1>1, <1>4, <1>9, <1>10 DEF FilesInv, DeletionLast, PassRests, passVars

LEMMA ClaimDueKeeps ==
  ASSUME FilesInv, NEW p \in Passes, claimDueEvidenceReferences(p)
  PROVE  FilesInv'
<1> DEFINE rows == [c \in Cases |-> IF c \in DueRows THEN evidence[c].reference ELSE "none"]
<1>1. /\ FilesTypeOK /\ evidence \in [Cases -> Row] /\ answers[p] = Nothing
      /\ passRows \in [Passes -> Claims] /\ passAt \in [Passes -> {"idle", "add", "remove"}]
      /\ evidence' = [c \in Cases |-> IF c \in DueRows
                                      THEN [evidence[c] EXCEPT !.claim = p, !.due = FALSE]
                                      ELSE evidence[c]]
      /\ passRows' = [passRows EXCEPT ![p] = rows]
      /\ passAt' = [passAt EXCEPT ![p] = "add"]
      /\ UNCHANGED <<oxyEvents, recorded, oxyHolds, admitted, answers, runVars, failures>>
  BY FilesTyped DEF FilesInv, claimDueEvidenceReferences, PassRests
<1>2. rows \in Claims /\ \A c \in Cases : rows[c] # "none" => rows[c] = evidence[c].reference
  BY DEF Claims, DueRows
<1> HIDE DEF rows
<1>3. ASSUME NEW c \in Cases PROVE evidence'[c] \in Row /\ SameRow(c)
  <2> DEFINE r == evidence[c]
             next == RowOf(r.status, r.stateAt, r.reference, p, FALSE)
  <2>1. r \in Row /\ r.status \in FileStatuses /\ r.stateAt \in 0..MaxEvents
        /\ r.reference \in ReferenceStates
    BY <1>1 DEF Row
  <2>2. next \in Row /\ next.status = r.status /\ next.stateAt = r.stateAt
        /\ next.reference = r.reference
    BY <2>1 DEF Row, RowOf
  <2>3. [r EXCEPT !.claim = p, !.due = FALSE] = next
    BY <2>1, RowUpdates
  <2>4. evidence'[c] \in {r, [r EXCEPT !.claim = p, !.due = FALSE]}
    BY <1>1
  <2> HIDE DEF next
  <2> QED
    BY <2>1, <2>2, <2>3, <2>4 DEF SameRow
<1>4. FilesTypeOK'
  <2>1. evidence' \in [Cases -> Row]
    BY <1>1, <1>3
  <2>2. passRows' \in [Passes -> Claims] /\ passAt' \in [Passes -> {"idle", "add", "remove"}]
    BY <1>1, <1>2
  <2> QED
    BY <1>1, <2>1, <2>2 DEF FilesTypeOK, Claims, runVars
<1>5. \A c \in Cases : CaseFits(c)'
  BY <1>1, <1>3, CaseSteady DEF FilesInv, runVars
<1>6. ASSUME NEW q \in Passes, NEW c \in Cases PROVE ClaimFits(q, c)'
  <2>1. CASE q = p
    <3>1. passRows'[p][c] = rows[c] /\ answers'[p][c] = "none"
      BY <1>1 DEF Nothing
    <3>2. evidence'[c].reference = evidence[c].reference
      BY <1>3 DEF SameRow
    <3>3. rows[c] # "none" => evidence[c].reference \in Owed
      BY <1>2 DEF Claims
    <3> QED
      BY <2>1, <3>1, <3>2, <3>3, <1>2 DEF ClaimFits, Owed
  <2>2. CASE q # p
    BY <2>2, <1>1, <1>3, ClaimSteady DEF FilesInv
  <2> QED
    BY <2>1, <2>2
<1>7. \A q \in Passes : PassRests(q)'
  BY <1>1 DEF FilesInv, PassRests, Nothing
<1> QED
  BY <1>1, <1>4, <1>5, <1>6, <1>7 DEF FilesInv, DeletionLast

\* A step after which Oxy holds a reference more, or less, for rows that allow it.
LEMMA HoldsChange ==
  ASSUME FilesInv, NEW c \in Cases,
         UNCHANGED <<oxyEvents, recorded, evidence>>,
         (c \in oxyHolds)' /\ c \notin oxyHolds =>
           evidence[c].reference \notin {"absent", "removal_pending", "removed"},
         ~(c \in oxyHolds)' /\ c \in oxyHolds =>
           evidence[c].reference \notin {"pending", "registered"},
         (c \in before)' => c \in before, (c \in inventory)' => c \in inventory,
         (c \in runListed)' /\ ~(c \in inventory)' /\ (c \in before)' =>
           c \in runListed /\ c \notin inventory
  PROVE  /\ CaseFits(c)'
         /\ \A q \in Passes : passRows'[q][c] = passRows[q][c] /\ answers'[q][c] = answers[q][c]
              => ClaimFits(q, c)'
<1>1. CaseFits(c) /\ \A q \in Passes : ClaimFits(q, c)
  BY DEF FilesInv
<1>2. OxyStatus' = OxyStatus /\ Current(c)' = Current(c)
  BY DEF OxyStatus, Current
<1>3. CaseFits(c)'
  BY <1>1, <1>2 DEF CaseFits
<1>4. ASSUME NEW q \in Passes, passRows'[q][c] = passRows[q][c], answers'[q][c] = answers[q][c]
      PROVE  ClaimFits(q, c)'
  BY <1>1, <1>2, <1>4 DEF ClaimFits
<1> QED
  BY <1>3, <1>4

\* What the passes hold once a group's answer has come.
LEMMA AnswerTyped ==
  ASSUME FilesTypeOK, NEW p \in Passes, NEW s, NEW a \in {"yes", "no", "error"},
         answers[p] = Nothing, Answer(p, s, a), passRows' = passRows
  PROVE  /\ answers' \in [Passes -> PassAnswers]
         /\ \A c \in Cases : answers'[p][c] = IF passRows[p][c] = s THEN a ELSE "none"
         /\ \A q \in Passes \ {p} : answers'[q] = answers[q]
<1> DEFINE f == [c \in Cases |-> IF c \in Group(p, s) THEN a ELSE answers[p][c]]
<1>1. answers \in [Passes -> PassAnswers] /\ \A c \in Cases : answers[p][c] = "none"
  BY FilesTyped DEF Nothing
<1>2. answers' = [answers EXCEPT ![p] = f]
  BY DEF Answer
<1>3. f \in PassAnswers /\ \A c \in Cases : f[c] = IF passRows[p][c] = s THEN a ELSE "none"
  BY <1>1 DEF PassAnswers, Group
<1> HIDE DEF f
<1> QED
  BY <1>1, <1>2, <1>3

LEMMA AddKeeps ==
  ASSUME FilesInv, NEW p \in Passes, addReferences(p)
  PROVE  FilesInv'
<1> DEFINE G == Group(p, "pending")
           added == IF OxyStatus = "active" THEN oxyHolds \cup G ELSE oxyHolds
<1>1. /\ FilesTypeOK /\ passAt[p] = "add" /\ answers[p] = Nothing /\ G \subseteq Cases
      /\ oxyHolds \subseteq Cases
      /\ UNCHANGED <<oxyEvents, recorded, admitted, evidence, passAt, passRows, runVars>>
  BY FilesTyped DEF FilesInv, addReferences, Group
<1>2. PICK a \in {"yes", "no", "error"} :
        /\ Answer(p, "pending", a) /\ oxyHolds' \in {oxyHolds, added}
        /\ a = "yes" => OxyStatus = "active" /\ oxyHolds' = added
        /\ failures' \in 0..MaxFailures
  BY <1>1, FilesTyped DEF addReferences, CallFails
<1>3. /\ answers' \in [Passes -> PassAnswers]
      /\ \A c \in Cases : answers'[p][c] = IF passRows[p][c] = "pending" THEN a ELSE "none"
      /\ \A q \in Passes \ {p} : answers'[q] = answers[q]
  BY <1>1, <1>2, AnswerTyped
<1>4. FilesTypeOK'
  <2>1. oxyHolds' \subseteq Cases
    BY <1>1, <1>2
  <2> QED
    BY <1>1, <1>2, <1>3, <2>1 DEF FilesTypeOK, PassAnswers, runVars
<1>5. ASSUME NEW c \in Cases
      PROVE  /\ c \in oxyHolds => c \in oxyHolds'
             /\ c \in oxyHolds' /\ c \notin oxyHolds =>
                  evidence[c].reference \notin {"absent", "removal_pending", "removed"}
  <2>1. CaseFits(c) /\ ClaimFits(p, c)
    BY DEF FilesInv
  <2>2. c \in oxyHolds' /\ c \notin oxyHolds =>
          OxyStatus = "active" /\ passRows[p][c] = "pending"
    BY <1>2 DEF Group
  <2> QED
    BY <1>2, <2>1, <2>2 DEF CaseFits, ClaimFits
<1>6. ASSUME NEW c \in Cases
      PROVE  /\ CaseFits(c)'
             /\ \A q \in Passes : passRows'[q][c] = passRows[q][c] /\ answers'[q][c] = answers[q][c]
                  => ClaimFits(q, c)'
  BY <1>1, <1>5, HoldsChange DEF runVars
<1>7. ASSUME NEW c \in Cases PROVE ClaimFits(p, c)'
  <2>1. passRows' = passRows /\ evidence' = evidence
    BY <1>1
  <2>2. CASE passRows[p][c] = "pending"
    <3>1. a = "yes" => c \in oxyHolds' /\ Current(c)'
      BY <1>1, <1>2, <2>2 DEF Group, Current, OxyStatus
    <3>2. evidence[c].reference # "absent"
      BY <2>2 DEF FilesInv, ClaimFits
    <3> QED
      BY <1>3, <2>1, <2>2, <3>1, <3>2 DEF ClaimFits
  <2>3. CASE passRows[p][c] # "pending"
    BY <1>1, <1>3, <1>6, <2>1, <2>3 DEF Nothing
  <2> QED
    BY <2>2, <2>3
<1>8. \A q \in Passes, c \in Cases : ClaimFits(q, c)'
  BY <1>1, <1>3, <1>6, <1>7
<1>9. \A q \in Passes : PassRests(q)'
  BY <1>1, <1>3 DEF FilesInv, PassRests, Nothing
<1> QED
  BY <1>1, <1>4, <1>6, <1>8, <1>9 DEF FilesInv, DeletionLast

LEMMA RemoveKeeps ==
  ASSUME FilesInv, NEW p \in Passes, removeReferences(p)
  PROVE  FilesInv'
<1> DEFINE G == Group(p, "removal_pending")
<1>1. /\ FilesTypeOK /\ passAt[p] = "remove" /\ answers[p] = Nothing /\ oxyHolds \subseteq Cases
      /\ UNCHANGED <<oxyEvents, recorded, admitted, evidence, passAt, passRows, runVars>>
  BY FilesTyped DEF FilesInv, removeReferences
<1>2. PICK a \in {"yes", "error"} :
        /\ Answer(p, "removal_pending", a) /\ oxyHolds' \in {oxyHolds, oxyHolds \ G}
        /\ a = "yes" => oxyHolds' = oxyHolds \ G
        /\ failures' \in 0..MaxFailures
  BY <1>1, FilesTyped DEF removeReferences, CallFails
<1>3. /\ answers' \in [Passes -> PassAnswers]
      /\ \A c \in Cases : answers'[p][c] = IF passRows[p][c] = "removal_pending" THEN a ELSE "none"
      /\ \A q \in Passes \ {p} : answers'[q] = answers[q]
  BY <1>1, <1>2, AnswerTyped
<1>4. FilesTypeOK'
  <2>1. oxyHolds' \subseteq Cases
    BY <1>1, <1>2
  <2> QED
    BY <1>1, <1>2, <1>3, <2>1 DEF FilesTypeOK, PassAnswers, runVars
<1>5. ASSUME NEW c \in Cases
      PROVE  /\ c \in oxyHolds' => c \in oxyHolds
             /\ c \notin oxyHolds' /\ c \in oxyHolds =>
                  evidence[c].reference \notin {"pending", "registered"}
  <2>1. ClaimFits(p, c)
    BY DEF FilesInv
  <2>2. c \notin oxyHolds' /\ c \in oxyHolds => passRows[p][c] = "removal_pending"
    BY <1>2 DEF Group
  <2> QED
    BY <1>2, <2>1, <2>2 DEF ClaimFits
<1>6. ASSUME NEW c \in Cases
      PROVE  /\ CaseFits(c)'
             /\ \A q \in Passes : passRows'[q][c] = passRows[q][c] /\ answers'[q][c] = answers[q][c]
                  => ClaimFits(q, c)'
  BY <1>1, <1>5, HoldsChange DEF runVars
<1>7. ASSUME NEW c \in Cases PROVE ClaimFits(p, c)'
  <2>1. passRows' = passRows /\ evidence' = evidence
    BY <1>1
  <2>2. CASE passRows[p][c] = "removal_pending"
    <3>1. a = "yes" => c \notin oxyHolds'
      BY <1>2, <2>2 DEF Group
    <3>2. evidence[c].reference \in {"removal_pending", "removed"}
      BY <2>2 DEF FilesInv, ClaimFits
    <3> QED
      BY <1>3, <2>1, <2>2, <3>1, <3>2 DEF ClaimFits
  <2>3. CASE passRows[p][c] # "removal_pending"
    BY <1>1, <1>3, <1>6, <2>1, <2>3 DEF Nothing
  <2> QED
    BY <2>2, <2>3
<1>8. \A q \in Passes, c \in Cases : ClaimFits(q, c)'
  BY <1>1, <1>3, <1>6, <1>7
<1>9. \A q \in Passes : PassRests(q)'
  BY <1>1, <1>3 DEF FilesInv, PassRests, Nothing
<1> QED
  BY <1>1, <1>4, <1>6, <1>8, <1>9 DEF FilesInv, DeletionLast

\* What a row comes to when its pass settles it.
LEMMA RowSettled ==
  ASSUME NEW r \in Row, NEW st \in Owed, NEW a \in {"yes", "no", "error"}
  PROVE  LET next == finishEvidenceReference(r, st, a)
         IN  /\ next \in Row /\ next.status = r.status /\ next.stateAt = r.stateAt
             /\ \/ next.reference = r.reference
                \/ /\ r.reference = st /\ a # "error"
                   /\ next.reference = settledState(st, a)
<1>1. /\ r.status \in FileStatuses /\ r.stateAt \in 0..MaxEvents
      /\ r.reference \in ReferenceStates /\ r.due \in BOOLEAN
      /\ NoPass \in Passes \cup {NoPass} /\ settledState(st, a) \in ReferenceStates
  BY DEF Row, settledState, ReferenceStates
<1> DEFINE x == RowOf(r.status, r.stateAt, r.reference, NoPass, TRUE)
           y == RowOf(r.status, r.stateAt, r.reference, NoPass, r.due)
           z == RowOf(r.status, r.stateAt, settledState(st, a), NoPass, TRUE)
<1>2. /\ [r EXCEPT !.claim = NoPass, !.due = TRUE] = x
      /\ [r EXCEPT !.claim = NoPass] = y
      /\ [r EXCEPT !.claim = NoPass, !.due = TRUE, !.reference = settledState(st, a)] = z
  <2> PICK ref \in ReferenceStates : ref = settledState(st, a)
    BY <1>1
  <2>1. [r EXCEPT !.claim = NoPass, !.due = TRUE] = x
    BY <1>1, RowUpdates
  <2>2. [r EXCEPT !.claim = NoPass] = y
    BY <1>1, RowUpdates
  <2>3. [r EXCEPT !.claim = NoPass, !.due = TRUE, !.reference = ref]
          = RowOf(r.status, r.stateAt, ref, NoPass, TRUE)
    BY <1>1, TRUE \in BOOLEAN, RowReleased, Zenon
  <2> QED
    BY <2>1, <2>2, <2>3, Zenon
<1>3. /\ x \in Row /\ x.status = r.status /\ x.stateAt = r.stateAt /\ x.reference = r.reference
      /\ y \in Row /\ y.status = r.status /\ y.stateAt = r.stateAt /\ y.reference = r.reference
  BY <1>1 DEF Row, RowOf
<1>4. /\ z \in Row /\ z.status = r.status /\ z.stateAt = r.stateAt
      /\ z.reference = settledState(st, a)
  BY <1>1 DEF Row, RowOf
<1>5. finishEvidenceReference(r, st, a)
        = IF r.reference # st THEN x ELSE IF a = "error" THEN y ELSE z
  BY <1>2, Zenon DEF finishEvidenceReference
<1> HIDE DEF x, y, z
<1> QED
  BY <1>3, <1>4, <1>5

LEMMA SettleKeeps ==
  ASSUME FilesInv, NEW p \in Passes, NEW c \in Cases, settle(p, c)
  PROVE  FilesInv'
<1>1. /\ FilesTypeOK /\ evidence \in [Cases -> Row] /\ passRows \in [Passes -> Claims]
      /\ answers \in [Passes -> PassAnswers] /\ answers[p][c] # "none"
      /\ answers' = [answers EXCEPT ![p][c] = "none"]
      /\ passRows' = [passRows EXCEPT ![p][c] = "none"]
      /\ UNCHANGED <<oxyEvents, recorded, oxyHolds, admitted, passAt, runVars, failures>>
      /\ CaseFits(c) /\ ClaimFits(p, c)
  BY FilesTyped DEF FilesInv, settle
<1>2. passRows[p][c] \in Owed /\ answers[p][c] \in {"yes", "no", "error"}
  BY <1>1 DEF ClaimFits, Claims, PassAnswers
<1>3. /\ answers' \in [Passes -> PassAnswers] /\ passRows' \in [Passes -> Claims]
      /\ answers'[p][c] = "none" /\ passRows'[p][c] = "none"
      /\ \A q \in Passes, d \in Cases : q # p \/ d # c =>
           answers'[q][d] = answers[q][d] /\ passRows'[q][d] = passRows[q][d]
  BY <1>1 DEF PassAnswers, Claims
<1>4. /\ evidence' \in [Cases -> Row] /\ \A d \in Cases \ {c} : evidence'[d] = evidence[d]
      /\ evidence'[c].status = evidence[c].status /\ evidence'[c].stateAt = evidence[c].stateAt
      /\ \/ evidence'[c].reference = evidence[c].reference
         \/ /\ evidence[c].reference = passRows[p][c] /\ answers[p][c] # "error"
            /\ evidence'[c].reference = settledState(passRows[p][c], answers[p][c])
  <2>1. CASE evidence[c].claim = p
    <3> DEFINE next == finishEvidenceReference(evidence[c], passRows[p][c], answers[p][c])
    <3>1. evidence' = [evidence EXCEPT ![c] = next]
      BY <2>1 DEF settle
    <3>2. /\ next \in Row /\ next.status = evidence[c].status /\ next.stateAt = evidence[c].stateAt
          /\ \/ next.reference = evidence[c].reference
             \/ /\ evidence[c].reference = passRows[p][c] /\ answers[p][c] # "error"
                /\ next.reference = settledState(passRows[p][c], answers[p][c])
      BY <1>1, <1>2, RowSettled
    <3> HIDE DEF next
    <3> QED
      BY <1>1, <3>1, <3>2
  <2>2. CASE evidence[c].claim # p
    BY <1>1, <2>2 DEF settle
  <2> QED
    BY <2>1, <2>2
<1>5. FilesTypeOK'
  BY <1>1, <1>3, <1>4 DEF FilesTypeOK, PassAnswers, Claims, runVars
<1>6. \A d \in Cases \ {c} : SameRow(d)
  BY <1>4 DEF SameRow
<1>7. OxyStatus' = OxyStatus /\ (Current(c) => Current(c)')
  BY <1>1, <1>4 DEF OxyStatus, Current
\* What the row has become, if anything: Oxy has said so, or holds it no more.
<1>8. \/ evidence'[c].reference = evidence[c].reference
      \/ /\ evidence[c].reference = "pending" /\ evidence'[c].reference = "refused"
      \/ /\ evidence[c].reference = "pending" /\ evidence'[c].reference = "registered"
         /\ c \in oxyHolds /\ Current(c)
      \/ /\ evidence[c].reference = "removal_pending" /\ evidence'[c].reference = "removed"
         /\ c \notin oxyHolds
  BY <1>1, <1>2, <1>4 DEF ClaimFits, settledState, Owed
<1>9. CaseFits(c)'
  BY <1>1, <1>4, <1>7, <1>8 DEF CaseFits, runVars
<1>10. \A d \in Cases \ {c} : CaseFits(d)'
  BY <1>1, <1>6, CaseSteady DEF FilesInv, runVars
<1>11. ASSUME NEW q \in Passes PROVE ClaimFits(q, c)'
  <2>1. CASE q = p
    BY <2>1, <1>3 DEF ClaimFits
  <2>2. CASE q # p
    <3>1. ClaimFits(q, c) /\ answers'[q][c] = answers[q][c] /\ passRows'[q][c] = passRows[q][c]
      BY <2>2, <1>3 DEF FilesInv
    <3> QED
      BY <3>1, <1>1, <1>4, <1>7, <1>8 DEF ClaimFits
  <2> QED
    BY <2>1, <2>2
<1>12. \A q \in Passes, d \in Cases \ {c} : ClaimFits(q, d)'
  BY <1>1, <1>3, <1>6, ClaimSteady DEF FilesInv
<1>13. \A q \in Passes : PassRests(q)'
  <2> TAKE q \in Passes
  <2>1. CASE q = p
    BY <2>1, <1>1 DEF FilesInv, PassRests, Nothing
  <2>2. CASE q # p
    BY <2>2, <1>1 DEF FilesInv, PassRests, Nothing
  <2> QED
    BY <2>1, <2>2
<1> QED
  BY <1>1, <1>5, <1>9, <1>10, <1>11, <1>12, <1>13 DEF FilesInv, DeletionLast

LEMMA DiesKeeps ==
  ASSUME FilesInv, NEW p \in Passes, PassDies(p)
  PROVE  FilesInv'
<1>1. /\ FilesTypeOK /\ passAt' = [passAt EXCEPT ![p] = "idle"]
      /\ passRows' = [passRows EXCEPT ![p] = Nothing]
      /\ answers' = [answers EXCEPT ![p] = Nothing]
      /\ UNCHANGED <<oxyEvents, recorded, oxyHolds, admitted, evidence, runVars>>
      /\ failures' \in 0..MaxFailures
  BY FilesTyped DEF FilesInv, PassDies
<1>2. Nothing \in Claims /\ Nothing \in PassAnswers /\ \A c \in Cases : Nothing[c] = "none"
  BY DEF Nothing, Claims, PassAnswers
<1>3. /\ passAt' \in [Passes -> {"idle", "add", "remove"}] /\ passRows' \in [Passes -> Claims]
      /\ answers' \in [Passes -> PassAnswers]
      /\ passRows'[p] = Nothing /\ answers'[p] = Nothing
      /\ \A q \in Passes \ {p} : /\ passRows'[q] = passRows[q] /\ answers'[q] = answers[q]
                                 /\ passAt'[q] = passAt[q]
  BY <1>1, <1>2, FilesTyped
<1>4. FilesTypeOK'
  BY <1>1, <1>3 DEF FilesTypeOK, Claims, PassAnswers, runVars
<1>5. \A c \in Cases : CaseFits(c)'
  BY <1>1, CaseSteady DEF FilesInv, SameRow, runVars
<1>6. \A q \in Passes, c \in Cases : ClaimFits(q, c)'
  <2> TAKE q \in Passes, c \in Cases
  <2>1. CASE q = p
    BY <2>1, <1>2, <1>3 DEF ClaimFits
  <2>2. CASE q # p
    BY <2>2, <1>1, <1>3, ClaimSteady DEF FilesInv, SameRow
  <2> QED
    BY <2>1, <2>2
<1>7. \A q \in Passes : PassRests(q)'
  BY <1>1, <1>3 DEF FilesInv, PassRests, Nothing
<1> QED
  BY <1>1, <1>4, <1>5, <1>6, <1>7 DEF FilesInv, DeletionLast

LEMMA DueKeeps ==
  ASSUME FilesInv, NEW c \in Cases, FallsDue(c)
  PROVE  FilesInv'
<1> DEFINE r == evidence[c]
           next == RowOf(r.status, r.stateAt, r.reference, r.claim, TRUE)
<1>1. /\ FilesTypeOK /\ evidence \in [Cases -> Row] /\ failures' \in 0..MaxFailures
      /\ evidence' = [evidence EXCEPT ![c].due = TRUE]
      /\ UNCHANGED <<oxyEvents, recorded, oxyHolds, admitted, passVars, runVars>>
  BY FilesTyped DEF FilesInv, FallsDue
<1>2. r \in Row /\ r.status \in FileStatuses /\ r.stateAt \in 0..MaxEvents
      /\ r.reference \in ReferenceStates /\ r.claim \in Passes \cup {NoPass}
  BY <1>1 DEF Row
<1>3. /\ next \in Row /\ next.status = r.status /\ next.stateAt = r.stateAt
      /\ next.reference = r.reference
  BY <1>2 DEF Row, RowOf
<1>4. evidence' = [evidence EXCEPT ![c] = next]
  BY <1>1, <1>2, RowUpdates
<1> HIDE DEF next
<1>5. FilesTypeOK'
  BY <1>1, <1>3, <1>4 DEF FilesTypeOK, passVars, runVars
<1>6. \A d \in Cases : SameRow(d)
  BY <1>1, <1>3, <1>4 DEF SameRow
<1>7. \A p \in Passes : PassRests(p)'
  BY <1>1 DEF FilesInv, PassRests, passVars, Nothing
<1> QED
  BY <1>1, <1>5, <1>6, <1>7, FilesQuiet DEF passVars, runVars

LEMMA FinishKeeps ==
  ASSUME FilesInv, finishReconciliation
  PROVE  FilesInv'
<1> DEFINE told == (oxyHolds \ (before \ inventory))
                     \cup (IF OxyStatus = "active" THEN inventory ELSE {})
<1>1. /\ FilesTypeOK /\ runListed = Cases /\ running' = FALSE
      /\ runListed' = {} /\ inventory' = {} /\ before' = {}
      /\ oxyHolds' \in {oxyHolds, told}
      /\ UNCHANGED <<oxyEvents, recorded, admitted, evidence, passVars, runs, failures>>
  BY DEF FilesInv, finishReconciliation
<1>2. FilesTypeOK'
  BY <1>1 DEF FilesTypeOK, passVars
<1>3. ASSUME NEW c \in Cases
      PROVE  /\ CaseFits(c)'
             /\ \A q \in Passes : ClaimFits(q, c)'
  <2>1. CaseFits(c)
    BY DEF FilesInv
  <2>2. c \in oxyHolds' /\ c \notin oxyHolds => OxyStatus = "active" /\ c \in inventory
    BY <1>1
  <2>3. c \notin oxyHolds' /\ c \in oxyHolds => c \in before /\ c \notin inventory
    BY <1>1
  <2>4. c \in oxyHolds' /\ c \notin oxyHolds =>
          evidence[c].reference \notin {"absent", "removal_pending", "removed"}
    BY <2>1, <2>2 DEF CaseFits
  <2>5. c \notin oxyHolds' /\ c \in oxyHolds => evidence[c].reference \notin {"pending", "registered"}
    BY <2>1, <2>3, <1>1 DEF CaseFits
  <2> HIDE DEF told
  <2> QED
    BY <2>4, <2>5, <1>1, HoldsChange DEF passVars
<1>4. \A q \in Passes : PassRests(q)'
  BY <1>1 DEF FilesInv, PassRests, passVars, Nothing
<1> QED
  BY <1>1, <1>2, <1>3, <1>4 DEF FilesInv, DeletionLast

LEMMA FilesInvNext == FilesInv /\ [FilesNext]_fileVars => FilesInv'
<1> SUFFICES ASSUME FilesInv, [FilesNext]_fileVars PROVE FilesInv'
  OBVIOUS
<1>0. FilesTypeOK
  BY DEF FilesInv
<1>1. ASSUME NEW c \in Cases, assertEvidenceOwnedByTenant(c) PROVE FilesInv'
  <2>1. FilesTypeOK'
    BY <1>0, <1>1 DEF assertEvidenceOwnedByTenant, FilesTypeOK, passVars, runVars
  <2> QED
    BY <1>1, <2>1, FilesQuiet
    DEF assertEvidenceOwnedByTenant, FilesInv, PassRests, SameRow, passVars, runVars, Nothing
<1>2. ASSUME NEW p \in Passes, NextGroup(p) PROVE FilesInv'
  <2>1. FilesTypeOK'
    BY <1>0, <1>2 DEF NextGroup, FilesTypeOK, runVars
  <2>2. \A q \in Passes : PassRests(q)'
    BY <1>0, <1>2 DEF NextGroup, FilesInv, PassRests, FilesTypeOK, Nothing
  <2> QED
    BY <1>2, <2>1, <2>2, FilesQuiet DEF NextGroup, SameRow, runVars
<1>3. CASE claimReconciliation
  <2>1. FilesTypeOK'
    BY <1>0, <1>3 DEF claimReconciliation, FilesTypeOK, passVars
  <2>2. /\ before' = oxyHolds /\ runListed' = {} /\ inventory' = {}
        /\ UNCHANGED <<oxyEvents, recorded, oxyHolds, evidence, passVars>>
    BY <1>3 DEF claimReconciliation
  <2>3. ASSUME NEW c \in Cases PROVE CaseFits(c)' /\ \A p \in Passes : ClaimFits(p, c)'
    <3>1. CaseFits(c) /\ \A p \in Passes : ClaimFits(p, c)
      BY DEF FilesInv
    <3>2. OxyStatus' = OxyStatus /\ Current(c)' = Current(c)
      BY <2>2 DEF OxyStatus, Current
    <3> QED
      BY <2>2, <3>1, <3>2 DEF CaseFits, ClaimFits, passVars
  <2> QED
    BY <2>1, <2>2, <2>3 DEF FilesInv, DeletionLast, PassRests, passVars, Nothing
<1>4. ASSUME NEW c \in Cases, referencedEvidenceInventory(c) PROVE FilesInv'
  <2>1. /\ runListed' = runListed \cup {c} /\ inventory' = inventory \cup ({c} \cap Referenced)
        /\ UNCHANGED <<oxyEvents, recorded, oxyHolds, admitted, evidence, passVars, before,
                       running, runs, failures>>
    BY <1>4 DEF referencedEvidenceInventory
  <2>2. FilesTypeOK'
    BY <1>0, <2>1 DEF FilesTypeOK, passVars
  <2>3. ASSUME NEW d \in Cases PROVE CaseFits(d)' /\ \A p \in Passes : ClaimFits(p, d)'
    <3>1. CaseFits(d) /\ \A p \in Passes : ClaimFits(p, d)
      BY DEF FilesInv
    <3>2. OxyStatus' = OxyStatus /\ Current(d)' = Current(d)
      BY <2>1 DEF OxyStatus, Current
    <3> QED
      BY <2>1, <3>1, <3>2 DEF CaseFits, ClaimFits, Referenced, passVars
  <2> QED
    BY <2>1, <2>2, <2>3 DEF FilesInv, DeletionLast, PassRests, passVars, Nothing
<1>5. CASE UNCHANGED fileVars
  <2>1. FilesTypeOK'
    BY <1>0, <1>5 DEF fileVars, FilesTypeOK
  <2> QED
    BY <1>5, <2>1, FilesQuiet DEF fileVars, FilesInv, PassRests, SameRow, Nothing
<1> QED
  BY <1>1, <1>2, <1>3, <1>4, <1>5, ChangesKeeps, InsertKeeps, AcceptKeeps, ClaimDueKeeps,
     AddKeeps, RemoveKeeps, SettleKeeps, DiesKeeps, DueKeeps, FinishKeeps
  DEF FilesNext, PassStep

LEMMA FilesInvariant == FilesSpec => []FilesInv
  BY FilesInvInit, FilesInvNext, PTL DEF FilesSpec

(***************************************************************************)
(* The rows of case_evidence_files and what every pass and reconciliation  *)
(* holds are of their types.                                               *)
(***************************************************************************)
THEOREM FilesTypeCorrect == FilesSpec => []FilesTypeOK
  BY FilesInvariant, PTL DEF FilesInv

(***************************************************************************)
(* Oxy's record is exact, for any number of cases, passes, events, lost    *)
(* answers and reconciliations (addReferences, removeReferences, settle).  *)
(***************************************************************************)
THEOREM ReferencesExact == FilesSpec => []OxyRecordExact
<1>1. FilesInv => OxyRecordExact
  BY DEF FilesInv, CaseFits, OxyRecordExact
<1> QED
  BY <1>1, FilesInvariant, PTL

(***************************************************************************)
(* A jury is shown a file Oxy serves, whatever the order its events are    *)
(* delivered in (evidenceAfterEvent), and however late the row is written. *)
(***************************************************************************)
THEOREM ShownFilesServable == FilesSpec => []ShownIsServable
<1>1. FilesInv => ShownIsServable
  <2> SUFFICES ASSUME FilesInv, recorded = DOMAIN oxyEvents, NEW c \in Cases,
                      evidence[c].reference \notin Owed \cup {"absent"}, ~withheld(c)
               PROVE  OxyStatus = "active"
    BY DEF ShownIsServable
  <2>1. /\ evidence[c].status = "active" /\ evidence[c].reference # "refused" /\ CaseFits(c)
        /\ evidence[c].reference \in ReferenceStates
        /\ oxyEvents \in Seq(FileStatuses)
    BY FilesTyped DEF withheld, FilesInv, Row
  <2>2. evidence[c].reference = "registered" /\ Current(c)
    BY <2>1 DEF CaseFits, ReferenceStates, Owed
  <2>3. CASE oxyEvents = <<>>
    BY <2>3 DEF OxyStatus
  <2>4. CASE oxyEvents # <<>>
    <3>1. Len(oxyEvents) \in recorded
      BY <2>1, <2>4
    <3> QED
      BY <3>1, <2>1, <2>2 DEF Current
  <2> QED
    BY <2>3, <2>4
<1> QED
  BY <1>1, FilesInvariant, PTL

-----------------------------------------------------------------------------
(***************************************************************************)
(* The secrets of a webhook endpoint, for any number of requests and any   *)
(* overlaps they ask for.                                                  *)
(***************************************************************************)
USE EndpointsAssumption

(***************************************************************************)
(* An unregistered endpoint has no secret.  Each secret expires when the   *)
(* next one takes over, the last one never; the first signs already.       *)
(***************************************************************************)
Chained ==
  /\ (secrets = <<>>) <=> (endpoint = "absent")
  /\ secrets # <<>> => /\ secrets[1].activatesAt <= time
                       /\ secrets[Len(secrets)].expiresAt = Never
  /\ \A v \in 1..Len(secrets) - 1 :
       secrets[v].expiresAt = secrets[v + 1].activatesAt

\* Only the last secret may have yet to take over.
OthersSign == \A v \in 1..Len(secrets) - 1 : secrets[v].activatesAt <= time

(***************************************************************************)
(* What a request goes on with: a clock it has read, an endpoint that is   *)
(* registered, and a version that signed at that time, unless a newer one  *)
(* has been made since.                                                    *)
(***************************************************************************)
RequestFits(k) ==
  /\ k.now <= time
  /\ k.at \in {"rotate", "commit"} => endpoint # "absent"
  /\ k.at = "commit" => /\ k.version \in 1..Len(secrets)
                        /\ secrets[k.version].activatesAt <= k.now

EndpointsInv ==
  /\ EndpointsTypeOK /\ Chained /\ OthersSign
  /\ \A c \in Callers : RequestFits(caller[c])

Request == [at : {"idle", "register", "rotate", "commit"}, now : 0..MaxTime, version : Nat]
Secret == [activatesAt : Nat, expiresAt : Nat]

LEMMA EndpointsTyped ==
  EndpointsTypeOK <=> /\ time \in 0..MaxTime /\ endpoint \in {"absent", "active", "disabled"}
                      /\ secrets \in Seq(Secret) /\ caller \in [Callers -> Request]
  BY DEF EndpointsTypeOK, Request, Secret

\* The newest live version is the last one made.
LEMMA NewestIsLast ==
  ASSUME EndpointsTypeOK, Chained, secrets # <<>>, NEW now \in 0..MaxTime
  PROVE  Len(secrets) \in LiveAt(now) /\ Newest(LiveAt(now)) = Len(secrets)
<1>1. Len(secrets) \in 1..Len(secrets) /\ DOMAIN secrets = 1..Len(secrets)
  BY DEF EndpointsTypeOK
<1>2. Len(secrets) \in LiveAt(now)
  BY <1>1 DEF Chained, LiveAt, Never
<1>3. LiveAt(now) \subseteq 1..Len(secrets)
  BY <1>1 DEF LiveAt
<1>4. \A u \in LiveAt(now) : u <= Len(secrets)
  BY <1>3, <1>1
<1>5. /\ Newest(LiveAt(now)) \in LiveAt(now)
      /\ \A u \in LiveAt(now) : u <= Newest(LiveAt(now))
  BY <1>2, <1>4 DEF Newest
<1> QED
  BY <1>1, <1>2, <1>3, <1>5

LEMMA EndpointsInvInit == EndpointsInit => EndpointsInv
  BY EndpointsTyped DEF EndpointsInit, EndpointsInv, EndpointsTypeOK, Chained, OthersSign, RequestFits,
         Unread

\* A request that changes neither the clock, the endpoint nor its secrets.
LEMMA RequestStep ==
  ASSUME EndpointsInv, NEW c \in Callers, NEW k \in Request, RequestFits(k),
         UNCHANGED <<time, endpoint, secrets>>, caller' = [caller EXCEPT ![c] = k]
  PROVE  EndpointsInv'
<1>1. EndpointsTypeOK'
  BY EndpointsTyped DEF EndpointsInv, EndpointsTypeOK, Request
<1>2. \A x \in Callers : caller'[x] = IF x = c THEN k ELSE caller[x]
  BY DEF EndpointsInv, EndpointsTypeOK
<1>3. \A x \in Callers : RequestFits(caller[x])'
  BY <1>2 DEF EndpointsInv, RequestFits
<1> QED
  BY <1>1, <1>3 DEF EndpointsInv, Chained, OthersSign

LEMMA UnreadFits == EndpointsInv => Unread \in Request /\ RequestFits(Unread)
  BY DEF EndpointsInv, EndpointsTypeOK, Unread, Request, RequestFits

LEMMA RotateKeeps ==
  ASSUME EndpointsInv, NEW c \in Callers, NEW overlap \in Overlaps,
         rotateWebhookSecret(c, overlap)
  PROVE  EndpointsInv'
<1> DEFINE k == caller[c]
           n == Len(secrets)
           cutover == k.now + overlap
<1>0. /\ k \in Request /\ k.at = "commit" /\ RequestFits(k)
      /\ secrets \in Seq(Secret) /\ n \in Nat /\ overlap \in Nat /\ overlap < 100
      /\ time \in 0..MaxTime
      /\ time' = time /\ endpoint' = endpoint
  BY EndpointsTyped DEF EndpointsInv, rotateWebhookSecret
<1>1. CASE k.version # n
  <2>1. UNCHANGED <<time, endpoint, secrets>> /\ caller' = [caller EXCEPT ![c] = Unread]
    BY <1>1 DEF rotateWebhookSecret, Answered
  <2> QED
    BY <2>1, UnreadFits, RequestStep
<1>2. CASE k.version = n
  <2>1. /\ n \in 1..n /\ secrets[n].activatesAt <= k.now /\ k.now <= time
        /\ k.now \in Nat /\ secrets[n] \in Secret /\ endpoint # "absent"
    BY <1>0, <1>2 DEF RequestFits, Request
  <2>2. cutover \in Nat /\ k.now <= cutover /\ cutover < Never
    BY <1>0, <2>1 DEF Never, Request
  <2> HIDE DEF cutover
  <2>3. /\ secrets' \in Seq(Secret) /\ Len(secrets') = n + 1
        /\ secrets'[n + 1] = [activatesAt |-> cutover, expiresAt |-> Never]
        /\ secrets'[n] = [secrets[n] EXCEPT !.expiresAt = cutover]
        /\ \A v \in 1..n - 1 : secrets'[v] = secrets[v]
    <3> DEFINE base == [secrets EXCEPT ![n].expiresAt = cutover]
               last == [activatesAt |-> cutover, expiresAt |-> Never]
    <3>1. secrets' = Append(base, last)
      BY <1>2 DEF rotateWebhookSecret, cutover
    <3>2. [secrets[n] EXCEPT !.expiresAt = cutover] \in Secret /\ last \in Secret
      <4>1. [secrets[n] EXCEPT !.expiresAt = cutover] \in Secret
        BY <2>1, <2>2 DEF Secret
      <4>2. last \in Secret
        BY <2>2 DEF Secret, Never
      <4> QED
        BY <4>1, <4>2
    <3>3. base = [secrets EXCEPT ![n] = [secrets[n] EXCEPT !.expiresAt = cutover]]
      BY <1>0, <2>1
    <3>4. base \in Seq(Secret) /\ Len(base) = n
      BY <1>0, <2>1, <3>2, <3>3
    <3>5. /\ base[n] = [secrets[n] EXCEPT !.expiresAt = cutover]
          /\ \A v \in 1..n - 1 : base[v] = secrets[v]
      <4>1. DOMAIN secrets = 1..n /\ n \in 1..n /\ 1..n - 1 \subseteq 1..n \ {n}
        BY <1>0, <2>1
      <4> HIDE DEF n
      <4> QED
        BY <4>1, <3>3
    <3> HIDE DEF base, last
    <3>6. /\ Append(base, last) \in Seq(Secret) /\ Len(Append(base, last)) = n + 1
          /\ Append(base, last)[n + 1] = last
          /\ \A v \in 1..n : Append(base, last)[v] = base[v]
      BY <3>4, <3>2, <1>0
    <3>7. 1..n - 1 \subseteq 1..n
      BY <1>0
    <3> QED
      BY <3>1, <3>4, <3>5, <3>6, <3>7, <2>1 DEF last
  <2>4. caller' = [caller EXCEPT ![c] = Unread]
    BY DEF rotateWebhookSecret, Answered
  <2>5. EndpointsTypeOK'
    BY <1>0, <2>3, <2>4, UnreadFits, EndpointsTyped DEF EndpointsInv, EndpointsTypeOK, Request, Secret
  <2>6. \A v \in 1..n : secrets'[v].activatesAt = secrets[v].activatesAt
    <3>1. secrets'[n].activatesAt = secrets[n].activatesAt
      BY <2>1, <2>3 DEF Secret
    <3>2. \A v \in 1..n : v = n \/ v \in 1..n - 1
      BY <1>0
    <3> QED
      BY <3>1, <3>2, <2>3
  <2>7. Chained'
    <3>1. secrets # <<>> /\ secrets' # <<>>
      BY <2>1, <2>3, <1>0
    <3>2. secrets'[1].activatesAt <= time
      BY <2>6, <2>1, <3>1 DEF EndpointsInv, Chained
    <3>3. secrets'[Len(secrets')].expiresAt = Never
      BY <2>3
    <3>4. ASSUME NEW v \in 1..Len(secrets') - 1
          PROVE  secrets'[v].expiresAt = secrets'[v + 1].activatesAt
      <4>1. CASE v = n
        BY <4>1, <2>1, <2>3 DEF Secret
      <4>2. CASE v # n
        <5>1. v \in 1..n - 1 /\ v + 1 \in 1..n
          <6>1. v \in 1..n
            BY <2>3, <1>0
          <6> HIDE DEF n
          <6> QED
            BY <4>2, <6>1, <1>0
        <5> QED
          BY <5>1, <2>3, <2>6 DEF EndpointsInv, Chained
      <4> QED
        BY <4>1, <4>2
    <3> QED
      BY <3>1, <3>2, <3>3, <3>4, <1>0, <2>1 DEF Chained, Never
  <2>8. OthersSign'
    <3>1. secrets[n].activatesAt \in Nat
      BY <2>1 DEF Secret
    <3>2. secrets[n].activatesAt <= time
      BY <2>1, <3>1, <1>0
    <3>3. \A v \in 1..Len(secrets') - 1 : v \in 1..n /\ (v = n \/ v \in 1..Len(secrets) - 1)
      BY <2>3, <1>0
    <3>4. \A v \in 1..Len(secrets') - 1 : secrets[v].activatesAt <= time
      BY <3>2, <3>3 DEF EndpointsInv, OthersSign
    <3> QED
      BY <3>3, <3>4, <2>6, <1>0 DEF OthersSign
  <2>9. \A x \in Callers : RequestFits(caller[x])'
    <3> TAKE x \in Callers
    <3>1. caller'[x] = IF x = c THEN Unread ELSE caller[x]
      BY <2>4 DEF EndpointsInv, EndpointsTypeOK
    <3>2. RequestFits(caller[x]) /\ RequestFits(Unread)
      BY UnreadFits DEF EndpointsInv
    <3>3. CASE x = c
      <4>1. caller'[x] = Unread
        BY <3>1, <3>3
      <4> QED
        BY <4>1, <3>2, <1>0 DEF RequestFits, Unread
    <3>4. CASE x # c
      <4>1. caller'[x] = caller[x]
        BY <3>1, <3>4
      <4>2. Len(secrets') = n + 1 /\ 1..n \subseteq 1..n + 1
        BY <2>3, <1>0
      <4>3. caller[x].at = "commit" =>
              /\ caller[x].version \in 1..n
              /\ secrets[caller[x].version].activatesAt <= caller[x].now
        BY <3>2 DEF RequestFits
      <4> HIDE DEF n
      <4> QED
        BY <4>1, <4>2, <4>3, <3>2, <2>6, <1>0 DEF RequestFits
    <3> QED
      BY <3>3, <3>4
  <2> QED
    BY <2>5, <2>7, <2>8, <2>9 DEF EndpointsInv
<1> QED
  BY <1>1, <1>2

LEMMA EndpointsInvNext == EndpointsInv /\ [EndpointsNext]_endpointVars => EndpointsInv'
<1> SUFFICES ASSUME EndpointsInv, [EndpointsNext]_endpointVars PROVE EndpointsInv'
  OBVIOUS
<1>0. /\ caller \in [Callers -> Request] /\ time \in 0..MaxTime /\ secrets \in Seq(Secret)
      /\ \A c \in Callers : RequestFits(caller[c])
  BY EndpointsTyped DEF EndpointsInv
<1>1. CASE Tick
  <2>1. time' \in 0..MaxTime /\ time <= time' /\ UNCHANGED <<endpoint, secrets, caller>>
    BY <1>1, <1>0 DEF Tick
  <2>2. EndpointsTypeOK' /\ Chained' /\ OthersSign'
    <3>1. \A v \in 1..Len(secrets) : secrets[v] \in Secret
      BY <1>0
    <3>2. \A v \in 1..Len(secrets) : secrets[v].activatesAt \in Nat
      BY <3>1 DEF Secret
    <3>3. Len(secrets) \in Nat /\ 1..Len(secrets) - 1 \subseteq 1..Len(secrets)
      BY <1>0
    <3>4. secrets # <<>> => 1 \in 1..Len(secrets)
      BY <1>0
    <3>5. ASSUME NEW v \in 1..Len(secrets), secrets[v].activatesAt <= time
          PROVE  secrets[v].activatesAt <= time'
      BY <3>2, <3>5, <2>1, <1>0
    <3>6. OthersSign'
      BY <3>3, <3>5, <2>1 DEF EndpointsInv, OthersSign
    <3>7. Chained'
      BY <3>4, <3>5, <2>1 DEF EndpointsInv, Chained, Never
    <3> QED
      BY <2>1, <3>6, <3>7 DEF EndpointsInv, EndpointsTypeOK
  <2>3. \A c \in Callers : RequestFits(caller[c])'
    BY <2>1, <1>0 DEF RequestFits, Request
  <2> QED
    BY <2>2, <2>3 DEF EndpointsInv
<1>2. CASE disableWebhookEndpoint
  BY <1>2 DEF disableWebhookEndpoint, EndpointsInv, EndpointsTypeOK, Chained, OthersSign,
       RequestFits
<1>3. ASSUME NEW c \in Callers, FindEndpoint(c) PROVE EndpointsInv'
  <2>1. CASE endpoint = "absent"
    <3>1. /\ caller' = [caller EXCEPT ![c] = [at |-> "register", now |-> time,
                                              version |-> caller[c].version]]
          /\ UNCHANGED <<time, endpoint, secrets>>
      BY <1>0, <1>3, <2>1 DEF FindEndpoint, Request
    <3>2. /\ [at |-> "register", now |-> time, version |-> caller[c].version] \in Request
          /\ RequestFits([at |-> "register", now |-> time, version |-> caller[c].version])
      BY <1>0 DEF Request, RequestFits
    <3> QED
      BY <3>1, <3>2, RequestStep
  <2>2. CASE endpoint # "absent"
    BY <1>3, <2>2 DEF FindEndpoint, EndpointsInv, EndpointsTypeOK, Chained, OthersSign,
         RequestFits
  <2> QED
    BY <2>1, <2>2
<1>4. ASSUME NEW c \in Callers, registerWebhookEndpoint(c) PROVE EndpointsInv'
  <2>1. CASE endpoint = "absent"
    <3>1. /\ secrets = <<>> /\ endpoint' = "active" /\ time' = time
          /\ secrets' = <<[activatesAt |-> caller[c].now, expiresAt |-> Never]>>
          /\ caller' = [caller EXCEPT ![c] = Unread]
      BY <1>4, <2>1 DEF registerWebhookEndpoint, Answered, EndpointsInv, Chained
    <3>2. caller[c].now \in Nat /\ caller[c].now <= time /\ Never \in Nat
      BY <1>0 DEF Request, RequestFits, Never
    <3>3. [activatesAt |-> caller[c].now, expiresAt |-> Never] \in Secret
      BY <3>2 DEF Secret
    <3>4. secrets' \in Seq(Secret) /\ Len(secrets') = 1
          /\ secrets'[1] = [activatesAt |-> caller[c].now, expiresAt |-> Never]
      BY <3>1, <3>3
    <3>5. EndpointsTypeOK'
      BY <3>1, <3>4, <1>0, UnreadFits DEF EndpointsTypeOK, Request, Secret
    <3>6. Chained' /\ OthersSign'
      BY <3>1, <3>2, <3>4 DEF Chained, OthersSign, Never
    <3>7. ASSUME NEW x \in Callers PROVE RequestFits(caller[x])'
      <4>1. caller'[x] = IF x = c THEN Unread ELSE caller[x]
        BY <3>1, <1>0
      <4>2. caller[x].at \notin {"rotate", "commit"} /\ caller[x].now <= time
        BY <1>0, <2>1 DEF RequestFits
      <4> QED
        BY <4>1, <4>2, <3>1, <1>0 DEF RequestFits, Unread
    <3> QED
      BY <3>5, <3>6, <3>7 DEF EndpointsInv
  <2>2. CASE endpoint # "absent"
    BY <1>4, <2>2, UnreadFits, RequestStep DEF registerWebhookEndpoint, Answered
  <2> QED
    BY <2>1, <2>2
<1>5. ASSUME NEW c \in Callers, StartRotation(c) PROVE EndpointsInv'
  <2>1. /\ caller' = [caller EXCEPT ![c] = [at |-> "rotate", now |-> time,
                                            version |-> caller[c].version]]
        /\ UNCHANGED <<time, endpoint, secrets>>
        /\ endpoint # "absent"
    <3>1. /\ caller[c] \in Request
          /\ caller' = [caller EXCEPT ![c].at = "rotate", ![c].now = time]
          /\ UNCHANGED <<time, endpoint, secrets>> /\ endpoint # "absent"
      BY <1>0, <1>5 DEF StartRotation
    <3>2. caller' = [caller EXCEPT ![c] = [@ EXCEPT !.at = "rotate", !.now = time]]
      BY <1>0, <3>1
    <3> QED
      BY <3>1, <3>2 DEF Request
  <2>2. /\ [at |-> "rotate", now |-> time, version |-> caller[c].version] \in Request
        /\ RequestFits([at |-> "rotate", now |-> time, version |-> caller[c].version])
    BY <1>0, <2>1 DEF Request, RequestFits
  <2> QED
    BY <2>1, <2>2, RequestStep
<1>6. ASSUME NEW c \in Callers, ReadLiveSecrets(c) PROVE EndpointsInv'
  <2> DEFINE now == caller[c].now
  <2>1. caller[c] \in Request /\ caller[c].at = "rotate" /\ now \in 0..MaxTime /\ now <= time
        /\ endpoint # "absent" /\ secrets # <<>>
    BY <1>0, <1>6 DEF ReadLiveSecrets, Request, RequestFits, EndpointsInv, Chained
  <2>2. CASE MayRotate(now)
    <3>1. /\ Len(secrets) \in LiveAt(now) /\ Newest(LiveAt(now)) = Len(secrets)
          /\ Len(secrets) \in 1..Len(secrets)
      BY <2>1, NewestIsLast, <1>0 DEF EndpointsInv
    <3>2. /\ caller' = [caller EXCEPT ![c] = [at |-> "commit", now |-> now,
                                              version |-> Len(secrets)]]
          /\ UNCHANGED <<time, endpoint, secrets>>
      BY <1>0, <1>6, <2>1, <2>2, <3>1 DEF ReadLiveSecrets, Request
    <3>3. secrets[Len(secrets)].activatesAt <= now
      BY <2>2, <3>1 DEF MayRotate
    <3>4. /\ [at |-> "commit", now |-> now, version |-> Len(secrets)] \in Request
          /\ RequestFits([at |-> "commit", now |-> now, version |-> Len(secrets)])
      BY <2>1, <3>1, <3>3 DEF Request, RequestFits
    <3> QED
      BY <3>2, <3>4, RequestStep
  <2>3. CASE ~MayRotate(now)
    BY <1>6, <2>3, UnreadFits, RequestStep DEF ReadLiveSecrets, Answered
  <2> QED
    BY <2>2, <2>3
<1>7. CASE UNCHANGED endpointVars
  BY <1>7 DEF endpointVars, EndpointsInv, EndpointsTypeOK, Chained, OthersSign, RequestFits
<1> QED
  BY <1>1, <1>2, <1>3, <1>4, <1>5, <1>6, <1>7, RotateKeeps DEF EndpointsNext

LEMMA EndpointsInvariant == EndpointsSpec => []EndpointsInv
  BY EndpointsInvInit, EndpointsInvNext, PTL DEF EndpointsSpec

(***************************************************************************)
(* Every secret and request is of its type, whatever rotations race.       *)
(***************************************************************************)
THEOREM EndpointsTypeCorrect == EndpointsSpec => []EndpointsTypeOK
  BY EndpointsInvariant, PTL DEF EndpointsInv

(***************************************************************************)
(* One secret signs and at most two live, for any number of requests that  *)
(* race (rotateWebhookSecret), any overlaps and any time.                  *)
(***************************************************************************)
THEOREM RotationsOverlap == EndpointsSpec => []SecretsOverlap
<1>1. EndpointsInv => SecretsOverlap
  <2> SUFFICES ASSUME EndpointsInv, secrets # <<>>
               PROVE  /\ signingSecretAt(time) # {}
                      /\ \A u, v \in LiveAt(time) : u <= v + 1
    BY DEF SecretsOverlap
  <2> DEFINE n == Len(secrets)
  <2>1. /\ secrets \in Seq(Secret) /\ time \in 0..MaxTime /\ n \in Nat \ {0}
        /\ DOMAIN secrets = 1..n /\ \A v \in 1..n : secrets[v] \in Secret
    BY EndpointsTyped DEF EndpointsInv
  <2>2. n \in LiveAt(time)
    BY <2>1, NewestIsLast DEF EndpointsInv
  <2>3. signingSecretAt(time) # {}
    <3>1. CASE secrets[n].activatesAt <= time
      BY <3>1, <2>2 DEF signingSecretAt
    <3>2. CASE ~(secrets[n].activatesAt <= time)
      <4>1. n # 1 /\ n - 1 \in 1..n - 1 /\ n - 1 \in 1..n
        BY <3>2, <2>1 DEF EndpointsInv, Chained
      <4>2. secrets[n - 1].activatesAt <= time
        BY <4>1 DEF EndpointsInv, OthersSign
      <4>3. secrets[n - 1].expiresAt = secrets[n].activatesAt
        BY <4>1, <2>1 DEF EndpointsInv, Chained
      <4>4. secrets[n - 1].expiresAt > time
        <5>1. secrets[n] \in Secret /\ time \in Nat
          BY <2>1
        <5>2. secrets[n].activatesAt \in Nat
          BY <5>1 DEF Secret
        <5> QED
          BY <4>3, <3>2, <5>1, <5>2
      <4>5. n - 1 \in signingSecretAt(time)
        BY <4>1, <4>2, <4>4, <2>1 DEF signingSecretAt, LiveAt
      <4> QED
        BY <4>5
    <3> QED
      BY <3>1, <3>2
  <2>4. ASSUME NEW u \in LiveAt(time), NEW v \in LiveAt(time) PROVE u <= v + 1
    <3>1. u \in 1..n /\ v \in 1..n /\ secrets[v].expiresAt > time
      BY <2>1 DEF LiveAt
    <3>2. CASE v + 1 >= n
      BY <3>1, <3>2, <2>1
    <3>3. CASE v + 1 < n
      <4>1. v \in 1..n - 1 /\ v + 1 \in 1..n - 1 /\ v + 1 \in 1..n
        BY <3>1, <3>3, <2>1
      <4>2. secrets[v].expiresAt = secrets[v + 1].activatesAt
            /\ secrets[v + 1].activatesAt <= time
        BY <4>1 DEF EndpointsInv, Chained, OthersSign
      <4>3. secrets[v + 1].activatesAt \in Nat
        BY <4>1, <2>1 DEF Secret
      <4> QED
        BY <4>2, <4>3, <3>1, <2>1
    <3> QED
      BY <3>2, <3>3, <3>1, <2>1
  <2> QED
    BY <2>3, <2>4
<1> QED
  BY <1>1, EndpointsInvariant, PTL
-----------------------------------------------------------------------------
(***************************************************************************)
(* Community notes, for any number of notes, raters and handlers, and any  *)
(* fit of the ratings.                                                     *)
(***************************************************************************)
USE NotesAssumption

Scoring == [at : {"idle", "claimed", "rated", "read"}, ratings : SUBSET Rating,
            seen : [Notes -> Nat]]

LEMMA NotesTyped ==
  NotesTypeOK <=>
    /\ history \in [Notes -> Seq(NoteStatuses)]
    /\ assignment \in [Notes \X Raters -> {"none", "live", "expired", "rated"}]
    /\ ratings \subseteq Rating
    /\ rated \in [Raters -> Notes \cup {NoNote}]
    /\ withdrawing \in [Notes -> Nat]
    /\ ratedQueue \in Nat /\ announced \in [Notes -> Seq(Nat)]
    /\ scorer \in [Scorers -> Scoring]
    /\ noteMishaps \in 0..MaxNoteMishaps
  BY DEF NotesTypeOK, Scoring

(***************************************************************************)
(* A note that is assigned, being rated or rated was written.              *)
(***************************************************************************)
AssignedExist ==
  /\ \A n \in Notes, r \in Raters : assignment[<<n, r>>] # "none" => Revision(n) > 0
  /\ \A r \in Raters : rated[r] # NoNote => Revision(rated[r]) > 0

RatedExist == \A x \in ratings : Revision(x.note) > 0

\* A handler scores notes that were written when it read them.
ScoredExist ==
  \A w \in Scorers :
    /\ \A x \in scorer[w].ratings : Revision(x.note) > 0
    /\ scorer[w].at = "read" => \A x \in scorer[w].ratings : scorer[w].seen[x.note] > 0

\* The part of HistoryTells that is about one note, and nothing said of an unwritten one.
NoteTells(h, a) ==
  /\ a = [m \in 1..Len(a) |-> m + 1]
  /\ Len(h) = 0 => Len(a) = 0
  /\ Len(h) > 0 => Len(a) = Len(h) - 1
  /\ \A m \in 1..Len(h) - 1 : h[m] \notin {h[m + 1], "withdrawn"}

AllTell == \A n \in Notes : NoteTells(history[n], announced[n])

NotesInv == NotesTypeOK /\ AssignedExist /\ RatedExist /\ ScoredExist /\ AllTell

LEMMA NotesInvInit == NotesInit => NotesInv
<1> SUFFICES ASSUME NotesInit PROVE NotesInv
  OBVIOUS
<1>1. NotScoring \in Scoring /\ NotScoring.ratings = {} /\ NotScoring.at = "idle"
  BY DEF NotScoring, Scoring
<1>2. NotesTypeOK
  BY <1>1, NotesTyped DEF NotesInit, NoteStatuses
<1>3. AllTell
  BY DEF NotesInit, AllTell, NoteTells
<1> QED
  BY <1>1, <1>2, <1>3 DEF NotesInit, NotesInv, AssignedExist, RatedExist, ScoredExist

-----------------------------------------------------------------------------
(***************************************************************************)
(* The status a note moves to.                                             *)
(***************************************************************************)
LEMMA StatusScored ==
  ASSUME NEW n \in Notes, NEW R \in SUBSET Rating
  PROVE  statusFor(n, R) \in Scores
  BY DEF statusFor, Scores

\* Appending a status that differs from the last, and the revision it makes.
LEMMA AppendTells ==
  ASSUME NEW h \in Seq(NoteStatuses), NEW a \in Seq(Nat), NoteTells(h, a), Len(h) > 0,
         NEW s \in NoteStatuses, h[Len(h)] \notin {s, "withdrawn"}
  PROVE  NoteTells(Append(h, s), Append(a, Len(h) + 1))
<1> DEFINE H == Append(h, s)
           A == Append(a, Len(h) + 1)
<1>1. /\ Len(h) \in Nat \ {0} /\ Len(a) \in Nat /\ Len(a) = Len(h) - 1
  BY DEF NoteTells
<1>2. /\ Len(H) = Len(h) + 1 /\ H[Len(h) + 1] = s /\ \A m \in 1..Len(h) : H[m] = h[m]
  BY <1>1
<1>3. /\ A \in Seq(Nat) /\ Len(A) = Len(h) /\ A[Len(h)] = Len(h) + 1
      /\ \A m \in 1..Len(a) : A[m] = a[m]
  BY <1>1
<1> HIDE DEF H, A
<1>4. \A m \in 1..Len(a) : a[m] = m + 1
  <2>1. a = [m \in 1..Len(a) |-> m + 1]
    BY DEF NoteTells
  <2> QED
    BY <2>1
<1>5. A = [m \in 1..Len(A) |-> m + 1]
  <2>1. A = [m \in 1..Len(A) |-> A[m]]
    BY <1>3
  <2>2. \A m \in 1..Len(A) : A[m] = m + 1
    <3>1. \A m \in 1..Len(A) : m = Len(h) \/ m \in 1..Len(a)
      BY <1>1, <1>3
    <3> QED
      BY <3>1, <1>3, <1>4
  <2> QED
    BY <2>1, <2>2
<1>6. \A m \in 1..Len(H) - 1 : H[m] \notin {H[m + 1], "withdrawn"}
  <2> TAKE m \in 1..Len(H) - 1
  <2>1. CASE m = Len(h)
    BY <2>1, <1>1, <1>2
  <2>2. CASE m # Len(h)
    <3>1. m \in 1..Len(h)
      BY <1>1, <1>2
    <3>2. m \in 1..Len(h) - 1 /\ m + 1 \in 1..Len(h)
      BY <3>1, <2>2, <1>1
    <3> QED
      BY <3>1, <3>2, <1>2 DEF NoteTells
  <2> QED
    BY <2>1, <2>2
<1>7. Len(H) > 0 /\ Len(H) # 0 /\ Len(A) = Len(H) - 1
  BY <1>1, <1>2, <1>3
<1>8. NoteTells(H, A)
  BY <1>5, <1>6, <1>7 DEF NoteTells
<1> QED
  BY <1>8 DEF H, A

\* Each note that moves was written, to a status it may have and does not have.
Fits(S, to, from) ==
  \A n \in S : MayMove(n, from[n]) =>
    Revision(n) > 0 /\ to[n] \in NoteStatuses /\ to[n] # Status(n)

LEMMA MoveTells ==
  ASSUME NotesInv, NEW S \in SUBSET Notes, NEW to, NEW from, Fits(S, to, from),
         Move(S, to, from)
  PROVE  /\ history' \in [Notes -> Seq(NoteStatuses)] /\ announced' \in [Notes -> Seq(Nat)]
         /\ AllTell' /\ \A n \in Notes : Revision(n) > 0 => Revision(n)' > 0
<1> DEFINE won == {n \in S : MayMove(n, from[n])}
<1>1. /\ history' = [n \in Notes |-> IF n \in won THEN Append(history[n], to[n]) ELSE history[n]]
      /\ announced' = [n \in Notes |-> IF n \in won THEN Append(announced[n], from[n] + 1)
                                                    ELSE announced[n]]
  BY DEF Move
<1>2. history \in [Notes -> Seq(NoteStatuses)] /\ announced \in [Notes -> Seq(Nat)] /\ AllTell
  BY NotesTyped DEF NotesInv
<1> HIDE DEF won
<1>3. ASSUME NEW n \in Notes
      PROVE  /\ history'[n] \in Seq(NoteStatuses) /\ announced'[n] \in Seq(Nat)
             /\ NoteTells(history'[n], announced'[n])
             /\ Len(history[n]) > 0 => Len(history'[n]) > 0
  <2>1. history[n] \in Seq(NoteStatuses) /\ announced[n] \in Seq(Nat)
        /\ NoteTells(history[n], announced[n])
    BY <1>2 DEF AllTell
  <2>2. CASE n \notin won
    BY <2>1, <2>2, <1>1
  <2>3. CASE n \in won
    <3>1. history'[n] = Append(history[n], to[n])
          /\ announced'[n] = Append(announced[n], from[n] + 1)
      BY <1>1, <2>3
    <3>2. /\ from[n] = Len(history[n]) /\ Len(history[n]) > 0
          /\ to[n] \in NoteStatuses /\ history[n][Len(history[n])] \notin {to[n], "withdrawn"}
      BY <2>1, <2>3 DEF won, Fits, MayMove, Revision, Status
    <3>3. NoteTells(history'[n], announced'[n])
      BY <2>1, <3>1, <3>2, AppendTells
    <3>4. Len(history[n]) \in Nat /\ Len(history'[n]) = Len(history[n]) + 1
      BY <2>1, <3>1
    <3> QED
      BY <2>1, <3>1, <3>2, <3>3, <3>4
  <2> QED
    BY <2>2, <2>3
<1> QED
  BY <1>1, <1>3 DEF AllTell, Revision

-----------------------------------------------------------------------------
\* A step that leaves the notes' histories alone.
LEMMA SameHistory ==
  ASSUME NotesInv, UNCHANGED <<history, announced>>
  PROVE  /\ AllTell' /\ \A n : Revision(n)' = Revision(n) /\ Status(n)' = Status(n)
  BY DEF NotesInv, AllTell, Revision, Status

\* A handler that goes on with what it has read.
LEMMA ScorerKeeps ==
  ASSUME NotesInv, NEW w \in Scorers, NEW s \in Scoring, scorer' = [scorer EXCEPT ![w] = s],
         UNCHANGED <<assignment, ratings, rated, withdrawing>>,
         history' \in [Notes -> Seq(NoteStatuses)], announced' \in [Notes -> Seq(Nat)], AllTell',
         \A n \in Notes : Revision(n) > 0 => Revision(n)' > 0,
         ratedQueue' \in Nat, noteMishaps' \in 0..MaxNoteMishaps,
         \A x \in s.ratings : Revision(x.note) > 0,
         s.at = "read" => \A x \in s.ratings : s.seen[x.note] > 0
  PROVE  NotesInv'
<1>1. NotesTypeOK
  BY DEF NotesInv
<1>2. NotesTypeOK'
  BY <1>1, NotesTyped DEF NotesTypeOK, Scoring
<1>3. \A x \in Rating : x.note \in Notes
  BY DEF Rating
<1>4. \A v \in Scorers : scorer'[v] = IF v = w THEN s ELSE scorer[v]
  BY <1>1, NotesTyped
<1>5. ScoredExist'
  <2>1. \A v \in Scorers : scorer[v].ratings \subseteq Rating /\ s.ratings \subseteq Rating
    BY <1>1, NotesTyped DEF Scoring
  <2>2. ASSUME NEW v \in Scorers, NEW x \in scorer'[v].ratings
        PROVE  Revision(x.note)' > 0 /\ (scorer'[v].at = "read" => scorer'[v].seen[x.note] > 0)
    <3>1. x.note \in Notes /\ Revision(x.note) > 0
      BY <2>1, <1>3, <1>4 DEF NotesInv, ScoredExist
    <3> QED
      BY <3>1, <1>4 DEF NotesInv, ScoredExist
  <2> QED
    BY <2>2 DEF ScoredExist
<1>6. RatedExist'
  BY <1>1, <1>3, NotesTyped DEF NotesInv, RatedExist
<1>7. AssignedExist'
  BY <1>1, NotesTyped DEF NotesInv, AssignedExist
<1> QED
  BY <1>2, <1>5, <1>6, <1>7 DEF NotesInv

\* A step of a rater or an author that writes nothing to a note's history.
LEMMA QuietStep ==
  ASSUME NotesInv, UNCHANGED <<history, announced, scorer>>, NotesTypeOK', AssignedExist', RatedExist'
  PROVE  NotesInv'
<1>1. AllTell' /\ \A n : Revision(n)' = Revision(n)
  BY SameHistory
<1>2. ScoredExist'
  BY <1>1 DEF NotesInv, ScoredExist
<1> QED
  BY <1>1, <1>2 DEF NotesInv

\* What a handler's state is once it has read the ratings, or the revisions.
LEMMA ScoringRead ==
  ASSUME NEW s \in Scoring, NEW x
  PROVE  /\ [s EXCEPT !.at = "rated", !.ratings = x]
               = [at |-> "rated", ratings |-> x, seen |-> s.seen]
         /\ [s EXCEPT !.at = "read", !.seen = x]
               = [at |-> "read", ratings |-> s.ratings, seen |-> x]
<1>1. PICK a, b, c : s = [at |-> a, ratings |-> b, seen |-> c]
  BY DEF Scoring
<1>2. s.ratings = b /\ s.seen = c
  BY <1>1
<1>3. \A d : [[at |-> a, ratings |-> b, seen |-> c] EXCEPT !.at = d]
              = [at |-> d, ratings |-> b, seen |-> c]
  OBVIOUS
<1>4. \A d : [s EXCEPT !.at = d] = [at |-> d, ratings |-> b, seen |-> c]
  BY <1>1, <1>3
<1>5. /\ [[at |-> "rated", ratings |-> b, seen |-> c] EXCEPT !.ratings = x]
           = [at |-> "rated", ratings |-> x, seen |-> c]
      /\ [[at |-> "read", ratings |-> b, seen |-> c] EXCEPT !.seen = x]
           = [at |-> "read", ratings |-> b, seen |-> x]
  OBVIOUS
<1> QED
  BY <1>2, <1>4, <1>5, Zenon

LEMMA MishapCounted == NotesTypeOK /\ NoteMishap => noteMishaps' \in 0..MaxNoteMishaps
  BY DEF NotesTypeOK, NoteMishap

LEMMA NoteWritten ==
  ASSUME NotesInv, NEW n \in Notes, writeCommunityNote(n)
  PROVE  NotesInv'
<1>1. /\ Len(history[n]) = 0 /\ history' = [history EXCEPT ![n] = <<"needs_ratings">>]
      /\ history \in [Notes -> Seq(NoteStatuses)] /\ announced \in [Notes -> Seq(Nat)]
      /\ NotesTypeOK /\ AllTell /\ announced' = announced
  BY NotesTyped DEF NotesInv, writeCommunityNote, Revision
<1>2. <<"needs_ratings">> \in Seq(NoteStatuses) /\ Len(<<"needs_ratings">>) = 1
  BY DEF NoteStatuses, Scores
<1>3. \A m \in Notes : history'[m] = IF m = n THEN <<"needs_ratings">> ELSE history[m]
  BY <1>1
<1>4. NotesTypeOK'
  BY <1>1, <1>2, NotesTyped DEF writeCommunityNote, NotesTypeOK
<1>5. NoteTells(<<"needs_ratings">>, announced[n])
  BY <1>1, <1>2 DEF AllTell, NoteTells
<1>6. AllTell'
  BY <1>1, <1>3, <1>5 DEF AllTell
<1>7. \A m \in Notes : Revision(m) > 0 => Revision(m)' > 0
  <2> TAKE m \in Notes
  <2>1. CASE m = n
    BY <2>1, <1>1 DEF Revision
  <2>2. CASE m # n
    BY <2>2, <1>3 DEF Revision
  <2> QED
    BY <2>1, <2>2
<1>8. \A x \in Rating : x.note \in Notes
  BY DEF Rating
<1>9. AssignedExist'
  BY <1>1, <1>7, NotesTyped DEF writeCommunityNote, NotesInv, AssignedExist
<1>10. RatedExist'
  BY <1>1, <1>7, <1>8, NotesTyped DEF writeCommunityNote, NotesInv, RatedExist
<1>11. ScoredExist'
  <2>1. \A w \in Scorers : scorer[w].ratings \subseteq Rating
    BY <1>1, NotesTyped DEF Scoring
  <2> QED
    BY <2>1, <1>7, <1>8 DEF writeCommunityNote, NotesInv, ScoredExist
<1> QED
  BY <1>4, <1>6, <1>9, <1>10, <1>11 DEF NotesInv

\* A step that only changes what an assignment has come to.
LEMMA AssignmentKeeps ==
  ASSUME NotesInv, NEW n \in Notes, NEW r \in Raters, NEW a \in {"live", "expired"},
         Revision(n) > 0, assignment' = [assignment EXCEPT ![<<n, r>>] = a],
         UNCHANGED <<history, ratings, rated, withdrawing, ratedQueue, scorer, announced>>,
         noteMishaps' \in 0..MaxNoteMishaps
  PROVE  NotesInv'
<1>1. NotesTypeOK /\ <<n, r>> \in Notes \X Raters
  BY DEF NotesInv
<1>2. assignment' \in [Notes \X Raters -> {"none", "live", "expired", "rated"}]
  BY <1>1, NotesTyped
<1>3. NotesTypeOK'
  BY <1>1, <1>2, NotesTyped DEF NotesTypeOK
<1>4. \A m : Revision(m)' = Revision(m)
  BY SameHistory
<1>5. AssignedExist'
  <2>1. ASSUME NEW m \in Notes, NEW q \in Raters, assignment'[<<m, q>>] # "none"
        PROVE  Revision(m) > 0
    <3>1. <<m, q>> \in Notes \X Raters
      OBVIOUS
    <3>2. CASE <<m, q>> = <<n, r>>
      BY <3>2
    <3>3. CASE <<m, q>> # <<n, r>>
      BY <3>1, <3>3, <2>1, <1>1, NotesTyped DEF NotesInv, AssignedExist
    <3> QED
      BY <3>2, <3>3
  <2> QED
    BY <2>1, <1>4 DEF NotesInv, AssignedExist
<1>6. RatedExist'
  BY <1>4 DEF NotesInv, RatedExist
<1> QED
  BY <1>3, <1>5, <1>6, QuietStep

LEMMA RateKeeps ==
  ASSUME NotesInv, NEW r \in Raters, NEW helpful \in BOOLEAN, rateCommunityNote(r, helpful)
  PROVE  NotesInv'
<1> DEFINE n == rated[r]
           x == [note |-> n, rater |-> r, helpful |-> helpful]
<1>1. /\ NotesTypeOK /\ n \in Notes /\ <<n, r>> \in Notes \X Raters /\ x \in Rating
      /\ Revision(n) > 0 /\ rated' = [rated EXCEPT ![r] = NoNote]
      /\ UNCHANGED <<history, withdrawing, scorer, announced, noteMishaps>>
  BY NotesTyped DEF NotesInv, rateCommunityNote, AssignedExist, Rating
<1>2. \A m : Revision(m)' = Revision(m)
  BY SameHistory, <1>1
<1>3. /\ assignment' \in [Notes \X Raters -> {"none", "live", "expired", "rated"}]
      /\ \A m \in Notes, q \in Raters :
           assignment'[<<m, q>>] # "none" => assignment[<<m, q>>] # "none"
      /\ ratings' \subseteq ratings \cup {x} /\ ratedQueue' \in Nat
  <2>1. CASE assignment[<<n, r>>] = "live"
    <3>1. /\ assignment' = [assignment EXCEPT ![<<n, r>>] = "rated"]
          /\ ratings' = ratings \cup {x} /\ ratedQueue' = ratedQueue + 1
      BY <2>1 DEF rateCommunityNote
    <3>2. assignment \in [Notes \X Raters -> {"none", "live", "expired", "rated"}]
          /\ ratedQueue \in Nat
      BY <1>1, NotesTyped
    <3>3. ASSUME NEW m \in Notes, NEW q \in Raters, assignment'[<<m, q>>] # "none"
          PROVE  assignment[<<m, q>>] # "none"
      <4>1. <<m, q>> \in Notes \X Raters
        OBVIOUS
      <4>2. CASE <<m, q>> = <<n, r>>
        BY <4>2, <2>1
      <4>3. CASE <<m, q>> # <<n, r>>
        BY <4>1, <4>3, <3>1, <3>2, <3>3
      <4> QED
        BY <4>2, <4>3
    <3> QED
      BY <1>1, <3>1, <3>2, <3>3
  <2>2. CASE assignment[<<n, r>>] # "live"
    BY <2>2, <1>1, NotesTyped DEF rateCommunityNote
  <2> QED
    BY <2>1, <2>2
<1>4. NotesTypeOK'
  BY <1>1, <1>3, NotesTyped DEF NotesTypeOK
<1>5. AssignedExist'
  BY <1>1, <1>2, <1>3, NotesTyped DEF NotesInv, AssignedExist
<1>6. RatedExist'
  BY <1>1, <1>2, <1>3 DEF NotesInv, RatedExist
<1> QED
  BY <1>1, <1>4, <1>5, <1>6, QuietStep

LEMMA WithdrawKeeps ==
  ASSUME NotesInv, NEW n \in Notes, withdrawCommunityNote(n)
  PROVE  NotesInv'
<1> DEFINE to == [m \in Notes |-> "withdrawn"]
<1>1. NotesTypeOK /\ withdrawing[n] > 0 /\ withdrawing[n] \in Nat
  BY NotesTyped DEF NotesInv, withdrawCommunityNote
<1>2. Fits({n}, to, withdrawing)
  BY <1>1 DEF Fits, MayMove, NoteStatuses
<1>3. Move({n}, to, withdrawing) /\ {n} \in SUBSET Notes
  BY DEF withdrawCommunityNote
<1> HIDE DEF to
<1>4. /\ history' \in [Notes -> Seq(NoteStatuses)] /\ announced' \in [Notes -> Seq(Nat)]
      /\ AllTell' /\ \A m \in Notes : Revision(m) > 0 => Revision(m)' > 0
  BY <1>2, <1>3, MoveTells
<1>5. withdrawing' \in [Notes -> Nat]
      /\ UNCHANGED <<assignment, ratings, rated, ratedQueue, scorer, noteMishaps>>
  BY <1>1, NotesTyped DEF withdrawCommunityNote
<1>6. NotesTypeOK'
  BY <1>1, <1>4, <1>5, NotesTyped DEF NotesTypeOK
<1>7. \A x \in Rating : x.note \in Notes
  BY DEF Rating
<1>8. AssignedExist' /\ RatedExist'
  BY <1>1, <1>4, <1>5, <1>7, NotesTyped DEF NotesInv, AssignedExist, RatedExist
<1>9. ScoredExist'
  <2>1. \A w \in Scorers : scorer[w].ratings \subseteq Rating
    BY <1>1, NotesTyped DEF Scoring
  <2> QED
    BY <2>1, <1>4, <1>5, <1>7 DEF NotesInv, ScoredExist
<1> QED
  BY <1>4, <1>6, <1>8, <1>9 DEF NotesInv

LEMMA RescoreKeeps ==
  ASSUME NotesInv, NEW w \in Scorers, rescoreCommunityNotes(w)
  PROVE  NotesInv'
<1> DEFINE S == {n \in Notes : Moves(w, n)}
           to == [n \in Notes |-> statusFor(n, scorer[w].ratings)]
           from == scorer[w].seen
<1>1. /\ NotesTypeOK /\ scorer[w] \in Scoring /\ scorer[w].at = "read"
      /\ scorer[w].ratings \in SUBSET Rating
  BY NotesTyped DEF NotesInv, rescoreCommunityNotes, Scoring
<1>2. Fits(S, to, from)
  <2> SUFFICES ASSUME NEW n \in S, MayMove(n, from[n])
               PROVE  Revision(n) > 0 /\ to[n] \in NoteStatuses /\ to[n] # Status(n)
    BY DEF Fits
  <2>1. n \in Notes /\ Moves(w, n) /\ Revision(n) = from[n]
    BY DEF MayMove
  <2>2. PICK x \in scorer[w].ratings : x.note = n
    BY <2>1 DEF Moves, RatingsOf
  <2>3. Revision(n) > 0
    BY <2>1, <2>2, <1>1 DEF NotesInv, ScoredExist
  <2>4. Status(n) = history[n][from[n]]
    BY <2>1, <2>3, <1>1 DEF Status, Scoring
  <2>5. to[n] = statusFor(n, scorer[w].ratings) /\ to[n] \in NoteStatuses
    BY <2>1, <1>1, StatusScored DEF NoteStatuses
  <2> QED
    BY <2>1, <2>3, <2>4, <2>5 DEF Moves
<1>3. Move(S, to, from) /\ S \in SUBSET Notes
  BY DEF rescoreCommunityNotes
<1> HIDE DEF S, to, from
<1>4. /\ history' \in [Notes -> Seq(NoteStatuses)] /\ announced' \in [Notes -> Seq(Nat)]
      /\ AllTell' /\ \A m \in Notes : Revision(m) > 0 => Revision(m)' > 0
  BY <1>2, <1>3, MoveTells
<1>5. NotScoring \in Scoring /\ NotScoring.ratings = {} /\ NotScoring.at = "idle"
  BY DEF NotScoring, Scoring
<1>6. /\ scorer' = [scorer EXCEPT ![w] = NotScoring]
      /\ UNCHANGED <<assignment, ratings, rated, withdrawing>>
      /\ ratedQueue' \in Nat /\ noteMishaps' \in 0..MaxNoteMishaps
  BY <1>1, NotesTyped DEF rescoreCommunityNotes
<1> QED
  BY <1>4, <1>5, <1>6, ScorerKeeps

LEMMA NotesInvNext == NotesInv /\ [NotesNext]_noteVars => NotesInv'
<1> SUFFICES ASSUME NotesInv, [NotesNext]_noteVars PROVE NotesInv'
  OBVIOUS
<1>0. NotesTypeOK
  BY DEF NotesInv
<1>s. UNCHANGED <<history, announced>> =>
        /\ AllTell' /\ history' \in [Notes -> Seq(NoteStatuses)]
        /\ announced' \in [Notes -> Seq(Nat)] /\ \A n : Revision(n)' = Revision(n)
  BY <1>0, SameHistory, NotesTyped
<1>i. NotScoring \in Scoring /\ NotScoring.ratings = {} /\ NotScoring.at = "idle"
  BY DEF NotScoring, Scoring
<1>1. ASSUME NEW n \in Notes, writeCommunityNote(n) PROVE NotesInv'
  BY <1>1, NoteWritten
<1>2. ASSUME NEW n \in Notes, FindNoteToWithdraw(n) PROVE NotesInv'
  <2>1. Revision(n) \in Nat
    BY <1>0, NotesTyped DEF Revision
  <2>2. NotesTypeOK'
    BY <1>0, <1>2, <2>1, NotesTyped DEF FindNoteToWithdraw, NotesTypeOK
  <2>3. UNCHANGED <<history, announced, assignment, rated, ratings, scorer>>
    BY <1>2 DEF FindNoteToWithdraw
  <2>4. AssignedExist' /\ RatedExist'
    BY <1>s, <2>3 DEF NotesInv, AssignedExist, RatedExist
  <2> QED
    BY <2>2, <2>3, <2>4, QuietStep
<1>3. ASSUME NEW n \in Notes, withdrawCommunityNote(n) PROVE NotesInv'
  BY <1>3, WithdrawKeeps
<1>4. ASSUME NEW n \in Notes, NEW r \in Raters, issueCommunityNoteAssignment(n, r)
      PROVE  NotesInv'
  <2>1. Revision(n) > 0
    <3>1. Status(n) # "absent" /\ Revision(n) \in Nat
      BY <1>0, <1>4, NotesTyped DEF issueCommunityNoteAssignment, Assignable, Revision
    <3> QED
      BY <3>1 DEF Status
  <2>2. noteMishaps' \in 0..MaxNoteMishaps
    BY <1>0, <1>4, NotesTyped DEF issueCommunityNoteAssignment
  <2> QED
    BY <2>1, <2>2, <1>4, AssignmentKeeps DEF issueCommunityNoteAssignment
<1>5. ASSUME NEW n \in Notes, NEW r \in Raters, AssignmentExpires(n, r) PROVE NotesInv'
  <2>1. Revision(n) > 0
    BY <1>5 DEF AssignmentExpires, NotesInv, AssignedExist
  <2>2. noteMishaps' \in 0..MaxNoteMishaps
    BY <1>0, <1>5, MishapCounted DEF AssignmentExpires
  <2> QED
    BY <2>1, <2>2, <1>5, AssignmentKeeps DEF AssignmentExpires
<1>6. ASSUME NEW n \in Notes, NEW r \in Raters, FindNoteToRate(n, r) PROVE NotesInv'
  <2>1. Revision(n) > 0 /\ rated' = [rated EXCEPT ![r] = n]
        /\ UNCHANGED <<history, announced, assignment, ratings, scorer>>
    BY <1>6 DEF FindNoteToRate, NotesInv, AssignedExist
  <2>2. NotesTypeOK'
    BY <1>0, <1>6, NotesTyped DEF FindNoteToRate, NotesTypeOK
  <2>3. AssignedExist' /\ RatedExist'
    BY <1>0, <1>s, <2>1, NotesTyped DEF NotesInv, AssignedExist, RatedExist
  <2> QED
    BY <2>1, <2>2, <2>3, QuietStep
<1>7. ASSUME NEW r \in Raters, NEW helpful \in BOOLEAN, rateCommunityNote(r, helpful)
      PROVE  NotesInv'
  BY <1>7, RateKeeps
<1>8. ASSUME NEW w \in Scorers, ClaimRated(w) PROVE NotesInv'
  <2> DEFINE s == [at |-> "claimed", ratings |-> scorer[w].ratings, seen |-> scorer[w].seen]
  <2>1. scorer[w] \in Scoring /\ scorer \in [Scorers -> Scoring]
    BY <1>0, NotesTyped
  <2>2. s \in Scoring /\ scorer' = [scorer EXCEPT ![w] = s]
    <3>1. s \in Scoring
      BY <2>1 DEF Scoring
    <3>2. scorer' = [scorer EXCEPT ![w] = [@ EXCEPT !.at = "claimed"]]
      BY <1>8, <2>1 DEF ClaimRated
    <3>3. [scorer[w] EXCEPT !.at = "claimed"] = s
      BY <2>1 DEF Scoring
    <3> QED
      BY <3>1, <3>2, <3>3
  <2>3. ratedQueue' \in Nat /\ noteMishaps' \in 0..MaxNoteMishaps
        /\ UNCHANGED <<history, announced, assignment, ratings, rated, withdrawing>>
    BY <1>0, <1>8, NotesTyped DEF ClaimRated
  <2>4. \A x \in s.ratings : Revision(x.note) > 0
    BY DEF NotesInv, ScoredExist
  <2>5. s.at # "read"
    OBVIOUS
  <2> HIDE DEF s
  <2> QED
    BY <2>2, <2>3, <2>4, <2>5, <1>s, ScorerKeeps
<1>9. ASSUME NEW w \in Scorers, findRatingsForScoring(w) PROVE NotesInv'
  <2> DEFINE R == {x \in ratings : Status(x.note) # "withdrawn"}
             s == [at |-> "rated", ratings |-> R, seen |-> scorer[w].seen]
  <2>1. scorer[w] \in Scoring /\ scorer \in [Scorers -> Scoring] /\ R \subseteq Rating
    BY <1>0, NotesTyped
  <2>2. s \in Scoring /\ scorer' = [scorer EXCEPT ![w] = s]
    <3>1. s \in Scoring
      BY <2>1 DEF Scoring
    <3>2. scorer' = [scorer EXCEPT ![w] = [@ EXCEPT !.at = "rated", !.ratings = R]]
      BY <1>9, <2>1 DEF findRatingsForScoring
    <3>3. [scorer[w] EXCEPT !.at = "rated", !.ratings = R] = s
      BY <2>1, ScoringRead
    <3> QED
      BY <3>1, <3>2, <3>3
  <2>3. ratedQueue' \in Nat /\ noteMishaps' \in 0..MaxNoteMishaps
        /\ UNCHANGED <<history, announced, assignment, ratings, rated, withdrawing>>
    BY <1>0, <1>9, NotesTyped DEF findRatingsForScoring
  <2>4. \A x \in s.ratings : Revision(x.note) > 0
    BY DEF NotesInv, RatedExist
  <2>5. s.at # "read"
    OBVIOUS
  <2> HIDE DEF s
  <2> QED
    BY <2>2, <2>3, <2>4, <2>5, <1>s, ScorerKeeps
<1>10. ASSUME NEW w \in Scorers, findCommunityNoteStatuses(w) PROVE NotesInv'
  <2> DEFINE V == [n \in Notes |-> Revision(n)]
             s == [at |-> "read", ratings |-> scorer[w].ratings, seen |-> V]
  <2>1. scorer[w] \in Scoring /\ scorer \in [Scorers -> Scoring]
    BY <1>0, NotesTyped
  <2>2. V \in [Notes -> Nat]
    BY <1>0, NotesTyped DEF Revision
  <2>3. s \in Scoring /\ scorer' = [scorer EXCEPT ![w] = s]
    <3>1. s \in Scoring
      BY <2>1, <2>2 DEF Scoring
    <3>2. scorer' = [scorer EXCEPT ![w] = [@ EXCEPT !.at = "read", !.seen = V]]
      BY <1>10, <2>1 DEF findCommunityNoteStatuses
    <3>3. [scorer[w] EXCEPT !.at = "read", !.seen = V] = s
      BY <2>1, ScoringRead
    <3> QED
      BY <3>1, <3>2, <3>3
  <2>4. ratedQueue' \in Nat /\ noteMishaps' \in 0..MaxNoteMishaps
        /\ UNCHANGED <<history, announced, assignment, ratings, rated, withdrawing>>
    BY <1>0, <1>10, NotesTyped DEF findCommunityNoteStatuses
  <2>5. \A x \in s.ratings : Revision(x.note) > 0
    BY DEF NotesInv, ScoredExist
  <2>6. \A x \in s.ratings : s.seen[x.note] > 0
    <3>1. \A x \in scorer[w].ratings : x.note \in Notes
      BY <2>1 DEF Scoring, Rating
    <3> QED
      BY <3>1, <2>5
  <2> HIDE DEF s
  <2> QED
    BY <2>3, <2>4, <2>5, <2>6, <1>s, ScorerKeeps
<1>11. ASSUME NEW w \in Scorers, rescoreCommunityNotes(w) PROVE NotesInv'
  BY <1>11, RescoreKeeps
<1>12. ASSUME NEW w \in Scorers, ScorerDies(w) PROVE NotesInv'
  <2>1. ratedQueue' \in Nat /\ noteMishaps' \in 0..MaxNoteMishaps
        /\ scorer' = [scorer EXCEPT ![w] = NotScoring]
        /\ UNCHANGED <<history, announced, assignment, ratings, rated, withdrawing>>
    BY <1>0, <1>12, NotesTyped, MishapCounted DEF ScorerDies
  <2> QED
    BY <2>1, <1>i, <1>s, ScorerKeeps
<1>13. CASE UNCHANGED noteVars
  BY <1>13, <1>s DEF noteVars, NotesInv, NotesTypeOK, AssignedExist, RatedExist, ScoredExist
<1> QED
  BY <1>1, <1>2, <1>3, <1>4, <1>5, <1>6, <1>7, <1>8, <1>9, <1>10, <1>11, <1>12, <1>13
  DEF NotesNext, ScorerStep

LEMMA NotesInvariant == NotesSpec => []NotesInv
  BY NotesInvInit, NotesInvNext, PTL DEF NotesSpec

(***************************************************************************)
(* Notes, assignments, ratings and what handlers read are of their types,  *)
(* and a note is only ever scored to a status of its own.                  *)
(***************************************************************************)
THEOREM NotesTypeCorrect == NotesSpec => []NotesTypeOK
  BY NotesInvariant, PTL DEF NotesInv

(***************************************************************************)
(* The history of each note tells what became of it, for any number of     *)
(* notes, raters and handlers and whatever the fit scores                  *)
(* (rescoreCommunityNotes, withdrawCommunityNote).                         *)
(***************************************************************************)
THEOREM NoteHistoriesTell == NotesSpec => []HistoryTells
<1>1. NotesInv => HistoryTells
  BY DEF NotesInv, AllTell, NoteTells, HistoryTells, Revision
<1> QED
  BY <1>1, NotesInvariant, PTL
-----------------------------------------------------------------------------
(***************************************************************************)
(* The services together: a behaviour that runs one of them, while the     *)
(* others stay as they start, is one of each, so each keeps its types.     *)
(***************************************************************************)
LEMMA ServicesRunAlone ==
  MCSpec => FilesSpec /\ ErasureSpec /\ NotesSpec /\ EndpointsSpec
<1>1. MCInit => FilesInit /\ ErasureInit /\ NotesInit /\ EndpointsInit
  BY DEF MCInit
<1>2. ASSUME [MCNext]_mcVars
      PROVE  /\ [FilesNext]_fileVars /\ [ErasureNext]_erasureVars
             /\ [NotesNext]_noteVars /\ [EndpointsNext]_endpointVars
  BY <1>2 DEF MCNext, Rows, Jury, Files, Erasure, NotesOnly, Keys, mcVars, services
<1> QED
  BY <1>1, <1>2, PTL DEF MCSpec, FilesSpec, ErasureSpec, NotesSpec, EndpointsSpec

THEOREM ServiceTypesCorrect == MCSpec => []ServiceTypesOK
<1>1. FilesTypeOK /\ ErasureTypeOK /\ NotesTypeOK /\ EndpointsTypeOK => ServiceTypesOK
  BY DEF ServiceTypesOK
<1> QED
  BY <1>1, ServicesRunAlone, FilesTypeCorrect, ErasureTypeCorrect, NotesTypeCorrect,
     EndpointsTypeCorrect, PTL
=============================================================================
