---------------------------- MODULE WebhookInbox ----------------------------
(***************************************************************************)
(* The receiving application's side of a webhook, as the SDK implements    *)
(* it: crowdsourceWebhooks claims the event id by inserting a row, runs    *)
(* the handler, and deletes the row again if the handler throws;           *)
(* recordDecisionEvent completes the row and queues the decision in one    *)
(* transaction.                                                            *)
(***************************************************************************)
EXTENDS FiniteSets

CONSTANTS
  Events,    \* webhook event ids
  Requests,  \* HTTP requests the application may be handling at once
  NoEvent    \* a request slot that is free

VARIABLES
  log,    \* the event log's row: absent, claimed or queued
  work,   \* events with a decision.apply row in the application's outbox
  req,    \* where each request is
  asked,  \* the event the request delivers
  unheard \* events recorded by a handler that was not told so (history)

inboxVars == <<log, work, req, asked, unheard>>

Answers == {"accepted", "duplicate", "failed"}
RequestStates == {"free", "arrived", "handling", "thrown", "hung"} \cup Answers

InboxTypeOK ==
  /\ log \in [Events -> {"absent", "claimed", "queued"}]
  /\ work \subseteq Events
  /\ req \in [Requests -> RequestStates]
  /\ asked \in [Requests -> Events \cup {NoEvent}]
  /\ unheard \subseteq Events

InboxInit ==
  /\ log = [e \in Events |-> "absent"]
  /\ work = {}
  /\ req = [r \in Requests |-> "free"]
  /\ asked = [r \in Requests |-> NoEvent]
  /\ unheard = {}

\* A signed, well-formed delivery reaches the handler.
Arrives(r, e) ==
  /\ req[r] = "free"
  /\ req' = [req EXCEPT ![r] = "arrived"]
  /\ asked' = [asked EXCEPT ![r] = e]
  /\ UNCHANGED <<log, work, unheard>>

\* Mutant: the claim is granted although the row is somebody else's.
Claims_Always(e) == TRUE

\* ON CONFLICT DO NOTHING RETURNING: one row means the claim is ours.
Claims(e) == log[e] = "absent"

(***************************************************************************)
(* store.claim: the insert is the claim.  A claimed event is answered 200  *)
(* as a duplicate, whether or not its handler has finished.                *)
(***************************************************************************)
Claim(r) ==
  /\ req[r] = "arrived"
  /\ IF Claims(asked[r])
     THEN /\ req' = [req EXCEPT ![r] = "handling"]
          /\ log' = [log EXCEPT ![asked[r]] = "claimed"]
     ELSE req' = [req EXCEPT ![r] = "duplicate"] /\ UNCHANGED log
  /\ UNCHANGED <<work, asked, unheard>>

(***************************************************************************)
(* recordDecisionEvent: markQueued and enqueue commit together.            *)
(***************************************************************************)
RecordDecisionEvent(r) ==
  /\ req[r] = "handling"
  /\ log' = [log EXCEPT ![asked[r]] = "queued"]
  /\ work' = work \cup {asked[r]}
  /\ req' = [req EXCEPT ![r] = "accepted"]
  /\ UNCHANGED <<asked, unheard>>

\* The transaction, or something else in the handler, throws.
HandlerThrows(r) ==
  /\ req[r] = "handling"
  /\ req' = [req EXCEPT ![r] = "thrown"]
  /\ UNCHANGED <<log, work, asked, unheard>>

(***************************************************************************)
(* store.release: the row is deleted, and the request answers 500.         *)
(***************************************************************************)
Release(r) ==
  /\ req[r] = "thrown"
  /\ log' = [log EXCEPT ![asked[r]] = "absent"]
  /\ req' = [req EXCEPT ![r] = "failed"]
  /\ UNCHANGED <<work, asked, unheard>>

\* The delete itself throws: nobody answers, and the claim stays.
ReleaseFails(r) ==
  /\ req[r] = "thrown"
  /\ req' = [req EXCEPT ![r] = "hung"]
  /\ UNCHANGED <<log, work, asked, unheard>>

(***************************************************************************)
(* A write commits and its reply is lost.  A claim: the request fails and  *)
(* the row stays.  The record: the handler throws with its work queued,    *)
(* and releases.  The release: nobody answers.                             *)
(***************************************************************************)
ClaimReplyLost(r) ==
  /\ req[r] = "arrived" /\ Claims(asked[r])
  /\ log' = [log EXCEPT ![asked[r]] = "claimed"]
  /\ req' = [req EXCEPT ![r] = "failed"]
  /\ UNCHANGED <<work, asked, unheard>>

RecordReplyLost(r) ==
  /\ req[r] = "handling"
  /\ log' = [log EXCEPT ![asked[r]] = "queued"]
  /\ work' = work \cup {asked[r]}
  /\ unheard' = unheard \cup {asked[r]}
  /\ req' = [req EXCEPT ![r] = "thrown"]
  /\ UNCHANGED asked

ReleaseReplyLost(r) ==
  /\ req[r] = "thrown"
  /\ log' = [log EXCEPT ![asked[r]] = "absent"]
  /\ req' = [req EXCEPT ![r] = "hung"]
  /\ UNCHANGED <<work, asked, unheard>>

\* The answer is on the wire, or there will be none: the slot is free.
Done(r) ==
  /\ req' = [req EXCEPT ![r] = "free"]
  /\ asked' = [asked EXCEPT ![r] = NoEvent]
  /\ UNCHANGED <<log, work, unheard>>

\* The application's process dies with every request it was handling.
AppCrash ==
  /\ req' = [r \in Requests |-> "free"]
  /\ asked' = [r \in Requests |-> NoEvent]
  /\ UNCHANGED <<log, work, unheard>>

HandlerStep(r) ==
  \/ Claim(r) \/ RecordDecisionEvent(r) \/ HandlerThrows(r) \/ Release(r)

\* A request that may still change what the application knows of its event.
AtWork(r) == req[r] \in {"handling", "thrown"}
=============================================================================
