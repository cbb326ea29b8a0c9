--------------------------- MODULE DecisionChannel ---------------------------
(***************************************************************************)
(* Webhook delivery composed with the receiving application: what one side *)
(* records as an outcome is what the other side answered, or that it did   *)
(* not answer in time.                                                     *)
(***************************************************************************)
EXTENDS WebhookDelivery

CONSTANTS
  Requests,      \* requests the application may be handling at once
  MaxAppFaults,  \* bound: times the application dies or its database fails it
  NoRequest,     \* a pass that waits for no request
  NoAnnounced    \* a request slot that is free

ASSUME ChannelAssumption ==
  /\ MaxAppFaults \in Nat
  /\ NoRequest \notin Requests /\ NoAnnounced \notin Announced

VARIABLES log, work, req, asked, unheard,
  wire,       \* the request each pass is waiting for
  appFaults

Inbox == INSTANCE WebhookInbox WITH Events <- Announced, NoEvent <- NoAnnounced

channelVars == <<log, work, req, asked, unheard, wire, appFaults>>
allVars == <<deliveryVars, channelVars>>

ChannelTypeOK ==
  /\ DeliveryTypeOK
  /\ Inbox!InboxTypeOK
  /\ wire \in [Workers -> Requests \cup {NoRequest}]
  /\ appFaults \in 0..MaxAppFaults

ChannelInit ==
  /\ DeliveryInit
  /\ Inbox!InboxInit
  /\ wire = [w \in Workers |-> NoRequest]
  /\ appFaults = 0

\* How the sender classifies what the middleware answers.
Classified(answer) == IF answer = "failed" THEN "transient" ELSE "succeeded"

(***************************************************************************)
(* The request reaches the application, where an earlier one of its event  *)
(* may still be at work: the sender waits ten seconds for an answer, and   *)
(* nothing makes a handler end within them.                                *)
(***************************************************************************)
Post(w, r) ==
  /\ passAt[w] = "sending" /\ wire[w] = NoRequest
  /\ Inbox!Arrives(r, carried[w][2])
  /\ wire' = [wire EXCEPT ![w] = r]
  /\ UNCHANGED <<deliveryVars, appFaults>>

\* The pass hears the answer to its request.
Receive(w) ==
  /\ wire[w] # NoRequest
  /\ req[wire[w]] \in Inbox!Answers
  /\ ReceiverAnswers(w, Classified(req[wire[w]]))
  /\ Inbox!Done(wire[w])
  /\ wire' = [wire EXCEPT ![w] = NoRequest]
  /\ UNCHANGED appFaults

(***************************************************************************)
(* Something other than the handler answers, or nothing does: a proxy, a   *)
(* router that no longer knows the path, a refused signature, an address   *)
(* that became private, or the ten-second timeout, which may leave a       *)
(* request behind that is still being handled.                             *)
(***************************************************************************)
NoAnswer(w) ==
  /\ \/ wire[w] = NoRequest
        /\ \/ \E o \in HttpOutcomes \ {"succeeded"} : ReceiverAnswers(w, o)
           \/ \E o \in ThrownOutcomes : TransportThrows(w, o)
     \/ /\ wire[w] # NoRequest
        /\ TransportThrows(w, "transient")
  /\ wire' = [wire EXCEPT ![w] = NoRequest]
  /\ UNCHANGED <<log, work, req, asked, unheard, appFaults>>

\* A request nobody waits for any longer ends.
Abandoned(r) ==
  /\ req[r] \in Inbox!Answers \cup {"hung"}
  /\ \A w \in Workers : wire[w] # r
  /\ Inbox!Done(r)
  /\ UNCHANGED <<deliveryVars, wire, appFaults>>

Handle(r) == Inbox!HandlerStep(r) /\ UNCHANGED <<deliveryVars, wire, appFaults>>

AppFault ==
  /\ appFaults < MaxAppFaults /\ appFaults' = appFaults + 1
  /\ \/ Inbox!AppCrash
     \/ \E r \in Requests :
          \/ Inbox!ReleaseFails(r) \/ Inbox!ClaimReplyLost(r)
          \/ Inbox!RecordReplyLost(r) \/ Inbox!ReleaseReplyLost(r)
  /\ UNCHANGED <<deliveryVars, wire>>

\* A pass that dies hears no answer.
SenderFault ==
  /\ \E w \in Workers :
       \/ (OutcomeNotWritten(w) \/ OutcomeUnacknowledged(w)) /\ UNCHANGED wire
       \/ WorkerCrash(w) /\ wire' = [wire EXCEPT ![w] = NoRequest]
  /\ UNCHANGED <<log, work, req, asked, unheard, appFaults>>

Sender ==
  /\ \/ \E w \in Workers : WorkerStep(w)
     \/ \E d \in Deliveries : TimePasses(d)
     \/ \E e \in Announced : FanOutReads(e)
     \/ \E e \in Announced, p \in Endpoints : RecordDelivery(p, e)
     \/ \E p \in Endpoints : ReRegister(p)
     \/ \E o \in Operators, d \in Deliveries : ReplayReads(o, d)
     \/ \E o \in Operators : ReplayWrites(o)
  /\ UNCHANGED channelVars

ChannelNext ==
  \/ Sender \/ SenderFault \/ AppFault
  \/ \E w \in Workers : Receive(w) \/ NoAnswer(w) \/ \E r \in Requests : Post(w, r)
  \/ \E r \in Requests : Handle(r) \/ Abandoned(r)

ChannelSpec == ChannelInit /\ [][ChannelNext]_allVars
-----------------------------------------------------------------------------
(***************************************************************************)
(* A redelivery is handled by nobody while the first delivery is, and by   *)
(* nobody once it was, unless the handler was not told that its record was *)
(* written: overlapping, late and replayed attempts included.              *)
(***************************************************************************)
HandledOnce ==
  \A r \in Requests :
    Inbox!AtWork(r) =>
      /\ asked[r] \in work => asked[r] \in unheard
      /\ \A s \in Requests \ {r} : Inbox!AtWork(s) => asked[s] # asked[r]

(***************************************************************************)
(* "The only two possible outcomes are recorded and queued or neither, and *)
(* neither releases the claim and gets redelivered": what the sender has   *)
(* recorded as delivered is queued, or a request is still at work on it.   *)
(***************************************************************************)
DecisionNotLost ==
  \A d \in Deliveries :
    rowStatus[d] = "succeeded" =>
      d[2] \in work \/ \E r \in Requests : Inbox!AtWork(r) /\ asked[r] = d[2]
=============================================================================
