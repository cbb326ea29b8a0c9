--------------------------- MODULE WebhookEndpoints ---------------------------
(***************************************************************************)
(* A webhook endpoint of one URL: registered, registered again, disabled,  *)
(* and its signing secrets, rotated by requests that may race, each new    *)
(* secret taking over from the last one at a cutover the caller chooses.   *)
(***************************************************************************)
EXTENDS Naturals, Sequences

CONSTANTS
  Callers,       \* requests running at a time
  Overlaps,      \* overlapSeconds a rotation may ask for
  MaxTime,       \* bound: the clock
  MaxVersions    \* bound: rotations are asked for while there are fewer

ASSUME EndpointsAssumption ==
  MaxTime \in Nat /\ MaxVersions \in Nat /\ Overlaps \subseteq 0..99

VARIABLES
  time,
  endpoint,      \* the row's status
  secrets,       \* the endpoint's secrets, by version
  caller         \* what each request has read, and when

endpointVars == <<time, endpoint, secrets, caller>>

Never == MaxTime + 100
Unread == [at |-> "idle", now |-> 0, version |-> 0]

EndpointsTypeOK ==
  /\ time \in 0..MaxTime /\ endpoint \in {"absent", "active", "disabled"}
  /\ secrets \in Seq([activatesAt : Nat, expiresAt : Nat])
  /\ caller \in [Callers -> [at : {"idle", "register", "rotate", "commit"},
                             now : 0..MaxTime, version : Nat]]

EndpointsInit ==
  /\ time = 0 /\ endpoint = "absent" /\ secrets = <<>>
  /\ caller = [c \in Callers |-> Unread]

Answered(c) == caller' = [caller EXCEPT ![c] = Unread]

Tick == time < MaxTime /\ time' = time + 1 /\ UNCHANGED <<endpoint, secrets, caller>>
-----------------------------------------------------------------------------
\* Registering a known URL revives it and mints no secret.
FindEndpoint(c) ==
  /\ caller[c].at = "idle"
  /\ IF endpoint = "absent"
     THEN /\ caller' = [caller EXCEPT ![c].at = "register", ![c].now = time]
          /\ UNCHANGED endpoint
     ELSE endpoint' = "active" /\ UNCHANGED caller
  /\ UNCHANGED <<time, secrets>>

\* The endpoint and its first secret, or what a racing request registered.
registerWebhookEndpoint(c) ==
  /\ caller[c].at = "register"
  /\ IF endpoint = "absent"
     THEN /\ endpoint' = "active"
          /\ secrets' = <<[activatesAt |-> caller[c].now, expiresAt |-> Never]>>
     ELSE UNCHANGED <<endpoint, secrets>>
  /\ Answered(c) /\ UNCHANGED time

disableWebhookEndpoint ==
  /\ endpoint = "active" /\ endpoint' = "disabled"
  /\ UNCHANGED <<time, secrets, caller>>

-----------------------------------------------------------------------------
\* Versions that have not expired.
LiveAt(now) == {v \in DOMAIN secrets : secrets[v].expiresAt > now}

Newest(V) == CHOOSE v \in V : \A u \in V : u <= v

\* Mutant: a rotation that is already scheduled does not stop another.
MayRotate_Pending(now) == LiveAt(now) # {}

\* Some secret is live, and none has yet to take over.
MayRotate(now) ==
  LiveAt(now) # {} /\ \A v \in LiveAt(now) : secrets[v].activatesAt <= now

\* The request reads the clock, then the live secrets.
StartRotation(c) ==
  /\ caller[c].at = "idle" /\ endpoint # "absent" /\ Len(secrets) < MaxVersions
  /\ caller' = [caller EXCEPT ![c].at = "rotate", ![c].now = time]
  /\ UNCHANGED <<time, endpoint, secrets>>

ReadLiveSecrets(c) ==
  /\ caller[c].at = "rotate"
  /\ IF MayRotate(caller[c].now)
     THEN caller' = [caller EXCEPT ![c].at = "commit",
                                   ![c].version = Newest(LiveAt(caller[c].now))]
     ELSE Answered(c)
  /\ UNCHANGED <<time, endpoint, secrets>>

\* The new version and the old one's expiry, unless that version exists already.
rotateWebhookSecret(c, overlap) ==
  LET cutover == caller[c].now + overlap
      v == caller[c].version
  IN  /\ caller[c].at = "commit"
      /\ secrets' = IF v = Len(secrets)
                    THEN Append([secrets EXCEPT ![v].expiresAt = cutover],
                                [activatesAt |-> cutover, expiresAt |-> Never])
                    ELSE secrets
      /\ Answered(c) /\ UNCHANGED <<time, endpoint>>

EndpointsNext ==
  \/ Tick \/ disableWebhookEndpoint
  \/ \E c \in Callers :
       \/ FindEndpoint(c) \/ registerWebhookEndpoint(c)
       \/ StartRotation(c) \/ ReadLiveSecrets(c)
       \/ \E overlap \in Overlaps : rotateWebhookSecret(c, overlap)

EndpointsSpec == EndpointsInit /\ [][EndpointsNext]_endpointVars
-----------------------------------------------------------------------------
signingSecretAt(now) == {v \in LiveAt(now) : secrets[v].activatesAt <= now}

(***************************************************************************)
(* "Receivers are asked to hold two secrets during a rotation, not three", *)
(* and there is always one that signs: however rotations race and stall    *)
(* between what they read and what they commit.                            *)
(***************************************************************************)
SecretsOverlap ==
  secrets # <<>> => /\ signingSecretAt(time) # {}
                    /\ \A u, v \in LiveAt(time) : u <= v + 1
=============================================================================
