---------------------------- MODULE TrustedContext ----------------------------
(***************************************************************************)
(* The internal context JWT: minted by the Gateway's request interceptor   *)
(* (the Lambda in infrastructure/bootstrap.yaml) from the claims of a      *)
(* caller's token, carried to a Runtime, verified there                    *)
(* (app/authorization.py, _trusted_gateway_context of main.py).            *)
(*                                                                         *)
(* The two ends share a secret but no clock: each Lambda container keeps   *)
(* the secret it read first, and its clock may be off; the Runtime reads   *)
(* the secret on every call.  Requests are delayed, lost, delivered twice  *)
(* and out of order.  deploy.sh writes the claims an agent accepts into    *)
(* the one interceptor all agents share.                                   *)
(***************************************************************************)
EXTENDS Integers, FiniteSets

CONSTANTS
  Agents,       \* the instances, each with a Gateway target and a Runtime
  Callers,      \* authenticated callers: the Gateway validated their tokens
  Claims,       \* the token claims that can carry grants: scope, scp, roles
  Grants,
  TokenGrants,  \* the grants in each claim of each caller's token
  Accepts,      \* authorization.accepted_claims of each agent's configuration
  Required,     \* ask_database.required_grants of each agent's configuration
  RequiredScope,\* required_scope, the same for all agents of an environment
  Containers,   \* execution environments of the Lambda
  Offsets,      \* how far their clocks may be off, in seconds
  Ttl,          \* INTERNAL_CONTEXT_TTL_SECONDS
  Leeway,       \* leeway_seconds
  MaxTime,      \* bound on the time modelled
  MaxRotations, \* bound on the rotations of the secret
  MaxFlight,    \* bound on the requests under way
  None

ASSUME ContextAssumption ==
  /\ TokenGrants \in [Callers -> [Claims -> SUBSET Grants]]
  /\ Accepts \in [Agents -> SUBSET Claims]
  /\ Required \in [Agents -> SUBSET Grants]
  /\ RequiredScope \in Grants
  /\ Offsets \subseteq Int
  /\ Ttl \in Nat /\ Leeway \in Nat
  /\ MaxTime \in Nat /\ MaxRotations \in Nat /\ MaxFlight \in Nat
  /\ None \notin Nat

VARIABLES
  now,       \* the true time
  offset,    \* how far the clock of each container is off
  secret,    \* the version of the signing secret in Secrets Manager
  rotated,   \* when it got this version
  cache,     \* _SECRET_CACHE of each container
  accepted,  \* ACCEPTED_CLAIMS of the interceptor
  deployed,  \* the agents that are deployed
  flight,    \* requests on their way to a Runtime
  last       \* what the last Runtime to verify a request decided, and about what

vars == <<now, offset, secret, rotated, cache, accepted, deployed, flight, last>>

\* A request behind the interceptor: what its context says, and, for the properties,
\* when it was minted and of which claims.
Request ==
  [caller : Callers, aud : Agents, grants : SUBSET Grants, key : Nat,
   iat : Int, exp : Int, minted : Nat, claims : SUBSET Claims]
Verdicts == {"authorized", "invalid_internal_context", "expired_internal_context",
             "missing_required_scope"}

Init ==
  /\ now = 0
  /\ offset \in [Containers -> Offsets]
  /\ secret = 0 /\ rotated = 0
  /\ cache = [c \in Containers |-> None]
  /\ accepted = {}
  /\ deployed = {}
  /\ flight = {}
  /\ last = None
-----------------------------------------------------------------------------
(* The environment *)

Tick ==
  /\ now < MaxTime
  /\ now' = now + 1
  /\ UNCHANGED <<offset, secret, rotated, cache, accepted, deployed, flight, last>>

\* The secret is replaced in Secrets Manager.
Rotate ==
  /\ secret < MaxRotations
  /\ secret' = secret + 1
  /\ rotated' = now
  /\ UNCHANGED <<now, offset, cache, accepted, deployed, flight, last>>

\* A container is replaced by a fresh one, on another host.
Recycle(c) ==
  /\ cache' = [cache EXCEPT ![c] = None]
  /\ \E d \in Offsets : offset' = [offset EXCEPT ![c] = d]
  /\ UNCHANGED <<now, secret, rotated, accepted, deployed, flight, last>>

Lose(m) ==
  /\ flight' = flight \ {m}
  /\ UNCHANGED <<now, offset, secret, rotated, cache, accepted, deployed, last>>

\* deploy.sh: the shared bootstrap stack gets the accepted claims of the agent's
\* configuration, which replaces all containers if they differ; then the Runtime.
DeployAgent(a) ==
  /\ accepted' = Accepts[a]
  /\ cache' = IF Accepts[a] = accepted THEN cache ELSE [c \in Containers |-> None]
  /\ deployed' = deployed \cup {a}
  /\ UNCHANGED <<now, offset, secret, rotated, flight, last>>
-----------------------------------------------------------------------------
(* The interceptor *)

\* _decode_grants
GrantsOf(caller, claims) == UNION {TokenGrants[caller][claim] : claim \in claims}

\* _signing_secret: read once per container
SigningSecret(c) == IF cache[c] = None THEN secret ELSE cache[c]

\* Mutant: the grants of every claim are taken, accepted or not.
InterceptAllClaims(c, caller, a) ==
  /\ a \in deployed
  /\ Cardinality(flight) < MaxFlight
  /\ RequiredScope \in GrantsOf(caller, accepted)
  /\ cache' = [cache EXCEPT ![c] = SigningSecret(c)]
  /\ LET iat == now + offset[c]
     IN  flight' = flight \cup
           {[caller |-> caller, aud |-> a, grants |-> GrantsOf(caller, Claims),
             key |-> SigningSecret(c), iat |-> iat, exp |-> iat + Ttl,
             minted |-> now, claims |-> accepted]}
  /\ UNCHANGED <<now, offset, secret, rotated, accepted, deployed, last>>

\* handler, for a caller with the required scope; others are answered Forbidden and
\* nothing is forwarded.  The audience is the target of the tool that is called.
Intercept(c, caller, a) ==
  /\ a \in deployed
  /\ Cardinality(flight) < MaxFlight
  /\ RequiredScope \in GrantsOf(caller, accepted)
  /\ cache' = [cache EXCEPT ![c] = SigningSecret(c)]
  /\ LET iat == now + offset[c]
     IN  flight' = flight \cup
           {[caller |-> caller, aud |-> a, grants |-> GrantsOf(caller, accepted),
             key |-> SigningSecret(c), iat |-> iat, exp |-> iat + Ttl,
             minted |-> now, claims |-> accepted]}
  /\ UNCHANGED <<now, offset, secret, rotated, accepted, deployed, last>>
-----------------------------------------------------------------------------
(* The Runtime *)

\* Mutants: no leeway for a fast clock; the leeway counted twice; the former secret
\* accepted as well.
VerdictWithoutLeeway(m, a) ==
  IF m.key # secret \/ m.aud # a \/ m.iat > now THEN "invalid_internal_context"
  ELSE IF m.exp < now - Leeway THEN "expired_internal_context"
  ELSE IF Required[a] \subseteq m.grants THEN "authorized"
  ELSE "missing_required_scope"

VerdictLate(m, a) ==
  IF m.key # secret \/ m.aud # a \/ m.iat > now + Leeway THEN "invalid_internal_context"
  ELSE IF m.exp + Leeway < now - Leeway THEN "expired_internal_context"
  ELSE IF Required[a] \subseteq m.grants THEN "authorized"
  ELSE "missing_required_scope"

VerdictOfFormerSecret(m, a) ==
  IF m.key + 1 < secret \/ m.aud # a \/ m.iat > now + Leeway THEN "invalid_internal_context"
  ELSE IF m.exp < now - Leeway THEN "expired_internal_context"
  ELSE IF Required[a] \subseteq m.grants THEN "authorized"
  ELSE "missing_required_scope"

\* verify_internal_context_jwt, then the required grants of the capability
Verdict(m, a) ==
  IF m.key # secret \/ m.aud # a \/ m.iat > now + Leeway THEN "invalid_internal_context"
  ELSE IF m.exp < now - Leeway THEN "expired_internal_context"
  ELSE IF Required[a] \subseteq m.grants THEN "authorized"
  ELSE "missing_required_scope"

\* A request reaches a Runtime; it may reach it again.
Verify(m, a) ==
  /\ a \in deployed
  /\ last' = [request |-> m, agent |-> a, verdict |-> Verdict(m, a),
              at |-> now, current |-> (m.key = secret), since |-> rotated]
  /\ UNCHANGED <<now, offset, secret, rotated, cache, accepted, deployed, flight>>

Next ==
  \/ Tick
  \/ Rotate
  \/ \E c \in Containers : Recycle(c)
  \/ \E m \in flight : Lose(m)
  \/ \E a \in Agents : DeployAgent(a)
  \/ \E c \in Containers, caller \in Callers, a \in Agents : Intercept(c, caller, a)
  \/ \E m \in flight, a \in Agents : Verify(m, a)

Spec == Init /\ [][Next]_vars
-----------------------------------------------------------------------------
(* Properties.                                                              *)

Outcome ==
  [request : Request, agent : Agents, verdict : Verdicts, at : Nat,
   current : BOOLEAN, since : Nat]

\* No container has a secret that Secrets Manager never had, no request a context
\* of the future, and its grants are those of the claims it was minted of.
TypeOK ==
  /\ now \in Nat /\ secret \in Nat /\ rotated \in 0 .. now
  /\ offset \in [Containers -> Offsets]
  /\ \A c \in Containers : cache[c] # None => cache[c] \in 0 .. secret
  /\ DOMAIN cache = Containers
  /\ accepted \subseteq Claims
  /\ deployed \subseteq Agents
  /\ flight \subseteq Request
  /\ \A m \in flight : /\ m.key <= secret /\ m.minted <= now
                       /\ m.grants = GrantsOf(m.caller, m.claims)
  /\ last # None => last \in Outcome

Decided == last # None
Age == last.at - last.request.minted

\* A context is short-lived whatever the network does and however the clocks
\* differ: no Runtime authorizes one that is older than its life, the leeway and
\* the error of the clock that dated it.
AuthorizedIsFresh ==
  Decided /\ last.verdict = "authorized" =>
    \E d \in Offsets : Age <= Ttl + Leeway + d

\* A context that is within its life is not refused by the Runtime it is for, as
\* long as the secret is the one that signed it: the leeway covers the clocks.
FreshIsAccepted ==
  Decided /\ last.agent = last.request.aud /\ last.current /\ Age <= Ttl =>
    last.verdict \notin {"invalid_internal_context", "expired_internal_context"}

\* Rotating the secret revokes every context: what a Runtime authorizes was minted
\* since the last rotation.
RotationRevokes ==
  Decided /\ last.verdict = "authorized" => last.request.minted >= last.since

\* gateway_hub.md: "The interceptor and Runtime enforce grants from configured
\* claims": a Runtime authorizes a caller only by grants in the claims that its own
\* agent's configuration accepts.
AuthorizedByOwnClaims ==
  Decided /\ last.verdict = "authorized" =>
    Required[last.agent] \subseteq GrantsOf(last.request.caller, Accepts[last.agent])
=============================================================================
