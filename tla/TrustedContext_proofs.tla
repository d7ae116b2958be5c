------------------------- MODULE TrustedContext_proofs -------------------------
(***************************************************************************)
(* Proofs about TrustedContext, for any agents, callers, claims,           *)
(* containers, clock errors, lives and leeways.                            *)
(*                                                                         *)
(* What a Runtime decides depends on the request alone, so the invariant   *)
(* says of every request under way how its dates follow from when it was   *)
(* minted, and that one signed with the present secret was minted since    *)
(* the last rotation.                                                      *)
(***************************************************************************)
EXTENDS TrustedContext, TLAPS

\* The dates of a context come from one clock, off by one of the errors; the present
\* secret signed nothing before it existed.
Dated(m) == m.exp = m.iat + Ttl /\ \E d \in Offsets : m.iat = m.minted + d
Signed(m) == m.key = secret => m.minted >= rotated

IInv == TypeOK /\ \A m \in flight : Dated(m) /\ Signed(m)

\* The parts of the state that one kind of step disturbs.
Clocks == now \in Nat /\ secret \in Nat /\ rotated \in 0 .. now /\ offset \in [Containers -> Offsets]
Caches == DOMAIN cache = Containers /\ \A c \in Containers : cache[c] # None => cache[c] \in 0 .. secret
Hub == accepted \subseteq Claims /\ deployed \subseteq Agents
Flying(m) ==
  /\ m \in Request /\ m.key <= secret /\ m.minted <= now
  /\ m.grants = GrantsOf(m.caller, m.claims)
  /\ Dated(m) /\ Signed(m)
LastTyped == last # None => last \in Outcome

LEMMA Parts ==
  IInv <=> Clocks /\ Caches /\ Hub /\ (\A m \in flight : Flying(m)) /\ LastTyped
  BY DEF IInv, TypeOK, Clocks, Caches, Hub, Flying, LastTyped

LEMMA GrantsTyped ==
  ASSUME NEW caller \in Callers, NEW claims \in SUBSET Claims
  PROVE  GrantsOf(caller, claims) \subseteq Grants
  BY ContextAssumption DEF GrantsOf

LEMMA InitInv == Init => IInv
<1> SUFFICES ASSUME Init PROVE Clocks /\ Caches /\ Hub /\ (\A m \in flight : Flying(m)) /\ LastTyped
  BY Parts
<1>1. Clocks BY DEF Init, Clocks
<1>2. Caches BY DEF Init, Caches
<1>3. QED BY <1>1, <1>2 DEF Init, Hub, LastTyped

\* A step that leaves the requests, the secret and the decisions alone.
LEMMA QuietStep ==
  ASSUME IInv, Clocks', Caches', Hub', now' >= now,
         UNCHANGED <<secret, rotated, last>>, flight' \subseteq flight
  PROVE  IInv'
<1>1. ASSUME NEW m \in flight' PROVE Flying(m)'
  <2>1. Flying(m) BY <1>1, Parts
  <2>2. m.minted \in Nat BY <2>1 DEF Flying, Request
  <2>3. now \in Nat /\ now' \in Nat BY Parts DEF Clocks
  <2>. QED BY <2>1, <2>2, <2>3 DEF Flying, Dated, Signed
<1>2. LastTyped' BY Parts DEF LastTyped
<1>. QED BY <1>1, <1>2, Parts DEF IInv, TypeOK, Clocks, Caches, Hub, Flying, LastTyped

LEMMA RotateStep == IInv /\ Rotate => IInv'
<1> SUFFICES ASSUME IInv, Rotate PROVE IInv' OBVIOUS
<1> USE DEF Rotate
<1>1. Clocks' BY Parts DEF Clocks
<1>2. Caches'
  <2>1. \A c \in Containers : cache[c] # None => cache[c] \in 0 .. secret BY Parts DEF Caches
  <2>2. secret \in Nat BY Parts DEF Clocks
  <2>3. DOMAIN cache = Containers BY Parts DEF Caches
  <2>. QED BY <2>1, <2>2, <2>3 DEF Caches
<1>3. Hub' /\ LastTyped' BY Parts DEF Hub, LastTyped
<1>4. ASSUME NEW m \in flight' PROVE Flying(m)'
  <2>1. Flying(m) BY <1>4, Parts
  <2>2. m.key \in Nat /\ secret \in Nat BY <2>1, Parts DEF Flying, Request, Clocks
  <2>. QED BY <2>1, <2>2 DEF Flying, Dated, Signed
<1>. QED BY <1>1, <1>2, <1>3, <1>4 DEF IInv, TypeOK, Clocks, Caches, Hub, Flying, LastTyped

LEMMA InterceptStep ==
  ASSUME IInv, NEW c \in Containers, NEW caller \in Callers, NEW a \in Agents, Intercept(c, caller, a)
  PROVE  IInv'
<1> DEFINE new == [caller |-> caller, aud |-> a, grants |-> GrantsOf(caller, accepted),
                   key |-> SigningSecret(c), iat |-> now + offset[c], exp |-> now + offset[c] + Ttl,
                   minted |-> now, claims |-> accepted]
<1>1. flight' = flight \cup {new} BY DEF Intercept
<1>2. UNCHANGED <<now, offset, secret, rotated, accepted, deployed, last>> BY DEF Intercept
<1>3. Clocks /\ Caches /\ Hub /\ LastTyped BY Parts
<1>4. SigningSecret(c) \in 0 .. secret BY <1>3 DEF Clocks, Caches, SigningSecret
<1>5. Caches'
  <2>1. cache' = [cache EXCEPT ![c] = SigningSecret(c)] BY DEF Intercept
  <2>. QED BY <2>1, <1>2, <1>3, <1>4 DEF Caches
<1>6. offset[c] \in Offsets /\ offset[c] \in Int BY <1>3, ContextAssumption DEF Clocks
<1>7. Ttl \in Nat /\ now \in Nat /\ secret \in Nat /\ rotated \in 0 .. now
  BY <1>3, ContextAssumption DEF Clocks
<1>8. new \in Request
  <2>1. GrantsOf(caller, accepted) \in SUBSET Grants BY <1>3, GrantsTyped DEF Hub
  <2>. QED BY <2>1, <1>3, <1>4, <1>6, <1>7 DEF Request, Hub
<1>9. Flying(new)
  <2>1. new.exp = new.iat + Ttl /\ new.iat = new.minted + offset[c] BY <1>6, <1>7
  <2>2. Dated(new) BY <2>1, <1>6 DEF Dated
  <2>3. Signed(new) BY <1>7 DEF Signed
  <2>4. new.key <= secret /\ new.minted <= now BY <1>4, <1>7
  <2>. QED BY <1>8, <2>2, <2>3, <2>4 DEF Flying
<1>10. ASSUME NEW m \in flight' PROVE Flying(m)'
  <2>1. Flying(m) BY <1>1, <1>9, <1>10, Parts
  <2>. QED BY <2>1, <1>2 DEF Flying, Dated, Signed
<1>11. Clocks' /\ Hub' /\ LastTyped' BY <1>2, <1>3 DEF Clocks, Hub, LastTyped
<1>. QED BY <1>5, <1>10, <1>11 DEF IInv, TypeOK, Clocks, Caches, Hub, Flying, LastTyped

LEMMA VerifyStep ==
  ASSUME IInv, NEW m \in flight, NEW a \in Agents, Verify(m, a)
  PROVE  IInv'
<1>1. last' = [request |-> m, agent |-> a, verdict |-> Verdict(m, a), at |-> now,
               current |-> (m.key = secret), since |-> rotated]
  BY DEF Verify
<1>2. m \in Request /\ now \in Nat /\ rotated \in Nat BY Parts DEF Flying, Clocks
<1>3. Verdict(m, a) \in Verdicts BY DEF Verdict, Verdicts
<1>4. last' \in Outcome BY <1>1, <1>2, <1>3 DEF Outcome
<1>. QED BY <1>4, Parts DEF Verify, IInv, TypeOK, Dated, Signed

LEMMA NextInv == IInv /\ [Next]_vars => IInv'
<1> SUFFICES ASSUME IInv, [Next]_vars PROVE IInv' OBVIOUS
<1>0. Clocks /\ Caches /\ Hub BY Parts
<1>1. CASE Tick
  <2>1. now' \in Nat /\ now' >= now BY <1>0, <1>1 DEF Tick, Clocks
  <2>2. Clocks' BY <2>1, <1>0, <1>1 DEF Tick, Clocks
  <2>. QED BY <2>1, <2>2, <1>0, <1>1, QuietStep DEF Tick, Caches, Hub
<1>2. CASE Rotate BY <1>2, RotateStep
<1>3. ASSUME NEW c \in Containers, Recycle(c) PROVE IInv'
  <2>1. Clocks' BY <1>0, <1>3 DEF Recycle, Clocks
  <2>2. Caches' BY <1>0, <1>3 DEF Recycle, Caches
  <2>3. now' >= now BY <1>0, <1>3 DEF Recycle, Clocks
  <2>. QED BY <2>1, <2>2, <2>3, <1>0, <1>3, QuietStep DEF Recycle, Hub
<1>4. ASSUME NEW m \in flight, Lose(m) PROVE IInv'
  <2>1. Clocks' /\ Caches' /\ Hub' /\ now' >= now BY <1>0, <1>4 DEF Lose, Clocks, Caches, Hub
  <2>. QED BY <2>1, <1>4, QuietStep DEF Lose
<1>5. ASSUME NEW a \in Agents, DeployAgent(a) PROVE IInv'
  <2>1. Clocks' /\ now' >= now BY <1>0, <1>5 DEF DeployAgent, Clocks
  <2>2. Caches' BY <1>0, <1>5 DEF DeployAgent, Caches
  <2>3. Hub' BY <1>0, <1>5, ContextAssumption DEF DeployAgent, Hub
  <2>. QED BY <2>1, <2>2, <2>3, <1>5, QuietStep DEF DeployAgent
<1>6. CASE \E c \in Containers, caller \in Callers, a \in Agents : Intercept(c, caller, a)
  BY <1>6, InterceptStep
<1>7. CASE \E m \in flight, a \in Agents : Verify(m, a) BY <1>7, VerifyStep
<1>8. CASE UNCHANGED vars
  BY <1>8 DEF vars, IInv, TypeOK, Dated, Signed
<1>. QED BY <1>1, <1>2, <1>3, <1>4, <1>5, <1>6, <1>7, <1>8 DEF Next

\* Every context under way is dated by one container's clock and, if the Runtimes
\* would still accept its signature, younger than the last rotation.
THEOREM Invariance == Spec => []IInv
  BY InitInv, NextInv, PTL DEF Spec

\* Every reachable state is well typed; in particular a context always carries the
\* grants of the claims the interceptor accepted when it minted it (_decode_grants).
THEOREM TypeCorrect == Spec => []TypeOK
<1>1. IInv => TypeOK BY DEF IInv
<1>. QED BY <1>1, Invariance, PTL
-----------------------------------------------------------------------------
(* What a Runtime decides.                                                  *)

\* No Runtime authorizes a context older than its life, the leeway and the error of
\* the clock that dated it (verify_internal_context_jwt).
THEOREM ContextsAreShortLived == Spec => []AuthorizedIsFresh
<1>1. Init => AuthorizedIsFresh BY DEF Init, AuthorizedIsFresh, Decided
<1>2. IInv /\ AuthorizedIsFresh /\ [Next]_vars => AuthorizedIsFresh'
  <2> SUFFICES ASSUME IInv, AuthorizedIsFresh, [Next]_vars PROVE AuthorizedIsFresh' OBVIOUS
  <2>1. ASSUME NEW m \in flight, NEW a \in Agents, Verify(m, a) PROVE AuthorizedIsFresh'
    <3>1. last'.request = m /\ last'.at = now /\ last'.verdict = Verdict(m, a)
      BY <2>1 DEF Verify
    <3>2. m \in Request /\ Dated(m) BY Parts DEF Flying
    <3>3. m.iat \in Int /\ m.exp \in Int /\ m.minted \in Nat BY <3>2 DEF Request
    <3>4. now \in Nat /\ Ttl \in Nat /\ Leeway \in Nat /\ Offsets \subseteq Int
      BY Parts, ContextAssumption DEF Clocks
    <3>5. PICK d \in Offsets : m.iat = m.minted + d BY <3>2 DEF Dated
    <3>6. Verdict(m, a) = "authorized" => m.exp >= now - Leeway BY <3>3, <3>4 DEF Verdict
    <3>7. m.exp = m.iat + Ttl BY <3>2 DEF Dated
    <3>8. Verdict(m, a) = "authorized" => now - m.minted <= Ttl + Leeway + d
      BY <3>3, <3>4, <3>5, <3>6, <3>7
    <3>. QED BY <3>1, <3>5, <3>8 DEF AuthorizedIsFresh, Age
  <2>2. CASE UNCHANGED last BY <2>2 DEF AuthorizedIsFresh, Decided, Age
  <2>. QED BY <2>1, <2>2 DEF Next, Tick, Rotate, Recycle, Lose, DeployAgent, Intercept, vars
<1>. QED BY <1>1, <1>2, Invariance, PTL DEF Spec

\* Where clocks are off by no more than the leeway, no context within its life is
\* refused for its dates by the Runtime it is for, unless the secret was rotated.
THEOREM LeewayCoversClocks ==
  ASSUME \A d \in Offsets : -Leeway <= d /\ d <= Leeway
  PROVE  Spec => []FreshIsAccepted
<1>1. Init => FreshIsAccepted BY DEF Init, FreshIsAccepted, Decided
<1>2. IInv /\ FreshIsAccepted /\ [Next]_vars => FreshIsAccepted'
  <2> SUFFICES ASSUME IInv, FreshIsAccepted, [Next]_vars PROVE FreshIsAccepted' OBVIOUS
  <2>1. ASSUME NEW m \in flight, NEW a \in Agents, Verify(m, a) PROVE FreshIsAccepted'
    <3>1. /\ last'.request = m /\ last'.agent = a /\ last'.at = now
          /\ last'.verdict = Verdict(m, a) /\ last'.current = (m.key = secret)
      BY <2>1 DEF Verify
    <3>2. m \in Request /\ Dated(m) /\ m.minted <= now BY Parts DEF Flying
    <3>3. m.iat \in Int /\ m.exp \in Int /\ m.minted \in Nat BY <3>2 DEF Request
    <3>4. now \in Nat /\ Ttl \in Nat /\ Leeway \in Nat /\ Offsets \subseteq Int
      BY Parts, ContextAssumption DEF Clocks
    <3>5. PICK d \in Offsets : m.iat = m.minted + d BY <3>2 DEF Dated
    <3>6. m.iat <= now + Leeway /\ (now - m.minted <= Ttl => ~(m.exp < now - Leeway))
      BY <3>2, <3>3, <3>4, <3>5 DEF Dated
    <3>7. m.aud = a /\ m.key = secret /\ now - m.minted <= Ttl
            => Verdict(m, a) \in {"authorized", "missing_required_scope"}
      <4> SUFFICES ASSUME m.aud = a, m.key = secret, now - m.minted <= Ttl
                   PROVE  Verdict(m, a) \in {"authorized", "missing_required_scope"}
        OBVIOUS
      <4>1. ~(m.iat > now + Leeway) BY <3>3, <3>4, <3>6
      <4>2. ~(m.exp < now - Leeway) BY <3>6
      <4>. QED BY <4>1, <4>2 DEF Verdict
    <3>. QED BY <3>1, <3>7 DEF FreshIsAccepted, Age
  <2>2. CASE UNCHANGED last BY <2>2 DEF FreshIsAccepted, Decided, Age
  <2>. QED BY <2>1, <2>2 DEF Next, Tick, Rotate, Recycle, Lose, DeployAgent, Intercept, vars
<1>. QED BY <1>1, <1>2, Invariance, PTL DEF Spec

\* A rotation of the secret revokes every context minted before it, whatever secret the
\* containers still sign with (_signing_secret, _gateway_header_secret).
THEOREM RotationIsRevocation == Spec => []RotationRevokes
<1>1. Init => RotationRevokes BY DEF Init, RotationRevokes, Decided
<1>2. IInv /\ RotationRevokes /\ [Next]_vars => RotationRevokes'
  <2> SUFFICES ASSUME IInv, RotationRevokes, [Next]_vars PROVE RotationRevokes' OBVIOUS
  <2>1. ASSUME NEW m \in flight, NEW a \in Agents, Verify(m, a) PROVE RotationRevokes'
    <3>1. last'.request = m /\ last'.since = rotated /\ last'.verdict = Verdict(m, a)
      BY <2>1 DEF Verify
    <3>2. Signed(m) BY Parts DEF Flying
    <3>3. Verdict(m, a) = "authorized" => m.key = secret BY DEF Verdict
    <3>. QED BY <3>1, <3>2, <3>3 DEF RotationRevokes, Signed
  <2>2. CASE UNCHANGED last BY <2>2 DEF RotationRevokes, Decided
  <2>. QED BY <2>1, <2>2 DEF Next, Tick, Rotate, Recycle, Lose, DeployAgent, Intercept, vars
<1>. QED BY <1>1, <1>2, Invariance, PTL DEF Spec
=============================================================================
