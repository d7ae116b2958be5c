-------------------------- MODULE MCPrivateEndpoints --------------------------
(* An instance of PrivateEndpoints for TLC: two agents in one VPC, which may have an
   older stack, and two in another, which ask for different access; one opted out. *)
EXTENDS PrivateEndpoints

CONSTANTS a1, a2, b1, b2, opted, v1, v2, t1, t2, u1, older, plain, other

AgentVpcs == [a \in {a1, a2, b1, b2, opted} |-> IF a \in {b1, b2} THEN v2 ELSE v1]
AgentTables ==
  [a \in {a1, a2, b1, b2, opted} |->
     CASE a = a1 -> {t1} [] a = a2 -> {t2} [] a \in {b1, b2} -> {u1} [] OTHER -> {}]
AgentAccess == [a \in {a1, a2, b1, b2, opted} |-> IF a = b2 THEN other ELSE plain]
OlderVpcs == [n \in {older} |-> v1]
===============================================================================
