-------------------------- MODULE MCAgentDeployment --------------------------
(* An instance of AgentDeployment for TLC: parameters that are edited between
   deployments: the string of the secret, its name, its mode, the network mode
   and the name of the target. *)
EXTENDS AgentDeployment, TLC

CONSTANTS n1, n2, u1, u2, t1, t2

Base == [managed |-> TRUE, network |-> FALSE, name |-> n1, string |-> u1,
         target |-> t1, skip |-> FALSE]

EditedPlans ==
  {Base,
   [Base EXCEPT !.string = u2, !.target = t2],
   [Base EXCEPT !.name = n2, !.string = None, !.skip = TRUE],
   [Base EXCEPT !.managed = FALSE, !.network = TRUE, !.target = t2]}

Same == Permutations(Agents) \cup Permutations(Runs)
==============================================================================
