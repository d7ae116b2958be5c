--------------------------- MODULE PrivateEndpoints ---------------------------
(***************************************************************************)
(* deploy_private_endpoints.sh and what deploy.sh does with its result: a  *)
(* stack of private AWS endpoints, shared by the agents of a VPC, is found *)
(* or created, its parameters are read, merged with the agent's own and    *)
(* written back, and the Runtime is deployed with the security group the   *)
(* stack exports.                                                          *)
(*                                                                         *)
(* The read, the merge and the write are separate AWS calls of a script.   *)
(* Each operator runs one script; a call that reads may fail (throttling,  *)
(* network); a script may die, and CloudFormation then goes on by itself.  *)
(***************************************************************************)
EXTENDS FiniteSets

CONSTANTS
  Agents,       \* DATA_AGENT_INSTANCE values
  Vpcs,
  VpcOf,        \* the VPC of each agent
  RouteTables,
  TablesOf,     \* the route tables of each agent's Runtime subnets
  Access,       \* what endpoint_ingress_cidr and runtime_access_security_group_name may say
  AccessOf,     \* what each agent says
  OptedOut,     \* the agents with create_private_service_endpoints=false
  Older,        \* names of older product endpoint stacks
  OlderIn,      \* the VPC each of them was made for
  Operators,    \* who runs deploy.sh
  ReadsMayFail, \* whether describe-stacks may fail
  None

ASSUME EndpointAssumption ==
  /\ VpcOf \in [Agents -> Vpcs]
  /\ TablesOf \in [Agents -> SUBSET RouteTables]
  /\ AccessOf \in [Agents -> Access]
  /\ OptedOut \subseteq Agents
  /\ OlderIn \in [Older -> Vpcs]
  /\ \A n, m \in Older : OlderIn[n] = OlderIn[m] => n = m
  /\ ReadsMayFail \in BOOLEAN
  /\ Older \cap Vpcs = {} /\ None \notin Agents \cup Vpcs \cup Older \cup Access

\* default_endpoint_stack_name gives every VPC a name of its own: here, the VPC's.
Names == Vpcs \cup Older
StackVpc == [n \in Names |-> IF n \in Older THEN OlderIn[n] ELSE n]

\* An endpoint stack.  Three of its parameters, params (the route tables), wanted (the
\* agent whose subnets are named) and asks (who is admitted), are what describe-stacks
\* shows; tables, subnets and access are what the S3 gateway endpoint, the interface
\* endpoints and their security groups are made from.
Stack ==
  [status : {"absent", "creating", "updating", "cleaning", "ready",
             "rollingback", "rolledback", "failed"},
   params : SUBSET RouteTables, tables : SUBSET RouteTables,
   wanted : Agents \cup {None}, subnets : Agents \cup {None},
   asks : Access \cup {None}, access : Access \cup {None}]
Absent ==
  [status |-> "absent", params |-> {}, tables |-> {}, wanted |-> None, subnets |-> None,
   asks |-> None, access |-> None]

\* The access group of a stack, of its own for each access: a change of access replaces it (its name), or no longer
\* admits it (a CIDR instead of the group).
Groups == Names \X Access

Script ==
  [agent : Agents \cup {None}, name : Names \cup {None}, same : BOOLEAN,
   merged : SUBSET RouteTables, subnets : Agents \cup {None}, group : Groups \cup {None},
   at : {"idle", "named", "list", "vpc", "subnets", "tables", "deploy", "wait",
         "output", "runtime"}]
Idle ==
  [agent |-> None, name |-> None, same |-> FALSE, merged |-> {}, subnets |-> None,
   group |-> None, at |-> "idle"]

VARIABLES
  stacks,   \* the endpoint stacks
  runtime,  \* each agent's Runtime: whether it is deployed, and the access group it has
  op,       \* the script of each operator
  orphans   \* history: the stacks whose script died while CloudFormation changed them

vars == <<stacks, runtime, op, orphans>>

Exists(n) == stacks[n].status # "absent"
Ends(o) == op' = [op EXCEPT ![o] = Idle]
Becomes(o, script) == op' = [op EXCEPT ![o] = script]

\* An older stack, if there is one, was made for an agent that is deployed; the
\* other stacks are created by the script.
Init ==
  /\ \E made \in SUBSET Older, founder \in [Older -> Agents \ OptedOut] :
       /\ \A n \in Older : VpcOf[founder[n]] = OlderIn[n]
       /\ stacks = [n \in Names |->
            IF n \in made
            THEN [status |-> "ready",
                  params |-> TablesOf[founder[n]], tables |-> TablesOf[founder[n]],
                  wanted |-> founder[n], subnets |-> founder[n],
                  asks |-> AccessOf[founder[n]], access |-> AccessOf[founder[n]]]
            ELSE Absent]
       /\ runtime = [a \in Agents |->
            LET own == {n \in made : founder[n] = a}
            IN  [deployed |-> own # {},
                 group |-> IF own = {} THEN None ELSE <<CHOOSE n \in own : TRUE, AccessOf[a]>>]]
  /\ op = [o \in Operators |-> Idle]
  /\ orphans = {}
-----------------------------------------------------------------------------
(* deploy_private_endpoints.sh *)

Begin(o, a) ==
  /\ op[o] = Idle
  /\ Becomes(o, [Idle EXCEPT !.agent = a, !.at = IF a \in OptedOut THEN "runtime" ELSE "named"])
  /\ UNCHANGED <<stacks, runtime, orphans>>

\* find_product_endpoint_stack, describe_named(fallback): every failure of the call
\* is taken for a stack that does not exist.
LookUpDefault(o) ==
  /\ op[o].at = "named"
  /\ LET name == VpcOf[op[o].agent]
     IN  \/ /\ Exists(name)
            /\ Becomes(o, [op[o] EXCEPT !.name = name, !.at = "vpc"])
         \/ /\ ~ Exists(name) \/ ReadsMayFail
            /\ Becomes(o, [op[o] EXCEPT !.at = "list"])
  /\ UNCHANGED <<stacks, runtime, orphans>>

\* Mutant: only the default name is looked for.
SearchNothing(o) ==
  /\ op[o].at = "list"
  /\ Becomes(o, [op[o] EXCEPT !.name = VpcOf[op[o].agent], !.at = "vpc"])
  /\ UNCHANGED <<stacks, runtime, orphans>>

\* list-stacks and describe_named of each name: the first stack of the VPC in one of the
\* states of the filter, or else the default name.  A failed description skips the stack.
\* Two states that pass are not in the filter: UPDATE_COMPLETE_CLEANUP_IN_PROGRESS
\* ("cleaning") and UPDATE_ROLLBACK_IN_PROGRESS ("rollingback").
Listed == {"creating", "ready", "updating", "rolledback"}
Matching(v) == {n \in Names : StackVpc[n] = v /\ stacks[n].status \in Listed}

SearchStacks(o) ==
  /\ op[o].at = "list"
  /\ LET v == VpcOf[op[o].agent]
     IN  \/ \E n \in Matching(v) : Becomes(o, [op[o] EXCEPT !.name = n, !.at = "vpc"])
         \/ /\ Matching(v) = {} \/ ReadsMayFail
            /\ Becomes(o, [op[o] EXCEPT !.name = v, !.at = "vpc"])
  /\ UNCHANGED <<stacks, runtime, orphans>>

\* EXISTING_ENDPOINT_STACK_VPC: stack_parameter gives the empty text when the call
\* fails, and the stack then counts as new.
ReadVpc(o) ==
  /\ op[o].at = "vpc"
  /\ \E same \in {Exists(op[o].name)} \cup (IF ReadsMayFail THEN {FALSE} ELSE {}) :
       Becomes(o, [op[o] EXCEPT !.same = same, !.at = "subnets"])
  /\ UNCHANGED <<stacks, runtime, orphans>>

\* Mutant: the interface endpoints move to the agent's subnets.
ReadOwnSubnets(o) ==
  /\ op[o].at = "subnets"
  /\ Becomes(o, [op[o] EXCEPT !.subnets = op[o].agent, !.at = "tables"])
  /\ UNCHANGED <<stacks, runtime, orphans>>

\* Without endpoint_subnet_ids, the stack's own subnets are kept, or else (a new
\* stack, a failed call) the Runtime's are used.
ReadSubnets(o) ==
  /\ op[o].at = "subnets"
  /\ \E found \in {op[o].same} \cup (IF ReadsMayFail THEN {FALSE} ELSE {}) :
       Becomes(o, [op[o] EXCEPT
         !.subnets = IF found /\ stacks[op[o].name].wanted # None
                     THEN stacks[op[o].name].wanted ELSE op[o].agent,
         !.at = "tables"])
  /\ UNCHANGED <<stacks, runtime, orphans>>

\* Mutant: the route tables are those of the agent alone.
ReplaceTables(o) ==
  /\ op[o].at = "tables"
  /\ Becomes(o, [op[o] EXCEPT !.merged = TablesOf[op[o].agent], !.at = "deploy"])
  /\ UNCHANGED <<stacks, runtime, orphans>>

\* RuntimeRouteTableIds of the stack merged with the agent's: a failed call merges
\* with nothing.
MergeTables(o) ==
  /\ op[o].at = "tables"
  /\ \E found \in {op[o].same} \cup (IF ReadsMayFail THEN {FALSE} ELSE {}) :
       Becomes(o, [op[o] EXCEPT
         !.merged = TablesOf[op[o].agent] \cup (IF found THEN stacks[op[o].name].params ELSE {}),
         !.at = "deploy"])
  /\ UNCHANGED <<stacks, runtime, orphans>>

\* aws cloudformation deploy with the merged route tables, and with the agent's own
\* access in the place of what other agents asked for.
Usable(n) == stacks[n].status \in {"ready", "rolledback"}
Write(o, status) ==
  stacks' = [stacks EXCEPT ![op[o].name].status = status,
               ![op[o].name].params = op[o].merged, ![op[o].name].wanted = op[o].subnets,
               ![op[o].name].asks = AccessOf[op[o].agent]]
Unchanged(o) ==
  /\ stacks[op[o].name].params = op[o].merged
  /\ stacks[op[o].name].wanted = op[o].subnets
  /\ stacks[op[o].name].asks = AccessOf[op[o].agent]

Create(o) ==
  /\ ~ Exists(op[o].name)
  /\ Write(o, "creating")
  /\ Becomes(o, [op[o] EXCEPT !.at = "wait"])

Update(o) ==
  /\ Usable(op[o].name) /\ ~ Unchanged(o)
  /\ Write(o, "updating")
  /\ Becomes(o, [op[o] EXCEPT !.at = "wait"])

\* Mutant: a deployment without changes skips the outputs.
SkipOutput(o) ==
  /\ Usable(op[o].name) /\ Unchanged(o)
  /\ Becomes(o, [op[o] EXCEPT !.at = "runtime"])
  /\ UNCHANGED stacks

NothingToDeploy(o) ==
  /\ Usable(op[o].name) /\ Unchanged(o)
  /\ Becomes(o, [op[o] EXCEPT !.at = "output"])
  /\ UNCHANGED stacks

\* A stack that is changing, or whose creation failed, refuses and the script ends.
Refused(o) ==
  /\ Exists(op[o].name) /\ ~ Usable(op[o].name)
  /\ Ends(o)
  /\ UNCHANGED stacks

Deploy(o) ==
  /\ op[o].at = "deploy"
  /\ Create(o) \/ Update(o) \/ NothingToDeploy(o) \/ Refused(o)
  /\ UNCHANGED <<runtime, orphans>>

\* The script goes on once the stack is complete, and ends (set -e) when it rolled back.
Wait(o) ==
  /\ op[o].at = "wait"
  /\ LET status == stacks[op[o].name].status
     IN  \/ status = "ready" /\ Becomes(o, [op[o] EXCEPT !.at = "output"])
         \/ status \in {"rolledback", "failed"} /\ Ends(o)
  /\ UNCHANGED <<stacks, runtime, orphans>>

\* echo "...=$(stack_output ...)": a failure inside the echo does not end the script,
\* which then prints no group.
ReadGroup(o) ==
  /\ op[o].at = "output"
  /\ \E found \in {TRUE} \cup (IF ReadsMayFail THEN {FALSE} ELSE {}) :
       Becomes(o, [op[o] EXCEPT
         !.group = IF found THEN <<op[o].name, stacks[op[o].name].access>> ELSE None,
         !.at = "runtime"])
  /\ UNCHANGED <<stacks, runtime, orphans>>

\* deploy.sh: the group is merged into the Runtime's if one was printed.
DeployRuntime(o) ==
  /\ op[o].at = "runtime"
  /\ runtime' = [runtime EXCEPT ![op[o].agent] = [deployed |-> TRUE, group |-> op[o].group]]
  /\ Ends(o)
  /\ UNCHANGED <<stacks, orphans>>

\* The states between two complete ones, in which CloudFormation goes on without a script.
Busy(n) == stacks[n].status \in {"creating", "updating", "cleaning", "rollingback"}

Die(o) ==
  /\ op[o] # Idle
  /\ Ends(o)
  /\ orphans' = IF op[o].at = "wait" /\ Busy(op[o].name) THEN orphans \cup {op[o].name} ELSE orphans
  /\ UNCHANGED <<stacks, runtime>>
-----------------------------------------------------------------------------
(* CloudFormation *)

Pending(n) == stacks[n].status \in {"creating", "updating"}

\* Mutant: the S3 gateway endpoint is not given the new route tables.
CompleteUnrouted(n) ==
  /\ Pending(n)
  /\ stacks' = [stacks EXCEPT
       ![n].status = IF stacks[n].status = "creating" THEN "ready" ELSE "cleaning",
       ![n].subnets = stacks[n].wanted, ![n].access = stacks[n].asks]
  /\ UNCHANGED <<runtime, op, orphans>>

\* The resources are as the parameters say; an update then removes what it replaced.
Complete(n) ==
  /\ Pending(n)
  /\ stacks' = [stacks EXCEPT
       ![n].status = IF stacks[n].status = "creating" THEN "ready" ELSE "cleaning",
       ![n].tables = stacks[n].params, ![n].subnets = stacks[n].wanted,
       ![n].access = stacks[n].asks]
  /\ UNCHANGED <<runtime, op, orphans>>

CleanUp(n) ==
  /\ stacks[n].status = "cleaning"
  /\ stacks' = [stacks EXCEPT ![n].status = "ready"]
  /\ UNCHANGED <<runtime, op, orphans>>

FailToUpdate(n) ==
  /\ stacks[n].status = "updating"
  /\ stacks' = [stacks EXCEPT ![n].status = "rollingback"]
  /\ UNCHANGED <<runtime, op, orphans>>

\* A creation that fails, or the end of a rollback.
RollBack(n) ==
  /\ stacks[n].status \in {"creating", "rollingback"}
  /\ stacks' = [stacks EXCEPT
       ![n].status = IF stacks[n].status = "creating" THEN "failed" ELSE "rolledback",
       ![n].params = stacks[n].tables, ![n].wanted = stacks[n].subnets,
       ![n].asks = stacks[n].access]
  /\ UNCHANGED <<runtime, op, orphans>>

Run(o) ==
  \/ \E a \in Agents : Begin(o, a)
  \/ LookUpDefault(o) \/ SearchStacks(o) \/ ReadVpc(o) \/ ReadSubnets(o) \/ MergeTables(o)
  \/ Deploy(o) \/ Wait(o) \/ ReadGroup(o) \/ DeployRuntime(o)
  \/ Die(o)

Next ==
  \/ \E o \in Operators : Run(o)
  \/ \E n \in Names : Complete(n) \/ CleanUp(n) \/ FailToUpdate(n) \/ RollBack(n)

Spec == Init /\ [][Next]_vars
-----------------------------------------------------------------------------
(* Properties.                                                              *)

\* Stacks and scripts are well formed, and a stack that is not being changed has the
\* routes, subnets and access that its parameters name.
TypeOK ==
  /\ stacks \in [Names -> Stack]
  /\ runtime \in [Agents -> [deployed : BOOLEAN, group : Groups \cup {None}]]
  /\ op \in [Operators -> Script]
  /\ orphans \subseteq Names
  /\ \A n \in Names : stacks[n].status \notin {"creating", "updating", "rollingback"} =>
       /\ stacks[n].params = stacks[n].tables /\ stacks[n].wanted = stacks[n].subnets
       /\ stacks[n].asks = stacks[n].access

Served == {a \in Agents \ OptedOut : runtime[a].deployed}

\* database_runtime.md: the script "merges the Runtime route tables so existing agents
\* keep their S3 gateway access": every deployed Runtime's route tables stay routed
\* to the S3 endpoint of its VPC, whatever is deployed, fails or dies later.
EndpointsCoverRuntimes ==
  \A a \in Served : \E n \in Names :
    StackVpc[n] = VpcOf[a] /\ TablesOf[a] \subseteq stacks[n].tables

\* The agents of a VPC say the same about access.
Alike(v) == \A a, b \in Agents : VpcOf[a] = v /\ VpcOf[b] = v => AccessOf[a] = AccessOf[b]

\* database_runtime.md: deploy.sh "attaches the shared SG to each Runtime", which "keeps
\* endpoint access reusable for future agents": a Runtime has an access group that its
\* stack still admits, through later deployments, updates that roll back and a second
\* stack of the VPC.  The agents of the VPC must ask for the same access: the last one
\* to deploy has its own, and another one shuts out the Runtimes that are there.
RuntimesAdmitted ==
  \A a \in Served : Alike(VpcOf[a]) =>
    \E n \in Names : StackVpc[n] = VpcOf[a] /\ runtime[a].group = <<n, stacks[n].access>>

\* database_runtime.md: the endpoints are "shared by environment/VPC, not by agent", and
\* an older stack of the VPC is found and reused.  Of two stacks of a VPC, one was left
\* by a script that died while CloudFormation was changing it: only then does the next
\* script search while the stack is in a state the filter of list-stacks leaves out.
SecondStackOnlyOrphaned ==
  \A n, m \in Names :
    Exists(n) /\ Exists(m) /\ StackVpc[n] = StackVpc[m] /\ n # m =>
      n \in orphans \/ m \in orphans

\* Adding an agent does not move the interface endpoints of the agents that are there.
SubnetsStable ==
  [][\A n \in Names :
       stacks[n].subnets # None => stacks'[n].subnets = stacks[n].subnets]_vars
=============================================================================
