---------------------------- MODULE AgentDeployment ----------------------------
(***************************************************************************)
(* src/scripts/deploy.sh: one agent instance is deployed by a sequence of  *)
(* stacks: its foundation (agent-foundation.yaml, with the database        *)
(* secret), the value of the secret, the private endpoints, its Runtime    *)
(* (runtime.yaml) and its Gateway target (target.yaml).                    *)
(*                                                                         *)
(* The script stops at the first step that fails and is run again later,   *)
(* with the same parameters or edited ones; nothing keeps two runs for one *)
(* agent apart but CloudFormation, which takes one update of a stack at a  *)
(* time.  An update goes on without the script that began it, and ends     *)
(* complete or rolled back.  The stacks that agents share are the subject  *)
(* of PrivateEndpoints and TrustedContext.                                 *)
(***************************************************************************)
EXTENDS Naturals

CONSTANTS
  Agents,      \* values of DATA_AGENT_INSTANCE
  Runs,        \* bound: runs of deploy.sh at a time
  Names,       \* names a database secret can have
  Strings,     \* values of database_secret_string
  Targets,     \* values of TARGET_NAME
  Plans,       \* the parameters a deployment can be run with
  MaxSecrets,  \* bound: secrets ever created
  MaxBegun,    \* bound: runs ever begun
  Empty,       \* the value "{}" the foundation creates a secret with
  External,    \* the secret of database_secret_arn
  None

Plan == [managed : BOOLEAN,              \* database_secret_mode
         network : BOOLEAN,              \* runtime_network_mode is managed
         name    : Names,                \* database_secret_name
         string  : Strings \cup {None},  \* database_secret_string, optional
         target  : Targets,              \* TARGET_NAME
         skip    : BOOLEAN]              \* SKIP_TARGET_DEPLOY

ASSUME PlanAssumption == Plans \subseteq Plan /\ MaxSecrets \in Nat /\ MaxBegun \in Nat
ASSUME NoneAssumption ==
  /\ None \notin Strings \cup Targets \cup Agents \cup Plans
  /\ Empty \notin Strings \cup {None}
  /\ {External, None} \cap (1..MaxSecrets) = {} /\ External # None

Kinds == {"foundation", "runtime", "target"}  \* of the stacks of an agent

VARIABLES
  secrets,     \* the database secrets that exist: arn, name and value
  born,        \* how many were ever created: a name created again has a new ARN
  foundation,  \* the secret in each foundation stack
  runtime,     \* the secret and the audience each Runtime was deployed with
  target,      \* the name of each agent's Gateway target
  update,      \* of each stack: the status of its latest update, and what it was
               \* begun with while it is in progress
  begun,       \* how many runs were ever begun
  script,      \* the runs of deploy.sh
  completed    \* the plan of each agent's latest deployment, if that went
               \* through and no other run for the agent overlapped it

vars == <<secrets, born, foundation, runtime, target, update, begun, script, completed>>
deployed == <<secrets, born, foundation, runtime, target>>
cloud == <<deployed, update>>

Arns == 1..MaxSecrets
Idle == [at |-> "idle", agent |-> None, plan |-> None, arn |-> None, alone |-> FALSE]
NoRuntime == [secret |-> None, audience |-> None]

\* What an update is begun with: the foundation's parameters, the Runtime's
\* DatabaseSecretArn and InternalContextAudience, the target's TargetName.
Given(kind) ==
  CASE kind = "foundation" -> [managed : BOOLEAN, name : Names]
    [] kind = "runtime" -> [secret : Arns \cup {External}, audience : Targets]
    [] kind = "target" -> Targets

NoUpdate == [status |-> "complete", given |-> None]

Init ==
  /\ secrets = {} /\ born = 0
  /\ foundation = [a \in Agents |-> None]
  /\ runtime = [a \in Agents |-> NoRuntime]
  /\ target = [a \in Agents |-> None]
  /\ update = [a \in Agents |-> [k \in Kinds |-> NoUpdate]]
  /\ begun = 0
  /\ script = [r \in Runs |-> Idle]
  /\ completed = [a \in Agents |-> None]

Live == {s.arn : s \in secrets}
NameOf(arn) == (CHOOSE s \in secrets : s.arn = arn).name

------------------------------------------------------------------------------
(* CloudFormation.                                                         *)

InProgress(a, kind) == update[a][kind].status = "in progress"
Ended(a, kind, how) == update' = [update EXCEPT ![a][kind] = [NoUpdate EXCEPT !.status = how]]

\* The secret that stack f keeps when it is updated with parameters g.
Kept(f, g) == f # None /\ g.managed /\ NameOf(f) = g.name

\* Mutant: the secret is retained when its resource leaves the stack.
FoundationRetaining(a) ==
  LET g == update[a].foundation.given
      f == foundation[a]
  IN  /\ InProgress(a, "foundation")
      /\ Ended(a, "foundation", "complete")
      /\ \/ /\ Kept(f, g) \/ (~ g.managed /\ f = None)
            /\ UNCHANGED <<secrets, born, foundation>>
         \/ /\ g.managed /\ ~ Kept(f, g)
            /\ born < MaxSecrets
            /\ g.name \notin {s.name : s \in secrets}
            /\ born' = born + 1
            /\ secrets' = secrets \cup
                 {[arn |-> born + 1, name |-> g.name, value |-> Empty]}
            /\ foundation' = [foundation EXCEPT ![a] = born + 1]
         \/ /\ ~ g.managed /\ f # None
            /\ foundation' = [foundation EXCEPT ![a] = None]
            /\ UNCHANGED <<secrets, born>>
      /\ UNCHANGED <<runtime, target, begun, script, completed>>

\* A secret of another name replaces the former one, which is deleted; so is one
\* that is no longer managed.  A name in use is refused.
FoundationUpdated(a) ==
  LET g == update[a].foundation.given
      f == foundation[a]
      former == {s \in secrets : s.arn = f}
  IN  /\ InProgress(a, "foundation")
      /\ Ended(a, "foundation", "complete")
      /\ \/ /\ Kept(f, g) \/ (~ g.managed /\ f = None)
            /\ UNCHANGED <<secrets, born, foundation>>
         \/ /\ g.managed /\ ~ Kept(f, g)
            /\ born < MaxSecrets
            /\ g.name \notin {s.name : s \in secrets}
            /\ born' = born + 1
            /\ secrets' = (secrets \ former) \cup
                 {[arn |-> born + 1, name |-> g.name, value |-> Empty]}
            /\ foundation' = [foundation EXCEPT ![a] = born + 1]
         \/ /\ ~ g.managed /\ f # None
            /\ secrets' = secrets \ former
            /\ foundation' = [foundation EXCEPT ![a] = None]
            /\ UNCHANGED born
      /\ UNCHANGED <<runtime, target, begun, script, completed>>

\* The secret and the audience are names to the stack: it looks neither up.
RuntimeUpdated(a) ==
  /\ InProgress(a, "runtime")
  /\ runtime' = [runtime EXCEPT ![a] = update[a].runtime.given]
  /\ Ended(a, "runtime", "complete")
  /\ UNCHANGED <<secrets, born, foundation, target, begun, script, completed>>

\* The Gateway refuses a second target of the same name.
TargetUpdated(a) ==
  LET name == update[a].target.given
  IN  /\ InProgress(a, "target")
      /\ name \notin {target[b] : b \in Agents \ {a}}
      /\ target' = [target EXCEPT ![a] = name]
      /\ Ended(a, "target", "complete")
      /\ UNCHANGED <<secrets, born, foundation, runtime, begun, script, completed>>

RolledBack(a) ==
  \E kind \in Kinds :
    /\ InProgress(a, kind)
    /\ Ended(a, kind, "rolled back")
    /\ UNCHANGED <<deployed, begun, script, completed>>

CloudFormation(a) ==
  FoundationUpdated(a) \/ RuntimeUpdated(a) \/ TargetUpdated(a) \/ RolledBack(a)

------------------------------------------------------------------------------
(* The script.                                                             *)

Goes(r, s, at) == script' = [script EXCEPT ![r] = [s EXCEPT !.at = at]]

Ends(r) == script' = [script EXCEPT ![r] = Idle]

\* What a run did is its own only if no other run for its agent overlapped it.
Completes(r) ==
  /\ Ends(r)
  /\ completed' = [completed EXCEPT ![script[r].agent] =
       IF script[r].alone THEN script[r].plan ELSE None]
  /\ UNCHANGED <<cloud, begun>>

\* The parameters are validated and the stack of the Gateway is deployed; then
\* the foundation, if it manages anything for this agent.
Begin(r) ==
  /\ script[r] = Idle
  /\ begun < MaxBegun
  /\ begun' = begun + 1
  /\ \E a \in Agents, p \in Plans :
       LET others == {q \in Runs : script[q].agent = a}
       IN  /\ script' = [q \in Runs |->
                IF q = r
                  THEN [at |-> IF p.managed \/ p.network THEN "foundation" ELSE "secret",
                        agent |-> a, plan |-> p, arn |-> None, alone |-> others = {}]
                  ELSE [script[q] EXCEPT !.alone = IF q \in others THEN FALSE ELSE @]]
           /\ completed' = [completed EXCEPT ![a] = None]
  /\ UNCHANGED cloud

Wait(kind) ==
  CASE kind = "foundation" -> "await foundation"
    [] kind = "runtime" -> "await runtime"
    [] kind = "target" -> "await target"

\* aws cloudformation deploy begins the update, which a stack that is being
\* updated refuses, and waits.
Submit(r, kind, given) ==
  /\ script[r].at = kind
  /\ ~ InProgress(script[r].agent, kind)
  /\ update' = [update EXCEPT ![script[r].agent][kind] =
       [status |-> "in progress", given |-> given]]
  /\ Goes(r, script[r], Wait(kind))
  /\ UNCHANGED <<deployed, begun, completed>>

\* It ends with the status it finds: a stack that was rolled back fails it.
Finds(r, kind) ==
  /\ script[r].at = Wait(kind)
  /\ update[script[r].agent][kind].status = "complete"

DeployFoundation(r) ==
  \/ Submit(r, "foundation",
            [managed |-> script[r].plan.managed, name |-> script[r].plan.name])
  \/ /\ Finds(r, "foundation")
     /\ Goes(r, script[r], "secret")
     /\ UNCHANGED <<cloud, begun, completed>>

\* Mutant: the value is written when the secret is new only.
WriteSecretOnce(r) ==
  /\ script[r].at = "secret"
  /\ LET p == script[r].plan
         arn == foundation[script[r].agent]
     IN  IF p.managed
           THEN /\ arn \in Live
                /\ secrets' = {IF s.arn = arn /\ p.string # None /\ s.value = Empty
                                 THEN [s EXCEPT !.value = p.string] ELSE s : s \in secrets}
                /\ Goes(r, [script[r] EXCEPT !.arn = arn], "runtime")
           ELSE /\ Goes(r, [script[r] EXCEPT !.arn = External], "runtime")
                /\ UNCHANGED secrets
  /\ UNCHANGED <<born, foundation, runtime, target, update, begun, completed>>

\* The ARN is read from the stack's outputs or from the parameters, and
\* write_secret_value puts the string there if the parameters have one.  The
\* private endpoints (module PrivateEndpoints) come before the next step.
WriteSecret(r) ==
  /\ script[r].at = "secret"
  /\ LET p == script[r].plan
         arn == foundation[script[r].agent]
     IN  IF p.managed
           THEN /\ arn \in Live
                /\ secrets' = {IF s.arn = arn /\ p.string # None
                                 THEN [s EXCEPT !.value = p.string] ELSE s : s \in secrets}
                /\ Goes(r, [script[r] EXCEPT !.arn = arn], "runtime")
           ELSE /\ Goes(r, [script[r] EXCEPT !.arn = External], "runtime")
                /\ UNCHANGED secrets
  /\ UNCHANGED <<born, foundation, runtime, target, update, begun, completed>>

\* DATABASE_SECRET_ARN and InternalContextAudience="runtime:${TARGET_NAME}".
DeployRuntime(r) ==
  \/ Submit(r, "runtime", [secret |-> script[r].arn, audience |-> script[r].plan.target])
  \/ /\ Finds(r, "runtime") /\ script[r].plan.skip
     /\ Completes(r)
  \/ /\ Finds(r, "runtime") /\ ~ script[r].plan.skip
     /\ Goes(r, script[r], "target")
     /\ UNCHANGED <<cloud, begun, completed>>

DeployTarget(r) ==
  \/ Submit(r, "target", script[r].plan.target)
  \/ Finds(r, "target") /\ Completes(r)

\* Mutant: a trap deletes the foundation of a deployment that failed.
FailCleaning(r) ==
  /\ script[r] # Idle
  /\ Ends(r)
  /\ LET a == script[r].agent
     IN  /\ secrets' = {s \in secrets : s.arn # foundation[a]}
         /\ foundation' = [foundation EXCEPT ![a] = None]
  /\ UNCHANGED <<born, runtime, target, update, begun, completed>>

\* set -e: a step that fails, or the death of the script.
Fail(r) ==
  /\ script[r] # Idle
  /\ Ends(r)
  /\ UNCHANGED <<cloud, begun, completed>>

Deploy(r) ==
  \/ Begin(r) \/ DeployFoundation(r) \/ WriteSecret(r)
  \/ DeployRuntime(r) \/ DeployTarget(r) \/ Fail(r)

Next == (\E r \in Runs : Deploy(r)) \/ (\E a \in Agents : CloudFormation(a))

Spec == Init /\ [][Next]_vars

------------------------------------------------------------------------------
(* Properties.                                                             *)

\* Everything is well formed, ARNs are unique, and the secrets that exist are
\* those of the foundation stacks.
TypeOK ==
  /\ secrets \subseteq [arn : Arns, name : Names, value : Strings \cup {Empty}]
  /\ born \in 0..MaxSecrets
  /\ foundation \in [Agents -> Arns \cup {None}]
  /\ runtime \in [Agents -> [secret : Arns \cup {External, None}, audience : Targets \cup {None}]]
  /\ target \in [Agents -> Targets \cup {None}]
  /\ update \in [Agents -> [Kinds -> [status : {"complete", "in progress", "rolled back"},
                                      given : (UNION {Given(k) : k \in Kinds}) \cup {None}]]]
  /\ \A a \in Agents, k \in Kinds : InProgress(a, k) => update[a][k].given \in Given(k)
  /\ begun \in 0..MaxBegun
  /\ script \in [Runs -> [at : {"idle", "foundation", "await foundation", "secret",
                                "runtime", "await runtime", "target", "await target"},
                          agent : Agents \cup {None}, plan : Plans \cup {None},
                          arn : Arns \cup {External, None}, alone : BOOLEAN]]
  /\ completed \in [Agents -> Plans \cup {None}]
  /\ \A s, t \in secrets : s.arn = t.arn => s = t
  /\ Live = {foundation[a] : a \in Agents} \ {None}

\* The secret has the name of plan p, and its string if p has one.
Holds(arn, p) ==
  \E s \in secrets : s.arn = arn /\ s.name = p.name /\ (p.string # None => s.value = p.string)

\* From the end of a deployment that no other run for its agent overlapped until
\* the next one for that agent begins, whatever runs for other agents do,
\* whatever failed before and whatever updates dead runs left behind: the
\* Runtime has the secret of the plan, under its name and with the string that
\* security_architecture.md has written "after the foundation stack exists", and
\* the target's calls carry the audience the Runtime expects.
CompletedServes ==
  \A a \in Agents : completed[a] # None =>
    LET p == completed[a]
    IN  /\ IF p.managed THEN Holds(runtime[a].secret, p) ELSE runtime[a].secret = External
        /\ runtime[a].audience = p.target
        /\ ~ p.skip => target[a] = p.target

\* A Runtime loses its database secret only by an update of its own agent's
\* foundation that renames it or hands it over to external management.
SecretLostByRenameOnly ==
  [][\A a \in Agents :
       runtime[a].secret \in Live /\ runtime[a].secret \notin Live' =>
         LET u == update[a].foundation
         IN  /\ u.status = "in progress"
             /\ ~ u.given.managed \/ u.given.name # NameOf(runtime[a].secret)]_vars

==============================================================================
