# A formal model of the data-agent

TLA+ specifications of the data-agent Runtime, its Gateway interceptor, its
deployment and release scripts and its MCP clients, the TLC configurations that
check them on small instances, and TLAPS proofs for any size. Definitions are
translated from the code in `src/`; `PROJECT.json` names the lines each of them
stands for, the hazards the properties are aimed at, and the places where the
code and the documentation disagree.

## 1. The system

A client calls the tool `ask_database` of an AgentCore Gateway with an OAuth
token. The Gateway validates the token and hands the request to an interceptor
Lambda, which mints a short-lived internal context (a signed JWT) for the target
that is called. The Runtime behind the target verifies the context, checks the
grants, has an LLM write one SQL statement, validates it, executes it in a
thread, and answers. Scripts publish releases to S3, deploy the stacks of an
agent, share endpoint stacks between the agents of a VPC, and clean up.

| Component | Source | State it keeps | Operations | Talks to | What makes it correct |
|---|---|---|---|---|---|
| ask_database handler | `main.py` | per call: configuration, verified caller, candidate, deadline | receive, verify, call the LLM, validate, submit, answer, audit | config and secrets (AWS), LLM, executor | one answer and one audit event for each call, of one outcome; only vetted statements are submitted; it ends whatever the LLM does |
| Database execution | `capabilities/database/database.py` | the executor's queue and threads, one session per running call | take, load secret, connect, configure, execute, dispose | handler (future), PostgreSQL | sessions and threads owned by exactly one running call, read-only and bounded; threads come back |
| LLM call | `llm.py` | none | answer, fail | handler | never awaited without a deadline |
| SQL validator | `capabilities/database/sql_validator.py` | none (pure) | `validate_sql` | handler | its checks, which know no scopes, let a statement name only what the data model lists or its own blocks project |
| Input and output controls | `security.py`, `main.py` | none (pure) | validate question and context, normalise and shape rows | handler | every limit bounds the rows; what is not marked truncated is whole; denied keys are dropped |
| Configuration model | `config.py` | none; loaded on every call | load, validate | handler, S3 | one call sees one configuration |
| Internal context verification | `authorization.py`, `main.py` | none; the secret is read on every call | verify | interceptor (JWT) | accepted while it lives, not longer; revoked by rotation |
| Gateway request interceptor | `infrastructure/bootstrap.yaml` | `_SECRET_CACHE` of each container; the accepted claims | intercept | Gateway, Runtime, deploy.sh | grants come from accepted claims; contexts are dated and signed |
| Release publication and cleanup | `publish.sh`, `cleanup_artifacts.py` | objects of the bucket, manifests, `active.json` | publish, clean up | S3, CloudFormation | what a manifest or a Runtime refers to is in the bucket; the rest is removed |
| Runtime stack | `runtime.yaml`, `deploy.sh` | parameters, the release that runs | update, roll back | S3, publish | the running release can be fetched |
| Private endpoints | `deploy_private_endpoints.sh`, `private-endpoints.yaml` | route tables, subnets and access of the stacks of a VPC | find, read, merge, write | CloudFormation, deploy.sh | adding an agent takes nothing from the others |
| Agent deployment pipeline | `deploy.sh`, `agent-foundation.yaml`, `target.yaml` | the secret, the Runtime and the target of each agent, and the update under way on each stack | begin and await the update of a stack, write the secret | all stacks | an undisturbed deployment leaves a Runtime with the secret and string of its plan, and a target that agrees with it on the audience; only a rename takes a secret away |
| MCP clients | `smoke_test.py`, `agent_cli.py` | session, request identifier, selected tool | initialize, notify, list, call, delete | Gateway | handshake in order; sessions closed; a pass means a listed tool answered; a wait ends once the Gateway falls silent |
| Parameter validation | `validate_parameters.py`, `preflight_aws.py`, `bootstrap.sh`, the readers of `deploy.sh` and `deploy_private_endpoints.sh` | the parameter file, the configuration, the operator's environment, what each stack was handed | validate, look up, read a key, hand over | all stacks | what is accepted is complete for every reader, and deployed as it was checked, but for the listed ways past it |
| Others | `build.sh`, `target-mcp-oauth-obo.yaml`, `gateway-identity-permissions.yaml`, `postgres/*.sql` | none | one-shot scripts and templates | AWS, PostgreSQL | not modelled (section 8) |

The behaviours that are hard to test here:

* one event loop, timers and a bounded pool of threads: a timeout cancels a
  handler but not a thread, so work goes on behind requests that were answered;
* every call reads its configuration and secrets anew, the interceptor reads the
  secret once: what one component holds is stale for another;
* scripts are sequences of AWS calls without locks or transactions: they
  interleave, die between two calls, take a failed read for an empty one, and
  CloudFormation continues or rolls back without them, under the next script;
* a file is checked once, as a whole, and then read key by key, by readers that
  differ in what they do with a missing or empty key, after stacks were deployed;
* a statement is judged by tables of names that are built over all its blocks at
  once, whatever their scopes;
* stacks are shared by agents (bootstrap, endpoints, bucket) and deployed by
  whoever deployed last;
* requests on the network are lost, late or repeated, clocks differ, and clients
  give up on requests that may still be served.

## 2. Modules

| Module | Models | Kind |
|---|---|---|
| `RequestContract` | what a Runtime promises a caller, without loop, timer, threads | abstract specification |
| `AskDatabase` | handler, deadline, executor and sessions; implements `RequestContract` | component |
| `AskDatabase_proofs` | inductive invariant, type correctness, five safety properties, the refinement, two liveness properties | proofs |
| `MCAskDatabase` | instances for TLC | model |
| `SqlValidator` | the checks of `validate_sql` over the blocks of a statement, and the LIMIT it writes | operators |
| `QueryAnswer`, `QueryAnswer_proofs`, `MCQueryAnswer` | the data of one call: request, statement, verdict, rows, answer; uses `SqlValidator` | component, proofs, model |
| `TrustedContext`, `TrustedContext_proofs`, `MCTrustedContext` | interceptor, context, verification; clocks and rotation | component, proofs, model |
| `ReleaseRegistry` | what the scripts promise of releases, without uploads and lists of keys | abstract specification |
| `Release` | publish.sh, cleanup_artifacts.py, the release of each Runtime stack; implements `ReleaseRegistry` | component |
| `Release_proofs` | inductive invariant, type correctness, five safety properties, the refinement | proofs |
| `PrivateEndpoints`, `PrivateEndpoints_proofs`, `MCPrivateEndpoints` | the shared endpoint stacks | component, proofs, model |
| `AgentDeployment`, `AgentDeployment_proofs`, `MCAgentDeployment` | the steps of deploy.sh, the stacks of each agent and the updates on them | component, proofs, model |
| `DeployParameters`, `DeployParameters_proofs`, `MCDeployParameters` | what the validator accepts, what the scripts then read and hand to each stack | component, proofs, model |
| `McpClient`, `McpClient_proofs`, `MCMcpClient` | smoke test and CLI against a Gateway that may answer anything | component, proofs, model |

The modules meet where the components do. `TrustedContext.Verify` decides what
`AskDatabase` takes as the grants of a verified caller (`Serve`,
`RefuseVerified`) or as an unverified one (`RefuseUnverified`). `Release` and
`AgentDeployment` split deploy.sh between them: the first has the artifact and
configuration keys of the Runtime's stack, the second its secret and audience.
`PrivateEndpoints` is what a run of `AgentDeployment` does between `WriteSecret`
and `DeployRuntime`, and `TrustedContext.DeployAgent` what it does in `Begin`.
`QueryAnswer` is one call of `AskDatabase` with its data: its `Accepted` decides
what `AskDatabase` has as the statements a configuration allows.
`DeployParameters` has the parameters that `AgentDeployment` takes as `Plans`: it
shows that a file that is deployed has what each step reads. Each is
checked on its own, because each composition multiplies state spaces without
sharing variables other than the one named here.

Definitions that begin with the comment "Mutant" are not part of a specification:
each is a plausible defect, standing beside the definition it would replace, and
breaks the property `PROJECT.json` pairs it with.

## 3. How state and steps correspond to the code

### AskDatabase

All requests share one asyncio loop, so code between two awaits that really
suspend is one step. `load_config`, `load_secret`, building the model client and
`validate_sql` are synchronous calls and suspend nothing. That leaves these
steps of `ask_database` (main.py:127-266):

| Action | Code |
|---|---|
| `Arrive` | the MCP server starts the tool call |
| `LoadConfigFails` | main.py:152-154, before the `try`: the exception leaves the tool |
| `RefuseUnverified`, `RefuseVerified`, `Serve` | from there to the LLM call: configuration, context, grants, question, provider; `Serve` arms `asyncio.timeout` |
| `LlmReplies` | the awaited agent run resolves (external) |
| `Expire` | the timer of `asyncio.timeout` fires: the task is cancelled and a ready result is lost |
| `TimeOut` | the cancelled handler resumes: the executor's future is cancelled if its call is still queued |
| `UseCandidate` | validates, and submits with `asyncio.to_thread` in the same step |
| `UseFailure`, `UseRows` | exception handlers; normalise, shape, `can_show_sql`, audit, response |
| `Take`, `LoadDatabaseSecret`, `Connect`, `Configure`, `Execute`, `Dispose` | a thread: `_execute_sync` (database.py:25-56), each blocking call a step that can fail |

`phase`, `deadline`, `config`, `caller`, `statement` are the locals of a call and
where it is suspended; `queue`, `worker`, `job`, `session` are the executor and
its connections; `outcome` is the awaited result; `answer`, `shown`, `audit` are
what a call leaves behind. A question, a row or a prompt has no content here; a
configuration is what the decisions look at: required grants, SQL viewer grant,
`allow_sql_by_default`, the statements `validate_sql` accepts under it, and
whether provider and dialect are known.

### SqlValidator and QueryAnswer

A statement is a main SELECT and further blocks (a CTE, a derived table, a subquery
nested in an expression); a block has its sources, the columns it reads and those
it projects. `Accepted` is `validate_sql` (sql_validator.py:66-168) on these:
`Recorded` and `Projected` are the table of the columns that CTEs and derived
tables project, `IsLocal` tells the tables it takes for one of these, `RelationBy`
is the dictionary from names and aliases to relations, in which the last one found
wins, `QualifiedAllowed` and `UnqualifiedAllowed` are the two branches for a column.
None of them knows in which block a name occurs. `BoundedRows` is the LIMIT of the
statement that is executed.

`AcceptedIsListed` is what these checks guarantee of every statement, without a
condition on its names: a table with a schema is one of the data model, a column
has a listing (`Listed`) under one of the relations its qualifier can name somewhere
in the statement or is projected by a block it can name, and no denied column is
read or, by an alias, answered. It does not say that a column is compared with the
relation it is read of, because that does not hold (section 6).

The actions are the steps of a call with its data: `Refuse` and `RequestAccepted`
(the pydantic request, `validate_question`, `validate_context`), `Generate`,
`Validate`, `Execute` and `Respond` (`normalize_rows`, `_response_rows`,
`_json_payload`). `result` is what the database has for the statement without its
LIMIT, so that a property can speak of the rows that were never fetched; of a row
there are its keys, of which `Normalized` drops the denied ones, and no cells.

### DeployParameters

`file` and `config` are the JSON parameters and the YAML, as functions from the
keys they have; `env` is the operator's shell with the headers it sets. `Overlay` and
`Valid` are validate_parameters.py, one operator per check of it. After `Validate`
the scripts read the file themselves; the three readers are `Agent` (optional, from
the agent first), a key in `Lacks` (required: the script ends where it is missing)
and `Or` (`${X:-default}`, which also replaces an empty value). JSON null is a value
of its own: `Given` does not count it, and a reader prints it as the word None
(`Printed`). A required reader inside the arguments of a command is `Get(..., "")`:
its failure does not end the script (`GatewayParameters`). `step` goes through
`preflight` and `gateway` (bootstrap.sh), `validate`, `read`, `bootstrap`,
`foundation`, `resources`, `secret`, `check_endpoints`, `endpoints`
(deploy_private_endpoints.sh), `runtime`, `target`, or ends as `refused`,
`key_error`, `failed` or `deployed`. `stacks` is what each step handed over.

Three things are deployed on paths that avoid the validator, and the properties name
each of them: `Headers` takes the environment's before the file's (deploy.sh:53-56);
`FoundationParameters` are handed over whatever the modes (deploy.sh:127-137), of
which `FoundationUses` are those the template has a use for; and a key that is
deployed from the top level is `Shadowed` where the agent has it too, because the
validator then saw the agent's value.

### TrustedContext

`Intercept` is the Lambda's handler for a tool call (bootstrap.yaml:301-357) and
`Verify` the Runtime's `_trusted_gateway_context` with the required grants. A
context is a record of what the JWT says and, for the properties only, the true
time and claims it was minted of. The signature is the version of the secret
that made it: HMAC is taken to verify exactly under the same secret. `flight` is
a set that `Verify` does not empty: a request may arrive late, again or in
another order, and `Lose` drops it. `Recycle` is a new Lambda environment, with
an empty cache and its own clock. `DeployAgent` writes the agent's accepted
claims into the shared bootstrap stack (deploy.sh:74-87).

### Release

The bucket is a function from the keys present to what they hold. Every call of a
script to S3 or CloudFormation is one step; `op[o]` is the script operator `o`
runs and the call it makes next, `work[o]` the local sets of a cleanup.
`Upload` and `Activate` are the four uploads of publish.sh in their order,
`ListManifests` to `EndCleanup` the calls of cleanup_artifacts.py, with
`NextToDelete` for its sorted deletion, and `SubmitUpdate`, `WaitUpdate`,
`UpdateSucceeds`, `UpdateFails` an update of the Runtime's stack, whose
parameters change when it begins. A creation that fails (`CreationFailed`) leaves
a stack that keeps its parameters, is not updated and has no Runtime; deleting it by
hand, which comes before another attempt, is not modelled. `Die` ends a script
between two calls. Text
order of keys matters to the code and is kept: versions are numbers in the order
of their text, and `Covered` is the prefix match of the listing.

`ReleaseRegistry` has releases in place of keys. Its mapping, at the end of
`Release`, calls a release available while its artifact and its configuration are
there: an upload that is not complete and a deletion that has begun are nothing
yet, or nothing any more. `Provide`, `Catalogue` and `Activate` are the last three
uploads of publish.sh, `Withdraw` the first deletion of a release and `Drop` that of
its manifest; the uploads and deletions between them stutter.

### PrivateEndpoints

`op[o]` is the shell variables of one run of deploy_private_endpoints.sh:
`LookUpDefault` and `SearchStacks` find the stack, `ReadVpc`, `ReadSubnets`,
`MergeTables` read its parameters, `Deploy` writes the merged ones, `Wait` and
`ReadGroup` end the script and `DeployRuntime` is what deploy.sh does with the
group. With `ReadsMayFail` each read can also come back empty, as
`2>/dev/null || true` makes it. A stack has the parameters describe-stacks shows
(`params`, `wanted`, `asks`) and what it is made of (`tables`, `subnets`, `access`).

An update ends in two steps, whether it completes (`cleaning`:
UPDATE_COMPLETE_CLEANUP_IN_PROGRESS) or not (`rollingback`:
UPDATE_ROLLBACK_IN_PROGRESS), and the filter of list-stacks (line 94) has neither of
the two states: `Listed` is what it has. `orphans` is history, the stacks whose script
died while they were changing. `access` stands for `EndpointIngressCidr` and
`RuntimeAccessSecurityGroupName`: a script writes those of the agent it deploys in
the place of what was there (lines 227-246), and a Runtime is admitted as long as its
stack still admits the group the Runtime was given. An agent that opted out is
deployed without the script.

### AgentDeployment

`script[r]` is one run of deploy.sh; several run at a time, for different agents or
for one. `Begin` is the validation and the bootstrap stack. For each of the three
stacks of an agent, `Submit` is `aws cloudformation deploy` beginning an update, which
a stack that is being updated refuses, and `Finds` the script seeing its end;
`FoundationUpdated`, `RuntimeUpdated`, `TargetUpdated` and `RolledBack` are what
CloudFormation makes of it, with or without a script that waits. `Fail` is `set -e`
or a death at any step, and the script is run again with any of the `Plans`.
`FoundationUpdated` has the replacement semantics of the secret resource: a new name
is a new secret and deletes the former one, as does leaving managed mode; an equal
name is refused. `alone` and `completed` are history: whether no other run for the
agent overlapped this one, and the plan of the latest run that went through alone.

Merged into one step each: reading the ARN and writing the secret; replacing a
secret, which CloudFormation does by creating the new one and deleting the old one at
the end of the update; the private endpoints, between the secret and the Runtime. A
first creation that failed counts as rolled back, so that its stack can be
deployed again: deleting it by hand is part of the next run.

### McpClient

`run[c]` is where a script is and what it holds; `pending` is a set of requests
on the network. `Send` is `_post`, `_notify` or `_delete_session`; `Receive...`
what the script does with a response; `GiveUp` the timeout or failure of a read of
its socket; `Quit` EOF at the prompt or Ctrl-C. `Interject` is anything of a response
other than its payload, an event or a comment of a stream, which `_read_response`
(smoke_test.py:30-41) reads and goes on from: it may come for ever, and no timeout
counts it. `offered` is history, the tools listed to each run. The Gateway is
external: it answers any request with any status, payload and session header, keeps
or ends sessions as it likes, lists other tools each time, and serves requests whose
sender no longer waits.

## 4. Runs

Small instances, each with the case its properties are about.

| Run | Instance | Properties | Result |
|---|---|---|---|
| `AskDatabase_calls` | 2 requests, 1 thread, 3 configurations (usual; other grants and statements with a dialect without adapter; unknown provider), 2 statements; fairness | `TypeOK`, `OnlyVettedStatementsRun`, `SessionsOwned`, `AnswerAfterWork`, `AuditMatchesAnswer`, `ImplementsContract`, `NoWorkAfterAnswer`, `EveryRequestEnds`, `ThreadsComeBack` | hold |
| `QueryAnswer_statements` | over 100 000 statements of up to three blocks on three relations, one of them without a schema, with every clash of names; all combinations of five limits with results around them | `AcceptedIsListed`, `ShownWithinBounds`, `UnmarkedIsWhole` | hold |
| `TrustedContext_clocks` | 2 agents, 2 callers, 1 container, clocks off by -1..1, life 3, leeway 1, time to 6, 1 rotation, 1 request under way | `TypeOK`, `AuthorizedIsFresh`, `FreshIsAccepted`, `RotationRevokes` | hold |
| `TrustedContext_modes` | 2 agents that accept different claims | `AuthorizedByOwnClaims` | violated: the interceptor follows the agent deployed last |
| `Release_operator` | 1 operator, 4 versions, 2 builds, 1 manifest kept; publish and cleanup die anywhere | `TypeOK`, `ManifestsWhole`, `CleanupLeavesReferenced`, `ImplementsRegistry` | hold |
| `Release_prefix` | an instance named `data-agent-<x>` beside the default one, 3 versions | `ReleasesInUseStay` | violated: the default prefix covers the other's keys, and a release its manifests name loses its artifact |
| `Release_rollback` | deploy.sh may die | `RuntimeServed` | violated: a cleanup during an update reads the new parameters only |
| `PrivateEndpoints_serial` | 5 agents (two in one VPC with disjoint route tables; two in another with the same ones and different access; one opted out), an older stack or none, 1 operator; scripts die, updates roll back | `TypeOK`, `EndpointsCoverRuntimes`, `RuntimesAdmitted`, `SecondStackOnlyOrphaned`, `SubnetsStable` | hold |
| `PrivateEndpoints_throttled` | reads may fail | `EndpointsCoverRuntimes` | violated: a failed read counts as nothing to merge |
| `AgentDeployment_edits` | 2 agents, 2 runs at a time, 4 runs ever, 4 plans that edit string, name, mode, network and target, 3 secrets; runs die anywhere, updates go on | `TypeOK`, `CompletedServes`, `SecretLostByRenameOnly` | hold |
| `DeployParameters_edits` | four files (the template, managed, mixed, explicit resources), each with any two keys edited or removed; 13 configurations; 2 shells; failure at any step | `NoHalfDeployment`, `ReplaceStaysOut`, `CheckedIsDeployed`, `SecretOfEnvironment`, `FilesAgree` | hold |
| `McpClient_runs` | a smoke test and a CLI of two questions, 2 tools; fairness | `TypeOK`, `HandshakeFirst`, `PassedWasServed`, `HeldSessionsDeleted`, `EveryWaitEnds` | hold |

A violated run quotes, in `PROJECT.json`, the sentence of the repository it
refutes. `PrivateEndpoints_serial` holds for one operator whose reads succeed;
`PrivateEndpoints_throttled` shows that the second half of that is needed.
`Release_operator` has one operator whose deploy.sh is not killed; its
`ImplementsRegistry` implies `RuntimeServed` and that a cleanup removes only what
nothing refers to, and `Release_rollback` and `Release_prefix` show where the two
fail outside of it. The type invariants of `QueryAnswer` and `DeployParameters` are
proved and not run.

The largest runs are `AgentDeployment_edits` with 8.4 million states,
`DeployParameters_edits` with 5.5, `TrustedContext_clocks` with 4.4,
`PrivateEndpoints_serial` with 3.0 and `Release_operator` with 1.4 million; the others
have half a million or less.

Deadlock is not checked: requests all end, versions, secrets and questions are
bounded, a run of the scripts and a call end, and an idle system rests.

**Why the bounds are enough.** Requests of AskDatabase share only the executor:
two on one thread give a call that waits behind a timed-out one, and the proofs
are for any number of both. Three configurations differ in
every field a decision reads. A clock off by the whole leeway, in either
direction, and a time beyond life + leeway + error meet every comparison of
`Verdict` from both sides. A window of one manifest with four versions has a
release that is active, one that runs, one that is being deployed and one that is
none of these; in `Release_prefix` three versions let the default instance fill its
window of one beside a release of the other instance. Two relations of which one has
a column more, a relation without a schema whose name a CTE or an alias can take, and
a table of a schema that bears the name of a CTE, in a main SELECT over one or two
sources, with each alias and qualifier that is its own, another's or nobody's, beside
a CTE, a derived table or a nested subquery, give every way in which the tables of
`validate_sql` take one name for two things; a CTE beside a derived table, and two
CTEs, the ways in which two blocks do. Row limits between 0 and 5 with results below,
at and above them put each limit once below all others. A defect of the readers needs
one key that is missing, empty, null or a marker, in a mode another key selects: hence
two edits of each file, at the top and in the agent, and a shell that sets no header
or both. Agents with disjoint route tables, with common ones and with different
access, in two VPCs of which one may have an older stack, give every kind of merge.
Two runs for one agent, begun twice, with three secrets, allow a run that dies at its
Runtime, one that renames the secret behind it, and one that comes after both, while
another agent takes the name that became free. Bounds the code does not have are named
constants (`MaxVersion`, `MaxTime`, `MaxRotations`, `MaxFlight`, `MaxSecrets`,
`MaxBegun`, `Questions`, and the sizes of `Runs` and `Operators`); the proofs do not
depend on their values.

**Fairness.** `AskDatabase!FairSpec`: the loop runs what is ready (`Begin`,
`Resume`), timers fire (`Expire`), threads go on. Nothing makes the LLM answer. A
statement is sure to end only in a session with a statement timeout, and
connecting is bounded by `connect_timeout`, so `Connect` is fair and `Execute` is
fair under that condition. That the timeout is one rests on the configuration:
`statement_timeout_ms` is any integer (config.py:77), 0 passes the validator
(validate_parameters.py:377-380), and PostgreSQL takes 0 for no timeout at all.
`ThreadsComeBack` is about configurations with another value, and likewise with a
`connect_timeout` among the `connect_args`. The AWS calls have the SDK's timeouts.

`McpClient!FairSpec`: a script reads what came, and a read of its socket on which
nothing comes times out; neither the Gateway nor the user need ever act. The timeout
bounds a read and not the response (smoke_test.py:30-41, 79), so a Gateway that sends
other events for ever keeps a script waiting, and no fairness of the code ends that:
`EveryWaitEnds` therefore says that a wait ends if the Gateway falls silent
(`FallsSilent`), with an answer or without one.

## 5. What is proved

For every value of the constants, with TLAPS:

**AskDatabase** (`AskDatabase_proofs`), from `ConfigAssumption` and
`NoneAssumption` (configurations are configurations, `None` is none of the
values):

* `TypeCorrect`, `VettedStatements`, `OwnedSessions`, `AnswersFollowWork`,
  `AuditTrail`: the five invariants of the run;
* `NoLateWork`: no thread begins to work for a request that was answered;
* `Implementation`: `AskDatabase!Spec` implements `RequestContract!Spec`;
* `RequestsEnd`, `ThreadsReturn`: `EveryRequestEnds` and `ThreadsComeBack`, under
  `FairSpec` and `[]FairActionsEnabled` (see "Liveness" below).

None of the five is inductive alone. A thread works behind a handler that has long
answered, so what makes `OnlyVettedStatementsRun` true was decided in a phase
that is over; and `Take` starts whatever is at the head of the queue, so the queue
must be known to hold only calls that are waiting or dropped, each once. `Inv`
therefore joins to the properties `HandlerInv` (which jobs a phase admits, and
that any job is vetted), `ThreadInv` (the session and outcome that belong to a
place of the thread), `ThreadsApart` and `QueueInv`. `NextInv` has a lemma per
action; the ones that end a request go through `EndInv`, those of a thread
through `ProgressInv`. The refinement maps `phase` and `answer` to the contract's
status and `outcome = "rows"` to its `read`: `HandlerRefines` shows every step of
the loop to be an `Arrive`, an `End` or a stutter, `PoolRefines` every step of a
thread to be a `Read` or a stutter.

For `RequestsEnd`, `PhaseMoves` says that no step takes a handler back, nor a fired
timer, and `HandlerEffects` where the fair steps of the loop take it. For
`ThreadsReturn`, `ServingStays` says that only its own step moves a serving thread, and
`ThreadMoves` that such a step goes forward through `_execute_sync`; `Inv` adds that a
statement runs only in a session with a timeout, which is where `Execute` is fair.

**TrustedContext** (`TrustedContext_proofs`), from `ContextAssumption`:

* `TypeCorrect`, `ContextsAreShortLived`, `RotationIsRevocation`;
* `LeewayCoversClocks`, with the further assumption that clocks are off by no
  more than the leeway. The code does not guarantee it: it is what the 30 seconds
  are for.

A Runtime decides on the request alone, so the invariant is about requests on the
network: `Dated` (one clock dated both ends of its life) and `Signed` (what the
present secret signed was minted since the last rotation, although containers
still sign with older ones).

**AgentDeployment** (`AgentDeployment_proofs`), from `PlanAssumption` and
`NoneAssumption`:

* `TypeCorrect`, `Completed`: the two invariants of the run;
* `SecretKept`: its action property.

A run relies on a secret it read steps before and on updates it waited for, while
other runs come and go and the updates of dead ones go on. `IInv` says why it may:
every secret belongs to the foundation of one agent and no ARN is given out twice
(`Owned`); a Runtime, and an update of one under way, refer to the secret of their
own foundation, to a deleted one or to an external one (`OwnSecrets`); and a run that
is alone with its agent knows, at each step, what the update it waits for was begun
with and what the stacks it passed hold (`Knows`, `RunInv`). `Served` carries that
over the end of the run, until the next one for the agent begins. That a Runtime is
deployed on a secret that is there, and that what an overlapped run leaves fits
together, does not hold and is no theorem: see section 6.

**QueryAnswer** (`QueryAnswer_proofs`), from `CallAssumption` (limits are numbers,
statements are `WellFormed`, which is what SQL's grammar makes of any SELECT: blocks
and sources are sequences with the main SELECT first, a catalog comes with a schema,
a derived table has an alias and a block, and there is at most one LIMIT):

* `TypeCorrect`, `RowsAreBounded`, `UnmarkedAnswers`: types, `ShownWithinBounds`
  and `UnmarkedIsWhole`;
* `AcceptedAreListed`: `AcceptedIsListed`, for every data model and statements of any
  number of blocks, sources, columns and names, whatever they clash with.

The answer is made from the rows fetched, two steps after the limit was computed
from the request, the statement and the configuration. `Determined` says that the
limit is still the one these determine and the statement the one that was accepted,
and `Shaped` what an answer is in terms of them; lemma `Bound` is the arithmetic.

For `AcceptedAreListed`, a qualifier of a table has claims, of which one is the last
(`LastClaim`, by two uses of `Greatest`), so that the relation a column was compared
with is one the qualifier names (`RelationFound`); a name of a block is looked up in a
block of that name (`ProjectionFound`). `AllowedIsListed` joins these with the two ways
an unqualified column is accepted.

**DeployParameters** (`DeployParameters_proofs`), for any files and environments, from
`SecondsAssumption` (a duration that is a number is one; the empty text and null are
none) and `ConfigsAssumption` (timeouts are numbers, and a scope is not null):

* `TypeCorrect`; `ReadersNeverFailLate` (`NoHalfDeployment`), `DeployedAsChecked`
  (`CheckedIsDeployed`), `SecretsAreOfTheEnvironment` (`SecretOfEnvironment`),
  `FilesAgreeWhenDeployed` (`FilesAgree`), `MarkersStayOut` (`ReplaceStaysOut`).

The properties compare what a step was handed with a check that was made many steps
before. `IInv` says that a run past its validation has a valid file and, in the
managed modes, the stacks its later steps rely on; `HandedOver` that each stack's
parameters are those its step computes from the inputs, which no step changes. What
is left is about one file: `ValidIsComplete` (a valid file has the keys the readers
of its modes require), `SameModes` (a reader with a default sees the mode the
validator judged), `ReadersSatisfied`, `DurationsAreHanded`, `PlacedInTheNetwork`,
`OfTheTopIsTop`, `MarkersAreIgnored`. No file is excluded: where the code lets a value
past the validator, the property names the way (`Shadowed`, `FromEnvironment`,
`IsNull`, `FoundationUses`, the subnets of the endpoints), and each of these is in
section 6.

**Release** (`Release_proofs`), from `ReleaseAssumption` (Dashed instances are
instances, bounds are numbers) and, but for the first, from hypotheses that each
theorem states:

* `TypeCorrect`: `TypeOK`, whatever overlaps and dies;
* `ManifestsStayWhole` (`ManifestsWhole`), under `[]Serial` and `NoDashes`;
* `OnlyUnreferencedGo` (`DeletesUnreferenced` and `ReleasesInUseStay`), `CleanupsFinishTheJob`
  (`CleanupLeavesReferenced`), `RunningReleaseStays` (`RuntimeServed`) and
  `ReleasesAreRegistered` (`ImplementsRegistry`), under `[]Serial`, `NoDashes` and
  `DeploysFinish`.

`Serial` says that scripts do not overlap, whoever runs them (`OneOperator`: with one
operator they do not); `NoDashes` that no instance has a name that begins with
`data-agent-`; `DeploysFinish` that deploy.sh is not killed. None is guaranteed by the
code, and none can be left out: the run `Release_prefix` is without the second,
`Release_rollback` without the third, and section 6 says what two operators do. The
theorems turn the two violated runs round: what they show to fail holds, for any
number of instances, versions and builds, any window and any failure of publish.sh,
cleanup or CloudFormation, as soon as the one thing they are about is excluded.

A cleanup deletes, call after call, what it listed calls ago, and it is whole
manifests, not keys, that must stay whole. `IInv` says what it knows at each of its
calls (`CleanupInv`): the manifests it listed are those that are there, every recent
manifest is still to be read or its release is kept, and the keys it will delete are
exactly the doomed ones (`Doomed`). `PublishInv` is the counterpart for publish.sh:
what it uploaded is there and nothing else in the bucket has its version. `PrintedInv`
is about what is left of an older release (never an artifact alone, for configurations
are deleted after artifacts): that is why an update that finds its artifact finds its
configuration, which CloudFormation does not look at. A deletion changes the set the
window is a window of; that the window stays (`RecentStays`) is the fact about finite
sets behind all of it: a manifest that entered it would have `Keep` newer ones, because
the window was full (`NewestManifest`, from the well-foundedness of strict inclusion).
The refinement has one lemma per step the registry sees; `NewestAreRecent` is the
bijection between manifests and their versions.

**PrivateEndpoints** (`PrivateEndpoints_proofs`), for any agents, VPCs, route tables
and older stacks:

* `TypeCorrect`: `TypeOK`, whatever overlaps and fails;
* `RoutesAreKept`, `RuntimesStayAdmitted`, `StacksAreShared`, `EndpointsStay`
  (`EndpointsCoverRuntimes`, `RuntimesAdmitted`, `SecondStackOnlyOrphaned`,
  `SubnetsStable`), under `[]Serial` and `ReadsSucceed`.

The first hypothesis is met by one operator (`OneOperator`), the second is what the run
`PrivateEndpoints_throttled` is without. A script merges with what the stack said some
calls before, and the stack may be completing or rolling back the update of a script
that died. `Sound` says that a stack routes no more than its parameters say, that an update
keeps its subnets, and that its access is one an agent of its VPC asked for, so that
`Knows` can carry what was read from call to call: parameters grow, and a merge with
old ones covers what the stack routes when it is written. `Attended` says that a stack
that is changing has a script that waits for it or is an orphan: a search that misses
it can therefore only be of an orphan, which is what `Chosen` says of the stack a
script goes on with.

**McpClient** (`McpClient_proofs`), for any clients, tools and number of questions, from
`ClientAssumption` and `ResponseAssumption` (a client's target is a tool, and `None` is
neither a tool nor a response):

* `TypeCorrect`, `HandshakeComesFirst`, `PassesAreEarned`, `SessionsAreClosed`: the
  four invariants of the run;
* `WaitsEnd`: `EveryWaitEnds`, under `FairSpec` and `[]FairActionsEnabled`.

Requests overtake one another, and one that was given up may be served later. `RunInv`
and `RequestInv` say that a response that reaches a client answers its newest request,
that every list or call under way was sent after its handshake, and every call for a
tool listed to its run (`offered`), and that a client whose DELETE was sent does not
come back.

For `WaitsEnd`, `OthersWait` says that nobody else moves a run and that a response is
not taken back, `ClientOnward` that whatever a waiting run does takes it to one of the
places after this wait (`Onward`). `WaitEnds` is the leads-to of one wait of a client
to which the Gateway falls silent; a run of the smoke test is a chain of five.

**Liveness.** Weak fairness of an action is about when it is ENABLED, and the provers
know nothing of ENABLED. The three liveness theorems therefore have one hypothesis
besides the fairness, `[]FairActionsEnabled`: in every state, each fair action can be
taken where its guard holds. It can be read off the actions, one disjunct of which is
possible under each guard whatever the data: a request that was received can fail to
load its configuration, a timer fires, a cancelled handler times out, every place of a
thread can raise, a client may give up, and each kind of response has its branch.
`FairActionsEnabled` is not proved. The runs, in which TLC computes ENABLED, check the
same three properties without it, on small instances; the theorems hold for any number
of requests, threads and clients.

Every property of a passing run is stated by a theorem: without a hypothesis beyond the
assumptions on the constants, or with those named above. Only model-checked are the
violations of section 6 and, as said, what the liveness theorems take from ENABLED.

## 6. Where code and documentation disagree

Four violated runs, each an entry of `findings` in `PROJECT.json` with the line of
the code and the sentence it contradicts:

| Run | Code | What happens |
|---|---|---|
| `TrustedContext_modes` | deploy.sh:86 | the claims the interceptor accepts are those of the agent deployed last |
| `Release_prefix` | cleanup_artifacts.py:65 | the prefix of the default instance covers those named `data-agent-<x>`, whose artifacts and configurations go while their own active manifest names them |
| `Release_rollback` | cleanup_artifacts.py:22 | during an update the parameters name the new release, and the one that runs is removed |
| `PrivateEndpoints_throttled` | deploy_private_endpoints.sh:167 | a failed read is an empty value, and the merge replaces |

Noticed while reading and modelling, and not run: they need no interleaving, repeat
one of the above, or are the exceptions that a property states.

Calls and their answers:

* the configuration is loaded before the `try` (main.py:153): when it cannot be read,
  the call ends without the fixed message and without an audit event;
* rejected and failed audit events carry the trace identifier only, also for a
  verified caller (main.py:247; security_architecture.md:604 says "Caller identity is
  recorded in audit events");
* cells are cut to `max_cell_length` and then redacted, so a cell with a replacement
  may be longer than the cap, and cells that are not text are neither cut nor redacted
  (security.py:47-50; database_runtime.md:309-311, security_architecture.md:480-481);
* a CTE that is referenced through an alias, and a CTE whose body is a UNION, are
  refused although all they read is allowed (sql_validator.py:91-99;
  database_runtime.md:146 "projected CTE and derived-table columns … may be
  selected");
* a name that stands for two things of a statement, or for one of it and a relation of
  the data model, is looked up in the table of one of them, whichever scope it is in
  (sql_validator.py:89-134), and an unqualified column is accepted in every scope once
  some block of the statement projects that name (136-143). So a column may be
  compared with another relation than the one it is read of, where
  database_runtime.md:145 has "authorized columns per relation"; `AcceptedIsListed`
  says what is left.

Releases:

* publish.sh overwrites when VERSION is set to one used before (publish.sh:54;
  README.md:299 says "published immutably"); `Release` takes versions from the clock;
* with two operators a cleanup can remove what is published or deployed meanwhile
  (cleanup_artifacts.py:73): `Operators = {o1, o2}` in `Release_operator` shows it.

Endpoints:

* two endpoint deployments at a time can lose the routes of one of them
  (deploy_private_endpoints.sh:224): `Operators = {o1, o2}` in
  `PrivateEndpoints_serial` shows it;
* with `ReadsMayFail = TRUE`, `RuntimesAdmitted` fails too: `stack_output` inside an
  `echo` does not end the script (deploy_private_endpoints.sh:249), and the Runtime is
  deployed without the group;
* after a script that died during an update of an older stack, the next one may not
  find that stack while it is cleaning up or rolling back, and creates a second one in
  the VPC (deploy_private_endpoints.sh:94; database_runtime.md:35 "shared by
  environment/VPC"). `SecondStackOnlyOrphaned` says that nothing else leads there;
* the access of a shared stack is that of the agent deployed last (lines 227-246): one
  that asks for another CIDR or another group name shuts out the Runtimes that are
  there (database_runtime.md:48-51 "keeps endpoint access reusable for future agents").
  `RuntimesAdmitted` is about VPCs whose agents ask for the same.

Deployments of an agent:

* a run that died while its Runtime was being updated leaves an update that completes
  later, also after the next run renamed the secret and so deleted the one the update
  names: that Runtime has no secret until its stack is updated again (deploy.sh:175-194);
* two runs at a time for one agent, with different parameters, can leave the Runtime
  of one beside the secret or the target of the other: nothing but CloudFormation's
  refusal of a second update keeps them apart;
* managed mode without `database_secret_string` deploys a Runtime on the placeholder
  `{}` (deploy.sh:153, validate_parameters.py:260; security_architecture.md:168-169
  "the product creates the secret and writes the validated connection JSON").

Parameters:

* ALLOWED_REQUEST_HEADERS and ALLOWED_RESPONSE_HEADERS of the environment come before
  the file's and are not validated (deploy.sh:53-56);
* a JSON null passes wherever the validator asks whether a key has a value, and is
  deployed as the word None, also as the string of the database secret
  (validate_parameters.py, deploy.sh:153; security_architecture.md:523 "prevents
  malformed secret JSON from reaching the Runtime");
* markers under keys the modes ignore are handed to the foundation stack all the same,
  whose template has no use for them (deploy.sh:127-137, validate_parameters.py:77-87);
  one in `endpoint_subnet_ids` is ignored in managed mode and does reach the endpoint
  stack (validate_parameters.py:69, deploy_private_endpoints.sh:214;
  security_architecture.md:515-516 "do not contain `REPLACE` markers");
* a key that is read at the top only (`required_scope`, `region`, the `jwt_*` keys, the
  bucket) is validated with the value an agent gives it and deployed with that of the
  top level, a marker included (validate_parameters.py:21, deploy.sh:51, 84);
* without a `required_scope` in either file the Gateway is deployed with an empty
  one, while the Runtime's default is `data:read` (deploy.sh:84);
* a `statement_timeout_ms` that is left out counts as 0, while the Runtime takes 30
  seconds, and 0 is accepted, which disables the timeout; exactly five seconds are
  refused where the message asks for at least five (validate_parameters.py:377-384);
* the sample with explicit resources has no `vpc_id` and is refused, because
  `create_private_service_endpoints` defaults to true (README.md:198-214,
  validate_parameters.py:233);
* deploy.sh validates CONFIG_FILE and gives the Runtime CONFIG_KEY, which an earlier
  publish.sh may have made from another file (deploy.sh:184).

MCP clients:

* a session header that comes with an unusable payload is dropped and the session not
  closed (smoke_test.py:184; entra_id_setup.md:260);
* the smoke test falls back to another target's tool when the named one is not listed
  (smoke_test.py:137; database_runtime.md:285);
* a stream that keeps sending other events is read for ever: the timeout is that of a
  read (smoke_test.py:30-41, 79);
* SIGTERM and SIGHUP end the clients without a DELETE.

## 7. Abstractions that matter

* In `AskDatabase` a statement is accepted or not by the configuration (`allowed`);
  what `validate_sql` accepts is decided in `SqlValidator`.
* A statement of `SqlValidator` is a list of blocks, the main SELECT first, not a
  tree; parsing and rendering are sqlglot's. The forbidden expressions are one value
  each.
* All rows of a result have the same keys, and cells have no contents: the patterns to
  redact are arbitrary regular expressions, of which nothing can be said in general.
* A parameter is a value of its form ("good", "bad", a marker, empty, null, a word the
  code compares with); CloudFormation's own checks of a parameter are left out, and the
  file is not edited during a run. What an existing endpoint stack adds to
  `DeployParameters.EndpointParameters`, and the group it adds to the Runtime's, are in
  `PrivateEndpoints`.
* In `AgentDeployment` and `Release` an update that fails is rolled back at once; the
  two steps of a rollback matter, and are, in `PrivateEndpoints` only. A first creation
  that failed is deleted by hand in `AgentDeployment`, and stays in `Release`.
* The LLM, the database, CloudFormation, S3 and the Gateway are external: they
  may fail at any call, and are otherwise taken to do what their interface says.
  S3 is strongly consistent, one update at a time runs on a stack, and an update
  that fails is rolled back.
* The client of a Runtime does not disconnect during a call, and the container
  does not die during one: a call that was cut off answers nobody.
* Clocks tick in units, and life and leeway are scaled (300 to 3, 30 to 1). The
  Runtime's clock is the true one; the error of the interceptor's is relative to
  it.
* Within one kind of object the model of a cleanup deletes in any order, which
  includes the order of the keys' text.
* A stack of endpoints is named by its VPC: a hash gives each its own default
  name. Pinned stack names and `endpoint_subnet_ids` are not set. A rollback succeeds
  (no UPDATE_ROLLBACK_FAILED) and there are no change sets of a stack not yet created
  (REVIEW_IN_PROGRESS). What AWS refuses to a second stack of a VPC (another S3 route
  in the same table, another private DNS name) is left out, so the second stack is as
  able as the first. Of the parameters that are overwritten, `RuntimeSecurityGroupIds`
  is not used by the template and `EndpointSecurityGroupName` names a group no Runtime
  has; neither is in the model.
* The `ok` of a response in `McpClient` is what the smoke test's `_contains_ok_status`
  finds anywhere in the payload, not what the Runtime meant by it.
* Ctrl-C is caught by the clients' `finally`; other signals are not modelled for them.

## 8. What is not modelled

* **LLM prompts and model clients**, beyond that a call answers or fails.
* **build.sh, the shell wrappers**: one-shot commands without state of their own.
  Of preflight_aws.py, the keys it reads; what it finds at them in AWS is its answer.
* **OBO target, Gateway identity permissions, role policies and network
  resources of the templates**: declarations that CloudFormation evaluates. The
  order in which an update replaces a role and a Runtime is a hazard no property
  covers (runtime.yaml:87).
* **PostgreSQL role templates**: SQL run by a database administrator.
* Header filtering, the affinity identifier and requests other than tool calls in
  the interceptor; display settings of the CLI; the dry run of the cleanup.

## 9. Plan

Done, in this order: `RequestContract` and `AskDatabase` with proofs; `Release`;
`PrivateEndpoints`; `TrustedContext` with proofs; `McpClient`; `AgentDeployment` with
proofs; `SqlValidator` and `QueryAnswer` with proofs; `DeployParameters` with proofs;
`ReleaseRegistry` and the refinement; the proofs of `McpClient`, `PrivateEndpoints` and
`Release` with its refinement; the liveness theorems of `AskDatabase` and `McpClient`;
what the validator guarantees of every statement (`AcceptedAreListed`); the states of a
stack between two complete ones in `PrivateEndpoints`; overlapping runs and updates that
outlive them in `AgentDeployment`; environment and null in `DeployParameters`.

To extend the model:

1. `Hub`: AgentDeployment over TrustedContext's shared interceptor, for what a
   deployment of one agent does to calls of another under way.
2. The life of Runtime sessions across an update (runtime.yaml:87), once the order in
   which CloudFormation replaces the role and the Runtime is known.
