--------------------------- MODULE DeployParameters ---------------------------
(***************************************************************************)
(* From a parameter file to the stacks of one agent: what                  *)
(* validate_parameters.py accepts, and what deploy.sh and                  *)
(* deploy_private_endpoints.sh then read and hand to CloudFormation.       *)
(*                                                                         *)
(* The validator decides on one overlay of the file.  The scripts read the *)
(* file key by key, each with the reader written at that place: from the   *)
(* top level or the agent, required or with a default.                     *)
(***************************************************************************)
EXTENDS Integers

CONSTANTS
  Files,    \* [top, agent] parameter files: key -> value, where it has the key
  Configs,  \* agent configurations: key -> value, where the YAML has the key
  Environments,  \* of the operator's shell: header key -> value, where it is set
  Seconds   \* the number a duration stands for; other texts are no number

\* null in the file, which the scripts' readers print as a word.
Null == "null"
Printed(value) == IF value = Null THEN "None" ELSE value

\* int() knows neither an empty number nor null, and timeouts are numbers.
ASSUME SecondsAssumption ==
  /\ DOMAIN Seconds \cap {"", Null} = {}
  /\ \A text \in DOMAIN Seconds : Seconds[text] \in Int
ASSUME ConfigsAssumption ==
  \A c \in Configs :
    /\ \A key \in {"timeout_seconds", "statement_timeout"} \cap DOMAIN c : c[key] \in Int
    /\ "required_scope" \in DOMAIN c => c["required_scope"] # Null

VARIABLES
  file, config, env,
  step,     \* the step the scripts are at, or how they ended
  stacks    \* what was handed over in each step, key -> value

inputs == <<file, config, env>>
vars == <<file, config, env, step, stacks>>

\* The values a key can have: "" and "REPLACE", the marker of the template;
\* "good" and "bad", a value in the form the code demands or in another one;
\* and the words the code compares with.

Get(p, key, default) == IF key \in DOMAIN p THEN p[key] ELSE default
Given(p, key) == Get(p, key, "") \notin {"", Null}

\* _deployment_parameters: the agent's parameters over the top level's.
Overlay(f) ==
  [key \in DOMAIN f.agent \cup DOMAIN f.top |->
     IF key \in DOMAIN f.agent THEN f.agent[key] ELSE f.top[key]]

NetworkMode(p) == Get(p, "runtime_network_mode", "external")
SecretMode(p) == Get(p, "database_secret_mode", "external")

ExternalNetwork == {"private_subnet_ids", "endpoint_subnet_ids",
                    "runtime_route_table_ids", "runtime_security_group_ids"}
ManagedNetwork == {"managed_private_subnet_cidr_1", "managed_private_subnet_cidr_2",
                   "runtime_security_group_name"}

\* The keys whose markers do not matter in the modes of this agent.
Ignored(p) ==
  (IF NetworkMode(p) = "managed" THEN ExternalNetwork ELSE ManagedNetwork)
    \cup (IF SecretMode(p) = "managed" THEN {"database_secret_arn"}
          ELSE {"database_secret_name", "database_secret_string"})
Placeholders(p) == {key \in DOMAIN p \ Ignored(p) : p[key] = "REPLACE"}

------------------------------------------------------------------------------
(* The checks of main(), on the overlay p and the configuration c.         *)

TargetCredential(p) ==
  /\ Get(p, "target_credential_provider_type", "GATEWAY_IAM_ROLE") = "GATEWAY_IAM_ROLE"
  /\ ~Given(p, "oauth_provider_arn")

RequestHeaders(p) ==
  Given(p, "allowed_request_headers") => p["allowed_request_headers"] = "session,context"
ResponseHeaders(p) ==
  Given(p, "allowed_response_headers") =>
    p["allowed_response_headers"] \in {"session", "session,context"}

Lifetimes == 60 .. 28800  \* in seconds
Lifecycle(p) ==
  LET idle == Get(p, "idle_runtime_session_timeout", "300")
      life == Get(p, "max_lifetime", "3600")
  IN /\ {idle, life} \subseteq DOMAIN Seconds
     /\ Seconds[idle] \in Lifetimes /\ Seconds[life] \in Lifetimes
     /\ Seconds[idle] <= Seconds[life]

\* Mutant: a managed network has its VPC checked, an external one nothing.
NetworkOfManaged(p) ==
  /\ NetworkMode(p) \in {"external", "managed"}
  /\ NetworkMode(p) = "managed" =>
       Given(p, "vpc_id") /\ Given(p, "managed_private_subnet_cidr_1")

Network(p) ==
  \/ /\ NetworkMode(p) = "managed"
     /\ Given(p, "vpc_id") /\ Given(p, "managed_private_subnet_cidr_1")
  \/ /\ NetworkMode(p) = "external"
     /\ Given(p, "private_subnet_ids") /\ Given(p, "runtime_security_group_ids")

Endpoints(p) ==
  \/ Get(p, "create_private_service_endpoints", "true") = "false"
  \/ /\ Get(p, "create_private_service_endpoints", "true") = "true"
     /\ Given(p, "vpc_id")
     /\ NetworkMode(p) = "managed"
          \/ (Given(p, "private_subnet_ids") /\ Given(p, "runtime_security_group_ids"))

\* Mutant: the name of a managed secret is not looked at.
SecretOfAnyName(p) ==
  \/ SecretMode(p) = "managed" /\ Get(p, "database_secret_string", "") \in {"", Null, "good"}
  \/ SecretMode(p) = "external" /\ Get(p, "database_secret_arn", "") = "good"

\* A path of this environment; a string that is JSON and has a database_uri.
Secret(p) ==
  \/ /\ SecretMode(p) = "managed"
     /\ Get(p, "database_secret_name", "good") = "good"
     /\ Get(p, "database_secret_string", "") \in {"", Null, "good"}
  \/ SecretMode(p) = "external" /\ Get(p, "database_secret_arn", "") = "good"

\* _validate_authorization_config and the identity claims.
Authorization(c) ==
  LET claims == Get(c, "accepted_claims", {})
  IN /\ claims # {}
     /\ \/ Get(c, "mode", "none") = "scopes" /\ claims \subseteq {"scope", "scp"}
        \/ Get(c, "mode", "none") = "claims" /\ claims = {"roles"}
     /\ Get(c, "identity_claims", {}) \subseteq {"sub", "oid", "upn"}

\* Mutant: the grants of ask_database are not compared with the scope.
ScopeOfAuthorization(p, c) == Get(p, "required_scope", Null) = Get(c, "required_scope", Null)

\* One scope, or none, in the parameters, the configuration and its capability.
\* Without ask_database a configuration has no required_grants, and without a
\* capability no identity_mode.
Scope(p, c) ==
  LET scope == Get(p, "required_scope", Null)
  IN /\ scope = Get(c, "required_scope", Null)
     /\ "required_grants" \in DOMAIN c => scope \in c["required_grants"]

Capability(c) ==
  LET mode == Get(c, "identity_mode", "service")
  IN mode = "service" \/ (mode = "on_behalf_of_user" /\ Given(c, "downstream_audience"))

Model(p, c) ==
  \/ /\ Get(c, "provider", "") = "bedrock" /\ Get(p, "region", "") # Null
     /\ ~(Get(p, "region", "") = "eu" /\ Get(c, "model", "") = "us")
     /\ ~(Get(p, "region", "") = "us" /\ Get(c, "model", "") = "eu")
  \/ Get(c, "provider", "") = "openai" /\ Given(p, "openai_secret_arn")

\* In seconds; what the YAML leaves out counts as 0 here.
Timeouts(c) ==
  Get(c, "timeout_seconds", 0) > Get(c, "statement_timeout", 0) + 5

Valid(f, c) ==
  LET p == Overlay(f)
  IN /\ Placeholders(p) = {}
     /\ TargetCredential(p) /\ RequestHeaders(p) /\ ResponseHeaders(p)
     /\ Lifecycle(p) /\ Network(p) /\ Endpoints(p)
     /\ Scope(p, c) /\ Authorization(c) /\ Capability(c)
     /\ Secret(p) /\ Model(p, c) /\ Timeouts(c)

------------------------------------------------------------------------------
(* bootstrap.sh, which an operator may run first, and deploy.sh.  Their    *)
(* readers take a key from the top level or from the agent first; a key    *)
(* that is missing ends the script, or reads as "" (optional).             *)

Agent(key) == Printed(Get(Overlay(file), key, ""))
Top(key) == Printed(Get(file.top, key, ""))
Lacks(keys, p) == keys \ DOMAIN p # {}

\* "${NAME:-default}": an empty value is replaced as a missing one is.
Or(value, default) == IF value = "" THEN default ELSE value

Network_ == Or(Agent("runtime_network_mode"), "external")
Secret_ == Or(Agent("database_secret_mode"), "external")

Init ==
  /\ file \in Files
  /\ config \in Configs
  /\ env \in Environments
  /\ step \in {"preflight", "validate"}
  /\ stacks = <<>>

End(how) == step' = how /\ UNCHANGED stacks /\ UNCHANGED inputs

\* set -e: a command of this step fails and ends the script.
Fail ==
  /\ step \in {"preflight", "gateway", "bootstrap", "foundation", "resources", "secret",
               "check_endpoints", "endpoints", "runtime", "target"}
  /\ End("failed")

\* A stack is created or updated.
Deploy(stack, parameters, next) ==
  /\ step = stack
  /\ stacks' = [s \in DOMAIN stacks \cup {stack} |->
                 IF s = stack THEN parameters ELSE stacks[s]]
  /\ step' = next
  /\ UNCHANGED inputs

\* The keys preflight_aws.py looks up in AWS.
Looked(p) ==
  {"region"}
    \cup (IF NetworkMode(p) = "managed" THEN {"vpc_id"}
          ELSE {"private_subnet_ids", "runtime_security_group_ids"})
    \cup (IF SecretMode(p) = "external" THEN {"database_secret_arn"} ELSE {})

\* bootstrap.sh: validation, preflight, and the region of the top level.
Preflight ==
  /\ step = "preflight"
  /\ End(IF ~Valid(file, config) THEN "refused"
         ELSE IF Lacks(Looked(Overlay(file)), Overlay(file)) \/ Lacks({"region"}, file.top)
           THEN "key_error"
         ELSE "gateway")

\* What a deployment reads at the top level only; read_param inside the
\* arguments of a command: a missing key is "".
OfTheTop == {"artifact_bucket_name", "jwt_discovery_url", "jwt_allowed_audience",
             "required_scope"}
GatewayParameters == [key \in OfTheTop |-> Top(key)]

Gateway == Deploy("gateway", GatewayParameters, "validate")

Validate ==
  /\ step = "validate"
  /\ End(IF Valid(file, config) THEN "read" ELSE "refused")

\* REGION and BUCKET are assigned, so a missing key ends the script.
Read ==
  /\ step = "read"
  /\ End(IF Lacks({"region", "artifact_bucket_name"}, file.top)
           THEN "key_error" ELSE "bootstrap")

Bootstrap ==
  Deploy("bootstrap", GatewayParameters,
         IF "managed" \in {Network_, Secret_} THEN "foundation" ELSE "resources")

\* Handed over whatever the modes; the template uses what they call for.
FoundationParameters ==
  [key \in ManagedNetwork \cup {"vpc_id", "database_secret_name"} |-> Agent(key)]
FoundationUses ==
  (IF Network_ = "managed" THEN ManagedNetwork \cup {"vpc_id"} ELSE {})
    \cup (IF Secret_ = "managed" THEN {"database_secret_name"} ELSE {})

Foundation == Deploy("foundation", FoundationParameters, "resources")

\* The subnets, groups and secret of the Runtime: outputs of the foundation or
\* read_agent_param.
Resources ==
  /\ step = "resources"
  /\ End(IF \/ /\ Network_ # "managed"
               /\ Lacks({"private_subnet_ids", "runtime_security_group_ids"}, Overlay(file))
            \/ Secret_ # "managed" /\ Lacks({"database_secret_arn"}, Overlay(file))
           THEN "key_error"
         ELSE IF Secret_ = "managed" /\ Agent("database_secret_string") # ""
           THEN "secret"
         ELSE "check_endpoints")

\* write_secret_value, after the foundation
SecretParameters == [database_secret_string |-> Agent("database_secret_string")]

WriteSecret == Deploy("secret", SecretParameters, "check_endpoints")

RuntimeSubnets ==
  IF Network_ = "managed" THEN "foundation" ELSE Agent("private_subnet_ids")
RuntimeGroups ==
  IF Network_ = "managed" THEN "foundation" ELSE Agent("runtime_security_group_ids")
DatabaseSecret ==
  IF Secret_ = "managed" THEN "foundation" ELSE Agent("database_secret_arn")

\* deploy_private_endpoints.sh validates the file once more and reads it again.
CheckEndpoints ==
  /\ step = "check_endpoints"
  /\ End(IF ~Valid(file, config) THEN "refused"
         ELSE IF Lacks({"region"}, Overlay(file)) THEN "key_error"
         ELSE IF Or(Agent("create_private_service_endpoints"), "true") # "true"
           THEN "runtime"
         ELSE IF Lacks({"vpc_id"}, Overlay(file)) THEN "key_error" ELSE "endpoints")

\* Mutant: with tables of its own the file comes before the foundation.
TablesOfFile == Or(Agent("runtime_route_table_ids"), "derived")

\* The foundation's route tables come before those of the file.
RouteTables ==
  IF Network_ = "managed" THEN "foundation"
  ELSE Or(Agent("runtime_route_table_ids"), "derived")

\* A VPC without endpoints: what an existing stack adds is in PrivateEndpoints.
EndpointParameters ==
  [vpc_id |-> Agent("vpc_id"),
   endpoint_subnet_ids |-> Or(Agent("endpoint_subnet_ids"), RuntimeSubnets),
   runtime_security_group_ids |-> RuntimeGroups,
   runtime_route_table_ids |-> RouteTables]

DeployEndpoints == Deploy("endpoints", EndpointParameters, "runtime")

\* The group the endpoint stack adds to the Runtime's is in PrivateEndpoints.
RuntimeParameters ==
  [region |-> Top("region"),
   database_secret_arn |-> DatabaseSecret,
   openai_secret_arn |-> Agent("openai_secret_arn"),
   private_subnet_ids |-> RuntimeSubnets,
   runtime_security_group_ids |-> RuntimeGroups,
   idle_runtime_session_timeout |-> Or(Agent("idle_runtime_session_timeout"), "300"),
   max_lifetime |-> Or(Agent("max_lifetime"), "3600")]

DeployRuntime == Deploy("runtime", RuntimeParameters, "target")

\* Mutant: the headers are read from the top level, as the region is.
HeadersOfTop ==
  LET read(key) == Or(Get(env, key, ""), Top(key))
  IN [allowed_request_headers |-> Or(read("allowed_request_headers"), "session,context"),
      allowed_response_headers |-> Or(read("allowed_response_headers"), "session")]

\* The environment comes before the file.
Headers ==
  LET read(key) == Or(Get(env, key, ""), Agent(key))
  IN [allowed_request_headers |-> Or(read("allowed_request_headers"), "session,context"),
      allowed_response_headers |-> Or(read("allowed_response_headers"), "session")]

\* SKIP_TARGET_DEPLOY ends the script before its last stack.
DeployTarget ==
  \/ Deploy("target", Headers, "deployed")
  \/ step = "target" /\ End("deployed")

Next ==
  \/ Preflight \/ Gateway \/ Validate \/ Read \/ Bootstrap \/ Foundation
  \/ Resources \/ WriteSecret \/ CheckEndpoints \/ DeployEndpoints
  \/ DeployRuntime \/ DeployTarget \/ Fail

Spec == Init /\ [][Next]_vars

------------------------------------------------------------------------------
Steps == {"preflight", "gateway", "validate", "read", "bootstrap", "foundation",
          "resources", "secret", "check_endpoints", "endpoints", "runtime", "target"}
Ends == {"refused", "key_error", "failed", "deployed"}

\* Every variable has its type; only the steps of a script deploy.
TypeOK ==
  /\ file \in Files /\ config \in Configs /\ env \in Environments
  /\ step \in Steps \cup Ends
  /\ DOMAIN stacks \subseteq Steps

\* No key that a later step reads is missing once deploy.sh has deployed its
\* first stack, whichever readers and modes: what the validator lets through
\* lacks at most the region and the bucket, which deploy.sh reads first.
NoHalfDeployment ==
  step \in {"refused", "key_error"} =>
    /\ DOMAIN stacks \subseteq {"gateway"}
    /\ step = "key_error" => Lacks({"region", "artifact_bucket_name"}, file.top)

\* The ways past the validator: it checks the agent's value of a key that is
\* deployed from the top level, not what the environment sets, and takes null
\* for a value that is not there.
Shadowed == (OfTheTop \cup {"region"}) \cap DOMAIN file.agent
FromEnvironment(key) == Get(env, key, "") # ""
IsNull(key) == Get(Overlay(file), key, "") = Null

\* security_architecture.md: no marker of the template reaches a stack or a
\* secret, although some keys are not looked at in some modes; except one that
\* an agent's value hides, one the foundation's template has no use for in
\* these modes, and the subnets of the endpoints, which a managed network does
\* not look at and deploy_private_endpoints.sh reads in every mode.
ReplaceStaysOut ==
  \A s \in DOMAIN stacks : \A key \in DOMAIN stacks[s] :
    stacks[s][key] = "REPLACE" =>
      \/ key \in Shadowed
      \/ s = "target" /\ FromEnvironment(key)
      \/ s = "foundation" /\ key \notin FoundationUses
      \/ key = "endpoint_subnet_ids" /\ NetworkMode(Overlay(file)) = "managed"

\* What the validator demands of the file holds of what the steps were handed,
\* after the readers and their defaults: the headers that carry the session
\* and the internal context (README.md), unless the environment sets them or
\* the file says null; the session's lifetimes, and a place in the network
\* that the endpoints serve, without exception.
CheckedIsDeployed ==
  /\ "target" \in DOMAIN stacks =>
       LET t == stacks["target"]
           checked(key) == ~FromEnvironment(key) /\ ~IsNull(key)
       IN /\ checked("allowed_request_headers") =>
               t["allowed_request_headers"] = "session,context"
          /\ checked("allowed_response_headers") =>
               t["allowed_response_headers"] \in {"session", "session,context"}
  /\ "runtime" \in DOMAIN stacks =>
       LET r == stacks["runtime"]
           idle == r["idle_runtime_session_timeout"]
           life == r["max_lifetime"]
       IN /\ Seconds[idle] \in Lifetimes /\ Seconds[life] \in Lifetimes
          /\ Seconds[idle] <= Seconds[life]
          /\ "" \notin {r["private_subnet_ids"], r["runtime_security_group_ids"]}
          /\ "endpoints" \in DOMAIN stacks =>
               r["runtime_security_group_ids"] = stacks["endpoints"]["runtime_security_group_ids"]

\* The grants and the timeouts the Runtime reads of the configuration, with
\* the defaults of its own model of it (config.py).
RuntimeGrants == Get(config, "required_grants", {Get(config, "required_scope", "data:read")})
RuntimeDeadline == Get(config, "timeout_seconds", 30)
RuntimeStatement == Get(config, "statement_timeout", 30)

\* A Runtime's database secret is one of this environment, supplied or of the
\* foundation, and what a deployment writes into the foundation's is a
\* connection, or the word for null; a managed secret that is given no string
\* keeps the template's empty object (security_architecture.md), so that this
\* does not say that the Runtime can connect.
SecretOfEnvironment ==
  "runtime" \in DOMAIN stacks =>
    LET secret == stacks["runtime"]["database_secret_arn"]
    IN \/ secret = "good" /\ "secret" \notin DOMAIN stacks
       \/ /\ secret = "foundation" /\ "foundation" \in DOMAIN stacks
          /\ stacks["foundation"]["database_secret_name"] \in {"", "good"}
          /\ "secret" \in DOMAIN stacks /\ ~IsNull("database_secret_string") =>
               stacks["secret"]["database_secret_string"] = "good"

\* What the parameters and the configuration say of one thing agrees where it
\* arrives: a scope at the top level is one the Runtime grants, the model can
\* be called from the Runtime's region, its provider has a secret, and a
\* statement that ends at a timeout the configuration states leaves the
\* handler time to answer, whatever the Runtime's own defaults. An agent's
\* scope or region that hides the top level's escapes the validator.
FilesAgree ==
  "runtime" \in DOMAIN stacks =>
    LET r == stacks["runtime"]
    IN /\ config["provider"] = "openai" => r["openai_secret_arn"] # ""
       /\ config["provider"] = "bedrock" /\ "region" \notin Shadowed =>
            {r["region"], Get(config, "model", "")} # {"eu", "us"}
       /\ Get(file.top, "required_scope", Null) # Null /\ "required_scope" \notin Shadowed =>
            stacks["bootstrap"]["required_scope"] \in RuntimeGrants
       /\ "statement_timeout" \in DOMAIN config => RuntimeDeadline > RuntimeStatement + 5

==============================================================================
