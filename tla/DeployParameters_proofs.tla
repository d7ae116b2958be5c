------------------------ MODULE DeployParameters_proofs ------------------------
(***************************************************************************)
(* What a valid file is worth to the scripts, for all files and all        *)
(* configurations.                                                         *)
(***************************************************************************)
EXTENDS DeployParameters, TLAPS

\* A key that is given is there.
LEMMA GivenIsThere ==
  ASSUME NEW p, NEW key, Given(p, key)
  PROVE  key \in DOMAIN p
BY DEF Given, Get

\* The modes of a valid file are the two that the scripts know, and each has
\* the keys its readers require.
LEMMA ValidIsComplete ==
  ASSUME NEW f, NEW c, Valid(f, c)
  PROVE  LET p == Overlay(f)
         IN /\ NetworkMode(p) = "managed" =>
                 "vpc_id" \in DOMAIN p
            /\ NetworkMode(p) # "managed" =>
                 {"private_subnet_ids", "runtime_security_group_ids"} \subseteq DOMAIN p
            /\ SecretMode(p) # "managed" => "database_secret_arn" \in DOMAIN p
            /\ Get(p, "create_private_service_endpoints", "true") # "false" =>
                 /\ Get(p, "create_private_service_endpoints", "true") = "true"
                 /\ "vpc_id" \in DOMAIN p
<1> DEFINE p == Overlay(f)
<1>1. Network(p) /\ Endpoints(p) /\ Secret(p)
  BY DEF Valid
<1>2. SecretMode(p) # "managed" => "database_secret_arn" \in DOMAIN p
  BY <1>1 DEF Secret, Get
<1>3. /\ NetworkMode(p) = "managed" => "vpc_id" \in DOMAIN p
      /\ NetworkMode(p) # "managed" =>
           {"private_subnet_ids", "runtime_security_group_ids"} \subseteq DOMAIN p
  BY <1>1, GivenIsThere DEF Network
<1>4. Get(p, "create_private_service_endpoints", "true") # "false" =>
        /\ Get(p, "create_private_service_endpoints", "true") = "true"
        /\ "vpc_id" \in DOMAIN p
  BY <1>1, GivenIsThere DEF Endpoints
<1> QED BY <1>2, <1>3, <1>4

\* The modes the scripts read are the modes the validator judged.
LEMMA SameModes ==
  ASSUME Valid(file, config)
  PROVE  /\ Network_ = NetworkMode(Overlay(file))
         /\ Secret_ = SecretMode(Overlay(file))
<1> DEFINE p == Overlay(file)
<1>1. Network(p) /\ Secret(p)
  BY DEF Valid
<1>2. NetworkMode(p) # "" /\ SecretMode(p) # ""
  BY <1>1 DEF Network, Secret
<1>2a. NetworkMode(p) # Null /\ SecretMode(p) # Null
  BY <1>1 DEF Network, Secret, Null
<1>3. Network_ = NetworkMode(p)
  BY <1>2, <1>2a DEF Network_, NetworkMode, Agent, Or, Get, Printed, Null
<1>4. Secret_ = SecretMode(p)
  BY <1>2, <1>2a DEF Secret_, SecretMode, Agent, Or, Get, Printed, Null
<1> QED BY <1>3, <1>4

LEMMA OverlayKeys ==
  ASSUME NEW f PROVE DOMAIN Overlay(f) = DOMAIN f.agent \cup DOMAIN f.top
BY DEF Overlay

\* The steps of a run that validated its file, and those after its first reads.
Started == {"bootstrap", "foundation", "resources", "secret", "check_endpoints",
            "endpoints", "runtime", "target", "deployed"}
Validated == {"gateway", "read"} \cup Started

\* Nothing is deployed with a file that is not valid, each step hands over its
\* parameters, and a file that lacks what deploy.sh reads first gets no further.
IInv ==
  /\ file \in Files /\ config \in Configs /\ env \in Environments
  /\ step = "secret" \/ "secret" \in DOMAIN stacks =>
       Secret_ = "managed" /\ Agent("database_secret_string") # ""
  /\ step \in Validated \/ DOMAIN stacks # {} => Valid(file, config)
  /\ step \in Started => {"region", "artifact_bucket_name"} \subseteq DOMAIN file.top
  /\ step \in {"preflight", "gateway", "validate", "read"} => DOMAIN stacks \subseteq {"gateway"}
  /\ step \in Started \ {"bootstrap"} => "bootstrap" \in DOMAIN stacks
  /\ step \in Started \ {"bootstrap", "foundation"} /\ Secret_ = "managed" =>
       "foundation" \in DOMAIN stacks
  /\ step \in {"preflight", "validate", "gateway", "read", "bootstrap", "foundation", "resources",
               "secret", "check_endpoints", "endpoints", "runtime"} => "runtime" \notin DOMAIN stacks
  /\ "runtime" \in DOMAIN stacks =>
       /\ "bootstrap" \in DOMAIN stacks
       /\ Secret_ = "managed" => "foundation" \in DOMAIN stacks
  /\ NoHalfDeployment

\* Each step that deployed handed over its parameters.
HandedOver ==
  /\ DOMAIN stacks \subseteq {"gateway", "bootstrap", "foundation", "secret", "endpoints",
                              "runtime", "target"}
  /\ \A s \in {"gateway", "bootstrap"} : s \in DOMAIN stacks => stacks[s] = GatewayParameters
  /\ "foundation" \in DOMAIN stacks => stacks["foundation"] = FoundationParameters
  /\ "secret" \in DOMAIN stacks => stacks["secret"] = SecretParameters
  /\ "endpoints" \in DOMAIN stacks => stacks["endpoints"] = EndpointParameters
  /\ "runtime" \in DOMAIN stacks => stacks["runtime"] = RuntimeParameters
  /\ "target" \in DOMAIN stacks => stacks["target"] = Headers

LEMMA InitInv == Init => IInv /\ HandedOver
<1> SUFFICES ASSUME Init PROVE IInv /\ HandedOver OBVIOUS
<1>1. DOMAIN stacks = {}
  BY DEF Init
<1> QED BY <1>1 DEF Init, IInv, HandedOver, Started, Validated, NoHalfDeployment

\* What every step leaves alone: the inputs, and all that is derived from them.
LEMMA Unchanged ==
  ASSUME UNCHANGED inputs
  PROVE  /\ Valid(file, config)' = Valid(file, config)
         /\ Network_' = Network_ /\ Secret_' = Secret_
         /\ GatewayParameters' = GatewayParameters
         /\ FoundationParameters' = FoundationParameters
         /\ SecretParameters' = SecretParameters
         /\ EndpointParameters' = EndpointParameters
         /\ RuntimeParameters' = RuntimeParameters
         /\ Headers' = Headers
<1>1. file' = file /\ config' = config /\ env' = env
  BY DEF inputs
<1>2. Valid(file, config)' = Valid(file, config)
  BY <1>1
<1>3. Network_' = Network_ /\ Secret_' = Secret_
  BY <1>1 DEF Network_, Secret_, Agent
<1>4. RuntimeSubnets' = RuntimeSubnets /\ RuntimeGroups' = RuntimeGroups
      /\ DatabaseSecret' = DatabaseSecret /\ RouteTables' = RouteTables
  BY <1>1, <1>3 DEF RuntimeSubnets, RuntimeGroups, DatabaseSecret, RouteTables, Agent
<1>5. GatewayParameters' = GatewayParameters
  BY <1>1 DEF GatewayParameters, Top
<1>6. FoundationParameters' = FoundationParameters
  BY <1>1, <1>3 DEF FoundationParameters, Agent
<1>7. SecretParameters' = SecretParameters /\ Headers' = Headers
  BY <1>1 DEF SecretParameters, Headers, Agent
<1>8. EndpointParameters' = EndpointParameters
  BY <1>1, <1>4 DEF EndpointParameters, Agent
<1>9. RuntimeParameters' = RuntimeParameters
  BY <1>1, <1>4 DEF RuntimeParameters, Agent, Top
<1> QED BY <1>2, <1>3, <1>5, <1>6, <1>7, <1>8, <1>9

LEMMA StacksGrow ==
  ASSUME NEW s, NEW parameters, NEW next, Deploy(s, parameters, next)
  PROVE  /\ step = s /\ step' = next /\ UNCHANGED inputs
         /\ DOMAIN stacks' = {s} \cup DOMAIN stacks
         /\ stacks'[s] = parameters
         /\ \A t \in DOMAIN stacks : t # s => stacks'[t] = stacks[t]
BY DEF Deploy

\* The readers of a valid file lack at most the region.
LEMMA ReadersSatisfied ==
  ASSUME Valid(file, config)
  PROVE  /\ Lacks(Looked(Overlay(file)), Overlay(file)) => "region" \notin DOMAIN file.top
         /\ Network_ # "managed" =>
              ~ Lacks({"private_subnet_ids", "runtime_security_group_ids"}, Overlay(file))
         /\ Secret_ # "managed" => ~ Lacks({"database_secret_arn"}, Overlay(file))
         /\ Or(Agent("create_private_service_endpoints"), "true") = "true" =>
              ~ Lacks({"vpc_id"}, Overlay(file))
<1> DEFINE p == Overlay(file)
<1>1. Network_ = NetworkMode(p) /\ Secret_ = SecretMode(p)
  BY SameModes
<1>2. /\ NetworkMode(p) = "managed" => "vpc_id" \in DOMAIN p
      /\ NetworkMode(p) # "managed" =>
           {"private_subnet_ids", "runtime_security_group_ids"} \subseteq DOMAIN p
      /\ SecretMode(p) # "managed" => "database_secret_arn" \in DOMAIN p
      /\ Get(p, "create_private_service_endpoints", "true") # "false" =>
           /\ Get(p, "create_private_service_endpoints", "true") = "true"
           /\ "vpc_id" \in DOMAIN p
  BY ValidIsComplete
<1>3. Lacks(Looked(p), p) => "region" \notin DOMAIN p
  BY <1>2 DEF Lacks, Looked
<1>4. "region" \notin DOMAIN p => "region" \notin DOMAIN file.top
  BY OverlayKeys
<1>5. Or(Agent("create_private_service_endpoints"), "true") = "true" =>
        Get(p, "create_private_service_endpoints", "true") # "false"
  BY DEF Or, Agent, Get, Printed, Null
<1> QED BY <1>1, <1>2, <1>3, <1>4, <1>5 DEF Lacks

\* A step that ends a script, or goes on without a stack.
LEMMA EndKeeps ==
  ASSUME NEW how, End(how)
  PROVE  step' = how /\ stacks' = stacks /\ UNCHANGED inputs
BY DEF End

LEMMA NextInv == IInv /\ [Next]_vars => IInv'
<1> SUFFICES ASSUME IInv, [Next]_vars PROVE IInv' OBVIOUS
<1> USE DEF IInv, Started, Validated, NoHalfDeployment
<1>0. UNCHANGED inputs
  BY EndKeeps, StacksGrow
     DEF Next, vars, inputs, Preflight, Gateway, Validate, Read, Bootstrap, Foundation, Resources,
         WriteSecret, CheckEndpoints, DeployEndpoints, DeployRuntime, DeployTarget, Fail
<1>0a. /\ Valid(file, config)' = Valid(file, config) /\ Secret_' = Secret_
      /\ file' = file /\ config' = config /\ env' = env
      /\ Agent("database_secret_string")' = Agent("database_secret_string")
  BY <1>0, Unchanged DEF Agent, inputs
<1>0b. Lacks({"region", "artifact_bucket_name"}, file.top)'
        = Lacks({"region", "artifact_bucket_name"}, file.top)
  BY <1>0a
<1>1. CASE Preflight
  <2>1. stacks' = stacks /\ step = "preflight" /\ step' \in {"refused", "key_error", "gateway"}
    BY <1>1, EndKeeps DEF Preflight
  <2>2. step' # "refused" => Valid(file, config)
    BY <1>1, EndKeeps DEF Preflight
  <2>3. step' = "key_error" => "region" \notin DOMAIN file.top
    BY <1>1, <2>2, ReadersSatisfied DEF Preflight, Lacks, End
  <2>4. step' = "key_error" => Lacks({"region", "artifact_bucket_name"}, file.top)
    BY <2>3 DEF Lacks
  <2> QED BY <2>1, <2>2, <2>4, <1>0a, <1>0b
<1>2. CASE Gateway
  <2>1. step = "gateway" /\ step' = "validate" /\ DOMAIN stacks' = {"gateway"} \cup DOMAIN stacks
    BY <1>2, StacksGrow DEF Gateway
  <2> QED BY <2>1, <1>0a, <1>0b
<1>3. CASE Validate
  <2>1. stacks' = stacks /\ step = "validate" /\ step' \in {"refused", "read"}
    BY <1>3, EndKeeps DEF Validate
  <2>2. step' # "refused" => Valid(file, config)
    BY <1>3, EndKeeps DEF Validate
  <2> QED BY <2>1, <2>2, <1>0a, <1>0b
<1>4. CASE Read
  <2>1. stacks' = stacks /\ step = "read" /\ step' \in {"key_error", "bootstrap"}
    BY <1>4, EndKeeps DEF Read
  <2>2. step' = "key_error" <=> Lacks({"region", "artifact_bucket_name"}, file.top)
    BY <1>4 DEF Read, End, Lacks
  <2>3. step' = "bootstrap" => {"region", "artifact_bucket_name"} \subseteq DOMAIN file.top
    BY <2>2 DEF Lacks
  <2> QED BY <2>1, <2>2, <2>3, <1>0a, <1>0b
<1>5. CASE Bootstrap
  <2>1. /\ step = "bootstrap" /\ DOMAIN stacks' = {"bootstrap"} \cup DOMAIN stacks
        /\ step' = IF "managed" \in {Network_, Secret_} THEN "foundation" ELSE "resources"
    BY <1>5, StacksGrow DEF Bootstrap
  <2>2. step' \in {"foundation", "resources"} /\ (Secret_ = "managed" => step' = "foundation")
    BY <2>1
  <2> QED BY <2>1, <2>2, <1>0a, <1>0b
<1>6. CASE Foundation
  <2>1. /\ step = "foundation" /\ step' = "resources"
        /\ DOMAIN stacks' = {"foundation"} \cup DOMAIN stacks
    BY <1>6, StacksGrow DEF Foundation
  <2> QED BY <2>1, <1>0a, <1>0b
<1>7. CASE Resources
  <2>1. /\ stacks' = stacks /\ step = "resources"
        /\ step' \in {"key_error", "secret", "check_endpoints"}
    BY <1>7, EndKeeps DEF Resources
  <2>2. /\ Network_ # "managed" =>
             ~ Lacks({"private_subnet_ids", "runtime_security_group_ids"}, Overlay(file))
        /\ Secret_ # "managed" => ~ Lacks({"database_secret_arn"}, Overlay(file))
    BY <2>1, ReadersSatisfied
  <2>3. step' # "key_error"
    BY <1>7, <2>2 DEF Resources, End
  <2>4. step' = "secret" => Secret_ = "managed" /\ Agent("database_secret_string") # ""
    BY <1>7, <2>3 DEF Resources, End
  <2> QED BY <2>1, <2>3, <2>4, <1>0a, <1>0b
<1>8. CASE WriteSecret
  <2>1. /\ step = "secret" /\ step' = "check_endpoints"
        /\ DOMAIN stacks' = {"secret"} \cup DOMAIN stacks
    BY <1>8, StacksGrow DEF WriteSecret
  <2> QED BY <2>1, <1>0a, <1>0b
<1>9. CASE CheckEndpoints
  <2>1. /\ stacks' = stacks /\ step = "check_endpoints"
        /\ step' \in {"refused", "key_error", "runtime", "endpoints"}
    BY <1>9, EndKeeps DEF CheckEndpoints
  <2>2. Valid(file, config) /\ ~ Lacks({"region"}, Overlay(file))
    BY <2>1, OverlayKeys DEF Lacks
  <2>3. step' \in {"runtime", "endpoints"}
    BY <1>9, <2>1, <2>2, EndKeeps, ReadersSatisfied DEF CheckEndpoints
  <2> QED BY <2>1, <2>3, <1>0a, <1>0b
<1>10. CASE DeployEndpoints
  <2>1. /\ step = "endpoints" /\ step' = "runtime"
        /\ DOMAIN stacks' = {"endpoints"} \cup DOMAIN stacks
    BY <1>10, StacksGrow DEF DeployEndpoints
  <2> QED BY <2>1, <1>0a, <1>0b
<1>11. CASE DeployRuntime
  <2>1. /\ step = "runtime" /\ step' = "target"
        /\ DOMAIN stacks' = {"runtime"} \cup DOMAIN stacks
    BY <1>11, StacksGrow DEF DeployRuntime
  <2> QED BY <2>1, <1>0a, <1>0b
<1>12. CASE DeployTarget
  <2>1. /\ step = "target" /\ step' = "deployed"
        /\ \/ stacks' = stacks
           \/ DOMAIN stacks' = {"target"} \cup DOMAIN stacks
    BY <1>12, StacksGrow, EndKeeps DEF DeployTarget
  <2> QED BY <2>1, <1>0a, <1>0b
<1>13. CASE Fail
  <2>1. stacks' = stacks /\ step' = "failed"
    BY <1>13, EndKeeps DEF Fail
  <2> QED BY <2>1, <1>0a, <1>0b
<1>14. CASE UNCHANGED vars
  BY <1>14, <1>0a, <1>0b DEF vars
<1> QED BY <1>1, <1>2, <1>3, <1>4, <1>5, <1>6, <1>7, <1>8, <1>9, <1>10, <1>11, <1>12, <1>13, <1>14
        DEF Next

LEMMA Invariant == Spec => []IInv
<1>1. Init => IInv
  BY InitInv
<1> QED BY <1>1, NextInv, PTL DEF Spec

LEMMA NextHandedOver == HandedOver /\ [Next]_vars => HandedOver'
<1> SUFFICES ASSUME HandedOver, [Next]_vars PROVE HandedOver' OBVIOUS
<1>1. UNCHANGED inputs
  BY EndKeeps, StacksGrow
     DEF Next, vars, inputs, Preflight, Gateway, Validate, Read, Bootstrap, Foundation, Resources,
         WriteSecret, CheckEndpoints, DeployEndpoints, DeployRuntime, DeployTarget, Fail
<1>2. /\ GatewayParameters' = GatewayParameters /\ FoundationParameters' = FoundationParameters
      /\ SecretParameters' = SecretParameters /\ EndpointParameters' = EndpointParameters
      /\ RuntimeParameters' = RuntimeParameters /\ Headers' = Headers
  BY <1>1, Unchanged
<1>3. CASE stacks' = stacks
  BY <1>2, <1>3 DEF HandedOver
<1>4. CASE Gateway \/ Bootstrap
  <2>1. PICK s \in {"gateway", "bootstrap"} :
          /\ DOMAIN stacks' = {s} \cup DOMAIN stacks /\ stacks'[s] = GatewayParameters
          /\ \A t \in DOMAIN stacks : t # s => stacks'[t] = stacks[t]
    BY <1>4 DEF Gateway, Bootstrap, Deploy
  <2> QED BY <2>1, <1>2 DEF HandedOver
<1>5. CASE Foundation
  <2>1. /\ DOMAIN stacks' = {"foundation"} \cup DOMAIN stacks
        /\ stacks'["foundation"] = FoundationParameters
        /\ \A t \in DOMAIN stacks : t # "foundation" => stacks'[t] = stacks[t]
    BY <1>5 DEF Foundation, Deploy
  <2> QED BY <2>1, <1>2 DEF HandedOver
<1>6. CASE WriteSecret
  <2>1. /\ DOMAIN stacks' = {"secret"} \cup DOMAIN stacks
        /\ stacks'["secret"] = SecretParameters
        /\ \A t \in DOMAIN stacks : t # "secret" => stacks'[t] = stacks[t]
    BY <1>6 DEF WriteSecret, Deploy
  <2> QED BY <2>1, <1>2 DEF HandedOver
<1>7. CASE DeployEndpoints
  <2>1. /\ DOMAIN stacks' = {"endpoints"} \cup DOMAIN stacks
        /\ stacks'["endpoints"] = EndpointParameters
        /\ \A t \in DOMAIN stacks : t # "endpoints" => stacks'[t] = stacks[t]
    BY <1>7 DEF DeployEndpoints, Deploy
  <2> QED BY <2>1, <1>2 DEF HandedOver
<1>8. CASE DeployRuntime
  <2>1. /\ DOMAIN stacks' = {"runtime"} \cup DOMAIN stacks
        /\ stacks'["runtime"] = RuntimeParameters
        /\ \A t \in DOMAIN stacks : t # "runtime" => stacks'[t] = stacks[t]
    BY <1>8 DEF DeployRuntime, Deploy
  <2> QED BY <2>1, <1>2 DEF HandedOver
<1>9. CASE Deploy("target", Headers, "deployed")
  <2>1. /\ DOMAIN stacks' = {"target"} \cup DOMAIN stacks
        /\ stacks'["target"] = Headers
        /\ \A t \in DOMAIN stacks : t # "target" => stacks'[t] = stacks[t]
    BY <1>9 DEF Deploy
  <2> QED BY <2>1, <1>2 DEF HandedOver
<1>10. \/ stacks' = stacks \/ Gateway \/ Bootstrap \/ Foundation \/ WriteSecret
       \/ DeployEndpoints \/ DeployRuntime \/ Deploy("target", Headers, "deployed")
  BY EndKeeps DEF Next, vars, Preflight, Validate, Read, Resources, CheckEndpoints,
                  DeployTarget, Fail
<1> QED BY <1>3, <1>4, <1>5, <1>6, <1>7, <1>8, <1>9, <1>10

LEMMA AllHandedOver == Spec => []HandedOver
<1>1. Init => HandedOver
  BY InitInv
<1> QED BY <1>1, NextHandedOver, PTL DEF Spec

\* Whatever the file, no deployment stops half way for a key that is missing or
\* a check that fails late: deploy.sh either ends before its first stack, lacking
\* its region or bucket, or has every key its readers require.
THEOREM ReadersNeverFailLate == Spec => []NoHalfDeployment
<1>1. IInv => NoHalfDeployment
  BY DEF IInv
<1> QED BY <1>1, Invariant, PTL

\* A duration a valid file gives, or its default, is what the Runtime is given.
LEMMA DurationsAreHanded ==
  ASSUME Valid(file, config)
  PROVE  LET idle == Or(Agent("idle_runtime_session_timeout"), "300")
             life == Or(Agent("max_lifetime"), "3600")
         IN /\ Seconds[idle] \in Lifetimes /\ Seconds[life] \in Lifetimes
            /\ Seconds[idle] <= Seconds[life]
<1> DEFINE p == Overlay(file)
           i == Get(p, "idle_runtime_session_timeout", "300")
           l == Get(p, "max_lifetime", "3600")
<1>1. Lifecycle(p)
  BY DEF Valid
<1>2. {i, l} \subseteq DOMAIN Seconds
  BY <1>1 DEF Lifecycle
<1>3. /\ Seconds[i] \in Lifetimes /\ Seconds[l] \in Lifetimes
      /\ Seconds[i] <= Seconds[l]
  BY <1>1, Zenon DEF Lifecycle
<1>4. i # "" /\ l # ""
  BY <1>2, SecondsAssumption
<1>4a. i # Null /\ l # Null
  BY <1>2, SecondsAssumption
<1>5. i = Or(Agent("idle_runtime_session_timeout"), "300")
  BY <1>4, <1>4a DEF Or, Agent, Get, Printed, Null
<1>6. l = Or(Agent("max_lifetime"), "3600")
  BY <1>4, <1>4a DEF Or, Agent, Get, Printed, Null
<1> QED BY <1>3, <1>5, <1>6, Zenon

\* The subnets and groups of a Runtime are there: the foundation's or given.
LEMMA PlacedInTheNetwork ==
  ASSUME Valid(file, config)
  PROVE  "" \notin {RuntimeSubnets, RuntimeGroups}
<1> DEFINE p == Overlay(file)
<1>1. Network_ = NetworkMode(p)
  BY SameModes
<1>2. Network_ # "managed" =>
        Given(p, "private_subnet_ids") /\ Given(p, "runtime_security_group_ids")
  BY <1>1 DEF Valid, Network
<1>3. CASE Network_ = "managed"
  BY <1>3 DEF RuntimeSubnets, RuntimeGroups
<1>4. CASE Network_ # "managed"
  BY <1>2, <1>4, GivenIsThere DEF RuntimeSubnets, RuntimeGroups, Given, Get, Agent, Printed
<1> QED BY <1>3, <1>4

\* What the validator demanded of the file holds of what was deployed.
THEOREM DeployedAsChecked == Spec => []CheckedIsDeployed
<1>1. ASSUME IInv, HandedOver PROVE CheckedIsDeployed
  <2>1. DOMAIN stacks # {} => Valid(file, config)
    BY <1>1 DEF IInv
  <2> DEFINE checked(key) == ~FromEnvironment(key) /\ ~IsNull(key)
  <2>2. ASSUME "target" \in DOMAIN stacks
        PROVE  /\ checked("allowed_request_headers") =>
                    stacks["target"]["allowed_request_headers"] = "session,context"
               /\ checked("allowed_response_headers") =>
                    stacks["target"]["allowed_response_headers"] \in {"session", "session,context"}
    <3>1. stacks["target"] = Headers
      BY <1>1, <2>2 DEF HandedOver
    <3>2. RequestHeaders(Overlay(file)) /\ ResponseHeaders(Overlay(file))
      BY <2>1, <2>2 DEF Valid
    <3>3. checked("allowed_request_headers") =>
            Headers["allowed_request_headers"] = "session,context"
      <4> SUFFICES ASSUME checked("allowed_request_headers")
                   PROVE  Headers["allowed_request_headers"] = "session,context"
        OBVIOUS
      <4>1. Get(env, "allowed_request_headers", "") = ""
        BY DEF FromEnvironment
      <4>2. Agent("allowed_request_headers") \in {"", "session,context"}
        BY <3>2 DEF RequestHeaders, Given, Get, Agent, Printed, IsNull
      <4> QED BY <4>1, <4>2 DEF Headers, Or
    <3>4. checked("allowed_response_headers") =>
            Headers["allowed_response_headers"] \in {"session", "session,context"}
      <4> SUFFICES ASSUME checked("allowed_response_headers")
                   PROVE  Headers["allowed_response_headers"] \in {"session", "session,context"}
        OBVIOUS
      <4>1. Get(env, "allowed_response_headers", "") = ""
        BY DEF FromEnvironment
      <4>2. Agent("allowed_response_headers") \in {"", "session", "session,context"}
        BY <3>2 DEF ResponseHeaders, Given, Get, Agent, Printed, IsNull
      <4> QED BY <4>1, <4>2 DEF Headers, Or
    <3> QED BY <3>1, <3>3, <3>4
  <2>3. ASSUME "runtime" \in DOMAIN stacks
        PROVE  LET r == stacks["runtime"]
                   idle == r["idle_runtime_session_timeout"]
                   life == r["max_lifetime"]
               IN /\ Seconds[idle] \in Lifetimes /\ Seconds[life] \in Lifetimes
                  /\ Seconds[idle] <= Seconds[life]
                  /\ "" \notin {r["private_subnet_ids"], r["runtime_security_group_ids"]}
                  /\ "endpoints" \in DOMAIN stacks =>
                       r["runtime_security_group_ids"]
                         = stacks["endpoints"]["runtime_security_group_ids"]
    <3>1. stacks["runtime"] = RuntimeParameters
      BY <1>1, <2>3 DEF HandedOver
    <3>2. "endpoints" \in DOMAIN stacks => stacks["endpoints"] = EndpointParameters
      BY <1>1 DEF HandedOver
    <3>3. Valid(file, config)
      BY <2>1, <2>3
    <3>4. /\ RuntimeParameters["idle_runtime_session_timeout"]
               = Or(Agent("idle_runtime_session_timeout"), "300")
          /\ RuntimeParameters["max_lifetime"] = Or(Agent("max_lifetime"), "3600")
          /\ RuntimeParameters["private_subnet_ids"] = RuntimeSubnets
          /\ RuntimeParameters["runtime_security_group_ids"] = RuntimeGroups
          /\ EndpointParameters["runtime_security_group_ids"] = RuntimeGroups
      BY DEF RuntimeParameters, EndpointParameters
    <3>5. "" \notin {RuntimeSubnets, RuntimeGroups}
      BY <3>3, PlacedInTheNetwork
    <3> QED BY <3>1, <3>2, <3>3, <3>4, <3>5, DurationsAreHanded, Zenon
  <2> QED BY <2>2, <2>3, Zenon DEF CheckedIsDeployed
<1> QED BY <1>1, Invariant, AllHandedOver, PTL

\* A key of the top level that no agent's value hides is what the validator saw.
LEMMA OfTheTopIsTop ==
  ASSUME NEW key \in OfTheTop \cup {"region"}, key \notin Shadowed, NEW default
  PROVE  Get(file.top, key, default) = Get(Overlay(file), key, default)
BY DEF Overlay, Get, Shadowed

\* A deployed Runtime gets the foundation's secret, under a name of this
\* environment, or a supplied secret of this environment.
THEOREM SecretsAreOfTheEnvironment == Spec => []SecretOfEnvironment
<1>1. ASSUME IInv, HandedOver PROVE SecretOfEnvironment
  <2> SUFFICES ASSUME "runtime" \in DOMAIN stacks PROVE SecretOfEnvironment
    BY DEF SecretOfEnvironment
  <2> DEFINE p == Overlay(file)
  <2>1. /\ Valid(file, config)
        /\ Secret_ = "managed" => "foundation" \in DOMAIN stacks
        /\ "secret" \in DOMAIN stacks => Secret_ = "managed" /\ Agent("database_secret_string") # ""
    BY <1>1 DEF IInv
  <2>2. /\ stacks["runtime"] = RuntimeParameters
        /\ "foundation" \in DOMAIN stacks => stacks["foundation"] = FoundationParameters
        /\ "secret" \in DOMAIN stacks => stacks["secret"] = SecretParameters
    BY <1>1 DEF HandedOver
  <2>3. Secret_ = SecretMode(p) /\ Secret(p)
    BY <2>1, SameModes DEF Valid
  <2>4. /\ stacks["runtime"]["database_secret_arn"] = DatabaseSecret
        /\ FoundationParameters["database_secret_name"] = Agent("database_secret_name")
        /\ SecretParameters["database_secret_string"] = Agent("database_secret_string")
    BY <2>2 DEF RuntimeParameters, FoundationParameters, SecretParameters
  <2>5. CASE Secret_ = "managed"
    <3>1. /\ Get(p, "database_secret_name", "good") = "good"
          /\ Get(p, "database_secret_string", "") \in {"", Null, "good"}
      BY <2>3, <2>5 DEF Secret
    <3>2. Agent("database_secret_name") \in {"", "good"}
      BY <3>1 DEF Agent, Get, Printed, Null
    <3>3. "secret" \in DOMAIN stacks /\ ~IsNull("database_secret_string") =>
            Agent("database_secret_string") = "good"
      BY <2>1, <3>1 DEF Agent, Printed, IsNull
    <3>4. DatabaseSecret = "foundation"
      BY <2>5 DEF DatabaseSecret
    <3> QED BY <2>1, <2>2, <2>4, <2>5, <3>2, <3>3, <3>4 DEF SecretOfEnvironment
  <2>6. CASE Secret_ # "managed"
    <3>1. Get(p, "database_secret_arn", "") = "good"
      BY <2>3, <2>6 DEF Secret
    <3>2. DatabaseSecret = "good"
      BY <2>6, <3>1 DEF DatabaseSecret, Agent, Printed, Null
    <3> QED BY <2>1, <2>4, <2>6, <3>2 DEF SecretOfEnvironment
  <2> QED BY <2>5, <2>6
<1> QED BY <1>1, Invariant, AllHandedOver, PTL

\* The scope, region, provider and timeouts that the two files of a deployment
\* name agree at the Gateway and the Runtime, where no agent hides the top level.
THEOREM FilesAgreeWhenDeployed == Spec => []FilesAgree
<1>1. ASSUME IInv, HandedOver PROVE FilesAgree
  <2> SUFFICES ASSUME "runtime" \in DOMAIN stacks PROVE FilesAgree
    BY DEF FilesAgree
  <2> DEFINE p == Overlay(file)
  <2>1. /\ file \in Files /\ config \in Configs /\ Valid(file, config)
        /\ "bootstrap" \in DOMAIN stacks
    BY <1>1 DEF IInv
  <2>2. /\ stacks["runtime"] = RuntimeParameters
        /\ stacks["bootstrap"] = GatewayParameters
    BY <1>1, <2>1 DEF HandedOver
  <2>3. Model(p, config)
    BY <2>1 DEF Valid
  <2>4. config["provider"] = "openai" => RuntimeParameters["openai_secret_arn"] # ""
    <3> SUFFICES ASSUME config["provider"] = "openai" PROVE Agent("openai_secret_arn") # ""
      BY DEF RuntimeParameters
    <3>1. Given(p, "openai_secret_arn")
      BY <2>3 DEF Model, Get
    <3> QED BY <3>1 DEF Agent, Given, Printed
  <2>5. ASSUME config["provider"] = "bedrock", "region" \notin Shadowed
        PROVE  {RuntimeParameters["region"], Get(config, "model", "")} # {"eu", "us"}
    <3>1. /\ Get(p, "region", "") # Null
          /\ ~(Get(p, "region", "") = "eu" /\ Get(config, "model", "") = "us")
          /\ ~(Get(p, "region", "") = "us" /\ Get(config, "model", "") = "eu")
      BY <2>3, <2>5 DEF Model, Get
    <3>2. Get(file.top, "region", "") = Get(p, "region", "")
      BY <2>5, OfTheTopIsTop
    <3>3. RuntimeParameters["region"] = Get(p, "region", "")
      BY <3>1, <3>2 DEF RuntimeParameters, Top, Printed
    <3> QED BY <3>1, <3>3
  <2>6. ASSUME Get(file.top, "required_scope", Null) # Null, "required_scope" \notin Shadowed
        PROVE  GatewayParameters["required_scope"] \in RuntimeGrants
    <3> DEFINE scope == Get(p, "required_scope", Null)
    <3>1. Scope(p, config)
      BY <2>1 DEF Valid
    <3>2. Get(file.top, "required_scope", Null) = scope /\ scope # Null
      BY <2>6, OfTheTopIsTop DEF OfTheTop
    <3>3. Get(config, "required_scope", Null) = scope
      BY <3>1 DEF Scope
    <3>4. "required_scope" \in DOMAIN config /\ config["required_scope"] = scope
      BY <3>2, <3>3 DEF Get
    <3>5. Get(file.top, "required_scope", "") = scope
      BY <3>2 DEF Get
    <3>6. GatewayParameters["required_scope"] = scope
      BY <3>2, <3>5 DEF GatewayParameters, OfTheTop, Top, Printed
    <3>7. scope \in RuntimeGrants
      <4>1. CASE "required_grants" \in DOMAIN config
        BY <3>1, <4>1 DEF Scope, RuntimeGrants, Get
      <4>2. CASE "required_grants" \notin DOMAIN config
        BY <3>4, <4>2 DEF RuntimeGrants, Get
      <4> QED BY <4>1, <4>2
    <3> QED BY <3>6, <3>7
  <2>7. "statement_timeout" \in DOMAIN config => RuntimeDeadline > RuntimeStatement + 5
    <3> SUFFICES ASSUME "statement_timeout" \in DOMAIN config
                 PROVE  RuntimeDeadline > RuntimeStatement + 5
      OBVIOUS
    <3> DEFINE s == config["statement_timeout"]
               t == config["timeout_seconds"]
    <3>1. Get(config, "timeout_seconds", 0) > s + 5
      BY <2>1 DEF Valid, Timeouts, Get
    <3>2. s \in Int /\ ("timeout_seconds" \in DOMAIN config => t \in Int)
      BY <2>1, ConfigsAssumption
    <3>3. RuntimeStatement = s
      BY DEF RuntimeStatement, Get
    <3>4. CASE "timeout_seconds" \in DOMAIN config
      BY <3>1, <3>3, <3>4 DEF RuntimeDeadline, Get
    <3>5. CASE "timeout_seconds" \notin DOMAIN config
      BY <3>1, <3>2, <3>3, <3>5 DEF RuntimeDeadline, Get
    <3> QED BY <3>4, <3>5
  <2> QED BY <2>2, <2>4, <2>5, <2>6, <2>7, Zenon DEF FilesAgree
<1> QED BY <1>1, Invariant, AllHandedOver, PTL

\* A marker in a valid file is under a key that the modes ignore.
LEMMA MarkersAreIgnored ==
  ASSUME Valid(file, config), NEW key, Agent(key) = "REPLACE"
  PROVE  key \in Ignored(Overlay(file))
<1>1. Placeholders(Overlay(file)) = {}
  BY DEF Valid
<1> QED BY <1>1 DEF Placeholders, Agent, Get, Printed

\* No marker of the template reaches a stack that uses it, but under a key whose
\* value of the agent hid it, or as the endpoint subnets of a managed network.
THEOREM MarkersStayOut == Spec => []ReplaceStaysOut
<1>1. ASSUME IInv, HandedOver PROVE ReplaceStaysOut
  <2> DEFINE p == Overlay(file)
             Allowed(s, key) ==
               \/ key \in Shadowed
               \/ s = "target" /\ FromEnvironment(key)
               \/ s = "foundation" /\ key \notin FoundationUses
               \/ key = "endpoint_subnet_ids" /\ NetworkMode(p) = "managed"
  <2> SUFFICES ASSUME NEW s \in DOMAIN stacks, NEW key \in DOMAIN stacks[s],
                      stacks[s][key] = "REPLACE"
               PROVE  Allowed(s, key)
    BY DEF ReplaceStaysOut
  <2>1. Valid(file, config)
    BY <1>1 DEF IInv
  <2>2. Network_ = NetworkMode(p) /\ Secret_ = SecretMode(p)
    BY <2>1, SameModes
  <2>3. \A k : Agent(k) = "REPLACE" => k \in Ignored(p)
    BY <2>1, MarkersAreIgnored
  <2>3a. \A k \in OfTheTop \cup {"region"} : Top(k) = "REPLACE" => k \in Shadowed
    <3> SUFFICES ASSUME NEW k \in OfTheTop \cup {"region"}, Top(k) = "REPLACE", k \notin Shadowed
                 PROVE  FALSE
      OBVIOUS
    <3>1. Agent(k) = "REPLACE"
      BY OfTheTopIsTop DEF Top, Agent
    <3>2. k \notin Ignored(p)
      BY DEF OfTheTop, Ignored, ExternalNetwork, ManagedNetwork
    <3> QED BY <2>3, <3>1, <3>2
  <2>0. RuntimeSubnets # "REPLACE" /\ RuntimeGroups # "REPLACE"
    <3>1. CASE Network_ = "managed"
      BY <3>1 DEF RuntimeSubnets, RuntimeGroups
    <3>2. CASE Network_ # "managed"
      <4>1. /\ RuntimeSubnets = Agent("private_subnet_ids")
            /\ RuntimeGroups = Agent("runtime_security_group_ids")
        BY <3>2 DEF RuntimeSubnets, RuntimeGroups
      <4>2. {"private_subnet_ids", "runtime_security_group_ids"} \cap Ignored(p) = {}
        BY <2>2, <3>2 DEF Ignored, ManagedNetwork
      <4> QED BY <2>3, <4>1, <4>2
    <3> QED BY <3>1, <3>2
  <2>4. CASE s \in {"gateway", "bootstrap"}
    <3>1. stacks[s] = GatewayParameters
      BY <1>1, <2>4 DEF HandedOver
    <3>2. key \in OfTheTop /\ Top(key) = "REPLACE"
      BY <3>1 DEF GatewayParameters
    <3> QED BY <2>3a, <3>2
  <2>5. CASE s = "foundation"
    <3>1. stacks[s] = FoundationParameters
      BY <1>1, <2>5 DEF HandedOver
    <3>2. Agent(key) = "REPLACE"
      BY <3>1 DEF FoundationParameters
    <3>3. key \in FoundationUses => key \notin Ignored(p)
      BY <2>2 DEF FoundationUses, Ignored, ExternalNetwork, ManagedNetwork
    <3> QED BY <2>3, <2>5, <3>2, <3>3
  <2>6. CASE s = "secret"
    <3>1. stacks[s] = SecretParameters
      BY <1>1, <2>6 DEF HandedOver
    <3>2. Agent("database_secret_string") = "REPLACE"
      BY <3>1 DEF SecretParameters
    <3>3. SecretMode(p) = "managed"
      BY <1>1, <2>2, <2>6 DEF IInv
    <3> QED BY <2>3, <3>2, <3>3 DEF Ignored, ExternalNetwork, ManagedNetwork
  <2>7. CASE s = "endpoints"
    <3>1. stacks[s] = EndpointParameters
      BY <1>1, <2>7 DEF HandedOver
    <3>2. \/ key = "vpc_id" /\ Agent("vpc_id") = "REPLACE"
          \/ key = "endpoint_subnet_ids" /\ Or(Agent(key), RuntimeSubnets) = "REPLACE"
          \/ RuntimeGroups = "REPLACE"
          \/ RouteTables = "REPLACE"
      BY <3>1 DEF EndpointParameters
    <3>3. ~ Agent("vpc_id") = "REPLACE"
      BY <2>3 DEF Ignored, ExternalNetwork, ManagedNetwork
    <3>4. RouteTables # "REPLACE"
      <4>1. Network_ # "managed" => "runtime_route_table_ids" \notin Ignored(p)
        BY <2>2 DEF Ignored, ManagedNetwork
      <4> QED BY <2>3, <4>1 DEF RouteTables, Or
    <3>5. CASE key = "endpoint_subnet_ids" /\ Or(Agent(key), RuntimeSubnets) = "REPLACE"
      <4>1. Agent(key) = "REPLACE"
        BY <2>0, <3>5 DEF Or
      <4> QED BY <2>2, <2>3, <3>5, <4>1 DEF Ignored, ExternalNetwork, ManagedNetwork
    <3> QED BY <2>0, <3>2, <3>3, <3>4, <3>5
  <2>8. CASE s = "runtime"
    <3>1. stacks[s] = RuntimeParameters
      BY <1>1, <2>8 DEF HandedOver
    <3>2. \/ key = "region" /\ Top("region") = "REPLACE"
          \/ DatabaseSecret = "REPLACE" \/ Agent("openai_secret_arn") = "REPLACE"
          \/ RuntimeSubnets = "REPLACE" \/ RuntimeGroups = "REPLACE"
          \/ Or(Agent("idle_runtime_session_timeout"), "300") = "REPLACE"
          \/ Or(Agent("max_lifetime"), "3600") = "REPLACE"
      BY <3>1 DEF RuntimeParameters
    <3>3. DatabaseSecret # "REPLACE"
      <4>1. SecretMode(p) # "managed" => Get(p, "database_secret_arn", "") = "good"
        BY <2>1 DEF Valid, Secret
      <4> QED BY <2>2, <4>1 DEF DatabaseSecret, Agent, Printed, Null
    <3>4. \/ key = "region" /\ Top("region") = "REPLACE"
          \/ Agent("openai_secret_arn") = "REPLACE"
          \/ Agent("idle_runtime_session_timeout") = "REPLACE"
          \/ Agent("max_lifetime") = "REPLACE"
      BY <2>0, <3>2, <3>3 DEF Or
    <3>5. CASE key = "region" /\ Top("region") = "REPLACE"
      BY <2>3a, <3>5
    <3> QED BY <2>3, <3>4, <3>5 DEF Ignored, ExternalNetwork, ManagedNetwork
  <2>9. CASE s = "target"
    <3>1. stacks[s] = Headers
      BY <1>1, <2>9 DEF HandedOver
    <3>1a. key \in DOMAIN Headers /\ Headers[key] = "REPLACE"
      BY <3>1
    <3>1b. DOMAIN Headers = {"allowed_request_headers", "allowed_response_headers"}
      BY DEF Headers
    <3>1c. /\ Headers["allowed_request_headers"]
                = Or(Or(Get(env, "allowed_request_headers", ""), Agent("allowed_request_headers")),
                     "session,context")
           /\ Headers["allowed_response_headers"]
                = Or(Or(Get(env, "allowed_response_headers", ""), Agent("allowed_response_headers")),
                     "session")
      BY DEF Headers
    <3>2. \/ /\ key = "allowed_request_headers"
             /\ Or(Or(Get(env, key, ""), Agent(key)), "session,context") = "REPLACE"
          \/ /\ key = "allowed_response_headers"
             /\ Or(Or(Get(env, key, ""), Agent(key)), "session") = "REPLACE"
      BY <3>1a, <3>1b, <3>1c, Zenon
    <3>3. Or(Get(env, key, ""), Agent(key)) = "REPLACE"
      BY <3>2 DEF Or
    <3>4. FromEnvironment(key) \/ Agent(key) = "REPLACE"
      BY <3>3 DEF Or, FromEnvironment
    <3>5. key \notin Ignored(p)
      BY <3>2 DEF Ignored, ExternalNetwork, ManagedNetwork
    <3> QED BY <2>3, <2>9, <3>4, <3>5
  <2> QED BY <1>1, <2>4, <2>5, <2>6, <2>7, <2>8, <2>9 DEF HandedOver
<1> QED BY <1>1, Invariant, AllHandedOver, PTL

\* Whatever a file and a configuration hold, a run is at one of its steps or
\* ends, and its stacks are those of its steps.
THEOREM TypeCorrect == Spec => []TypeOK
<1>1. Init => TypeOK
  BY DEF Init, TypeOK, Steps
<1>2. TypeOK /\ [Next]_vars => TypeOK'
  <2> SUFFICES ASSUME TypeOK, [Next]_vars PROVE TypeOK'
    OBVIOUS
  <2> USE DEF TypeOK, Steps, Ends
  <2>1. ASSUME NEW stack \in Steps, NEW parameters, NEW next \in Steps \cup Ends,
               Deploy(stack, parameters, next)
        PROVE  TypeOK'
    BY <2>1 DEF Deploy, inputs
  <2>2. ASSUME NEW how \in Steps \cup Ends, End(how) PROVE TypeOK'
    BY <2>2 DEF End, inputs
  <2>3. CASE Preflight
    BY <2>2, <2>3 DEF Preflight
  <2>4. CASE Validate
    BY <2>2, <2>4 DEF Validate
  <2>5. CASE Read
    BY <2>2, <2>5 DEF Read
  <2>6. CASE Resources
    BY <2>2, <2>6 DEF Resources
  <2>7. CASE CheckEndpoints
    BY <2>2, <2>7 DEF CheckEndpoints
  <2>8. CASE Fail
    BY <2>2, <2>8 DEF Fail
  <2>9. CASE Gateway \/ Bootstrap \/ Foundation
    BY <2>1, <2>9 DEF Gateway, Bootstrap, Foundation
  <2>10. CASE WriteSecret \/ DeployEndpoints \/ DeployRuntime
    BY <2>1, <2>10 DEF WriteSecret, DeployEndpoints, DeployRuntime
  <2>11. CASE DeployTarget
    BY <2>1, <2>2, <2>11 DEF DeployTarget
  <2>12. CASE UNCHANGED vars
    BY <2>12 DEF vars
  <2> QED BY <2>3, <2>4, <2>5, <2>6, <2>7, <2>8, <2>9, <2>10, <2>11, <2>12 DEF Next
<1> QED BY <1>1, <1>2, PTL DEF Spec
==============================================================================
