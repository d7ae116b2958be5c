-------------------------- MODULE MCDeployParameters --------------------------
(* An instance of DeployParameters for TLC: the parameter files of the
   repository with up to two edits at the top level or in the agent, and the
   packaged configuration with up to three. *)
EXTENDS DeployParameters, TLC

\* Numbers of seconds at and around the bounds of the lifecycle.
Durations ==
  ("59" :> 59) @@ ("60" :> 60) @@ ("300" :> 300) @@ ("3600" :> 3600)
    @@ ("28800" :> 28800) @@ ("28801" :> 28801)

Common ==
  ("region" :> "eu") @@ ("artifact_bucket_name" :> "good")
    @@ ("jwt_discovery_url" :> "good") @@ ("jwt_allowed_audience" :> "good")
    @@ ("required_scope" :> "data:read")
External ==
  ("database_secret_mode" :> "external") @@ ("database_secret_arn" :> "good")
    @@ ("runtime_network_mode" :> "external") @@ ("private_subnet_ids" :> "good")
    @@ ("runtime_security_group_ids" :> "good")

\* infrastructure/parameters.json, completed or half completed.
Template ==
  [top |-> Common @@ External @@ ("vpc_id" :> "good") @@ ("endpoint_subnet_ids" :> "good")
             @@ ("create_private_service_endpoints" :> "true")
             @@ ("runtime_route_table_ids" :> "")
             @@ ("idle_runtime_session_timeout" :> "300") @@ ("max_lifetime" :> "3600"),
   agent |-> <<>>]
\* README.md: resources that are managed, for one agent.
Managed ==
  [top |-> Common,
   agent |-> ("vpc_id" :> "good") @@ ("runtime_network_mode" :> "managed")
               @@ ("managed_private_subnet_cidr_1" :> "good")
               @@ ("managed_private_subnet_cidr_2" :> "good")
               @@ ("database_secret_mode" :> "managed") @@ ("database_secret_name" :> "good")
               @@ ("database_secret_string" :> "good")]
\* The template with an agent of its own mode and marked top-level resources.
Mixed ==
  [top |-> [Template.top EXCEPT !["endpoint_subnet_ids"] = "REPLACE",
                                !["private_subnet_ids"] = "REPLACE",
                                !["runtime_security_group_ids"] = "REPLACE",
                                !["database_secret_arn"] = "REPLACE"],
   agent |-> Managed.agent]
\* README.md: resources supplied explicitly.
Explicit == [top |-> Common, agent |-> External]

TopEdits ==
  [region |-> {"us", "REPLACE"}, artifact_bucket_name |-> {"REPLACE"},
   jwt_discovery_url |-> {"REPLACE"}, required_scope |-> {"data:write", "REPLACE", Null}]
\* The keys an agent may override, with the values worth trying.
AgentEdits ==
  [region |-> {"us"}, required_scope |-> {"data:read", "data:write"},
   jwt_discovery_url |-> {"good"}, vpc_id |-> {"good", ""}, runtime_network_mode |-> {"external", "managed", ""},
   private_subnet_ids |-> {"good", "REPLACE", "", Null},
   runtime_security_group_ids |-> {"REPLACE", ""},
   endpoint_subnet_ids |-> {"REPLACE", "", Null}, runtime_route_table_ids |-> {"good", "REPLACE"},
   managed_private_subnet_cidr_1 |-> {"REPLACE", ""},
   create_private_service_endpoints |-> {"true", "false", ""},
   database_secret_mode |-> {"external", "managed"},
   database_secret_arn |-> {"good", "bad", "REPLACE"},
   database_secret_name |-> {"bad", "REPLACE"}, database_secret_string |-> {"good", "bad", "", "REPLACE", Null},
   openai_secret_arn |-> {"good", "", Null},
   allowed_request_headers |-> {"session,context", "session", Null},
   allowed_response_headers |-> {"context", ""},
   idle_runtime_session_timeout |-> {"59", "60", "3600", "28801", ""},
   max_lifetime |-> {"60", "300", "28800", "28801"},
   target_credential_provider_type |-> {"OAUTH"}, oauth_provider_arn |-> {"good"}]

\* A key set to a value, or removed.
Set(p, key, value) == (key :> value) @@ p
Without(p, key) == [k \in DOMAIN p \ {key} |-> p[k]]
Edit(p, e) == IF e[2] = "removed" THEN Without(p, e[1]) ELSE Set(p, e[1], e[2])

Values == {Null, "data:read", "good", "bad", "", "REPLACE", "us", "data:write", "external", "managed", "true",
           "false", "session,context", "session", "context", "OAUTH"} \cup DOMAIN Durations
Edits(edits, keys) ==
  {e \in (DOMAIN edits) \X Values : e[2] \in edits[e[1]]} \cup (keys \X {"removed"})
EditedFiles(files) ==
  {[f EXCEPT !.top = Edit(@, e)] :
     f \in files, e \in Edits(TopEdits @@ AgentEdits, DOMAIN Template.top)}
  \cup {[f EXCEPT !.agent = Edit(@, e)] :
           f \in files, e \in Edits(AgentEdits, DOMAIN Managed.agent \cup DOMAIN External)}

Shipped == {Template, Managed, Mixed, Explicit}
EditedTwice == EditedFiles(EditedFiles(Shipped))

\* config/data-agent.yaml
Packaged ==
  [mode |-> "scopes", accepted_claims |-> {"scope", "scp"}, required_scope |-> "data:read",
   identity_claims |-> {"sub", "oid"}, identity_mode |-> "service",
   required_grants |-> {"data:read"}, provider |-> "bedrock", model |-> "eu",
   timeout_seconds |-> 45, statement_timeout |-> 30]

EditedConfigs ==
  {Packaged,
   [Packaged EXCEPT !.provider = "openai"],
   [Packaged EXCEPT !.model = "us"],
   Without(Without(Without(Packaged, "required_scope"), "required_grants"), "identity_mode"),
   [Packaged EXCEPT !.required_scope = "data:write"],
   [Packaged EXCEPT !.required_scope = "data:write",
                    !.required_grants = {"data:read", "data:write"}],
   [Packaged EXCEPT !.mode = "claims", !.accepted_claims = {"roles"}],
   [Packaged EXCEPT !.accepted_claims = {"scope", "roles"}, !.identity_claims = {"email"}],
   [Packaged EXCEPT !.identity_mode = "on_behalf_of_user"],
   Set([Packaged EXCEPT !.identity_mode = "on_behalf_of_user"], "downstream_audience", "good"),
   [Packaged EXCEPT !.timeout_seconds = 35],
   Without(Packaged, "timeout_seconds"),
   Without([Packaged EXCEPT !.timeout_seconds = 10], "statement_timeout")}

\* Nothing is set, or headers without the context or the session.
Shells ==
  {<<>>, [allowed_request_headers |-> "session", allowed_response_headers |-> "context"]}
==============================================================================
