------------------------------- MODULE Release -------------------------------
(***************************************************************************)
(* Releases of data-agent instances: publish.sh, cleanup_artifacts.py and  *)
(* the part of deploy.sh that points a Runtime stack at a release, over    *)
(* one S3 bucket of one environment.                                       *)
(*                                                                         *)
(* Operators (people, CI jobs) run one script each at a time.  Every call  *)
(* of a script to S3 or CloudFormation is one step, so scripts interleave  *)
(* call by call and can die between two of them.  CloudFormation finishes  *)
(* or rolls back an update on its own, whatever became of the script.      *)
(***************************************************************************)
EXTENDS Integers, FiniteSets

CONSTANTS
  Instances,      \* values of DATA_AGENT_INSTANCE
  DefaultName,    \* the instance "data-agent"
  Dashed,         \* instances whose name begins with "data-agent-"
  MaxVersion,     \* bound: versions are 1 .. MaxVersion, in the order of their text
  Builds,         \* contents a dist/data-agent.zip and its configuration can have
  Keep,           \* --keep-manifests
  Operators,      \* who runs scripts
  Cleaners,       \* those of them who run cleanup_artifacts.py
  Mortal,         \* the scripts that may die halfway
  None

ASSUME ReleaseAssumption ==
  /\ Dashed \subseteq Instances \ {DefaultName}
  /\ Cleaners \subseteq Operators
  /\ Mortal \subseteq {"publish", "deploy", "cleanup"}
  /\ MaxVersion \in Nat /\ Keep \in Nat
  /\ None \notin Instances \cup Builds

Versions == 1 .. MaxVersion
Kinds == {"artifact", "config", "manifest"}

\* active.json is the key of version 0 of the manifests: it sorts below
\* data-agent-<version>.json, as version 0 does below the others.
Key == [kind : Kinds, inst : Instances, version : 0 .. MaxVersion]
KeyOf(kind, i, v) == [kind |-> kind, inst |-> i, version |-> v]
ActiveKey(i) == KeyOf("manifest", i, 0)

\* What a key holds: the release it belongs to and the build it was made from.
\* For a manifest: the release it names and the checksum it records.
Content == [inst : Instances, version : Versions, build : Builds]

\* Where a script is, and what it was started with.
ScriptAt ==
  [none |-> {"none"},
   publish |-> Kinds \cup {"active"},
   deploy |-> {"submit", "wait"},
   cleanup |-> {"manifests", "active", "stack", "window", "configs", "delete"}]
Script ==
  [script : {"none", "publish", "deploy", "cleanup"}, inst : Instances \cup {None},
   version : 0 .. MaxVersion, build : Builds \cup {None},
   at : Kinds \cup {"none", "active", "submit", "wait", "manifests", "stack", "window",
                    "configs", "delete"}]
Work ==
  [listed : SUBSET Key, unread : SUBSET Key, kept : SUBSET (Instances \X Versions),
   gone : SUBSET Key]

Idle == [script |-> "none", inst |-> None, version |-> 0, build |-> None, at |-> "none"]
NoWork == [listed |-> {}, unread |-> {}, kept |-> {}, gone |-> {}]

VARIABLES
  bucket,   \* the objects of the bucket: a function from the keys present
  stack,    \* the Runtime stack of each instance; version 0 is no release
  clock,    \* the last version given by the clock
  printed,  \* the releases whose keys publish.sh printed
  op,       \* the script each operator is running, and where it is
  work      \* the sets of a running cleanup

vars == <<bucket, stack, clock, printed, op, work>>

Present(k) == k \in DOMAIN bucket
Put(key, c) ==
  bucket' = [k \in DOMAIN bucket \cup {key} |-> IF k = key THEN c ELSE bucket[k]]
Release(c) == <<c.inst, c.version>>

\* The script of operator o goes on to step `at`, or ends.
Goto(o, at) == op' = [op EXCEPT ![o].at = at]
Ends(o) == op' = [op EXCEPT ![o] = Idle] /\ work' = [work EXCEPT ![o] = NoWork]
At(o, script, at) == op[o].script = script /\ op[o].at = at

Init ==
  /\ bucket = << >>
  /\ stack = [i \in Instances |-> [params |-> 0, running |-> 0, updating |-> FALSE]]
  /\ clock = 0
  /\ printed = {}
  /\ op = [o \in Operators |-> Idle]
  /\ work = [o \in Operators |-> NoWork]
-----------------------------------------------------------------------------
(* publish.sh: four uploads in this order, then the keys are printed.       *)

\* VERSION is the clock's (one set by hand may repeat; see README.md).
BeginPublish(o, i, v, b) ==
  /\ op[o] = Idle
  /\ v = clock + 1
  /\ clock' = v
  /\ op' = [op EXCEPT ![o] = [script |-> "publish", inst |-> i, version |-> v,
                              build |-> b, at |-> "artifact"]]
  /\ UNCHANGED <<bucket, stack, printed, work>>

\* Mutant: the manifest goes up before the configuration it names.
ManifestBeforeConfig == [artifact |-> "manifest", manifest |-> "config", config |-> "active"]

AfterUpload == [artifact |-> "config", config |-> "manifest", manifest |-> "active"]

\* aws s3 cp of the ZIP, the configuration, the manifest: an existing key is overwritten.
Upload(o) ==
  /\ op[o].script = "publish" /\ op[o].at \in Kinds
  /\ LET p == op[o]
     IN  /\ Put(KeyOf(p.at, p.inst, p.version),
                [inst |-> p.inst, version |-> p.version, build |-> p.build])
         /\ Goto(o, AfterUpload[p.at])
  /\ UNCHANGED <<stack, clock, printed, work>>

\* The manifest becomes active.json, and the operator gets the keys.
Activate(o) ==
  /\ At(o, "publish", "active")
  /\ LET p == op[o]
     IN  /\ Put(ActiveKey(p.inst), [inst |-> p.inst, version |-> p.version, build |-> p.build])
         /\ printed' = printed \cup {<<p.inst, p.version>>}
  /\ Ends(o)
  /\ UNCHANGED <<stack, clock>>
-----------------------------------------------------------------------------
(* deploy.sh: ARTIFACT_KEY and CONFIG_KEY are those of a printed release.   *)

BeginDeploy(o, i, v) ==
  /\ op[o] = Idle
  /\ <<i, v>> \in printed
  /\ op' = [op EXCEPT ![o] = [script |-> "deploy", inst |-> i, version |-> v,
                              build |-> None, at |-> "submit"]]
  /\ UNCHANGED <<bucket, stack, clock, printed, work>>

\* A stack whose creation failed is not updated: somebody has to delete it.
CreationFailed(i) ==
  stack[i].params # 0 /\ stack[i].running = 0 /\ ~ stack[i].updating

\* aws cloudformation deploy: the parameters change when the update begins.  A
\* stack that is being updated refuses; equal parameters are no update.
SubmitUpdate(o) ==
  /\ At(o, "deploy", "submit")
  /\ LET p == op[o]
     IN  IF \/ stack[p.inst].updating \/ CreationFailed(p.inst)
            \/ stack[p.inst].params = p.version
         THEN Ends(o) /\ UNCHANGED stack
         ELSE /\ stack' = [stack EXCEPT ![p.inst].params = p.version, ![p.inst].updating = TRUE]
              /\ Goto(o, "wait") /\ UNCHANGED work
  /\ UNCHANGED <<bucket, clock, printed>>

WaitUpdate(o) ==
  /\ At(o, "deploy", "wait")
  /\ ~ stack[op[o].inst].updating
  /\ Ends(o)
  /\ UNCHANGED <<bucket, stack, clock, printed>>

\* CloudFormation: the Runtime is updated if its ZIP can be fetched; any update
\* may fail, and the stack then goes back to the release that runs.  Where none
\* does, the failed creation keeps its parameters.
UpdateSucceeds(i) ==
  /\ stack[i].updating
  /\ Present(KeyOf("artifact", i, stack[i].params))
  /\ stack' = [stack EXCEPT ![i].running = stack[i].params, ![i].updating = FALSE]
  /\ UNCHANGED <<bucket, clock, printed, op, work>>

UpdateFails(i) ==
  /\ stack[i].updating
  /\ stack' = [stack EXCEPT ![i].updating = FALSE,
                            ![i].params = IF stack[i].running = 0 THEN @ ELSE stack[i].running]
  /\ UNCHANGED <<bucket, clock, printed, op, work>>
-----------------------------------------------------------------------------
(* cleanup_artifacts.py --apply.                                            *)

\* The instances whose keys the listing prefix of instance i matches: that of the
\* default instance, data-agent-, also matches the folders of Dashed instances.
Covered(i) == {i} \cup (IF i = DefaultName THEN Dashed ELSE {})

\* Keys of one kind under the prefix.  active.json is matched only in the folder
\* of another instance, where the prefix ends before the file's name.
Listing(i, kind) ==
  {k \in DOMAIN bucket : k.kind = kind /\ k.inst \in Covered(i) /\ k # ActiveKey(i)}

\* The text of a covered folder (data-agent-<letter>) sorts after data-agent-<digit>.
Newer(i, k, l) == IF k.inst = l.inst THEN k.version > l.version ELSE l.inst = i

\* manifest_keys[: keep_manifests] of the reversed order
Window(i, keys) == {k \in keys : Cardinality({l \in keys : Newer(i, l, k)}) < Keep}

BeginCleanup(o, i) ==
  /\ op[o] = Idle
  /\ o \in Cleaners
  /\ op' = [op EXCEPT ![o] = [Idle EXCEPT !.script = "cleanup", !.inst = i, !.at = "manifests"]]
  /\ UNCHANGED <<bucket, stack, clock, printed, work>>

ListManifests(o) ==
  /\ At(o, "cleanup", "manifests")
  /\ LET keys == Listing(op[o].inst, "manifest")
     IN  work' = [work EXCEPT ![o].listed = keys, ![o].unread = Window(op[o].inst, keys)]
  /\ Goto(o, "active")
  /\ UNCHANGED <<bucket, stack, clock, printed>>

\* get_object of active.json: the script ends with NoSuchKey when there is none.
ReadActive(o) ==
  /\ At(o, "cleanup", "active")
  /\ LET key == ActiveKey(op[o].inst)
     IN  IF Present(key)
         THEN /\ work' = [work EXCEPT ![o].kept = {Release(bucket[key])}]
              /\ Goto(o, "stack")
         ELSE Ends(o)
  /\ UNCHANGED <<bucket, stack, clock, printed>>

\* Mutant: a stack that does not exist is not told from one with parameters.
ReadStackBlindly(o) ==
  /\ At(o, "cleanup", "stack")
  /\ work' = [work EXCEPT ![o].kept = @ \cup {<<op[o].inst, stack[op[o].inst].params>>}]
  /\ Goto(o, "window")
  /\ UNCHANGED <<bucket, stack, clock, printed>>

\* _stack_parameter_keys: none of a stack that does not exist.
ReadStack(o) ==
  /\ At(o, "cleanup", "stack")
  /\ LET i == op[o].inst
     IN  work' = [work EXCEPT ![o].kept = @ \cup
                    (IF stack[i].params = 0 THEN {} ELSE {<<i, stack[i].params>>})]
  /\ Goto(o, "window")
  /\ UNCHANGED <<bucket, stack, clock, printed>>

\* One manifest of the window, in the order of a Python set: any.
ReadManifest(o) ==
  /\ At(o, "cleanup", "window")
  /\ \E key \in work[o].unread :
       IF Present(key)
       THEN /\ work' = [work EXCEPT ![o].kept = @ \cup {Release(bucket[key])},
                                    ![o].unread = @ \ {key}]
            /\ UNCHANGED op
       ELSE Ends(o)
  /\ UNCHANGED <<bucket, stack, clock, printed>>

\* The keys of one kind that belong to no kept release
Unkept(o, kind) == {k \in Listing(op[o].inst, kind) : Release(k) \notin work[o].kept}

ListArtifacts(o) ==
  /\ At(o, "cleanup", "window")
  /\ work[o].unread = {}
  /\ work' = [work EXCEPT ![o].gone = Unkept(o, "artifact")]
  /\ Goto(o, "configs")
  /\ UNCHANGED <<bucket, stack, clock, printed>>

\* Mutant: configurations are never removed.
ListConfigsKeepingAll(o) ==
  /\ At(o, "cleanup", "configs")
  /\ work' = [work EXCEPT ![o].gone =
                @ \cup (work[o].listed \ Window(op[o].inst, work[o].listed))]
  /\ Goto(o, "delete")
  /\ UNCHANGED <<bucket, stack, clock, printed>>

ListConfigs(o) ==
  /\ At(o, "cleanup", "configs")
  /\ work' = [work EXCEPT ![o].gone = @ \cup Unkept(o, "config")
                 \cup (work[o].listed \ Window(op[o].inst, work[o].listed))]
  /\ Goto(o, "delete")
  /\ UNCHANGED <<bucket, stack, clock, printed>>

Rank == [artifact |-> 1, config |-> 2, manifest |-> 3]

\* Mutant: the keys are deleted in reverse order.
LastToDelete(keys) == {k \in keys : \A l \in keys : Rank[k.kind] >= Rank[l.kind]}

\* The sorted order of the keys: artifacts/ before config/ before manifests/.  Within
\* one kind the model deletes in any order.
NextToDelete(keys) == {k \in keys : \A l \in keys : Rank[k.kind] <= Rank[l.kind]}

DeleteKey(o) ==
  /\ At(o, "cleanup", "delete")
  /\ \E key \in NextToDelete(work[o].gone) :
       /\ bucket' = [k \in DOMAIN bucket \ {key} |-> bucket[k]]
       /\ work' = [work EXCEPT ![o].gone = @ \ {key}]
  /\ UNCHANGED <<stack, clock, printed, op>>

EndCleanup(o) ==
  /\ At(o, "cleanup", "delete")
  /\ work[o].gone = {}
  /\ Ends(o)
  /\ UNCHANGED <<bucket, stack, clock, printed>>
-----------------------------------------------------------------------------
\* A script dies between two of its calls (set -e after a failed call, Ctrl-C).
Die(o) ==
  /\ op[o].script \in Mortal
  /\ Ends(o)
  /\ UNCHANGED <<bucket, stack, clock, printed>>

Publish(o) ==
  \/ \E i \in Instances, v \in Versions, b \in Builds : BeginPublish(o, i, v, b)
  \/ Upload(o)
  \/ Activate(o)

Deploy(o) ==
  \/ \E i \in Instances, v \in Versions : BeginDeploy(o, i, v)
  \/ SubmitUpdate(o)
  \/ WaitUpdate(o)

Cleanup(o) ==
  \/ \E i \in Instances : BeginCleanup(o, i)
  \/ ListManifests(o) \/ ReadActive(o) \/ ReadStack(o) \/ ReadManifest(o)
  \/ ListArtifacts(o) \/ ListConfigs(o) \/ DeleteKey(o) \/ EndCleanup(o)

CloudFormation == \E i \in Instances : UpdateSucceeds(i) \/ UpdateFails(i)

Next ==
  \/ \E o \in Operators : Publish(o) \/ Deploy(o) \/ Cleanup(o) \/ Die(o)
  \/ CloudFormation

Spec == Init /\ [][Next]_vars
-----------------------------------------------------------------------------
(* Properties.                                                              *)

\* Every object, stack and script is well formed, and only a running cleanup
\* holds sets of keys.
TypeOK ==
  /\ DOMAIN bucket \subseteq Key
  /\ \A k \in DOMAIN bucket : bucket[k] \in Content
  /\ stack \in [Instances -> [params : 0 .. MaxVersion, running : 0 .. MaxVersion,
                             updating : BOOLEAN]]
  /\ clock \in 0 .. MaxVersion
  /\ printed \subseteq Instances \X Versions
  /\ op \in [Operators -> Script] /\ work \in [Operators -> Work]
  /\ \A o \in Operators :
       /\ op[o].at \in ScriptAt[op[o].script]
       /\ op[o].script # "none" => op[o].inst \in Instances
       /\ op[o].script \in {"publish", "deploy"} => op[o].version \in Versions
       /\ op[o].script = "publish" => op[o].build \in Builds
       /\ op[o].script # "cleanup" => work[o] = NoWork
       /\ work[o].unread \subseteq work[o].listed

\* The manifests operators rely on: the active one, and the newest Keep ones.
Manifests(i) == {k \in DOMAIN bucket : k.kind = "manifest" /\ k.inst = i /\ k.version # 0}
Retained(i) ==
  {k \in Manifests(i) : Cardinality({l \in Manifests(i) : l.version > k.version}) < Keep}
        \cup (DOMAIN bucket \cap {ActiveKey(i)})

\* What a manifest names is in the bucket, with the checksum it records, for
\* the active manifest and every one of the retained window, at every moment:
\* between two uploads, during a cleanup, and after a script died.
ManifestsWhole ==
  \A i \in Instances : \A m \in Retained(i), kind \in {"artifact", "config"} :
    LET k == KeyOf(kind, bucket[m].inst, bucket[m].version)
    IN  Present(k) /\ bucket[k].build = bucket[m].build

\* The release a Runtime runs can be fetched by its next session: main.py loads
\* CONFIG_KEY on every call.
RuntimeServed ==
  \A i \in Instances : stack[i].running # 0 =>
    \A kind \in {"artifact", "config"} : Present(KeyOf(kind, i, stack[i].running))

\* README.md: cleanup removes "keys that are not referenced by the active manifest,
\* the retained manifest window, or Runtime stack parameters", as these are when
\* the key is removed.
Referenced(i) ==
  {Release(bucket[m]) : m \in Retained(i)}
    \cup (IF stack[i].params = 0 THEN {} ELSE {<<i, stack[i].params>>})

Removable(k) ==
  IF k.kind = "manifest" THEN k \notin Retained(k.inst)
  ELSE <<k.inst, k.version>> \notin Referenced(k.inst)

DeletesUnreferenced == [][\A k \in DOMAIN bucket \ DOMAIN bucket' : Removable(k)]_vars

\* Of that, what an agent depends on: no artifact and no configuration goes that the
\* active manifest or the Runtime of its own instance names, whichever instance is
\* cleaned up.
InUse(i) ==
  {Release(bucket[m]) : m \in DOMAIN bucket \cap {ActiveKey(i)}}
    \cup (IF stack[i].params = 0 THEN {} ELSE {<<i, stack[i].params>>})

ReleasesInUseStay ==
  [][\A k \in DOMAIN bucket \ DOMAIN bucket' :
       k.kind # "manifest" => <<k.inst, k.version>> \notin InUse(k.inst)]_vars

\* A cleanup that runs to its end leaves of its instance only what is referenced.
CleanupLeavesReferenced ==
  [][\A o \in Operators :
       At(o, "cleanup", "delete") /\ work[o].gone = {} /\ op'[o] = Idle =>
         \A k \in DOMAIN bucket : k.inst = op[o].inst => ~ Removable(k)]_vars

\* The scripts and CloudFormation, call by call, keep the promises of
\* ReleaseRegistry: a release that is half uploaded or half deleted is nobody's,
\* one that a manifest, a Runtime or an update in progress refers to stays, and
\* CloudFormation, which looks at the ZIP of an update only, never runs one
\* whose configuration is gone.
Registry == INSTANCE ReleaseRegistry WITH
  latest <- clock,
  available <- {r \in Instances \X Versions :
                  \A kind \in {"artifact", "config"} : Present(KeyOf(kind, r[1], r[2]))},
  catalog <- [i \in Instances |-> {k.version : k \in Manifests(i)}],
  active <- [i \in Instances |->
               IF Present(ActiveKey(i)) THEN bucket[ActiveKey(i)].version ELSE 0],
  runtime <- [i \in Instances |-> [wanted |-> stack[i].params, running |-> stack[i].running]]

ImplementsRegistry == Registry!Spec

=============================================================================
