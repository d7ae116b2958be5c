---------------------------- MODULE Release_proofs ----------------------------
(***************************************************************************)
(* Proofs about Release, for any instances, versions and builds and any    *)
(* window, when scripts do not overlap and no instance has a name that     *)
(* begins with data-agent-: publish.sh and the cleanup may die anywhere,   *)
(* any update may fail.                                                    *)
(*                                                                         *)
(* The invariant says what a script knows: a publication, that what it     *)
(* uploaded is there and that nothing else has its version; a cleanup,     *)
(* which keys are doomed, exactly.                                         *)
(***************************************************************************)
EXTENDS Release, TLAPS, FiniteSetTheorems, WellFoundedInduction

\* Scripts do not overlap, whoever runs them.
Serial == \A o, p \in Operators : op[o] # Idle /\ op[p] # Idle => o = p

\* No listing matches the folder of another instance.
NoDashes == Dashed = {}

\* deploy.sh waits until CloudFormation is done.
DeploysFinish == "deploy" \notin Mortal

\* The manifests of the retained window.
NewerThan(M, n) == {l \in M : l.version > n}
RecentOf(M) == {k \in M : Cardinality(NewerThan(M, k.version)) < Keep}
Recent(i) == RecentOf(Manifests(i))

\* An object belongs to the instance and the release its key says.
BucketInv ==
  \A k \in DOMAIN bucket :
    /\ bucket[k].inst = k.inst /\ bucket[k].version <= clock
    /\ IF k.version = 0 THEN k.kind = "manifest" ELSE bucket[k].version = k.version

\* A printed release is not newer than the active one, and what is left of it is not
\* an artifact alone.
PrintedInv ==
  \A r \in printed :
    /\ Present(ActiveKey(r[1])) /\ r[2] <= bucket[ActiveKey(r[1])].version
    /\ Present(KeyOf("artifact", r[1], r[2])) => Present(KeyOf("config", r[1], r[2]))

\* A stack refers to printed releases, and an update has its script.
StackInv ==
  \A i \in Instances :
    /\ stack[i].params # 0 => <<i, stack[i].params>> \in printed
    /\ stack[i].running # 0 => <<i, stack[i].running>> \in printed
    /\ ~ stack[i].updating => stack[i].running \in {0, stack[i].params}
    /\ DeploysFinish /\ stack[i].updating =>
         \E o \in Operators : At(o, "deploy", "wait") /\ op[o].inst = i

\* What a publication has uploaded: nothing else in the bucket has its version.
UploadedKinds(at) ==
  {kind \in Kinds : \/ kind = "artifact" /\ at \in {"config", "manifest", "active"}
                    \/ kind = "config" /\ at \in {"manifest", "active"}
                    \/ kind = "manifest" /\ at = "active"}
PublishInv(p) ==
  /\ p.version = clock
  /\ \A k \in DOMAIN bucket : bucket[k].version = p.version =>
       k.inst = p.inst /\ k.version = p.version /\ k.kind \in UploadedKinds(p.at)
  /\ \A kind \in UploadedKinds(p.at) :
       LET k == KeyOf(kind, p.inst, p.version) IN Present(k) /\ bucket[k].build = p.build

\* What a cleanup will remove: the manifests that are not recent, and the keys of no
\* release it keeps.
Doomed(i, kept) ==
  {k \in DOMAIN bucket : k.inst = i /\
     IF k.kind = "manifest" THEN k \in Manifests(i) \ Recent(i) ELSE Release(k) \notin kept}

CleanupInv(p, w) ==
  LET i == p.inst
  IN  /\ p.at \in {"active", "stack", "window", "configs"} => w.listed = Manifests(i)
      /\ p.at \in {"active", "stack"} => w.unread = Recent(i)
      /\ p.at = "stack" => w.kept = {Release(bucket[ActiveKey(i)])}
      /\ p.at \in {"stack", "window", "configs", "delete"} => Present(ActiveKey(i))
      /\ p.at \in {"window", "configs", "delete"} =>
           /\ Release(bucket[ActiveKey(i)]) \in w.kept
           /\ \A m \in Recent(i) : m \in w.unread \/ Release(bucket[m]) \in w.kept
           /\ DeploysFinish =>
                /\ stack[i].params # 0 => <<i, stack[i].params>> \in w.kept
                /\ w.kept \subseteq Referenced(i)
           /\ w.unread \subseteq Recent(i)
      /\ p.at \in {"configs", "delete"} => w.unread = {}
      /\ p.at = "configs" => w.gone = {k \in Doomed(i, w.kept) : k.kind = "artifact"}
      /\ p.at = "delete" => w.gone = Doomed(i, w.kept)

ScriptInv(o) ==
  /\ op[o].script = "publish" => PublishInv(op[o])
  /\ op[o].script = "deploy" => <<op[o].inst, op[o].version>> \in printed
  /\ op[o].script = "cleanup" => CleanupInv(op[o], work[o])

IInv ==
  /\ TypeOK /\ ManifestsWhole
  /\ BucketInv /\ PrintedInv /\ StackInv
  /\ \A o \in Operators : ScriptInv(o)

------------------------------------------------------------------------------
(* Keys, and the window of the newest manifests.                           *)

LEMMA Keys ==
  /\ \A kind \in Kinds, i \in Instances, v \in 0 .. MaxVersion :
       LET k == KeyOf(kind, i, v)
       IN  k \in Key /\ k.kind = kind /\ k.inst = i /\ k.version = v
  /\ \A k \in Key : k = KeyOf(k.kind, k.inst, k.version)
  /\ \A i \in Instances : LET k == ActiveKey(i)
       IN k \in Key /\ k.kind = "manifest" /\ k.inst = i /\ k.version = 0
BY ReleaseAssumption DEF KeyOf, ActiveKey, Key, Kinds

ManifestKeys(i) == {k \in Key : k.kind = "manifest" /\ k.inst = i}

LEMMA FiniteManifests ==
  ASSUME NEW i \in Instances, NEW M \in SUBSET ManifestKeys(i)
  PROVE  IsFiniteSet(M)
<1> DEFINE f == [k \in M |-> k.version]
<1>1. IsFiniteSet(0 .. MaxVersion)
  BY FS_Interval, ReleaseAssumption
<1>2. f \in [M -> 0 .. MaxVersion]
  BY DEF ManifestKeys, Key
<1>3. ASSUME NEW k \in M, NEW l \in M, f[k] = f[l] PROVE k = l
  BY <1>3, Keys DEF ManifestKeys
<1>4. f \in Injection(M, 0 .. MaxVersion)
  BY <1>2, <1>3 DEF Injection, IsInjective
<1> QED BY <1>1, <1>4, FS_Injection

LEMMA NewerFinite ==
  ASSUME NEW i \in Instances, NEW M \in SUBSET ManifestKeys(i), NEW n
  PROVE  IsFiniteSet(NewerThan(M, n)) /\ Cardinality(NewerThan(M, n)) \in Nat
<1>1. NewerThan(M, n) \in SUBSET ManifestKeys(i)
  BY DEF NewerThan
<1> QED BY <1>1, FiniteManifests, FS_CardinalityType

\* Some manifest of a set is the newest: the strict subset ordering is well founded.
LEMMA NewestManifest ==
  ASSUME NEW i \in Instances, NEW M \in SUBSET ManifestKeys(i), NEW T \in SUBSET M, T # {}
  PROVE  \E k \in T : \A l \in T : l.version <= k.version
<1> DEFINE D == {NewerThan(M, k.version) : k \in T}
<1>1. D \subseteq FiniteSubsetsOf(M) /\ D # {}
  <2>1. \A k \in T : NewerThan(M, k.version) \subseteq M /\ IsFiniteSet(NewerThan(M, k.version))
    BY NewerFinite DEF NewerThan
  <2> QED BY <2>1 DEF FiniteSubsetsOf
<1>2. IsWellFoundedOn(StrictSubsetOrdering(M), FiniteSubsetsOf(M))
  BY FS_StrictSubsetOrderingWellFounded
<1>3. PICK x \in D : \A y \in D : ~ (<<y, x>> \in StrictSubsetOrdering(M))
  <2> HIDE DEF D
  <2> QED BY <1>1, <1>2, WFMin
<1>4. PICK k \in T : x = NewerThan(M, k.version)
  BY <1>3
<1>5. ASSUME NEW l \in T, ~ (l.version <= k.version) PROVE FALSE
  <2>1. l.version \in Nat /\ k.version \in Nat /\ l.version > k.version
    BY <1>5, ReleaseAssumption DEF ManifestKeys, Key
  <2>2. \A m \in M : m.version \in Nat
    BY ReleaseAssumption DEF ManifestKeys, Key
  <2>3. /\ NewerThan(M, l.version) \subseteq x
        /\ l \in x /\ l \notin NewerThan(M, l.version)
    BY <1>4, <2>1, <2>2 DEF NewerThan
  <2>4. <<NewerThan(M, l.version), x>> \in StrictSubsetOrdering(M)
    BY <1>4, <2>3 DEF StrictSubsetOrdering, NewerThan
  <2> QED BY <1>3, <2>4
<1> QED BY <1>5

\* Adding a manifest puts no old one into the window.
LEMMA RecentGrows ==
  ASSUME NEW i \in Instances, NEW N \in SUBSET ManifestKeys(i), NEW M \in SUBSET N,
         NEW k \in M, k \in RecentOf(N)
  PROVE  k \in RecentOf(M)
<1>1. NewerThan(M, k.version) \subseteq NewerThan(N, k.version)
  BY DEF NewerThan
<1>2. /\ Cardinality(NewerThan(M, k.version)) <= Cardinality(NewerThan(N, k.version))
      /\ Cardinality(NewerThan(M, k.version)) \in Nat
      /\ Cardinality(NewerThan(N, k.version)) \in Nat
  BY <1>1, NewerFinite, FS_Subset
<1> QED BY <1>2, ReleaseAssumption DEF RecentOf

\* Removing manifests outside the window leaves the window as it is: it is full.
LEMMA RecentStays ==
  ASSUME NEW i \in Instances, NEW N \in SUBSET ManifestKeys(i), NEW M \in SUBSET N,
         RecentOf(N) \subseteq M
  PROVE  RecentOf(M) = RecentOf(N)
<1>1. ASSUME NEW k \in RecentOf(N) PROVE k \in RecentOf(M)
  BY RecentGrows
<1>2. ASSUME NEW k \in RecentOf(M), k \notin RecentOf(N) PROVE FALSE
  <2>1. k \in N \ RecentOf(N)
    BY <1>2 DEF RecentOf
  <2>2. PICK top \in N \ RecentOf(N) : \A l \in N \ RecentOf(N) : l.version <= top.version
    BY <2>1, NewestManifest
  <2>3. \A l \in N : l.version \in Nat
    BY ReleaseAssumption DEF ManifestKeys, Key
  <2>4. NewerThan(N, top.version) \subseteq NewerThan(M, k.version)
    BY <2>1, <2>2, <2>3 DEF NewerThan
  <2>5. /\ Cardinality(NewerThan(N, top.version)) <= Cardinality(NewerThan(M, k.version))
        /\ Cardinality(NewerThan(N, top.version)) \in Nat
        /\ Cardinality(NewerThan(M, k.version)) \in Nat
    BY <2>4, NewerFinite, FS_Subset
  <2>6. ~ (Cardinality(NewerThan(N, top.version)) < Keep)
    BY <2>2 DEF RecentOf
  <2>7. Cardinality(NewerThan(M, k.version)) < Keep
    BY <1>2 DEF RecentOf
  <2> QED BY <2>5, <2>6, <2>7, ReleaseAssumption
<1>3. RecentOf(N) \subseteq RecentOf(M) /\ RecentOf(M) \subseteq RecentOf(N)
  BY <1>1, <1>2
<1> QED BY <1>3

------------------------------------------------------------------------------
(* Types, whatever overlaps and dies.                                      *)

WellFormed(p, w) ==
  /\ p.at \in ScriptAt[p.script]
  /\ p.script # "none" => p.inst \in Instances
  /\ p.script \in {"publish", "deploy"} => p.version \in Versions
  /\ p.script = "publish" => p.build \in Builds
  /\ p.script # "cleanup" => w = NoWork
  /\ w.unread \subseteq w.listed

ScriptsOK ==
  /\ op \in [Operators -> Script] /\ work \in [Operators -> Work]
  /\ \A o \in Operators : WellFormed(op[o], work[o])

BucketOK == DOMAIN bucket \subseteq Key /\ \A k \in DOMAIN bucket : bucket[k] \in Content

Stack == [params : 0 .. MaxVersion, running : 0 .. MaxVersion, updating : BOOLEAN]

RestOK ==
  /\ stack \in [Instances -> Stack] /\ clock \in 0 .. MaxVersion
  /\ printed \subseteq Instances \X Versions

LEMMA Types ==
  /\ TypeOK <=> BucketOK /\ ScriptsOK /\ RestOK
  /\ TypeOK' <=> BucketOK' /\ ScriptsOK' /\ RestOK'
<1>1. TypeOK <=> BucketOK /\ ScriptsOK /\ RestOK
  BY DEF TypeOK, BucketOK, ScriptsOK, RestOK, Stack, WellFormed
<1>2. TypeOK' <=> BucketOK' /\ ScriptsOK' /\ RestOK'
  BY DEF TypeOK, BucketOK, ScriptsOK, RestOK, Stack, WellFormed
<1> QED BY <1>1, <1>2

\* The script of one operator moves.
LEMMA ScriptMoves ==
  ASSUME ScriptsOK, NEW o \in Operators, NEW p \in Script, NEW w \in Work, WellFormed(p, w),
         op' = [op EXCEPT ![o] = p], work' = [work EXCEPT ![o] = w]
  PROVE  ScriptsOK'
<1>1. op' \in [Operators -> Script] /\ work' \in [Operators -> Work]
  BY DEF ScriptsOK
<1>2. ASSUME NEW q \in Operators PROVE WellFormed(op[q], work[q])'
  <2>1. CASE q = o
    <3>1. op'[q] = p /\ work'[q] = w
      BY <2>1 DEF ScriptsOK
    <3> QED BY <3>1 DEF WellFormed
  <2>2. CASE q # o
    <3>1. op'[q] = op[q] /\ work'[q] = work[q]
      BY <2>2 DEF ScriptsOK
    <3>2. WellFormed(op[q], work[q])
      BY DEF ScriptsOK
    <3> QED BY <3>1, <3>2 DEF WellFormed
  <2> QED BY <2>1, <2>2
<1> QED BY <1>1, <1>2 DEF ScriptsOK

\* A key is written.
LEMMA Puts ==
  ASSUME NEW key, NEW c, Put(key, c)
  PROVE  /\ DOMAIN bucket' = DOMAIN bucket \cup {key}
         /\ bucket'[key] = c
         /\ \A k \in DOMAIN bucket : k # key => bucket'[k] = bucket[k]
BY DEF Put

LEMMA PutTypes ==
  ASSUME BucketOK, NEW key \in Key, NEW c \in Content, Put(key, c)
  PROVE  BucketOK'
<1>1. DOMAIN bucket' \subseteq Key
  BY Puts DEF BucketOK
<1>2. ASSUME NEW k \in DOMAIN bucket' PROVE bucket'[k] \in Content
  <2>1. CASE k = key
    BY <2>1, Puts
  <2>2. CASE k # key
    <3>1. k \in DOMAIN bucket
      BY <2>2, Puts
    <3>2. bucket'[k] = bucket[k]
      BY <2>2, <3>1, Puts
    <3>3. bucket[k] \in Content
      BY <3>1 DEF BucketOK
    <3> QED BY <3>2, <3>3
  <2> QED BY <2>1, <2>2
<1> QED BY <1>1, <1>2 DEF BucketOK

LEMMA IdleTypes == Idle \in Script /\ NoWork \in Work /\ WellFormed(Idle, NoWork)
<1>1. Idle \in Script
  BY ReleaseAssumption DEF Idle, Script
<1>2. NoWork \in Work
  BY DEF NoWork, Work
<1>3. WellFormed(Idle, NoWork)
  BY DEF Idle, NoWork, WellFormed, ScriptAt
<1> QED BY <1>1, <1>2, <1>3

LEMMA EndsTypes == ASSUME ScriptsOK, NEW o \in Operators, Ends(o) PROVE ScriptsOK'
BY IdleTypes, ScriptMoves DEF Ends

\* A script goes on: what it was started with stays.
LEMMA GotoTypes ==
  ASSUME ScriptsOK, NEW o \in Operators, NEW at \in ScriptAt[op[o].script], Goto(o, at),
         NEW w \in Work, work' = [work EXCEPT ![o] = w],
         op[o].script # "cleanup" => w = NoWork, w.unread \subseteq w.listed
  PROVE  ScriptsOK'
<1> DEFINE p == [op[o] EXCEPT !.at = at]
<1>1. op[o] \in Script /\ WellFormed(op[o], work[o]) /\ op' = [op EXCEPT ![o] = p]
  BY DEF ScriptsOK, Goto
<1>2. at \in Kinds \cup {"none", "active", "submit", "wait", "manifests", "stack", "window",
                       "configs", "delete"}
  BY <1>1 DEF Script, ScriptAt, Kinds
<1>3. /\ p \in Script /\ p.at = at /\ p.script = op[o].script /\ p.inst = op[o].inst
      /\ p.version = op[o].version /\ p.build = op[o].build
  BY <1>1, <1>2 DEF Script
<1> HIDE DEF p
<1>4. WellFormed(p, w)
  BY <1>1, <1>3 DEF WellFormed
<1> QED BY <1>1, <1>3, <1>4, ScriptMoves

LEMMA PublishTypes == ASSUME TypeOK, NEW o \in Operators, Publish(o) PROVE TypeOK'
<1> USE Types DEF RestOK
<1>1. /\ op[o] \in Script /\ work[o] \in Work /\ WellFormed(op[o], work[o])
      /\ work = [work EXCEPT ![o] = work[o]]
  BY DEF ScriptsOK
<1>2. ASSUME NEW i \in Instances, NEW v \in Versions, NEW b \in Builds, BeginPublish(o, i, v, b)
      PROVE  TypeOK'
  <2> DEFINE p == [script |-> "publish", inst |-> i, version |-> v, build |-> b, at |-> "artifact"]
  <2>1. p \in Script /\ v \in 0 .. MaxVersion
    BY ReleaseAssumption DEF Script, Versions, Kinds
  <2>2. WellFormed(p, work[o])
    BY <1>1, <1>2 DEF WellFormed, BeginPublish, Idle, ScriptAt, Kinds
  <2>3. op' = [op EXCEPT ![o] = p] /\ work' = [work EXCEPT ![o] = work[o]]
    BY <1>1, <1>2 DEF BeginPublish
  <2> HIDE DEF p
  <2>4. ScriptsOK'
    BY <1>1, <2>1, <2>2, <2>3, ScriptMoves
  <2> QED BY <1>2, <2>1, <2>4 DEF BeginPublish, BucketOK
<1>3. ASSUME op[o].script = "publish"
      PROVE  /\ op[o].inst \in Instances /\ op[o].version \in Versions
             /\ op[o].version \in 0 .. MaxVersion /\ work[o] = NoWork
             /\ [inst |-> op[o].inst, version |-> op[o].version, build |-> op[o].build] \in Content
  BY <1>1, <1>3, ReleaseAssumption DEF WellFormed, Content, Versions
<1>4. ASSUME Upload(o) PROVE TypeOK'
  <2>1. BucketOK'
    <3>1. KeyOf(op[o].at, op[o].inst, op[o].version) \in Key
      BY <1>3, <1>4, Keys DEF Upload
    <3> QED BY <1>3, <1>4, <3>1, PutTypes DEF Upload
  <2>2. ScriptsOK'
    <3>1. AfterUpload[op[o].at] \in ScriptAt[op[o].script]
      BY <1>4 DEF Upload, AfterUpload, ScriptAt, Kinds
    <3>2. NoWork \in Work /\ NoWork.unread \subseteq NoWork.listed
      BY DEF NoWork, Work
    <3>3. Goto(o, AfterUpload[op[o].at]) /\ work' = [work EXCEPT ![o] = NoWork]
      BY <1>1, <1>3, <1>4 DEF Upload
    <3> QED BY <3>1, <3>2, <3>3, GotoTypes
  <2> QED BY <1>4, <2>1, <2>2 DEF Upload
<1>5. ASSUME Activate(o) PROVE TypeOK'
  <2>1. BucketOK'
    BY <1>3, <1>5, Keys, PutTypes DEF Activate, At
  <2>2. ScriptsOK'
    BY <1>5, EndsTypes DEF Activate
  <2> QED BY <1>3, <1>5, <2>1, <2>2 DEF Activate, At
<1> QED BY <1>2, <1>4, <1>5 DEF Publish

LEMMA DeployTypes == ASSUME TypeOK, NEW o \in Operators, Deploy(o) PROVE TypeOK'
<1> USE Types DEF RestOK
<1>1. /\ op[o] \in Script /\ work[o] \in Work /\ WellFormed(op[o], work[o])
      /\ work = [work EXCEPT ![o] = work[o]]
  BY DEF ScriptsOK
<1>2. ASSUME NEW i \in Instances, NEW v \in Versions, BeginDeploy(o, i, v) PROVE TypeOK'
  <2> DEFINE p == [script |-> "deploy", inst |-> i, version |-> v, build |-> None, at |-> "submit"]
  <2>1. p \in Script
    BY ReleaseAssumption DEF Script, Versions
  <2>2. WellFormed(p, work[o])
    BY <1>1, <1>2 DEF WellFormed, BeginDeploy, Idle, ScriptAt
  <2>3. op' = [op EXCEPT ![o] = p] /\ work' = [work EXCEPT ![o] = work[o]]
    BY <1>1, <1>2 DEF BeginDeploy
  <2> HIDE DEF p
  <2>4. ScriptsOK'
    BY <1>1, <2>1, <2>2, <2>3, ScriptMoves
  <2> QED BY <1>2, <2>4 DEF BeginDeploy, BucketOK
<1>3. ASSUME SubmitUpdate(o) PROVE TypeOK'
  <2>1. /\ op[o].inst \in Instances /\ op[o].version \in 0 .. MaxVersion /\ work[o] = NoWork
        /\ op[o].script = "deploy"
    BY <1>1, <1>3, ReleaseAssumption DEF SubmitUpdate, At, WellFormed, Versions
  <2>2. stack' \in [Instances -> Stack]
    BY <1>3, <2>1 DEF SubmitUpdate, Stack
  <2>3. ScriptsOK'
    <3>1. CASE Ends(o)
      BY <3>1, EndsTypes
    <3>2. CASE Goto(o, "wait") /\ UNCHANGED work
      <4>1. "wait" \in ScriptAt[op[o].script]
        BY <2>1 DEF ScriptAt
      <4>2. NoWork \in Work /\ NoWork.unread \subseteq NoWork.listed
        BY DEF NoWork, Work
      <4> QED BY <1>1, <2>1, <3>2, <4>1, <4>2, GotoTypes
    <3> QED BY <1>3, <3>1, <3>2 DEF SubmitUpdate
  <2> QED BY <1>3, <2>2, <2>3 DEF SubmitUpdate, BucketOK
<1>4. ASSUME WaitUpdate(o) PROVE TypeOK'
  BY <1>4, EndsTypes DEF WaitUpdate, BucketOK
<1> QED BY <1>2, <1>3, <1>4 DEF Deploy

LEMMA CloudTypes == ASSUME TypeOK, CloudFormation PROVE TypeOK'
<1> USE Types DEF RestOK
<1>1. stack' \in [Instances -> Stack] /\ UNCHANGED <<bucket, clock, printed, op, work>>
  <2>1. ASSUME NEW i \in Instances, UpdateSucceeds(i)
        PROVE  stack' \in [Instances -> Stack] /\ UNCHANGED <<bucket, clock, printed, op, work>>
    BY <2>1 DEF UpdateSucceeds, Stack
  <2>2. ASSUME NEW i \in Instances, UpdateFails(i)
        PROVE  stack' \in [Instances -> Stack] /\ UNCHANGED <<bucket, clock, printed, op, work>>
    <3>1. CASE stack[i].running = 0
      BY <2>2, <3>1 DEF UpdateFails, Stack
    <3>2. CASE stack[i].running # 0
      BY <2>2, <3>2 DEF UpdateFails, Stack
    <3> QED BY <3>1, <3>2
  <2> QED BY <2>1, <2>2 DEF CloudFormation
<1> QED BY <1>1 DEF BucketOK, ScriptsOK, WellFormed

\* A cleanup reads: its sets stay sets of keys and releases.
LEMMA CleanupMoves ==
  ASSUME TypeOK, NEW o \in Operators, op[o].script = "cleanup",
         NEW at \in ScriptAt["cleanup"], Goto(o, at) \/ (at = op[o].at /\ UNCHANGED op),
         NEW w \in Work, w.unread \subseteq w.listed, work' = [work EXCEPT ![o] = w],
         BucketOK', UNCHANGED <<stack, clock, printed>>
  PROVE  TypeOK'
<1> USE Types DEF RestOK
<1>1. CASE Goto(o, at)
  BY <1>1, GotoTypes
<1>2. CASE at = op[o].at /\ UNCHANGED op
  <2>1. op[o] \in Script /\ op' = [op EXCEPT ![o] = op[o]]
    BY <1>2 DEF ScriptsOK
  <2>2. WellFormed(op[o], w)
    BY DEF ScriptsOK, WellFormed
  <2> QED BY <2>1, <2>2, ScriptMoves
<1> QED BY <1>1, <1>2

LEMMA CleanupTypes == ASSUME TypeOK, NEW o \in Operators, Cleanup(o) PROVE TypeOK'
<1> USE Types DEF RestOK
<1> DEFINE W == work[o]
<1>1. /\ op[o] \in Script /\ W \in Work /\ WellFormed(op[o], W)
      /\ work = [work EXCEPT ![o] = W]
      /\ DOMAIN bucket \subseteq Key /\ \A k \in DOMAIN bucket : Release(bucket[k]) \in Instances \X Versions
  BY DEF ScriptsOK, BucketOK, Content, Release
<1>2. ASSUME UNCHANGED bucket PROVE BucketOK'
  BY <1>2 DEF BucketOK
<1>3. ASSUME NEW i \in Instances, BeginCleanup(o, i) PROVE TypeOK'
  <2> DEFINE p == [Idle EXCEPT !.script = "cleanup", !.inst = i, !.at = "manifests"]
  <2>1. p \in Script /\ p.script = "cleanup" /\ p.inst = i /\ p.at = "manifests"
    BY IdleTypes DEF Script
  <2>2. op' = [op EXCEPT ![o] = p] /\ work' = [work EXCEPT ![o] = W]
    BY <1>1, <1>3 DEF BeginCleanup
  <2> HIDE DEF p
  <2>3. WellFormed(p, W)
    BY <1>1, <2>1 DEF WellFormed, ScriptAt
  <2>4. ScriptsOK'
    BY <1>1, <2>1, <2>2, <2>3, ScriptMoves
  <2> QED BY <1>2, <1>3, <2>4 DEF BeginCleanup
<1>4. ASSUME Ends(o), UNCHANGED <<bucket, stack, clock, printed>> PROVE TypeOK'
  BY <1>2, <1>4, EndsTypes
<1>5. ASSUME ListManifests(o) PROVE TypeOK'
  <2> DEFINE keys == Listing(op[o].inst, "manifest")
             w == [W EXCEPT !.listed = keys, !.unread = Window(op[o].inst, keys)]
  <2>1. keys \subseteq Key /\ Window(op[o].inst, keys) \subseteq keys
    BY <1>1 DEF Listing, Window
  <2>2. work' = [work EXCEPT ![o] = w]
    BY <1>1, <1>5 DEF ListManifests, ScriptsOK
  <2> HIDE DEF keys
  <2>3. w \in Work /\ w.unread \subseteq w.listed
    BY <1>1, <2>1 DEF Work
  <2>4. "active" \in ScriptAt["cleanup"]
    BY DEF ScriptAt
  <2> HIDE DEF w
  <2> QED BY <1>2, <1>5, <2>2, <2>3, <2>4, CleanupMoves DEF ListManifests, At
<1>6. ASSUME NEW kept \in SUBSET (Instances \X Versions), NEW at \in {"stack", "window"},
             op[o].script = "cleanup", Goto(o, at), work' = [work EXCEPT ![o].kept = kept],
             UNCHANGED <<bucket, stack, clock, printed>>
      PROVE  TypeOK'
  <2> DEFINE w == [W EXCEPT !.kept = kept]
  <2>1. w \in Work /\ w.unread = W.unread /\ w.listed = W.listed
    BY <1>1 DEF Work
  <2>2. work' = [work EXCEPT ![o] = w] /\ at \in ScriptAt["cleanup"]
    BY <1>1, <1>6 DEF ScriptAt, ScriptsOK
  <2>3. w.unread \subseteq w.listed
    BY <1>1, <2>1 DEF WellFormed
  <2> HIDE DEF w
  <2> QED BY <1>2, <1>6, <2>1, <2>2, <2>3, CleanupMoves
<1>7. ASSUME ReadActive(o) PROVE TypeOK'
  <2> DEFINE key == ActiveKey(op[o].inst)
  <2>1. CASE Present(key)
    <3>1. {Release(bucket[key])} \in SUBSET (Instances \X Versions)
      BY <1>1, <2>1 DEF Present
    <3> QED BY <1>6, <1>7, <2>1, <3>1 DEF ReadActive, At
  <2>2. CASE ~ Present(key)
    BY <1>4, <1>7, <2>2 DEF ReadActive
  <2> QED BY <2>1, <2>2
<1>8. ASSUME ReadStack(o) PROVE TypeOK'
  <2> DEFINE i == op[o].inst
             kept == W.kept \cup (IF stack[i].params = 0 THEN {} ELSE {<<i, stack[i].params>>})
  <2>1. i \in Instances /\ stack[i].params \in 0 .. MaxVersion
    BY <1>1, <1>8 DEF ReadStack, At, WellFormed, Stack
  <2>2. kept \in SUBSET (Instances \X Versions)
    BY <1>1, <2>1 DEF Work, Versions
  <2>3. work' = [work EXCEPT ![o].kept = kept]
    BY <1>1, <1>8 DEF ReadStack, ScriptsOK
  <2> HIDE DEF kept
  <2> QED BY <1>6, <1>8, <2>2, <2>3 DEF ReadStack, At
<1>9. ASSUME ReadManifest(o) PROVE TypeOK'
  <2>1. PICK key \in W.unread :
          IF Present(key)
          THEN /\ work' = [work EXCEPT ![o].kept = @ \cup {Release(bucket[key])},
                                       ![o].unread = @ \ {key}]
               /\ UNCHANGED op
          ELSE Ends(o)
    BY <1>9 DEF ReadManifest
  <2>2. CASE Present(key)
    <3> DEFINE w == [W EXCEPT !.kept = @ \cup {Release(bucket[key])}, !.unread = @ \ {key}]
    <3>1. Release(bucket[key]) \in Instances \X Versions
      BY <1>1, <2>2 DEF Present
    <3>2. w \in Work /\ w.unread \subseteq W.unread /\ w.listed = W.listed
      BY <1>1, <3>1 DEF Work
    <3>3. work' = [work EXCEPT ![o] = w] /\ op[o].at \in ScriptAt["cleanup"] /\ UNCHANGED op
      BY <1>1, <1>9, <2>1, <2>2 DEF ReadManifest, At, WellFormed, ScriptsOK
    <3>4. w.unread \subseteq w.listed
      BY <1>1, <3>2 DEF WellFormed
    <3> HIDE DEF w
    <3> QED BY <1>2, <1>9, <3>2, <3>3, <3>4, CleanupMoves DEF ReadManifest, At
  <2>3. CASE ~ Present(key)
    BY <1>4, <1>9, <2>1, <2>3 DEF ReadManifest
  <2> QED BY <2>2, <2>3
<1>10. ASSUME NEW gone \in SUBSET Key, NEW at \in {"configs", "delete"},
              op[o].script = "cleanup", Goto(o, at) \/ (at = op[o].at /\ UNCHANGED op),
              work' = [work EXCEPT ![o].gone = gone],
              BucketOK', UNCHANGED <<stack, clock, printed>>
       PROVE  TypeOK'
  <2> DEFINE w == [W EXCEPT !.gone = gone]
  <2>1. w \in Work /\ w.unread = W.unread /\ w.listed = W.listed
    BY <1>1 DEF Work
  <2>2. work' = [work EXCEPT ![o] = w] /\ at \in ScriptAt["cleanup"]
    BY <1>1, <1>10 DEF ScriptAt, ScriptsOK
  <2>3. w.unread \subseteq w.listed
    BY <1>1, <2>1 DEF WellFormed
  <2> HIDE DEF w
  <2> QED BY <1>10, <2>1, <2>2, <2>3, CleanupMoves
<1>11. ASSUME ListArtifacts(o) PROVE TypeOK'
  <2>1. Unkept(o, "artifact") \in SUBSET Key
    BY <1>1 DEF Unkept, Listing
  <2> QED BY <1>2, <1>10, <1>11, <2>1 DEF ListArtifacts, At
<1>12. ASSUME ListConfigs(o) PROVE TypeOK'
  <2> DEFINE gone == W.gone \cup Unkept(o, "config")
                       \cup (W.listed \ Window(op[o].inst, W.listed))
  <2>1. gone \in SUBSET Key
    BY <1>1 DEF Unkept, Listing, Work
  <2>2. work' = [work EXCEPT ![o].gone = gone]
    BY <1>1, <1>12 DEF ListConfigs, ScriptsOK
  <2> HIDE DEF gone
  <2> QED BY <1>2, <1>10, <1>12, <2>1, <2>2 DEF ListConfigs, At
<1>13. ASSUME DeleteKey(o) PROVE TypeOK'
  <2>1. PICK key : /\ bucket' = [k \in DOMAIN bucket \ {key} |-> bucket[k]]
                   /\ work' = [work EXCEPT ![o].gone = @ \ {key}]
    BY <1>13 DEF DeleteKey
  <2>2. BucketOK'
    BY <2>1 DEF BucketOK
  <2>3. W.gone \ {key} \in SUBSET Key /\ work' = [work EXCEPT ![o].gone = W.gone \ {key}]
    BY <1>1, <2>1 DEF Work, ScriptsOK
  <2> QED BY <1>10, <1>13, <2>2, <2>3 DEF DeleteKey, At
<1>14. ASSUME EndCleanup(o) PROVE TypeOK'
  BY <1>4, <1>14 DEF EndCleanup
<1> QED BY <1>3, <1>5, <1>7, <1>8, <1>9, <1>11, <1>12, <1>13, <1>14 DEF Cleanup

LEMMA NextTypes == TypeOK /\ [Next]_vars => TypeOK'
<1> SUFFICES ASSUME TypeOK, [Next]_vars PROVE TypeOK'
  OBVIOUS
<1>1. CASE UNCHANGED vars
  BY <1>1, Types DEF vars, BucketOK, ScriptsOK, RestOK, WellFormed
<1>2. ASSUME NEW o \in Operators, Die(o) PROVE TypeOK'
  BY <1>2, Types, EndsTypes DEF Die, BucketOK, RestOK
<1> QED BY <1>1, <1>2, PublishTypes, DeployTypes, CleanupTypes, CloudTypes DEF Next

LEMMA InitTypes == Init => TypeOK
<1> SUFFICES ASSUME Init PROVE TypeOK
  OBVIOUS
<1>1. BucketOK
  BY DEF Init, BucketOK
<1>2. ScriptsOK
  BY IdleTypes DEF Init, ScriptsOK
<1>3. RestOK
  BY ReleaseAssumption DEF Init, Stack, RestOK
<1> QED BY <1>1, <1>2, <1>3, Types DEF Init

\* Objects, stacks and scripts are well formed, and only a running cleanup holds keys,
\* with any number of scripts at the same time, any of which may die.
THEOREM TypeCorrect == Spec => []TypeOK
BY InitTypes, NextTypes, PTL DEF Spec

------------------------------------------------------------------------------
(* What the invariant is made of.                                          *)

LEMMA ManifestSets ==
  ASSUME NEW i \in Instances
  PROVE  /\ TypeOK => Manifests(i) \in SUBSET ManifestKeys(i)
         /\ TypeOK' => Manifests(i)' \in SUBSET ManifestKeys(i)
         /\ Recent(i) \subseteq Manifests(i)
         /\ Retained(i) = Recent(i) \cup (DOMAIN bucket \cap {ActiveKey(i)})
         /\ Retained(i)' = Recent(i)' \cup (DOMAIN bucket' \cap {ActiveKey(i)})
<1>1. TypeOK => Manifests(i) \in SUBSET ManifestKeys(i)
  BY DEF TypeOK, Manifests, ManifestKeys
<1>2. TypeOK' => Manifests(i)' \in SUBSET ManifestKeys(i)
  BY DEF TypeOK, Manifests, ManifestKeys
<1>3. Recent(i) \subseteq Manifests(i)
  BY DEF Recent, RecentOf
<1>4. Retained(i) = Recent(i) \cup (DOMAIN bucket \cap {ActiveKey(i)})
  BY DEF Retained, Recent, RecentOf, NewerThan
<1>5. Retained(i)' = Recent(i)' \cup (DOMAIN bucket' \cap {ActiveKey(i)})
  BY DEF Retained, Recent, RecentOf, NewerThan, ActiveKey, KeyOf
<1> QED BY <1>1, <1>2, <1>3, <1>4, <1>5

\* What a cleanup lists, when no listing matches another instance.
LEMMA Listings ==
  ASSUME TypeOK, NoDashes, NEW i \in Instances
  PROVE  /\ \A kind \in {"artifact", "config"} :
              Listing(i, kind) = {k \in DOMAIN bucket : k.kind = kind /\ k.inst = i}
         /\ Listing(i, "manifest") = Manifests(i)
         /\ Window(i, Manifests(i)) = Recent(i)
<1>1. Covered(i) = {i}
  BY DEF Covered, NoDashes
<1>2. DOMAIN bucket \subseteq Key
  BY DEF TypeOK
<1>3. \A kind \in {"artifact", "config"} :
        Listing(i, kind) = {k \in DOMAIN bucket : k.kind = kind /\ k.inst = i}
  BY <1>1, Keys DEF Listing
<1>4. \A k \in DOMAIN bucket : k.kind = "manifest" /\ k.inst = i =>
        (k # ActiveKey(i) <=> k.version # 0)
  BY <1>2, Keys DEF ActiveKey
<1>5. Listing(i, "manifest") = Manifests(i)
  BY <1>1, <1>4 DEF Listing, Manifests
<1>6. ASSUME NEW k \in Manifests(i)
      PROVE  {l \in Manifests(i) : Newer(i, l, k)} = NewerThan(Manifests(i), k.version)
  BY <1>6 DEF Newer, NewerThan, Manifests
<1>7. Window(i, Manifests(i)) = Recent(i)
  BY <1>6 DEF Window, Recent, RecentOf
<1> QED BY <1>3, <1>5, <1>7

LEMMA Steady ==
  ASSUME UNCHANGED <<bucket, stack>>, NEW i
  PROVE  /\ Manifests(i)' = Manifests(i) /\ Recent(i)' = Recent(i)
         /\ Retained(i)' = Retained(i) /\ Referenced(i)' = Referenced(i)
         /\ \A kept : Doomed(i, kept)' = Doomed(i, kept)
<1>1. Manifests(i)' = Manifests(i)
  BY DEF Manifests
<1>2. Recent(i)' = Recent(i)
  BY <1>1 DEF Recent
<1>3. Retained(i)' = Retained(i)
  BY <1>1 DEF Retained, ActiveKey, KeyOf
<1>4. Referenced(i)' = Referenced(i)
  BY <1>3 DEF Referenced
<1>5. \A kept : Doomed(i, kept)' = Doomed(i, kept)
  BY <1>1, <1>2 DEF Doomed
<1> QED BY <1>1, <1>2, <1>3, <1>4, <1>5

LEMMA PublishSteady ==
  ASSUME NEW p, UNCHANGED <<bucket, clock>>, PublishInv(p) PROVE PublishInv(p)'
BY DEF PublishInv, Present

LEMMA CleanupSteady ==
  ASSUME NEW p, NEW w, UNCHANGED <<bucket, stack>>, CleanupInv(p, w) PROVE CleanupInv(p, w)'
BY Steady DEF CleanupInv, Present

LEMMA ScriptSteady ==
  ASSUME NEW o \in Operators, UNCHANGED <<bucket, stack, clock, printed>>,
         op'[o] = op[o], work'[o] = work[o], ScriptInv(o)
  PROVE  ScriptInv(o)'
<1>1. PICK p, w : p = op[o] /\ w = work[o]
  OBVIOUS
<1>2. op'[o] = p /\ work'[o] = w
  BY <1>1
<1>3. p.script = "publish" => PublishInv(p)'
  BY <1>1, PublishSteady DEF ScriptInv
<1>4. p.script = "cleanup" => CleanupInv(p, w)'
  BY <1>1, CleanupSteady DEF ScriptInv
<1> QED BY <1>1, <1>2, <1>3, <1>4 DEF ScriptInv

LEMMA IdleInv == ASSUME NEW o, op'[o] = Idle PROVE ScriptInv(o)'
BY DEF ScriptInv, Idle

LEMMA Alone ==
  ASSUME Serial, NEW o \in Operators, op[o] # Idle PROVE \A q \in Operators \ {o} : op[q] = Idle
BY DEF Serial

LEMMA AloneNext ==
  ASSUME Serial', NEW o \in Operators, op'[o] # Idle
  PROVE  \A q \in Operators \ {o} : op'[q] = Idle
BY DEF Serial

\* A script reads, starts or ends: no update loses its script.
LEMMA ReadStep ==
  ASSUME IInv, TypeOK', UNCHANGED <<bucket, stack, clock, printed>>, NEW o \in Operators,
         \A q \in Operators \ {o} : op'[q] = op[q] /\ work'[q] = work[q],
         ScriptInv(o)',
         DeploysFinish /\ At(o, "deploy", "wait") => ~ stack[op[o].inst].updating
  PROVE  IInv'
<1>1. BucketInv' /\ PrintedInv'
  BY DEF IInv, BucketInv, PrintedInv, Present
<1>2. ManifestsWhole'
  BY Steady DEF IInv, ManifestsWhole, Present
<1>3. StackInv'
  <2>1. ASSUME NEW i \in Instances, DeploysFinish, stack[i].updating
        PROVE  \E q \in Operators : At(q, "deploy", "wait")' /\ op'[q].inst = i
    <3>1. PICK q \in Operators : At(q, "deploy", "wait") /\ op[q].inst = i
      BY <2>1 DEF IInv, StackInv
    <3>2. q # o
      BY <2>1, <3>1
    <3> QED BY <3>1, <3>2 DEF At
  <2> QED BY <2>1 DEF IInv, StackInv
<1>4. ASSUME NEW q \in Operators \ {o} PROVE ScriptInv(q)'
  BY ScriptSteady DEF IInv
<1> QED BY <1>1, <1>2, <1>3, <1>4 DEF IInv

LEMMA EndsStep ==
  ASSUME IInv, TypeOK', UNCHANGED <<bucket, stack, clock, printed>>, NEW o \in Operators,
         Ends(o), DeploysFinish /\ At(o, "deploy", "wait") => ~ stack[op[o].inst].updating
  PROVE  IInv'
<1>1. /\ op'[o] = Idle
      /\ \A q \in Operators \ {o} : op'[q] = op[q] /\ work'[q] = work[q]
  BY DEF Ends, IInv, TypeOK
<1> QED BY <1>1, IdleInv, ReadStep

------------------------------------------------------------------------------
(* Publication.                                                            *)

\* A step that leaves the stacks and the waiting scripts alone.
LEMMA StackSteady ==
  ASSUME StackInv, stack' = stack, printed \subseteq printed',
         \A q \in Operators : At(q, "deploy", "wait") => op'[q] = op[q]
  PROVE  StackInv'
<1>1. ASSUME NEW i \in Instances, DeploysFinish, stack[i].updating
      PROVE  \E q \in Operators : At(q, "deploy", "wait")' /\ op'[q].inst = i
  <2>1. PICK q \in Operators : At(q, "deploy", "wait") /\ op[q].inst = i
    BY <1>1 DEF StackInv
  <2>2. op'[q] = op[q]
    BY <2>1
  <2> QED BY <2>1, <2>2 DEF At
<1> QED BY <1>1 DEF StackInv

LEMMA BeginPublishStep ==
  ASSUME IInv, TypeOK', Serial', NEW o \in Operators,
         NEW i \in Instances, NEW v \in Versions, NEW b \in Builds, BeginPublish(o, i, v, b)
  PROVE  IInv'
<1>1. PICK p : p = [script |-> "publish", inst |-> i, version |-> v, build |-> b,
                    at |-> "artifact"]
  OBVIOUS
<1>2. /\ op[o] = Idle /\ v = clock + 1 /\ clock' = v /\ clock \in Nat
      /\ UNCHANGED <<bucket, stack, printed, work>>
      /\ op'[o] = p /\ \A q \in Operators \ {o} : op'[q] = op[q]
  BY <1>1, ReleaseAssumption DEF BeginPublish, IInv, TypeOK
<1>3. op'[o] # Idle
  BY <1>1, <1>2 DEF Idle
<1>4. ASSUME NEW k \in DOMAIN bucket PROVE bucket[k].version <= clock /\ bucket[k].version \in Nat
  BY ReleaseAssumption DEF IInv, BucketInv, TypeOK, Content, Versions
<1>5. BucketInv'
  BY <1>2, <1>4 DEF IInv, BucketInv
<1>6. PrintedInv' /\ ManifestsWhole'
  BY <1>2, Steady DEF IInv, PrintedInv, ManifestsWhole, Present
<1>7. StackInv'
  <2>1. \A q \in Operators : At(q, "deploy", "wait") => op'[q] = op[q]
    BY <1>2 DEF At, Idle
  <2> QED BY <1>2, <2>1, StackSteady DEF IInv
<1>8. ScriptInv(o)'
  <2>1. PublishInv(p)'
    BY <1>1, <1>2, <1>4 DEF PublishInv, UploadedKinds
  <2> QED BY <1>1, <1>2, <2>1 DEF ScriptInv
<1>9. ASSUME NEW q \in Operators PROVE ScriptInv(q)'
  BY <1>3, <1>8, AloneNext, IdleInv
<1> QED BY <1>5, <1>6, <1>7, <1>9 DEF IInv

LEMMA Uploads ==
  ASSUME NEW at \in Kinds
  PROVE  /\ UploadedKinds(AfterUpload[at]) = UploadedKinds(at) \cup {at}
         /\ at \notin UploadedKinds(at)
BY DEF UploadedKinds, AfterUpload, Kinds

\* What a publication is about to write.
LEMMA Publishing ==
  ASSUME IInv, NEW o \in Operators, op[o].script = "publish"
  PROVE  /\ op[o].inst \in Instances /\ op[o].version \in Versions /\ op[o].build \in Builds
         /\ op[o].version \in 0 .. MaxVersion /\ op[o].version # 0
         /\ PublishInv(op[o]) /\ op[o] # Idle
<1>1. TypeOK /\ ScriptInv(o)
  BY DEF IInv
<1>2. /\ op[o].inst \in Instances /\ op[o].version \in Versions /\ op[o].build \in Builds
  BY <1>1 DEF TypeOK
<1>3. op[o].version \in 0 .. MaxVersion /\ op[o].version # 0
  BY <1>2, ReleaseAssumption DEF Versions
<1>4. op[o].script # Idle.script
  BY DEF Idle
<1> QED BY <1>1, <1>2, <1>3, <1>4 DEF ScriptInv

LEMMA UploadStep ==
  ASSUME IInv, TypeOK', Serial, NEW o \in Operators, Upload(o) PROVE IInv'
<1>1. PICK p, key, c :
        /\ p = op[o] /\ key = KeyOf(p.at, p.inst, p.version)
        /\ c = [inst |-> p.inst, version |-> p.version, build |-> p.build]
  OBVIOUS
<1>2. /\ p.at \in Kinds /\ p.script = "publish" /\ Put(key, c)
      /\ UNCHANGED <<stack, clock, printed, work>>
      /\ p.inst \in Instances /\ p.version \in Versions /\ p.version # 0 /\ PublishInv(p)
      /\ op[o] # Idle
  BY <1>1, Publishing DEF Upload
<1>3. /\ key \in Key /\ key.kind = p.at /\ key.inst = p.inst /\ key.version = p.version
      /\ \A k \in DOMAIN bucket : k \in Key
  BY <1>1, <1>2, Keys, Publishing DEF IInv, TypeOK
<1>4. key \notin DOMAIN bucket
  BY <1>2, <1>3, Uploads DEF IInv, BucketInv, PublishInv
<1>5. /\ DOMAIN bucket' = DOMAIN bucket \cup {key} /\ bucket'[key] = c
      /\ \A k \in DOMAIN bucket : bucket'[k] = bucket[k]
      /\ \A k \in DOMAIN bucket : Present(k)'
      /\ \A j \in Instances : Present(ActiveKey(j))' <=> Present(ActiveKey(j))
  <2>1. /\ DOMAIN bucket' = DOMAIN bucket \cup {key} /\ bucket'[key] = c
        /\ \A k \in DOMAIN bucket : bucket'[k] = bucket[k]
    <3>1. Put(key, c)
      BY <1>2
    <3> QED BY <1>4, <3>1, Puts
  <2>2. \A j \in Instances : ActiveKey(j) # key
    BY <1>2, <1>3, Keys
  <2> QED BY <2>1, <2>2 DEF Present, ActiveKey, KeyOf
<1>6. c.inst = p.inst /\ c.version = p.version /\ c.build = p.build
  BY <1>1
<1>7. PICK q : q = [p EXCEPT !.at = AfterUpload[p.at]]
  OBVIOUS
<1>8. /\ op'[o] = q /\ q.at = AfterUpload[p.at] /\ q.script = "publish" /\ q.inst = p.inst
      /\ q.version = p.version /\ q.build = p.build
      /\ \A r \in Operators \ {o} : op'[r] = op[r]
  BY <1>1, <1>2, <1>7 DEF Upload, Goto, IInv, TypeOK, Script
<1>9. BucketInv'
  <2>1. p.version <= clock
    BY <1>2, ReleaseAssumption DEF PublishInv, Versions
  <2> QED BY <1>2, <1>3, <1>5, <1>6, <2>1 DEF IInv, BucketInv
<1>10. PrintedInv'
  <2> SUFFICES ASSUME NEW r \in printed
               PROVE  /\ Present(ActiveKey(r[1]))' /\ r[2] <= bucket'[ActiveKey(r[1])].version
                      /\ Present(KeyOf("artifact", r[1], r[2]))' =>
                           Present(KeyOf("config", r[1], r[2]))'
    BY <1>2 DEF PrintedInv
  <2>1. /\ r[1] \in Instances /\ r[2] \in Versions /\ r[2] \in 0 .. MaxVersion
        /\ Present(ActiveKey(r[1])) /\ r[2] <= bucket[ActiveKey(r[1])].version
        /\ Present(KeyOf("artifact", r[1], r[2])) => Present(KeyOf("config", r[1], r[2]))
    BY ReleaseAssumption DEF IInv, TypeOK, PrintedInv, Versions
  <2>2. r[2] # p.version
    <3>1. PICK k : k = ActiveKey(r[1])
      OBVIOUS
    <3>2. k \in DOMAIN bucket /\ k.version = 0
      BY <2>1, <3>1, Keys DEF Present
    <3>3. bucket[k].version # p.version
      BY <1>2, <3>2 DEF PublishInv
    <3>4. bucket[k].version <= p.version /\ bucket[k].version \in Versions
      BY <1>2, <3>2 DEF PublishInv, IInv, BucketInv, TypeOK, Content
    <3> QED BY <1>2, <2>1, <3>1, <3>3, <3>4, ReleaseAssumption DEF Versions
  <2>3. KeyOf("artifact", r[1], r[2]) # key
    BY <1>3, <2>1, <2>2, Keys DEF Kinds
  <2> QED BY <1>5, <2>1, <2>3 DEF Present
<1>11. StackInv'
  <2>1. \A r \in Operators : At(r, "deploy", "wait") => op'[r] = op[r]
    BY <1>1, <1>2, <1>8 DEF At
  <2> QED BY <1>2, <2>1, StackSteady DEF IInv
<1>12. ManifestsWhole'
  <2> SUFFICES ASSUME NEW i \in Instances, NEW m \in Retained(i)', NEW kind \in {"artifact", "config"}
               PROVE  LET k == KeyOf(kind, bucket'[m].inst, bucket'[m].version)
                      IN  k \in DOMAIN bucket' /\ bucket'[k].build = bucket'[m].build
    BY DEF ManifestsWhole, Present
  <2>1. m \in Recent(i)' \cup (DOMAIN bucket' \cap {ActiveKey(i)})
    BY ManifestSets
  <2>2. m \in DOMAIN bucket'
    BY <2>1, ManifestSets DEF Recent, RecentOf, Manifests
  <2>3. CASE m = key
    <3>1. p.at = "manifest"
      BY <1>3, <2>1, <2>3, Keys DEF Recent, RecentOf, Manifests
    <3>2. kind \in UploadedKinds(p.at)
      BY <3>1 DEF UploadedKinds, Kinds
    <3> QED BY <1>2, <1>5, <1>6, <2>3, <3>2 DEF PublishInv, Present
  <2>4. CASE m # key
    <3>1. m \in DOMAIN bucket /\ bucket'[m] = bucket[m]
      BY <1>5, <2>2, <2>4
    <3>2. m \in Retained(i)
      <4>1. CASE m \in Recent(i)'
        <5>1. Manifests(i)' \in SUBSET ManifestKeys(i) /\ Manifests(i) \in SUBSET Manifests(i)'
          BY <1>5, ManifestSets DEF Manifests
        <5>2. m \in Manifests(i)
          BY <1>5, <3>1, <4>1 DEF Recent, RecentOf, Manifests
        <5>3. m \in RecentOf(Manifests(i)')
          BY <4>1 DEF Recent
        <5> QED BY <5>1, <5>2, <5>3, RecentGrows, ManifestSets DEF Recent
      <4>2. CASE m = ActiveKey(i)
        BY <3>1, <4>2, ManifestSets
      <4> QED BY <2>1, <4>1, <4>2
    <3>3. LET k == KeyOf(kind, bucket[m].inst, bucket[m].version)
          IN  k \in DOMAIN bucket /\ bucket[k].build = bucket[m].build
      BY <3>2 DEF IInv, ManifestsWhole, Present
    <3> QED BY <1>5, <3>1, <3>3
  <2> QED BY <2>3, <2>4
<1>13. ScriptInv(o)'
  <2>1. UploadedKinds(q.at) = UploadedKinds(p.at) \cup {p.at}
    BY <1>2, <1>8, Uploads
  <2>2. ASSUME NEW k \in DOMAIN bucket', bucket'[k].version = q.version
        PROVE  k.inst = q.inst /\ k.version = q.version /\ k.kind \in UploadedKinds(q.at)
    BY <1>2, <1>3, <1>5, <1>8, <2>1, <2>2 DEF PublishInv
  <2>3. ASSUME NEW kind \in UploadedKinds(q.at)
        PROVE  LET k == KeyOf(kind, q.inst, q.version)
               IN  k \in DOMAIN bucket' /\ bucket'[k].build = q.build
    BY <1>1, <1>2, <1>5, <1>6, <1>8, <2>1 DEF PublishInv, Present
  <2>4. PublishInv(q)'
    BY <1>2, <1>8, <2>2, <2>3 DEF PublishInv, Present
  <2> QED BY <1>8, <2>4 DEF ScriptInv
<1>14. ASSUME NEW r \in Operators PROVE ScriptInv(r)'
  BY <1>2, <1>8, <1>13, Alone, IdleInv
<1> QED BY <1>9, <1>10, <1>11, <1>12, <1>14 DEF IInv

LEMMA ActivateStep ==
  ASSUME IInv, TypeOK', Serial, NEW o \in Operators, Activate(o) PROVE IInv'
<1>1. PICK p, key, c :
        /\ p = op[o] /\ key = ActiveKey(p.inst)
        /\ c = [inst |-> p.inst, version |-> p.version, build |-> p.build]
  OBVIOUS
<1>2. /\ p.at = "active" /\ p.script = "publish" /\ Put(key, c)
      /\ printed' = printed \cup {<<p.inst, p.version>>} /\ UNCHANGED <<stack, clock>>
      /\ p.inst \in Instances /\ p.version \in Versions /\ p.version \in 0 .. MaxVersion
      /\ PublishInv(p) /\ op[o] # Idle /\ Ends(o)
  BY <1>1, Publishing DEF Activate, At
<1>3. /\ key \in Key /\ key.kind = "manifest" /\ key.inst = p.inst /\ key.version = 0
      /\ DOMAIN bucket \subseteq Key /\ \A k \in DOMAIN bucket : bucket[k].version \in Versions
  BY <1>1, <1>2, Keys DEF IInv, TypeOK, Content
<1>4. /\ DOMAIN bucket' = DOMAIN bucket \cup {key} /\ bucket'[key] = c
      /\ \A k \in DOMAIN bucket : k # key => bucket'[k] = bucket[k]
  <2>1. Put(key, c)
    BY <1>2
  <2> QED BY <2>1, Puts
<1>5. c.inst = p.inst /\ c.version = p.version /\ c.build = p.build /\ p.version = clock
  BY <1>1, <1>2 DEF PublishInv
<1>6. \A kind \in {"artifact", "config"} :
        LET k == KeyOf(kind, p.inst, p.version)
        IN  k # key /\ k \in DOMAIN bucket' /\ bucket'[k].build = p.build
  <2>1. {"artifact", "config"} \subseteq UploadedKinds("active") /\ {"artifact", "config"} \subseteq Kinds
    BY DEF UploadedKinds, Kinds
  <2>2. ASSUME NEW kind \in {"artifact", "config"}
        PROVE  LET k == KeyOf(kind, p.inst, p.version)
               IN  k # key /\ k \in DOMAIN bucket' /\ bucket'[k].build = p.build
    <3>1. PICK k : k = KeyOf(kind, p.inst, p.version)
      OBVIOUS
    <3>2. k \in DOMAIN bucket /\ bucket[k].build = p.build
      BY <1>2, <2>1, <3>1 DEF PublishInv, Present
    <3>3. k # key
      BY <1>2, <1>3, <2>1, <3>1, Keys
    <3> QED BY <1>4, <3>1, <3>2, <3>3
  <2> QED BY <2>2
<1>7. BucketInv'
  <2>1. ASSUME NEW k \in DOMAIN bucket'
        PROVE  /\ bucket'[k].inst = k.inst /\ bucket'[k].version <= clock
               /\ IF k.version = 0 THEN k.kind = "manifest" ELSE bucket'[k].version = k.version
    <3>1. CASE k = key
      BY <1>2, <1>3, <1>4, <1>5, <3>1, ReleaseAssumption DEF Versions
    <3>2. CASE k # key
      BY <1>4, <3>2 DEF IInv, BucketInv
    <3> QED BY <3>1, <3>2
  <2> QED BY <1>2, <2>1 DEF BucketInv
<1>8. PrintedInv'
  <2>1. ASSUME NEW r \in printed
        PROVE  /\ ActiveKey(r[1]) \in DOMAIN bucket' /\ r[2] <= bucket'[ActiveKey(r[1])].version
               /\ KeyOf("artifact", r[1], r[2]) \in DOMAIN bucket' =>
                    KeyOf("config", r[1], r[2]) \in DOMAIN bucket'
    <3>1. PICK k : k = ActiveKey(r[1])
      OBVIOUS
    <3>2. /\ r[1] \in Instances /\ r[2] \in Versions /\ r[2] \in 0 .. MaxVersion
          /\ k \in DOMAIN bucket /\ r[2] <= bucket[k].version
          /\ KeyOf("artifact", r[1], r[2]) \in DOMAIN bucket =>
               KeyOf("config", r[1], r[2]) \in DOMAIN bucket
      BY <3>1, ReleaseAssumption DEF IInv, TypeOK, PrintedInv, Versions, Present
    <3>3. bucket[k].version <= clock /\ bucket[k].version \in Versions
      BY <1>3, <3>2 DEF IInv, BucketInv
    <3>4. k \in DOMAIN bucket' /\ r[2] <= bucket'[k].version
      <4>1. CASE k = key
        BY <1>2, <1>4, <1>5, <3>2, <3>3, <4>1, ReleaseAssumption DEF Versions
      <4>2. CASE k # key
        BY <1>4, <3>2, <4>2
      <4> QED BY <4>1, <4>2
    <3>5. KeyOf("artifact", r[1], r[2]) # key
      BY <1>3, <3>2, Keys DEF Kinds
    <3> QED BY <1>4, <3>1, <3>2, <3>4, <3>5
  <2>2. /\ ActiveKey(p.inst) \in DOMAIN bucket' /\ p.version <= bucket'[ActiveKey(p.inst)].version
        /\ KeyOf("config", p.inst, p.version) \in DOMAIN bucket'
    BY <1>1, <1>2, <1>4, <1>5, <1>6, ReleaseAssumption DEF Versions
  <2> QED BY <1>2, <2>1, <2>2 DEF PrintedInv, Present
<1>9. StackInv'
  <2>1. \A q \in Operators : At(q, "deploy", "wait") => op'[q] = op[q]
    BY <1>1, <1>2 DEF At, Ends, IInv, TypeOK
  <2> QED BY <1>2, <2>1, StackSteady DEF IInv
<1>10. \A i : Manifests(i)' = Manifests(i) /\ Recent(i)' = Recent(i)
  <2>1. \A i : Manifests(i)' = Manifests(i)
    BY <1>3, <1>4 DEF Manifests
  <2> QED BY <2>1 DEF Recent
<1>11. ManifestsWhole'
  <2> SUFFICES ASSUME NEW i \in Instances, NEW m \in Retained(i)', NEW kind \in {"artifact", "config"}
               PROVE  LET k == KeyOf(kind, bucket'[m].inst, bucket'[m].version)
                      IN  k \in DOMAIN bucket' /\ bucket'[k].build = bucket'[m].build
    BY DEF ManifestsWhole, Present
  <2>1. m \in Recent(i) \cup (DOMAIN bucket' \cap {ActiveKey(i)})
    BY <1>10, ManifestSets
  <2>2. m \in DOMAIN bucket'
    BY <1>4, <2>1, ManifestSets DEF Manifests
  <2>3. CASE m = key
    BY <1>4, <1>5, <1>6, <2>3
  <2>4. CASE m # key
    <3>1. m \in DOMAIN bucket /\ bucket'[m] = bucket[m] /\ m \in Retained(i)
      BY <1>4, <2>1, <2>2, <2>4, ManifestSets
    <3>2. PICK k : k = KeyOf(kind, bucket[m].inst, bucket[m].version)
      OBVIOUS
    <3>3. k \in DOMAIN bucket /\ bucket[k].build = bucket[m].build
      BY <3>1, <3>2 DEF IInv, ManifestsWhole, Present
    <3>4. k.kind = kind
      BY <3>2 DEF KeyOf
    <3> QED BY <1>3, <1>4, <3>1, <3>2, <3>3, <3>4
  <2> QED BY <2>3, <2>4
<1>12. ASSUME NEW q \in Operators PROVE ScriptInv(q)'
  <2>1. op'[q] = Idle
    BY <1>2, Alone DEF Ends, IInv, TypeOK
  <2> QED BY <2>1, IdleInv
<1> QED BY <1>7, <1>8, <1>9, <1>11, <1>12 DEF IInv

------------------------------------------------------------------------------
(* Deployment.                                                             *)

LEMMA BeginDeployStep ==
  ASSUME IInv, TypeOK', NEW o \in Operators, NEW i \in Instances, NEW v \in Versions,
         BeginDeploy(o, i, v)
  PROVE  IInv'
<1>1. /\ op[o] = Idle /\ <<i, v>> \in printed
      /\ UNCHANGED <<bucket, stack, clock, printed, work>>
      /\ op'[o].script = "deploy" /\ op'[o].inst = i /\ op'[o].version = v
      /\ \A q \in Operators \ {o} : op'[q] = op[q] /\ work'[q] = work[q]
  BY DEF BeginDeploy, IInv, TypeOK
<1>2. ScriptInv(o)'
  BY <1>1 DEF ScriptInv
<1>3. ~ At(o, "deploy", "wait")
  BY <1>1 DEF At, Idle
<1> QED BY <1>1, <1>2, <1>3, ReadStep

\* The stacks change: the bucket and what was printed do not.
LEMMA StackStep ==
  ASSUME IInv, TypeOK', StackInv', UNCHANGED <<bucket, clock, printed>>,
         \A q \in Operators : ScriptInv(q)'
  PROVE  IInv'
<1>1. BucketInv' /\ PrintedInv'
  BY DEF IInv, BucketInv, PrintedInv, Present
<1>2. \A i : Manifests(i)' = Manifests(i)
  BY DEF Manifests
<1>3. \A i : Retained(i)' = Retained(i)
  BY <1>2 DEF Retained, ActiveKey, KeyOf
<1>4. ManifestsWhole'
  BY <1>3 DEF IInv, ManifestsWhole, Present
<1> QED BY <1>1, <1>4 DEF IInv

LEMMA SubmitUpdateStep ==
  ASSUME IInv, TypeOK', Serial, NEW o \in Operators, SubmitUpdate(o) PROVE IInv'
<1>1. CASE Ends(o) /\ UNCHANGED stack
  BY <1>1, EndsStep DEF SubmitUpdate, At
<1>2. CASE ~ (Ends(o) /\ UNCHANGED stack)
  <2>1. PICK p : p = op[o]
    OBVIOUS
  <2>2. /\ p.script = "deploy" /\ p.at = "submit" /\ <<p.inst, p.version>> \in printed
        /\ op[o] # Idle
    <3>1. At(o, "deploy", "submit") /\ ScriptInv(o) /\ op[o].script # Idle.script
      BY DEF SubmitUpdate, IInv, At, Idle
    <3> QED BY <2>1, <3>1 DEF At, ScriptInv
  <2>3. /\ stack' = [stack EXCEPT ![p.inst].params = p.version, ![p.inst].updating = TRUE]
        /\ Goto(o, "wait") /\ UNCHANGED <<bucket, clock, printed, work>>
    BY <1>2, <2>1 DEF SubmitUpdate
  <2>4. /\ op'[o].script = "deploy" /\ op'[o].at = "wait" /\ op'[o].inst = p.inst
        /\ op'[o].version = p.version /\ \A q \in Operators \ {o} : op'[q] = op[q]
    BY <2>1, <2>2, <2>3 DEF Goto, IInv, TypeOK, Script
  <2>5. StackInv'
    <3>1. ASSUME NEW i \in Instances
          PROVE  /\ stack'[i].params # 0 => <<i, stack'[i].params>> \in printed
                 /\ stack'[i].running # 0 => <<i, stack'[i].running>> \in printed
                 /\ ~ stack'[i].updating => stack'[i].running \in {0, stack'[i].params}
                 /\ DeploysFinish /\ stack'[i].updating =>
                      \E q \in Operators : At(q, "deploy", "wait")' /\ op'[q].inst = i
      <4>1. stack[i] \in Stack /\ stack \in [Instances -> Stack]
        BY DEF IInv, TypeOK, Stack
      <4>2. CASE i = p.inst
        <5>1. /\ stack'[i].params = p.version /\ stack'[i].updating = TRUE
              /\ stack'[i].running = stack[i].running
          BY <2>3, <4>1, <4>2 DEF Stack
        <5> QED BY <2>2, <2>4, <4>2, <5>1 DEF IInv, StackInv, At
      <4>3. CASE i # p.inst
        <5>1. stack'[i] = stack[i]
          BY <2>3, <4>1, <4>3
        <5>2. ASSUME NEW q \in Operators, At(q, "deploy", "wait") PROVE op'[q] = op[q]
          BY <2>1, <2>2, <2>4, <5>2 DEF At
        <5> QED BY <5>1, <5>2 DEF IInv, StackInv, At
      <4> QED BY <4>2, <4>3
    <3> QED BY <2>3, <3>1 DEF StackInv
  <2>6. ASSUME NEW q \in Operators PROVE ScriptInv(q)'
    <3>1. CASE q = o
      BY <2>2, <2>3, <2>4, <3>1 DEF ScriptInv
    <3>2. CASE q # o
      BY <2>2, <2>4, <3>2, Alone, IdleInv
    <3> QED BY <3>1, <3>2
  <2> QED BY <2>3, <2>5, <2>6, StackStep
<1> QED BY <1>1, <1>2

LEMMA WaitUpdateStep ==
  ASSUME IInv, TypeOK', NEW o \in Operators, WaitUpdate(o) PROVE IInv'
BY EndsStep DEF WaitUpdate

\* CloudFormation ends an update: no cleanup runs then, or deploy.sh may have died.
LEMMA CloudStep ==
  ASSUME IInv, TypeOK', Serial, NEW i \in Instances, UpdateSucceeds(i) \/ UpdateFails(i)
  PROVE  IInv'
<1>1. /\ stack[i] \in Stack /\ stack \in [Instances -> Stack] /\ stack[i].updating
      /\ UNCHANGED <<bucket, clock, printed, op, work>>
  BY DEF IInv, TypeOK, Stack, UpdateSucceeds, UpdateFails
<1>2. PICK v : /\ v # 0 => <<i, v>> \in printed
               /\ stack'[i].params = v /\ stack'[i].running \in {0, v} /\ ~ stack'[i].updating
               /\ \A j \in Instances \ {i} : stack'[j] = stack[j]
  <2>1. CASE UpdateSucceeds(i)
    BY <1>1, <2>1 DEF UpdateSucceeds, IInv, StackInv, Stack
  <2>2. CASE UpdateFails(i)
    BY <1>1, <2>2 DEF UpdateFails, IInv, StackInv, Stack
  <2> QED BY <2>1, <2>2
<1>3. StackInv'
  <2>1. ASSUME NEW j \in Instances
        PROVE  /\ stack'[j].params # 0 => <<j, stack'[j].params>> \in printed
               /\ stack'[j].running # 0 => <<j, stack'[j].running>> \in printed
               /\ ~ stack'[j].updating => stack'[j].running \in {0, stack'[j].params}
               /\ DeploysFinish /\ stack'[j].updating =>
                    \E q \in Operators : At(q, "deploy", "wait") /\ op[q].inst = j
    <3>1. CASE i = j
      BY <1>2, <3>1
    <3>2. CASE i # j
      BY <1>2, <3>2 DEF IInv, StackInv
    <3> QED BY <3>1, <3>2
  <2> QED BY <1>1, <2>1 DEF StackInv, At
<1>4. ASSUME NEW q \in Operators PROVE ScriptInv(q)'
  <2>1. PICK p, w : p = op[q] /\ w = work[q]
    OBVIOUS
  <2>2. p.script = "publish" => PublishInv(p)'
    BY <1>1, <2>1, PublishSteady DEF IInv, ScriptInv
  <2>3. ASSUME p.script = "cleanup" PROVE CleanupInv(p, w)'
    <3>1. CleanupInv(p, w)
      BY <2>1, <2>3 DEF IInv, ScriptInv
    <3>2. ~ DeploysFinish
      <4> SUFFICES ASSUME DeploysFinish PROVE FALSE
        OBVIOUS
      <4>1. PICK r \in Operators : At(r, "deploy", "wait")
        BY <1>1 DEF IInv, StackInv
      <4>2. op[r] # Idle /\ op[q] # Idle
        BY <2>1, <2>3, <4>1 DEF At, Idle
      <4>3. r = q
        BY <4>2 DEF Serial
      <4> QED BY <2>1, <2>3, <4>1, <4>3 DEF At
    <3>3. \A j, kept : /\ Manifests(j)' = Manifests(j) /\ Recent(j)' = Recent(j)
                       /\ Doomed(j, kept)' = Doomed(j, kept)
      <4>1. \A j : Manifests(j)' = Manifests(j)
        BY <1>1 DEF Manifests
      <4>2. \A j : Recent(j)' = Recent(j)
        BY <4>1 DEF Recent
      <4> QED BY <1>1, <4>1, <4>2 DEF Doomed
    <3> QED BY <1>1, <3>1, <3>2, <3>3 DEF CleanupInv, Present, DeploysFinish
  <2> QED BY <1>1, <2>1, <2>2, <2>3 DEF ScriptInv, IInv
<1> QED BY <1>1, <1>3, <1>4, StackStep

------------------------------------------------------------------------------
(* Cleanup: what it reads.                                                 *)

\* A cleanup goes on with what it read.
LEMMA CleanupReads ==
  ASSUME IInv, TypeOK', UNCHANGED <<bucket, stack, clock, printed>>, NEW o \in Operators,
         NEW p, NEW w, op' = [op EXCEPT ![o] = p], work' = [work EXCEPT ![o] = w],
         p.script = "cleanup", CleanupInv(p, w), op[o].script # "deploy"
  PROVE  IInv'
<1>1. /\ op'[o] = p /\ work'[o] = w
      /\ \A q \in Operators \ {o} : op'[q] = op[q] /\ work'[q] = work[q]
  BY DEF IInv, TypeOK
<1>2. CleanupInv(p, w)'
  BY CleanupSteady
<1>3. ScriptInv(o)'
  BY <1>1, <1>2 DEF ScriptInv
<1> QED BY <1>1, <1>3, ReadStep DEF At

\* Where a cleanup is, and what it goes on with.
CleanupAt(o, at, p, w) ==
  /\ p = op[o] /\ w = work[o] /\ p.script = "cleanup" /\ p.at = at
  /\ p \in Script /\ w \in Work /\ p.inst \in Instances /\ CleanupInv(p, w)

LEMMA CleanupKnows ==
  ASSUME IInv, NEW o \in Operators, NEW at, At(o, "cleanup", at)
  PROVE  \E p, w : CleanupAt(o, at, p, w)
<1>1. TypeOK /\ ScriptInv(o)
  BY DEF IInv
<1>2. op[o].inst \in Instances /\ op[o] \in Script /\ work[o] \in Work
  BY <1>1 DEF TypeOK, At
<1> QED BY <1>1, <1>2 DEF ScriptInv, At, CleanupAt

LEMMA BeginCleanupStep ==
  ASSUME IInv, TypeOK', NEW o \in Operators, NEW i \in Instances, BeginCleanup(o, i) PROVE IInv'
<1>1. PICK p : p = [Idle EXCEPT !.script = "cleanup", !.inst = i, !.at = "manifests"]
  OBVIOUS
<1>2. p.script = "cleanup" /\ p.at = "manifests"
  BY <1>1 DEF Idle
<1>3. /\ op' = [op EXCEPT ![o] = p] /\ work' = [work EXCEPT ![o] = work[o]]
      /\ UNCHANGED <<bucket, stack, clock, printed>> /\ op[o].script # "deploy"
  BY <1>1 DEF BeginCleanup, IInv, TypeOK, Idle
<1>4. CleanupInv(p, work[o])
  BY <1>2 DEF CleanupInv
<1> QED BY <1>2, <1>3, <1>4, CleanupReads

LEMMA ListManifestsStep ==
  ASSUME NoDashes, IInv, TypeOK', NEW o \in Operators, ListManifests(o) PROVE IInv'
<1>1. PICK p, w : CleanupAt(o, "manifests", p, w)
  BY CleanupKnows DEF ListManifests
<1>2. PICK q, x : /\ q = [p EXCEPT !.at = "active"]
                  /\ x = [w EXCEPT !.listed = Manifests(p.inst), !.unread = Recent(p.inst)]
  OBVIOUS
<1>3. /\ op' = [op EXCEPT ![o] = q] /\ q.at = "active" /\ q.inst = p.inst
      /\ q.script = "cleanup" /\ op[o].script # "deploy"
  BY <1>1, <1>2 DEF ListManifests, Goto, CleanupAt, Script, IInv, TypeOK
<1>4. x.listed = Manifests(p.inst) /\ x.unread = Recent(p.inst)
  BY <1>1, <1>2 DEF CleanupAt, Work
<1>5. work' = [work EXCEPT ![o] = x]
  BY <1>1, <1>2, Listings DEF ListManifests, CleanupAt, IInv, TypeOK
<1>6. CleanupInv(q, x)
  BY <1>3, <1>4 DEF CleanupInv
<1>7. UNCHANGED <<bucket, stack, clock, printed>>
  BY DEF ListManifests
<1> QED BY <1>3, <1>5, <1>6, <1>7, CleanupReads

LEMMA ReadActiveStep ==
  ASSUME IInv, TypeOK', NEW o \in Operators, ReadActive(o) PROVE IInv'
<1>1. PICK p, w : CleanupAt(o, "active", p, w)
  BY CleanupKnows DEF ReadActive
<1>2. UNCHANGED <<bucket, stack, clock, printed>> /\ ~ At(o, "deploy", "wait")
  BY DEF ReadActive, At
<1>3. CASE Present(ActiveKey(p.inst))
  <2>1. PICK q, x : /\ q = [p EXCEPT !.at = "stack"]
                    /\ x = [w EXCEPT !.kept = {Release(bucket[ActiveKey(p.inst)])}]
    OBVIOUS
  <2>2. Goto(o, "stack") /\ work' = [work EXCEPT ![o] = x]
    BY <1>1, <1>3, <2>1 DEF ReadActive, CleanupAt
  <2>3. /\ op' = [op EXCEPT ![o] = q] /\ q.at = "stack" /\ q.inst = p.inst
        /\ q.script = "cleanup" /\ op[o].script # "deploy"
    BY <1>1, <2>1, <2>2 DEF Goto, CleanupAt, Script, IInv, TypeOK
  <2>4. /\ x.listed = w.listed /\ x.unread = w.unread
        /\ x.kept = {Release(bucket[ActiveKey(p.inst)])}
    BY <1>1, <2>1 DEF CleanupAt, Work
  <2>5. CleanupInv(q, x)
    BY <1>1, <1>3, <2>3, <2>4 DEF CleanupInv, CleanupAt
  <2> QED BY <1>2, <2>2, <2>3, <2>5, CleanupReads
<1>4. CASE ~ Present(ActiveKey(p.inst))
  <2>1. Ends(o)
    BY <1>1, <1>4 DEF ReadActive, CleanupAt
  <2> QED BY <1>2, <2>1, EndsStep
<1> QED BY <1>3, <1>4

\* The active manifest names a referenced release, and so does a recent one.
LEMMA References ==
  ASSUME NEW i \in Instances
  PROVE  /\ Present(ActiveKey(i)) => Release(bucket[ActiveKey(i)]) \in Referenced(i)
         /\ \A m \in Recent(i) : Release(bucket[m]) \in Referenced(i)
         /\ stack[i].params # 0 => <<i, stack[i].params>> \in Referenced(i)
BY ManifestSets DEF Referenced, Present

LEMMA ReadStackStep ==
  ASSUME IInv, TypeOK', NEW o \in Operators, ReadStack(o) PROVE IInv'
<1>1. PICK p, w : CleanupAt(o, "stack", p, w)
  BY CleanupKnows DEF ReadStack
<1>2. PICK q, x :
        /\ q = [p EXCEPT !.at = "window"]
        /\ x = [w EXCEPT !.kept = @ \cup
                  (IF stack[p.inst].params = 0 THEN {} ELSE {<<p.inst, stack[p.inst].params>>})]
  OBVIOUS
<1>3. /\ op' = [op EXCEPT ![o] = q] /\ q.at = "window" /\ q.inst = p.inst
      /\ q.script = "cleanup" /\ op[o].script # "deploy"
  BY <1>1, <1>2 DEF ReadStack, Goto, CleanupAt, Script, IInv, TypeOK
<1>4. work' = [work EXCEPT ![o] = x]
  BY <1>1, <1>2 DEF ReadStack, CleanupAt
<1>5. /\ x.listed = w.listed /\ x.unread = w.unread
      /\ x.kept = w.kept \cup
           (IF stack[p.inst].params = 0 THEN {} ELSE {<<p.inst, stack[p.inst].params>>})
  BY <1>1, <1>2 DEF CleanupAt, Work
<1>6. /\ w.listed = Manifests(p.inst) /\ w.unread = Recent(p.inst)
      /\ w.kept = {Release(bucket[ActiveKey(p.inst)])} /\ Present(ActiveKey(p.inst))
  BY <1>1 DEF CleanupAt, CleanupInv
<1>7. x.kept \subseteq Referenced(p.inst)
  BY <1>1, <1>5, <1>6, References DEF CleanupAt
<1>8. CleanupInv(q, x)
  BY <1>3, <1>5, <1>6, <1>7 DEF CleanupInv
<1>9. UNCHANGED <<bucket, stack, clock, printed>>
  BY DEF ReadStack
<1> QED BY <1>3, <1>4, <1>8, <1>9, CleanupReads

LEMMA ReadManifestStep ==
  ASSUME IInv, TypeOK', NEW o \in Operators, ReadManifest(o) PROVE IInv'
<1>1. PICK p, w : CleanupAt(o, "window", p, w)
  BY CleanupKnows DEF ReadManifest
<1>2. /\ w.unread \subseteq Recent(p.inst) /\ Recent(p.inst) \subseteq DOMAIN bucket
      /\ p.inst \in Instances
  BY <1>1, ManifestSets DEF CleanupAt, CleanupInv, Manifests
<1>3. PICK key \in w.unread :
        /\ work' = [work EXCEPT ![o].kept = @ \cup {Release(bucket[key])},
                                ![o].unread = @ \ {key}]
        /\ UNCHANGED op
  BY <1>1, <1>2 DEF ReadManifest, CleanupAt, Present
<1>4. PICK x : x = [w EXCEPT !.kept = @ \cup {Release(bucket[key])}, !.unread = @ \ {key}]
  OBVIOUS
<1>5. /\ op' = [op EXCEPT ![o] = p] /\ work' = [work EXCEPT ![o] = x]
      /\ op[o].script # "deploy" /\ UNCHANGED <<bucket, stack, clock, printed>>
      /\ p.script = "cleanup" /\ p.at = "window"
  BY <1>1, <1>3, <1>4 DEF ReadManifest, CleanupAt, IInv, TypeOK
<1>6. /\ x.listed = w.listed /\ x.unread = w.unread \ {key}
      /\ x.kept = w.kept \cup {Release(bucket[key])}
  BY <1>1, <1>4 DEF CleanupAt, Work
<1>7. Release(bucket[key]) \in Referenced(p.inst)
  BY <1>2, References
<1>8. CleanupInv(p, x)
  BY <1>1, <1>2, <1>5, <1>6, <1>7 DEF CleanupInv, CleanupAt
<1> QED BY <1>5, <1>8, CleanupReads

\* The keys of one kind that no kept release has are the doomed ones of that kind.
LEMMA UnkeptKeys ==
  ASSUME NoDashes, TypeOK, BucketInv, NEW o \in Operators, NEW at, NEW p, NEW w,
         CleanupAt(o, at, p, w), NEW kind \in {"artifact", "config"}
  PROVE  Unkept(o, kind) = {k \in Doomed(p.inst, w.kept) : k.kind = kind}
<1>1. Listing(p.inst, kind) = {k \in DOMAIN bucket : k.kind = kind /\ k.inst = p.inst}
  BY Listings DEF CleanupAt
<1> QED BY <1>1 DEF CleanupAt, Unkept, Doomed

LEMMA ListArtifactsStep ==
  ASSUME NoDashes, IInv, TypeOK', NEW o \in Operators, ListArtifacts(o) PROVE IInv'
<1>1. PICK p, w : CleanupAt(o, "window", p, w)
  BY CleanupKnows DEF ListArtifacts
<1>2. PICK q, x :
        /\ q = [p EXCEPT !.at = "configs"]
        /\ x = [w EXCEPT !.gone = {k \in Doomed(p.inst, w.kept) : k.kind = "artifact"}]
  OBVIOUS
<1>3. /\ op' = [op EXCEPT ![o] = q] /\ q.at = "configs" /\ q.inst = p.inst
      /\ q.script = "cleanup" /\ op[o].script # "deploy"
  BY <1>1, <1>2 DEF ListArtifacts, Goto, CleanupAt, Script, IInv, TypeOK
<1>4. Unkept(o, "artifact") = {k \in Doomed(p.inst, w.kept) : k.kind = "artifact"}
  BY <1>1, UnkeptKeys DEF IInv
<1>5. work' = [work EXCEPT ![o] = x] /\ w.unread = {}
  BY <1>1, <1>2, <1>4 DEF ListArtifacts, CleanupAt
<1>6. /\ x.listed = w.listed /\ x.unread = w.unread /\ x.kept = w.kept
      /\ x.gone = {k \in Doomed(p.inst, w.kept) : k.kind = "artifact"}
  BY <1>1, <1>2 DEF CleanupAt, Work
<1>7. CleanupInv(q, x)
  BY <1>1, <1>3, <1>5, <1>6 DEF CleanupInv, CleanupAt
<1>8. UNCHANGED <<bucket, stack, clock, printed>>
  BY DEF ListArtifacts
<1> QED BY <1>3, <1>5, <1>7, <1>8, CleanupReads

LEMMA ListConfigsStep ==
  ASSUME NoDashes, IInv, TypeOK', NEW o \in Operators, ListConfigs(o) PROVE IInv'
<1>1. PICK p, w : CleanupAt(o, "configs", p, w)
  BY CleanupKnows DEF ListConfigs
<1>2. PICK q, x : q = [p EXCEPT !.at = "delete"] /\ x = [w EXCEPT !.gone = Doomed(p.inst, w.kept)]
  OBVIOUS
<1>3. /\ op' = [op EXCEPT ![o] = q] /\ q.at = "delete" /\ q.inst = p.inst
      /\ q.script = "cleanup" /\ op[o].script # "deploy"
  BY <1>1, <1>2 DEF ListConfigs, Goto, CleanupAt, Script, IInv, TypeOK
<1>4. Unkept(o, "config") = {k \in Doomed(p.inst, w.kept) : k.kind = "config"}
  BY <1>1, UnkeptKeys DEF IInv
<1>5. /\ w.listed = Manifests(p.inst)
      /\ w.gone = {k \in Doomed(p.inst, w.kept) : k.kind = "artifact"}
      /\ Window(p.inst, Manifests(p.inst)) = Recent(p.inst)
  BY <1>1, Listings DEF CleanupAt, CleanupInv, IInv
<1>6. \A k \in DOMAIN bucket : k.kind \in Kinds
  BY DEF IInv, TypeOK, Key
<1>7. w.gone \cup Unkept(o, "config") \cup (w.listed \ Window(p.inst, w.listed))
        = Doomed(p.inst, w.kept)
  <2>1. {k \in Doomed(p.inst, w.kept) : k.kind = "manifest"} = Manifests(p.inst) \ Recent(p.inst)
    BY DEF Doomed, Manifests
  <2>2. \A k \in Doomed(p.inst, w.kept) : k.kind \in {"artifact", "config", "manifest"}
    BY <1>6 DEF Doomed, Kinds
  <2> QED BY <1>4, <1>5, <2>1, <2>2
<1>8. work' = [work EXCEPT ![o] = x]
  BY <1>1, <1>2, <1>7 DEF ListConfigs, CleanupAt
<1>9. /\ x.listed = w.listed /\ x.unread = w.unread /\ x.kept = w.kept
      /\ x.gone = Doomed(p.inst, w.kept)
  BY <1>1, <1>2 DEF CleanupAt, Work
<1>10. CleanupInv(q, x)
  BY <1>1, <1>3, <1>9 DEF CleanupInv, CleanupAt
<1>11. UNCHANGED <<bucket, stack, clock, printed>>
  BY DEF ListConfigs
<1> QED BY <1>3, <1>8, <1>10, <1>11, CleanupReads

------------------------------------------------------------------------------
(* Cleanup: what it removes.                                               *)

\* A key that a cleanup removes is outside every window and names no active manifest,
\* so the windows stay, and so does what they refer to.
LEMMA RemovalSteady ==
  ASSUME TypeOK, TypeOK', BucketInv, NEW i \in Instances, NEW kept, NEW key \in Doomed(i, kept),
         bucket' = [k \in DOMAIN bucket \ {key} |-> bucket[k]], stack' = stack
  PROVE  /\ key \in DOMAIN bucket /\ DOMAIN bucket' = DOMAIN bucket \ {key}
         /\ \A k \in DOMAIN bucket' : bucket'[k] = bucket[k]
         /\ \A j \in Instances : /\ key # ActiveKey(j) /\ key \notin Retained(j)
                                 /\ Recent(j)' = Recent(j) /\ Retained(j)' = Retained(j)
                                 /\ Referenced(j)' = Referenced(j)
         /\ Doomed(i, kept)' = Doomed(i, kept) \ {key}
<1>1. /\ key \in DOMAIN bucket /\ DOMAIN bucket' = DOMAIN bucket \ {key} /\ key.inst = i
      /\ \A k \in DOMAIN bucket' : bucket'[k] = bucket[k]
      /\ key.kind = "manifest" => key \in Manifests(i) \ Recent(i)
  BY DEF Doomed
<1>2. ASSUME NEW j \in Instances PROVE key # ActiveKey(j) /\ key \notin Recent(j)
  <2>1. key.kind = "manifest" => key.version # 0
    BY <1>1 DEF Manifests
  <2>2. key # ActiveKey(j)
    BY <2>1, Keys
  <2>3. ASSUME key \in Recent(j) PROVE FALSE
    <3>1. key.kind = "manifest" /\ key.inst = j
      BY <2>3, ManifestSets DEF Manifests
    <3> QED BY <1>1, <2>3, <3>1
  <2> QED BY <2>2, <2>3
<1>3. ASSUME NEW j \in Instances PROVE Manifests(j)' = Manifests(j) \ {key}
  BY <1>1 DEF Manifests
<1>4. ASSUME NEW j \in Instances PROVE Recent(j)' = Recent(j)
  <2>1. PICK M, N : M = Manifests(j)' /\ N = Manifests(j)
    OBVIOUS
  <2>2. N \in SUBSET ManifestKeys(j) /\ M \in SUBSET N
    BY <1>3, <2>1, ManifestSets
  <2>3. RecentOf(N) \subseteq M
    <3>1. RecentOf(N) = Recent(j)
      BY <2>1 DEF Recent
    <3> QED BY <1>2, <1>3, <2>1, <3>1, ManifestSets
  <2>4. RecentOf(M) = RecentOf(N)
    BY <2>2, <2>3, RecentStays
  <2> QED BY <2>1, <2>4 DEF Recent
<1>5. ASSUME NEW j \in Instances PROVE Retained(j)' = Retained(j) /\ key \notin Retained(j)
  BY <1>1, <1>2, <1>4, ManifestSets
<1>6. ASSUME NEW j \in Instances PROVE Referenced(j)' = Referenced(j)
  <2>1. \A m \in Retained(j) : m \in DOMAIN bucket'
    BY <1>1, <1>5, ManifestSets DEF Manifests
  <2>2. {Release(bucket[m]) : m \in Retained(j)}' = {Release(bucket[m]) : m \in Retained(j)}
    BY <1>1, <1>5, <2>1
  <2> QED BY <2>2 DEF Referenced
<1>7. Doomed(i, kept)' = Doomed(i, kept) \ {key}
  BY <1>1, <1>3, <1>4 DEF Doomed
<1> QED BY <1>1, <1>2, <1>4, <1>5, <1>6, <1>7

\* Where DeleteKey is, and the key it removes.
LEMMA Deleting ==
  ASSUME IInv, NEW o \in Operators, DeleteKey(o)
  PROVE  \E p, w, key :
           /\ CleanupAt(o, "delete", p, w) /\ key \in NextToDelete(Doomed(p.inst, w.kept))
           /\ key \in Doomed(p.inst, w.kept) /\ w.gone = Doomed(p.inst, w.kept)
           /\ bucket' = [k \in DOMAIN bucket \ {key} |-> bucket[k]]
           /\ work' = [work EXCEPT ![o].gone = @ \ {key}]
           /\ UNCHANGED <<stack, clock, printed, op>>
<1>1. PICK p, w : CleanupAt(o, "delete", p, w)
  BY CleanupKnows DEF DeleteKey
<1>2. w.gone = Doomed(p.inst, w.kept)
  BY <1>1 DEF CleanupAt, CleanupInv
<1> QED BY <1>1, <1>2 DEF DeleteKey, CleanupAt, NextToDelete

LEMMA DeleteKeyStep ==
  ASSUME IInv, TypeOK', Serial, NEW o \in Operators, DeleteKey(o) PROVE IInv'
<1>1. PICK p, w, key :
        /\ CleanupAt(o, "delete", p, w) /\ key \in NextToDelete(Doomed(p.inst, w.kept))
        /\ key \in Doomed(p.inst, w.kept) /\ w.gone = Doomed(p.inst, w.kept)
        /\ bucket' = [k \in DOMAIN bucket \ {key} |-> bucket[k]]
        /\ work' = [work EXCEPT ![o].gone = @ \ {key}]
        /\ UNCHANGED <<stack, clock, printed, op>>
  BY Deleting
<1>2. p.inst \in Instances /\ TypeOK /\ BucketInv /\ DOMAIN bucket \subseteq Key
  BY <1>1 DEF CleanupAt, IInv, TypeOK
<1>3. /\ key \in DOMAIN bucket /\ DOMAIN bucket' = DOMAIN bucket \ {key}
      /\ \A k \in DOMAIN bucket' : bucket'[k] = bucket[k]
      /\ \A j \in Instances : /\ key # ActiveKey(j) /\ key \notin Retained(j)
                              /\ Recent(j)' = Recent(j) /\ Retained(j)' = Retained(j)
                              /\ Referenced(j)' = Referenced(j)
      /\ Doomed(p.inst, w.kept)' = Doomed(p.inst, w.kept) \ {key}
  BY <1>1, <1>2, RemovalSteady
<1>4. /\ key.inst = p.inst
      /\ key.kind # "manifest" => Release(key) \notin w.kept
  BY <1>1 DEF Doomed
<1>5. BucketInv'
  BY <1>1, <1>2, <1>3 DEF BucketInv
<1>6. PrintedInv'
  <2> SUFFICES ASSUME NEW r \in printed
               PROVE  /\ ActiveKey(r[1]) \in DOMAIN bucket'
                      /\ r[2] <= bucket'[ActiveKey(r[1])].version
                      /\ KeyOf("artifact", r[1], r[2]) \in DOMAIN bucket' =>
                           KeyOf("config", r[1], r[2]) \in DOMAIN bucket'
    BY <1>1 DEF PrintedInv, Present
  <2>1. /\ r[1] \in Instances /\ r[2] \in 0 .. MaxVersion
        /\ ActiveKey(r[1]) \in DOMAIN bucket /\ r[2] <= bucket[ActiveKey(r[1])].version
        /\ KeyOf("artifact", r[1], r[2]) \in DOMAIN bucket =>
             KeyOf("config", r[1], r[2]) \in DOMAIN bucket
    BY ReleaseAssumption DEF IInv, TypeOK, PrintedInv, Versions, Present
  <2>2. ActiveKey(r[1]) \in DOMAIN bucket' /\ r[2] <= bucket'[ActiveKey(r[1])].version
    BY <1>3, <2>1
  <2>3. ASSUME KeyOf("artifact", r[1], r[2]) \in DOMAIN bucket', KeyOf("config", r[1], r[2]) = key
        PROVE  FALSE
    <3>1. PICK k : k = KeyOf("artifact", r[1], r[2])
      OBVIOUS
    <3>2. /\ k.kind = "artifact" /\ k.inst = r[1] /\ k.version = r[2]
          /\ key.kind = "config" /\ key.inst = r[1] /\ key.version = r[2]
      BY <2>1, <2>3, <3>1 DEF KeyOf
    <3>3. Release(k) = Release(key) /\ k \in DOMAIN bucket
      BY <1>3, <2>3, <3>1, <3>2 DEF Release
    <3>4. k \in Doomed(p.inst, w.kept)
      BY <1>4, <3>2, <3>3 DEF Doomed
    <3>5. Rank[key.kind] <= Rank[k.kind]
      BY <1>1, <3>4 DEF NextToDelete
    <3> QED BY <3>2, <3>5 DEF Rank
  <2> QED BY <1>3, <2>1, <2>2, <2>3
<1>7. StackInv'
  BY <1>1, StackSteady DEF IInv
<1>8. ManifestsWhole'
  <2> SUFFICES ASSUME NEW j \in Instances, NEW m \in Retained(j)',
                      NEW kind \in {"artifact", "config"}
               PROVE  LET k == KeyOf(kind, bucket'[m].inst, bucket'[m].version)
                      IN  k \in DOMAIN bucket' /\ bucket'[k].build = bucket'[m].build
    BY DEF ManifestsWhole, Present
  <2>1. m \in Retained(j) /\ m \in DOMAIN bucket /\ m # key /\ m.inst = j
    BY <1>3, ManifestSets, Keys DEF Manifests
  <2>2. bucket'[m] = bucket[m] /\ bucket[m].inst = j
    BY <1>2, <1>3, <2>1 DEF BucketInv
  <2>3. PICK k : k = KeyOf(kind, bucket[m].inst, bucket[m].version)
    OBVIOUS
  <2>4. k \in DOMAIN bucket /\ bucket[k].build = bucket[m].build
    BY <2>1, <2>3 DEF IInv, ManifestsWhole, Present
  <2>5. ASSUME k = key PROVE FALSE
    <3>1. /\ k.kind = kind /\ k.inst = bucket[m].inst /\ k.version = bucket[m].version
      BY <2>3 DEF KeyOf
    <3>2. Release(key) = Release(bucket[m])
      BY <2>5, <3>1 DEF Release
    <3>3. j = p.inst
      BY <1>4, <2>2, <2>5, <3>1
    <3>4. m \in Recent(p.inst) \/ m = ActiveKey(p.inst)
      BY <2>1, <3>3, ManifestSets
    <3>5. Release(bucket[m]) \in w.kept
      BY <1>1, <3>4 DEF CleanupAt, CleanupInv
    <3> QED BY <1>4, <2>5, <3>1, <3>2, <3>5
  <2> QED BY <1>3, <2>2, <2>3, <2>4, <2>5
<1>9. ScriptInv(o)'
  <2>1. PICK x : x = [w EXCEPT !.gone = @ \ {key}]
    OBVIOUS
  <2>2. /\ x.listed = w.listed /\ x.unread = w.unread /\ x.kept = w.kept
        /\ x.gone = w.gone \ {key} /\ op'[o] = p /\ work'[o] = x
    BY <1>1, <2>1 DEF CleanupAt, Work, IInv, TypeOK
  <2>3. /\ ActiveKey(p.inst) \in DOMAIN bucket' => 
             bucket'[ActiveKey(p.inst)] = bucket[ActiveKey(p.inst)]
        /\ ActiveKey(p.inst) \in DOMAIN bucket => ActiveKey(p.inst) \in DOMAIN bucket'
        /\ \A m \in Recent(p.inst) : bucket'[m] = bucket[m]
    BY <1>2, <1>3, ManifestSets DEF Manifests
  <2>4. CleanupInv(p, x)'
    BY <1>1, <1>2, <1>3, <2>2, <2>3 DEF CleanupAt, CleanupInv, Present
  <2> QED BY <1>1, <2>2, <2>4 DEF ScriptInv, CleanupAt
<1>10. ASSUME NEW q \in Operators PROVE ScriptInv(q)'
  <2>1. op[o] # Idle
    BY <1>1 DEF CleanupAt, Idle
  <2> QED BY <1>1, <1>9, <2>1, Alone, IdleInv
<1> QED BY <1>5, <1>6, <1>7, <1>8, <1>10 DEF IInv

LEMMA EndCleanupStep ==
  ASSUME IInv, TypeOK', NEW o \in Operators, EndCleanup(o) PROVE IInv'
BY EndsStep DEF EndCleanup, At

LEMMA DieStep ==
  ASSUME IInv, TypeOK', NEW o \in Operators, Die(o) PROVE IInv'
BY EndsStep DEF Die, At, DeploysFinish

------------------------------------------------------------------------------
(* The invariant holds.                                                    *)

LEMMA InitInv == Init => IInv
<1> SUFFICES ASSUME Init PROVE IInv
  OBVIOUS
<1>1. TypeOK
  BY InitTypes
<1>2. DOMAIN bucket = {} /\ printed = {}
  BY DEF Init
<1>3. BucketInv /\ PrintedInv
  BY <1>2 DEF BucketInv, PrintedInv
<1>4. StackInv
  BY DEF Init, StackInv
<1>5. ManifestsWhole
  BY <1>2, ManifestSets DEF ManifestsWhole, Manifests
<1>6. \A o \in Operators : ScriptInv(o)
  BY DEF Init, ScriptInv, Idle
<1> QED BY <1>1, <1>3, <1>4, <1>5, <1>6 DEF IInv

LEMMA StutterStep == ASSUME IInv, TypeOK', UNCHANGED vars PROVE IInv'
<1>1. UNCHANGED <<bucket, stack, clock, printed, op, work>>
  BY DEF vars
<1>2. BucketInv' /\ PrintedInv' /\ StackInv'
  BY <1>1 DEF IInv, BucketInv, PrintedInv, StackInv, Present, At
<1>3. \A o \in Operators : ScriptInv(o)'
  BY <1>1, ScriptSteady DEF IInv
<1>4. ManifestsWhole'
  BY <1>1, Steady DEF IInv, ManifestsWhole, Present
<1> QED BY <1>2, <1>3, <1>4 DEF IInv

LEMMA NextInv ==
  ASSUME NoDashes PROVE IInv /\ Serial /\ Serial' /\ [Next]_vars => IInv'
<1> SUFFICES ASSUME IInv, Serial, Serial', [Next]_vars PROVE IInv'
  OBVIOUS
<1>1. TypeOK'
  BY NextTypes DEF IInv
<1>2. ASSUME NEW o \in Operators, Publish(o) PROVE IInv'
  BY <1>1, <1>2, BeginPublishStep, UploadStep, ActivateStep DEF Publish
<1>3. ASSUME NEW o \in Operators, Deploy(o) PROVE IInv'
  BY <1>1, <1>3, BeginDeployStep, SubmitUpdateStep, WaitUpdateStep DEF Deploy
<1>4. ASSUME NEW o \in Operators, Cleanup(o) PROVE IInv'
  BY <1>1, <1>4, BeginCleanupStep, ListManifestsStep, ReadActiveStep, ReadStackStep,
     ReadManifestStep, ListArtifactsStep, ListConfigsStep, DeleteKeyStep, EndCleanupStep
  DEF Cleanup
<1>5. ASSUME CloudFormation PROVE IInv'
  BY <1>1, <1>5, CloudStep DEF CloudFormation
<1> QED BY <1>1, <1>2, <1>3, <1>4, <1>5, DieStep, StutterStep DEF Next

LEMMA Invariance == ASSUME NoDashes PROVE Spec /\ []Serial => []IInv
<1>1. IInv /\ Serial /\ Serial' /\ [Next]_vars => IInv'
  BY NextInv
<1> QED BY <1>1, InitInv, PTL DEF Spec

\* When scripts do not overlap and no listing matches another instance, what the active
\* manifest and every manifest of the window names is there, with its checksum, at every
\* moment: wherever publish.sh, deploy.sh and the cleanup die.
THEOREM ManifestsStayWhole ==
  ASSUME NoDashes PROVE Spec /\ []Serial => []ManifestsWhole
<1>1. IInv => ManifestsWhole
  BY DEF IInv
<1> QED BY <1>1, Invariance, PTL

\* One operator runs one script at a time.
LEMMA OneOperator ==
  ASSUME \A o, p \in Operators : o = p PROVE Spec => []Serial
<1>1. Serial
  BY DEF Serial
<1> QED BY <1>1, PTL

------------------------------------------------------------------------------
(* What a cleanup removes is what nothing refers to, when deploy.sh waits  *)
(* for its update.                                                         *)

LEMMA KeptIsReferenced ==
  ASSUME IInv, DeploysFinish, NEW o \in Operators, NEW p, NEW w, CleanupAt(o, "delete", p, w)
  PROVE  w.kept = Referenced(p.inst)
<1>1. /\ Release(bucket[ActiveKey(p.inst)]) \in w.kept
      /\ \A m \in Recent(p.inst) : Release(bucket[m]) \in w.kept
      /\ stack[p.inst].params # 0 => <<p.inst, stack[p.inst].params>> \in w.kept
      /\ w.kept \subseteq Referenced(p.inst)
  BY DEF CleanupAt, CleanupInv
<1>2. Retained(p.inst) = Recent(p.inst) \cup (DOMAIN bucket \cap {ActiveKey(p.inst)})
  BY ManifestSets DEF CleanupAt
<1>3. Referenced(p.inst) \subseteq w.kept
  BY <1>1, <1>2 DEF Referenced
<1> QED BY <1>1, <1>3

LEMMA DoomedIsRemovable ==
  ASSUME IInv, DeploysFinish, NEW o \in Operators, NEW p, NEW w, CleanupAt(o, "delete", p, w),
         NEW k \in DOMAIN bucket, k.inst = p.inst
  PROVE  k \in Doomed(p.inst, w.kept) <=> Removable(k)
<1>1. k \in Key /\ p.inst \in Instances
  BY DEF IInv, TypeOK, CleanupAt
<1>2. CASE k.kind = "manifest"
  <2>1. k \in Manifests(p.inst) <=> k # ActiveKey(p.inst)
    BY <1>1, <1>2, Keys DEF Manifests, ActiveKey
  <2>2. k \in Doomed(p.inst, w.kept) <=> k \in Manifests(p.inst) \ Recent(p.inst)
    BY <1>2 DEF Doomed
  <2>3. k \in Retained(p.inst) <=> k \in Recent(p.inst) \/ k = ActiveKey(p.inst)
    BY <1>1, ManifestSets
  <2>4. Recent(p.inst) \subseteq Manifests(p.inst)
    BY <1>1, ManifestSets
  <2> QED BY <1>2, <2>1, <2>2, <2>3, <2>4 DEF Removable
<1>3. CASE k.kind # "manifest"
  BY <1>3, KeptIsReferenced DEF Doomed, Removable, Release
<1> QED BY <1>2, <1>3

\* Only a cleanup removes keys.
LEMMA OnlyCleanupRemoves ==
  ASSUME TypeOK, [Next]_vars, NEW k \in DOMAIN bucket, k \notin DOMAIN bucket'
  PROVE  \E o \in Operators : DeleteKey(o)
<1>1. ASSUME NEW key, NEW c, Put(key, c) PROVE FALSE
  BY <1>1, Puts
<1>2. ASSUME NEW o \in Operators, Publish(o) PROVE FALSE
  <2>1. ASSUME NEW i \in Instances, NEW v \in Versions, NEW b \in Builds, BeginPublish(o, i, v, b)
        PROVE  FALSE
    BY <2>1 DEF BeginPublish
  <2> QED BY <1>1, <1>2, <2>1 DEF Publish, Upload, Activate
<1>3. ASSUME NEW o \in Operators, Deploy(o) \/ Die(o) PROVE FALSE
  BY <1>3 DEF Deploy, BeginDeploy, SubmitUpdate, WaitUpdate, Die
<1>4. ASSUME NEW o \in Operators, Cleanup(o), ~ DeleteKey(o) PROVE FALSE
  BY <1>4 DEF Cleanup, BeginCleanup, ListManifests, ReadActive, ReadStack, ReadManifest,
              ListArtifacts, ListConfigs, EndCleanup
<1>5. ASSUME CloudFormation PROVE FALSE
  BY <1>5 DEF CloudFormation, UpdateSucceeds, UpdateFails
<1>6. ASSUME UNCHANGED vars PROVE FALSE
  BY <1>6 DEF vars
<1> QED BY <1>2, <1>3, <1>4, <1>5, <1>6 DEF Next

\* A cleanup removes no key that the active manifest, the window or the parameters of the
\* Runtime's stack refer to when it removes it, and README.md's sentence holds; in
\* particular the releases in use stay: the hypotheses are what the run Release_prefix
\* is without.
THEOREM OnlyUnreferencedGo ==
  ASSUME NoDashes, DeploysFinish
  PROVE  Spec /\ []Serial => DeletesUnreferenced /\ ReleasesInUseStay
<1>1. ASSUME IInv, [Next]_vars, NEW k \in DOMAIN bucket \ DOMAIN bucket' PROVE Removable(k)
  <2>1. PICK o \in Operators : DeleteKey(o)
    BY <1>1, OnlyCleanupRemoves DEF IInv
  <2>2. PICK p, w, key :
          /\ CleanupAt(o, "delete", p, w) /\ key \in Doomed(p.inst, w.kept)
          /\ bucket' = [l \in DOMAIN bucket \ {key} |-> bucket[l]]
    BY <1>1, <2>1, Deleting
  <2>3. k = key /\ k \in DOMAIN bucket /\ k.inst = p.inst
    BY <1>1, <2>2 DEF Doomed
  <2> QED BY <1>1, <2>2, <2>3, DoomedIsRemovable
<1>2. IInv /\ [Next]_vars => [\A k \in DOMAIN bucket \ DOMAIN bucket' : Removable(k)]_vars
  BY <1>1
<1>3. ASSUME NEW k \in DOMAIN bucket, k.kind # "manifest", Removable(k)
      PROVE  <<k.inst, k.version>> \notin InUse(k.inst)
  BY <1>3 DEF Removable, Referenced, Retained, InUse
<1>4. IInv /\ [Next]_vars =>
        [\A k \in DOMAIN bucket \ DOMAIN bucket' :
           k.kind # "manifest" => <<k.inst, k.version>> \notin InUse(k.inst)]_vars
  BY <1>1, <1>3
<1> QED BY <1>2, <1>4, Invariance, PTL DEF DeletesUnreferenced, ReleasesInUseStay, Spec

\* A cleanup that runs to its end leaves of its instance only what is referenced.
THEOREM CleanupsFinishTheJob ==
  ASSUME NoDashes, DeploysFinish PROVE Spec /\ []Serial => CleanupLeavesReferenced
<1>1. ASSUME IInv, NEW o \in Operators, At(o, "cleanup", "delete"), work[o].gone = {},
             NEW k \in DOMAIN bucket, k.inst = op[o].inst
      PROVE  ~ Removable(k)
  <2>1. PICK p, w : CleanupAt(o, "delete", p, w)
    BY <1>1, CleanupKnows
  <2>2. Doomed(p.inst, w.kept) = {} /\ k.inst = p.inst
    BY <1>1, <2>1 DEF CleanupAt, CleanupInv
  <2> QED BY <1>1, <2>1, <2>2, DoomedIsRemovable
<1>2. IInv => \A o \in Operators :
        At(o, "cleanup", "delete") /\ work[o].gone = {} /\ op'[o] = Idle =>
          \A k \in DOMAIN bucket : k.inst = op[o].inst => ~ Removable(k)
  BY <1>1
<1> QED BY <1>2, Invariance, PTL DEF CleanupLeavesReferenced

------------------------------------------------------------------------------
(* The release that runs can be fetched.                                   *)

\* No update is in progress during a cleanup.
LEMMA NoUpdateBeside ==
  ASSUME IInv, Serial, DeploysFinish, NEW o \in Operators, NEW at, NEW p, NEW w,
         CleanupAt(o, at, p, w)
  PROVE  \A i \in Instances : stack[i].running \in {0, stack[i].params}
<1> SUFFICES ASSUME NEW i \in Instances, stack[i].updating PROVE FALSE
  BY DEF IInv, StackInv
<1>1. PICK r \in Operators : At(r, "deploy", "wait")
  BY DEF IInv, StackInv
<1>2. op[r].script # Idle.script /\ op[o].script # Idle.script
  BY <1>1 DEF At, Idle, CleanupAt
<1>3. r = o
  BY <1>2 DEF Serial
<1> QED BY <1>1, <1>3 DEF At, CleanupAt

\* The artifact and the configuration that an update finds: it looks at the first only.
LEMMA UpdateFinds ==
  ASSUME IInv, NEW i \in Instances, UpdateSucceeds(i)
  PROVE  /\ stack[i].params \in Versions
         /\ \A kind \in {"artifact", "config"} : Present(KeyOf(kind, i, stack[i].params))
<1>1. PICK k : k = KeyOf("artifact", i, stack[i].params)
  OBVIOUS
<1>2. k \in DOMAIN bucket /\ k.kind = "artifact" /\ k.version = stack[i].params
  BY <1>1 DEF UpdateSucceeds, Present, KeyOf
<1>3. stack[i].params # 0 /\ stack[i].params \in 0 .. MaxVersion
  BY <1>2 DEF IInv, BucketInv, TypeOK
<1>4. <<i, stack[i].params>> \in printed
  BY <1>3 DEF IInv, StackInv
<1>5. Present(KeyOf("config", i, stack[i].params))
  BY <1>1, <1>2, <1>4 DEF IInv, PrintedInv, Present
<1> QED BY <1>1, <1>2, <1>3, <1>5, ReleaseAssumption DEF Versions, Present

LEMMA ServedStep ==
  ASSUME IInv, Serial, DeploysFinish, RuntimeServed, [Next]_vars
  PROVE  RuntimeServed'
<1>1. ASSUME \A i \in Instances : stack'[i].running = stack[i].running,
             DOMAIN bucket \subseteq DOMAIN bucket'
      PROVE  RuntimeServed'
  BY <1>1 DEF RuntimeServed, Present
<1>2. ASSUME NEW i \in Instances, UpdateSucceeds(i) PROVE RuntimeServed'
  <2>1. /\ stack'[i].running = stack[i].params /\ bucket' = bucket
        /\ \A j \in Instances \ {i} : stack'[j] = stack[j]
    BY <1>2 DEF UpdateSucceeds, IInv, TypeOK
  <2> QED BY <1>2, <2>1, UpdateFinds DEF RuntimeServed, Present
<1>3. ASSUME NEW o \in Operators, DeleteKey(o) PROVE RuntimeServed'
  <2>1. PICK p, w, key :
          /\ CleanupAt(o, "delete", p, w) /\ key \in Doomed(p.inst, w.kept)
          /\ bucket' = [k \in DOMAIN bucket \ {key} |-> bucket[k]] /\ stack' = stack
    BY <1>3, Deleting
  <2> SUFFICES ASSUME NEW i \in Instances, stack[i].running # 0, NEW kind \in {"artifact", "config"}
               PROVE  KeyOf(kind, i, stack[i].running) # key
    BY <2>1 DEF RuntimeServed, Present
  <2>2. stack[p.inst].running # 0 => <<p.inst, stack[p.inst].running>> \in w.kept
    BY <2>1, NoUpdateBeside DEF CleanupAt, CleanupInv
  <2> QED BY <2>1, <2>2 DEF KeyOf, Doomed, Release
<1>4. ASSUME ~ \E o \in Operators : DeleteKey(o) PROVE DOMAIN bucket \subseteq DOMAIN bucket'
  BY <1>4, OnlyCleanupRemoves DEF IInv
<1>5. ASSUME ~ \E i \in Instances : UpdateSucceeds(i)
      PROVE  \A i \in Instances : stack'[i].running = stack[i].running
  <2>1. \A i \in Instances : stack[i] \in Stack
    BY DEF IInv, TypeOK, Stack
  <2>2. ASSUME NEW o \in Operators, SubmitUpdate(o)
        PROVE  \A i \in Instances : stack'[i].running = stack[i].running
    BY <2>1, <2>2 DEF SubmitUpdate, IInv, TypeOK, Stack
  <2>3. ASSUME NEW j \in Instances, UpdateFails(j)
        PROVE  \A i \in Instances : stack'[i].running = stack[i].running
    BY <2>1, <2>3 DEF UpdateFails, IInv, TypeOK, Stack
  <2>4. ASSUME NEW o \in Operators, Publish(o) PROVE stack' = stack
    BY <2>4 DEF Publish, BeginPublish, Upload, Activate
  <2>5. ASSUME NEW o \in Operators, WaitUpdate(o) PROVE stack' = stack
    BY <2>5 DEF WaitUpdate
  <2>6. ASSUME NEW o \in Operators, NEW j \in Instances, NEW v \in Versions, BeginDeploy(o, j, v)
        PROVE  stack' = stack
    BY <2>6 DEF BeginDeploy
  <2>7. ASSUME NEW o \in Operators, Cleanup(o) \/ Die(o) PROVE stack' = stack
    BY <2>7 DEF Cleanup, BeginCleanup, ListManifests, ReadActive, ReadStack, ReadManifest,
                ListArtifacts, ListConfigs, DeleteKey, EndCleanup, Die
  <2>8. ASSUME UNCHANGED vars PROVE stack' = stack
    BY <2>8 DEF vars
  <2> QED BY <1>5, <2>2, <2>3, <2>4, <2>5, <2>6, <2>7, <2>8 DEF Next, Deploy, CloudFormation
<1> QED BY <1>1, <1>2, <1>3, <1>4, <1>5

\* The release that a Runtime runs stays in the bucket, whatever fails, when deploy.sh
\* waits for its update: without that, the run Release_rollback shows it removed.
THEOREM RunningReleaseStays ==
  ASSUME NoDashes, DeploysFinish PROVE Spec /\ []Serial => []RuntimeServed
<1>1. Init => RuntimeServed
  BY DEF Init, RuntimeServed
<1>2. IInv /\ Serial /\ RuntimeServed /\ [Next]_vars => RuntimeServed'
  BY ServedStep
<1> QED BY <1>1, <1>2, Invariance, PTL DEF Spec

------------------------------------------------------------------------------
(* The scripts keep the promises of ReleaseRegistry.                       *)

\* What the registry's variables stand for.
Available ==
  {r \in Instances \X Versions :
     \A kind \in {"artifact", "config"} : Present(KeyOf(kind, r[1], r[2]))}
Catalog == [i \in Instances |-> {k.version : k \in Manifests(i)}]
Active ==
  [i \in Instances |-> IF Present(ActiveKey(i)) THEN bucket[ActiveKey(i)].version ELSE 0]
Runtime == [i \in Instances |-> [wanted |-> stack[i].params, running |-> stack[i].running]]

LEMMA InCatalog ==
  ASSUME TypeOK, NEW i \in Instances, NEW v \in Versions
  PROVE  v \in Catalog[i] <=> KeyOf("manifest", i, v) \in DOMAIN bucket
<1>1. /\ v \in 0 .. MaxVersion /\ v # 0 /\ "manifest" \in Kinds /\ DOMAIN bucket \subseteq Key
      /\ Catalog[i] = {k.version : k \in Manifests(i)}
  BY ReleaseAssumption DEF Versions, Kinds, Catalog, TypeOK
<1>2. PICK m : m = KeyOf("manifest", i, v)
  OBVIOUS
<1>3. m.kind = "manifest" /\ m.inst = i /\ m.version = v
  BY <1>2 DEF KeyOf
<1>4. m \in DOMAIN bucket => v \in Catalog[i]
  BY <1>1, <1>3 DEF Manifests
<1>5. ASSUME v \in Catalog[i] PROVE m \in DOMAIN bucket
  <2>1. PICK k \in Manifests(i) : k.version = v
    BY <1>1, <1>5
  <2>2. k = m
    BY <1>1, <1>2, <2>1, Keys DEF Manifests
  <2> QED BY <2>1, <2>2 DEF Manifests
<1> QED BY <1>2, <1>4, <1>5

\* ReleaseRegistry has FiniteSets of its own.
LEMMA SameCardinality == \A X : Registry!Cardinality(X) = Cardinality(X)
BY DEF Registry!Cardinality, Cardinality

\* The newest versions of the registry are those of the window: each manifest has
\* its version.
LEMMA NewestAreRecent ==
  ASSUME TypeOK, NEW i \in Instances, NEW v \in Versions
  PROVE  v \in Registry!Newest(i) <=> KeyOf("manifest", i, v) \in Recent(i)
<1>1. PICK N, m : N = Manifests(i) /\ m = KeyOf("manifest", i, v)
  OBVIOUS
<1>2. /\ N \in SUBSET ManifestKeys(i) /\ m.version = v /\ m.kind = "manifest" /\ m.inst = i
      /\ v # 0 /\ Catalog[i] = {k.version : k \in N}
  BY <1>1, ManifestSets, ReleaseAssumption DEF KeyOf, Catalog, Versions
<1> DEFINE S == NewerThan(N, v)
           T == {x \in {k.version : k \in N} : x > v}
           f == [k \in S |-> k.version]
<1>3. IsFiniteSet(S)
  BY <1>2, NewerFinite
<1>4. f \in Bijection(S, T)
  <2>1. f \in [S -> T] /\ \A t \in T : \E k \in S : f[k] = t
    BY DEF NewerThan
  <2>2. \A k, l \in S : f[k] = f[l] => k = l
    BY <1>2, Keys DEF NewerThan, ManifestKeys
  <2> QED BY <2>1, <2>2 DEF Bijection, Injection, Surjection, IsInjective
<1>5. Cardinality(T) = Cardinality(S)
  <2> HIDE DEF S, T, f
  <2>1. ExistsBijection(S, T)
    BY <1>4 DEF ExistsBijection
  <2> QED BY <1>3, <2>1, FS_Bijection
<1>6. v \in {k.version : k \in N} <=> m \in N
  BY <1>1, <1>2, InCatalog DEF Manifests
<1>7. v \in Registry!Newest(i) <=> v \in {k.version : k \in N} /\ Cardinality(T) < Keep
  <2>1. Registry!Newest(i)
          = {x \in Catalog[i] : Cardinality({y \in Catalog[i] : y > x}) < Keep}
    BY SameCardinality DEF Registry!Newest, Catalog
  <2> QED BY <1>2, <2>1
<1>8. m \in Recent(i) <=> m \in N /\ Cardinality(S) < Keep
  BY <1>1, <1>2 DEF Recent, RecentOf
<1> QED BY <1>1, <1>5, <1>6, <1>7, <1>8

\* A step that leaves all of it alone is a stutter of the registry.
Unseen == UNCHANGED <<clock, Available, Catalog, Active, Runtime>>

LEMMA UnseenStutters == Unseen => UNCHANGED Registry!vars
BY DEF Unseen, Registry!vars, Available, Catalog, Active, Runtime

LEMMA SameBucket ==
  /\ bucket' = bucket => UNCHANGED <<Available, Catalog, Active>>
  /\ stack' = stack => Runtime' = Runtime
<1>1. ASSUME bucket' = bucket PROVE UNCHANGED <<Available, Catalog, Active>>
  <2>1. \A i : Manifests(i)' = Manifests(i)
    BY <1>1 DEF Manifests
  <2> QED BY <1>1, <2>1 DEF Available, Catalog, Active, Present
<1> QED BY <1>1 DEF Runtime

LEMMA InAvailable ==
  ASSUME NEW r \in Instances \X Versions
  PROVE  /\ r \in Available <=> /\ KeyOf("artifact", r[1], r[2]) \in DOMAIN bucket
                                /\ KeyOf("config", r[1], r[2]) \in DOMAIN bucket
         /\ r \in Available' <=> /\ KeyOf("artifact", r[1], r[2]) \in DOMAIN bucket'
                                 /\ KeyOf("config", r[1], r[2]) \in DOMAIN bucket'
<1>1. r \in Available <=> /\ KeyOf("artifact", r[1], r[2]) \in DOMAIN bucket
                          /\ KeyOf("config", r[1], r[2]) \in DOMAIN bucket
  BY DEF Available, Present
<1>2. r \in Available' <=> /\ KeyOf("artifact", r[1], r[2]) \in DOMAIN bucket'
                           /\ KeyOf("config", r[1], r[2]) \in DOMAIN bucket'
  BY DEF Available, Present
<1> QED BY <1>1, <1>2

\* A key that is no artifact and no configuration makes no release available.
LEMMA ManifestsAside ==
  ASSUME NEW key, key.kind = "manifest",
         \/ DOMAIN bucket' = DOMAIN bucket \cup {key}
         \/ DOMAIN bucket' = DOMAIN bucket \ {key}
  PROVE  Available' = Available
<1>1. \A i, v : /\ KeyOf("artifact", i, v) # key /\ KeyOf("config", i, v) # key
  BY DEF KeyOf
<1> QED BY <1>1 DEF Available, Present

LEMMA BeginRefines ==
  ASSUME NEW o \in Operators, NEW i \in Instances, NEW v \in Versions, NEW b \in Builds,
         BeginPublish(o, i, v, b)
  PROVE  Registry!Next
<1>1. clock' = clock + 1 /\ UNCHANGED <<Available, Catalog, Active, Runtime>>
  BY SameBucket DEF BeginPublish
<1>2. Registry!Begin
  BY <1>1 DEF Registry!Begin, Available, Catalog, Active, Runtime
<1> QED BY <1>2 DEF Registry!Next

LEMMA UploadRefines ==
  ASSUME IInv, NEW o \in Operators, Upload(o)
  PROVE  Registry!Next \/ Unseen
<1>1. PICK p, key, c, i :
        /\ p = op[o] /\ key = KeyOf(p.at, p.inst, p.version) /\ i = p.inst
        /\ c = [inst |-> p.inst, version |-> p.version, build |-> p.build]
  OBVIOUS
<1>2. /\ p.at \in Kinds /\ Put(key, c) /\ UNCHANGED <<stack, clock>>
      /\ i \in Instances /\ clock \in Versions /\ clock # 0 /\ p.version = clock
      /\ PublishInv(p) /\ clock \in 0 .. MaxVersion
  <2>1. p.at \in Kinds /\ p.script = "publish" /\ Put(key, c) /\ UNCHANGED <<stack, clock>>
    BY <1>1 DEF Upload
  <2>2. i \in Instances /\ p.version \in Versions /\ p.version # 0 /\ PublishInv(p)
    BY <1>1, <2>1, Publishing
  <2> QED BY <2>1, <2>2, ReleaseAssumption DEF PublishInv, Versions
<1>3. /\ key \in Key /\ key.kind = p.at /\ key.inst = i /\ key.version = clock
      /\ DOMAIN bucket \subseteq Key
  BY <1>1, <1>2, Keys DEF IInv, TypeOK
<1>4. key \notin DOMAIN bucket
  BY <1>2, <1>3, Uploads DEF IInv, BucketInv, PublishInv
<1>5. /\ DOMAIN bucket' = DOMAIN bucket \cup {key} /\ bucket'[key] = c
      /\ \A k \in DOMAIN bucket : bucket'[k] = bucket[k]
  <2>1. Put(key, c)
    BY <1>2
  <2> QED BY <1>4, <2>1, Puts
<1>6. Active' = Active /\ Runtime' = Runtime
  <2>1. \A j \in Instances : ActiveKey(j) # key
    BY <1>2, <1>3, Keys
  <2>2. ASSUME NEW j \in Instances
        PROVE  (IF Present(ActiveKey(j)) THEN bucket[ActiveKey(j)].version ELSE 0)'
                  = IF Present(ActiveKey(j)) THEN bucket[ActiveKey(j)].version ELSE 0
    <3>1. PICK k : k = ActiveKey(j)
      OBVIOUS
    <3>2. ActiveKey(j)' = k
      BY <3>1 DEF ActiveKey, KeyOf
    <3> QED BY <1>5, <2>1, <3>1, <3>2 DEF Present
  <2>3. Active' = Active
    BY <2>2 DEF Active
  <2> QED BY <1>2, <2>3, SameBucket
\* Keys of the version in the bucket are those of the publication.
<1>7. ASSUME NEW kind \in Kinds, NEW j \in Instances, KeyOf(kind, j, clock) \in DOMAIN bucket
      PROVE  j = i /\ kind \in UploadedKinds(p.at)
  <2>1. PICK k : k = KeyOf(kind, j, clock)
    OBVIOUS
  <2>2. k.kind = kind /\ k.inst = j /\ k.version = clock /\ bucket[k].version = clock
    BY <1>2, <1>7, <2>1 DEF KeyOf, IInv, BucketInv
  <2> QED BY <1>1, <1>2, <1>7, <2>1, <2>2 DEF PublishInv
<1>8. ASSUME NEW kind \in UploadedKinds(p.at) PROVE KeyOf(kind, i, clock) \in DOMAIN bucket
  BY <1>1, <1>2 DEF PublishInv, Present
<1>9. ASSUME p.at \in {"artifact", "config"}
      PROVE  /\ Catalog' = Catalog
             /\ \A r \in Available : r[2] # clock
             /\ \A r \in Instances \X Versions :
                  r \in Available' <=> r \in Available \/ (p.at = "config" /\ r = <<i, clock>>)
  <2>1. \A j : Manifests(j)' = Manifests(j)
    BY <1>3, <1>5, <1>9 DEF Manifests
  <2>2. "config" \notin UploadedKinds(p.at)
    BY <1>9 DEF UploadedKinds
  <2>3. ASSUME NEW r \in Available, r[2] = clock PROVE FALSE
    <3>1. r[1] \in Instances /\ KeyOf("config", r[1], clock) \in DOMAIN bucket
      BY <2>3 DEF Available, Present
    <3> QED BY <1>7, <2>2, <3>1 DEF Kinds
  <2>4. ASSUME NEW r \in Instances \X Versions
        PROVE  r \in Available' <=> r \in Available \/ (p.at = "config" /\ r = <<i, clock>>)
    <3>1. PICK a, b : a = KeyOf("artifact", r[1], r[2]) /\ b = KeyOf("config", r[1], r[2])
      OBVIOUS
    <3>2. /\ r \in Available <=> a \in DOMAIN bucket /\ b \in DOMAIN bucket
          /\ r \in Available' <=> a \in DOMAIN bucket' /\ b \in DOMAIN bucket'
      BY <3>1, InAvailable
    <3>3. /\ a = key <=> p.at = "artifact" /\ r[1] = i /\ r[2] = clock
          /\ b = key <=> p.at = "config" /\ r[1] = i /\ r[2] = clock
      BY <1>1, <1>2, <3>1 DEF KeyOf
    <3>4. CASE p.at = "artifact"
      <4>1. ASSUME a = key PROVE b \notin DOMAIN bucket
        <5>1. b = KeyOf("config", i, clock)
          BY <3>1, <3>3, <4>1
        <5> QED BY <1>2, <1>7, <2>2, <5>1 DEF Kinds
      <4> QED BY <1>5, <3>2, <3>3, <3>4, <4>1
    <3>5. CASE p.at = "config"
      <4>1. KeyOf("artifact", i, clock) \in DOMAIN bucket
        BY <1>8, <3>5 DEF UploadedKinds, Kinds
      <4>2. r = <<i, clock>> <=> r[1] = i /\ r[2] = clock
        OBVIOUS
      <4> QED BY <1>5, <3>1, <3>2, <3>3, <3>5, <4>1, <4>2
    <3> QED BY <1>9, <3>4, <3>5
  <2> QED BY <2>1, <2>3, <2>4 DEF Catalog
<1>10. CASE p.at = "artifact"
  <2>1. Available' = Available /\ Catalog' = Catalog
    BY <1>9, <1>10 DEF Available
  <2> QED BY <1>2, <1>6, <2>1 DEF Unseen
<1>11. CASE p.at = "config"
  <2>1. /\ Available' = Available \cup {<<i, clock>>} /\ Catalog' = Catalog
        /\ \A r \in Available : r[2] # clock
    <3>1. <<i, clock>> \in Instances \X Versions /\ Available \subseteq Instances \X Versions
      BY <1>2 DEF Available
    <3>2. Available' \subseteq Instances \X Versions
      BY DEF Available
    <3> QED BY <1>9, <1>11, <3>1, <3>2
  <2>2. Registry!Provide(i)
    BY <1>2, <1>6, <2>1 DEF Registry!Provide, Available, Catalog, Active, Runtime
  <2> QED BY <1>2, <2>2 DEF Registry!Next
<1>12. CASE p.at = "manifest"
  <2>1. Available' = Available
    BY <1>3, <1>5, <1>12, ManifestsAside
  <2>2. <<i, clock>> \in Available
    <3>1. "artifact" \in UploadedKinds(p.at) /\ "config" \in UploadedKinds(p.at)
      BY <1>12 DEF UploadedKinds, Kinds
    <3> QED BY <1>2, <1>8, <3>1 DEF Available, Present
  <2>3. Catalog' = [Catalog EXCEPT ![i] = @ \cup {clock}]
    <3>1. ASSUME NEW j \in Instances
          PROVE  {k.version : k \in Manifests(j)}'
                   = IF j = i THEN {k.version : k \in Manifests(j)} \cup {clock}
                     ELSE {k.version : k \in Manifests(j)}
      <4>1. Manifests(j)' = IF j = i THEN Manifests(j) \cup {key} ELSE Manifests(j)
        BY <1>2, <1>3, <1>5, <1>12 DEF Manifests
      <4> QED BY <1>3, <4>1
    <3> QED BY <3>1 DEF Catalog
  <2>4. Registry!Catalogue(i)
    BY <1>2, <1>6, <2>1, <2>2, <2>3 DEF Registry!Catalogue, Available, Catalog, Active, Runtime
  <2> QED BY <1>2, <2>4 DEF Registry!Next
<1> QED BY <1>2, <1>10, <1>11, <1>12 DEF Kinds

LEMMA ActivateRefines ==
  ASSUME IInv, NEW o \in Operators, Activate(o)
  PROVE  Registry!Next
<1>1. PICK p, key, c, i :
        /\ p = op[o] /\ key = ActiveKey(p.inst) /\ i = p.inst
        /\ c = [inst |-> p.inst, version |-> p.version, build |-> p.build]
  OBVIOUS
<1>2. /\ p.at = "active" /\ Put(key, c) /\ UNCHANGED <<stack, clock>>
      /\ i \in Instances /\ clock \in Versions /\ p.version = clock /\ PublishInv(p)
  <2>1. p.at = "active" /\ p.script = "publish" /\ Put(key, c) /\ UNCHANGED <<stack, clock>>
    BY <1>1 DEF Activate, At
  <2> QED BY <1>1, <2>1, Publishing DEF PublishInv
<1>3. key \in Key /\ key.kind = "manifest" /\ key.inst = i /\ key.version = 0 /\ c.version = clock
  BY <1>1, <1>2, Keys
<1>4. /\ DOMAIN bucket' = DOMAIN bucket \cup {key} /\ bucket'[key] = c
      /\ \A k \in DOMAIN bucket : k # key => bucket'[k] = bucket[k]
  <2>1. Put(key, c)
    BY <1>2
  <2> QED BY <2>1, Puts
<1>5. Available' = Available
  BY <1>3, <1>4, ManifestsAside
<1>6. Catalog' = Catalog
  <2>1. \A j : Manifests(j)' = Manifests(j)
    BY <1>3, <1>4 DEF Manifests
  <2> QED BY <2>1 DEF Catalog
<1>7. Active' = [Active EXCEPT ![i] = clock]
  <2>1. ASSUME NEW j \in Instances
        PROVE  (IF Present(ActiveKey(j)) THEN bucket[ActiveKey(j)].version ELSE 0)'
                  = IF j = i THEN clock
                    ELSE IF Present(ActiveKey(j)) THEN bucket[ActiveKey(j)].version ELSE 0
    <3>1. PICK k : k = ActiveKey(j)
      OBVIOUS
    <3>2. ActiveKey(j)' = k /\ (k = key <=> j = i)
      BY <1>1, <3>1 DEF ActiveKey, KeyOf
    <3> QED BY <1>3, <1>4, <3>1, <3>2 DEF Present
  <2> QED BY <2>1 DEF Active
<1>8. clock \in Catalog[i]
  <2>1. "manifest" \in UploadedKinds(p.at)
    BY <1>2 DEF UploadedKinds, Kinds
  <2>2. KeyOf("manifest", i, clock) \in DOMAIN bucket
    BY <1>1, <1>2, <2>1 DEF PublishInv, Present
  <2> QED BY <1>2, <2>2, InCatalog DEF IInv
<1>9. Registry!Activate(i)
  BY <1>2, <1>5, <1>6, <1>7, <1>8, SameBucket
  DEF Registry!Activate, Available, Catalog, Active, Runtime
<1> QED BY <1>2, <1>9 DEF Registry!Next

LEMMA SubmitRefines ==
  ASSUME IInv, NEW o \in Operators, SubmitUpdate(o)
  PROVE  Registry!Next \/ Unseen
<1>1. CASE UNCHANGED stack
  BY <1>1, SameBucket DEF SubmitUpdate, Unseen
<1>2. CASE ~ UNCHANGED stack
  <2>1. PICK i, v : i = op[o].inst /\ v = op[o].version
    OBVIOUS
  <2>2. /\ stack' = [stack EXCEPT ![i].params = v, ![i].updating = TRUE]
        /\ UNCHANGED <<bucket, clock>>
    BY <1>2, <2>1 DEF SubmitUpdate
  <2>3. <<i, v>> \in printed /\ i \in Instances /\ v \in Versions
    <3>1. At(o, "deploy", "submit") /\ ScriptInv(o)
      BY DEF SubmitUpdate, IInv
    <3> QED BY <2>1, <3>1 DEF At, ScriptInv, IInv, TypeOK
  <2>4. v <= Active[i]
    BY <2>3 DEF IInv, PrintedInv, Active
  <2>5. Runtime' = [Runtime EXCEPT ![i].wanted = v]
    <3>1. ASSUME NEW j \in Instances
          PROVE  /\ stack'[j].params = IF j = i THEN v ELSE stack[j].params
                 /\ stack'[j].running = stack[j].running
      BY <2>2, <2>3 DEF IInv, TypeOK
    <3> QED BY <3>1 DEF Runtime
  <2>6. Registry!Want(i, v)
    BY <2>2, <2>4, <2>5, SameBucket DEF Registry!Want, Available, Catalog, Active, Runtime
  <2>7. v \in Registry!Versions
    BY <2>3 DEF Registry!Versions, Versions
  <2> QED BY <2>3, <2>6, <2>7 DEF Registry!Next
<1> QED BY <1>1, <1>2

LEMMA CloudRefines ==
  ASSUME IInv, NEW i \in Instances, UpdateSucceeds(i) \/ UpdateFails(i)
  PROVE  Registry!Next \/ Unseen
<1>1. CASE UpdateSucceeds(i)
  <2>1. /\ stack' = [stack EXCEPT ![i].running = stack[i].params, ![i].updating = FALSE]
        /\ UNCHANGED <<bucket, clock>>
    BY <1>1 DEF UpdateSucceeds
  <2>2. Runtime' = [Runtime EXCEPT ![i].running = Runtime[i].wanted]
    <3>1. ASSUME NEW j \in Instances
          PROVE  /\ stack'[j].params = stack[j].params
                 /\ stack'[j].running = IF j = i THEN stack[i].params ELSE stack[j].running
      BY <2>1 DEF IInv, TypeOK
    <3> QED BY <3>1 DEF Runtime
  <2>3. <<i, Runtime[i].wanted>> \in Available
    BY <1>1, UpdateFinds DEF Runtime, Available
  <2>4. Registry!Run(i)
    BY <2>1, <2>2, <2>3, SameBucket DEF Registry!Run, Available, Catalog, Active, Runtime
  <2> QED BY <2>4 DEF Registry!Next
<1>2. CASE UpdateFails(i)
  <2>1. /\ UNCHANGED <<bucket, clock>>
        /\ \A j \in Instances :
             /\ stack'[j].running = stack[j].running
             /\ stack'[j].params = IF j = i /\ stack[i].running # 0 THEN stack[i].running
                                   ELSE stack[j].params
    BY <1>2 DEF UpdateFails, IInv, TypeOK
  <2>2. CASE stack[i].running = 0
    <3>1. Runtime' = Runtime
      BY <2>1, <2>2 DEF Runtime
    <3> QED BY <2>1, <3>1, SameBucket DEF Unseen
  <2>3. CASE stack[i].running # 0
    <3>1. Runtime' = [Runtime EXCEPT ![i].wanted = Runtime[i].running]
      BY <2>1, <2>3 DEF Runtime
    <3>2. Registry!RollBack(i)
      BY <2>1, <2>3, <3>1, SameBucket DEF Registry!RollBack, Available, Catalog, Active, Runtime
    <3> QED BY <3>2 DEF Registry!Next
  <2> QED BY <2>2, <2>3
<1> QED BY <1>1, <1>2

\* The first key of a release that goes withdraws it; its manifest goes last.
LEMMA DeleteRefines ==
  ASSUME IInv, TypeOK', Serial, DeploysFinish, NEW o \in Operators, DeleteKey(o)
  PROVE  Registry!Next \/ Unseen
<1>1. PICK p, w, key, i, v :
        /\ CleanupAt(o, "delete", p, w) /\ key \in NextToDelete(Doomed(p.inst, w.kept))
        /\ key \in Doomed(p.inst, w.kept)
        /\ bucket' = [k \in DOMAIN bucket \ {key} |-> bucket[k]]
        /\ UNCHANGED <<stack, clock>> /\ i = p.inst /\ v = key.version
  BY Deleting
<1>2. /\ i \in Instances /\ key \in DOMAIN bucket /\ key \in Key /\ key.inst = i
      /\ DOMAIN bucket \subseteq Key /\ DOMAIN bucket' = DOMAIN bucket \ {key}
      /\ TypeOK /\ BucketInv
  BY <1>1 DEF CleanupAt, Doomed, IInv, TypeOK
<1>3. /\ \A k \in DOMAIN bucket' : bucket'[k] = bucket[k]
      /\ \A j \in Instances : key # ActiveKey(j)
  BY <1>1, <1>2, RemovalSteady
<1>4. /\ Release(bucket[ActiveKey(i)]) \in w.kept /\ Present(ActiveKey(i))
      /\ \A m \in Recent(i) : Release(bucket[m]) \in w.kept
      /\ stack[i].params # 0 => <<i, stack[i].params>> \in w.kept
      /\ stack[i].running \in {0, stack[i].params} /\ w.kept = Referenced(i)
  BY <1>1, <1>2, NoUpdateBeside, KeptIsReferenced DEF CleanupAt, CleanupInv
<1>5. v \in Versions
  <2>1. v # 0
    <3>1. CASE key.kind = "manifest"
      BY <1>1, <3>1 DEF Doomed, Manifests
    <3>2. CASE key.kind # "manifest"
      BY <1>1, <1>2, <3>2 DEF BucketInv
    <3> QED BY <3>1, <3>2
  <2> QED BY <1>1, <1>2, <2>1, ReleaseAssumption DEF Key, Versions
<1>6. Active' = Active /\ Runtime' = Runtime
  <2>1. ASSUME NEW j \in Instances
        PROVE  (IF Present(ActiveKey(j)) THEN bucket[ActiveKey(j)].version ELSE 0)'
                  = IF Present(ActiveKey(j)) THEN bucket[ActiveKey(j)].version ELSE 0
    <3>1. PICK k : k = ActiveKey(j)
      OBVIOUS
    <3>2. ActiveKey(j)' = k /\ k # key
      BY <1>3, <3>1 DEF ActiveKey, KeyOf
    <3> QED BY <1>2, <1>3, <3>1, <3>2 DEF Present
  <2>2. Active' = Active
    BY <2>1 DEF Active
  <2> QED BY <1>1, <2>2, SameBucket
\* A kept release is referred to by the active manifest, the window or the stack.
<1>7. Active[i] = bucket[ActiveKey(i)].version /\ bucket[ActiveKey(i)].inst = i
  BY <1>2, <1>4, Keys DEF Active, Present, BucketInv
<1>8. ASSUME key.kind \in {"artifact", "config"}
      PROVE  /\ Catalog' = Catalog
             /\ v \notin Registry!Newest(i) \cup {Active[i], Runtime[i].wanted, Runtime[i].running}
             /\ Available' = Available \ {<<i, v>>}
             /\ key.kind = "config" => <<i, v>> \notin Available
  <2>1. key.kind # "manifest" /\ <<i, v>> \notin w.kept
    BY <1>1, <1>2, <1>8 DEF Doomed, Release
  <2>2. \A j : Manifests(j)' = Manifests(j)
    BY <1>2, <1>3, <2>1 DEF Manifests
  <2>3. v \notin Registry!Newest(i)
    <3>1. PICK m : m = KeyOf("manifest", i, v)
      OBVIOUS
    <3>2. ASSUME m \in Recent(i) PROVE FALSE
      <4>1. m \in DOMAIN bucket /\ m.inst = i /\ m.version = v /\ v # 0
        BY <1>2, <1>5, <3>1, <3>2, ManifestSets DEF Manifests, KeyOf
      <4>2. Release(bucket[m]) = <<i, v>>
        BY <1>2, <4>1 DEF BucketInv, Release
      <4> QED BY <1>4, <2>1, <3>2, <4>2
    <3> QED BY <1>2, <1>5, <3>1, <3>2, NewestAreRecent
  <2>4. v # Active[i]
    BY <1>4, <1>7, <2>1 DEF Release
  <2>5. Runtime[i].wanted = stack[i].params /\ Runtime[i].running \in {0, stack[i].params} /\ v # 0
    BY <1>2, <1>4, <1>5, ReleaseAssumption DEF Runtime, Versions
  <2>6. v # stack[i].params
    BY <1>4, <2>1, <2>5
  <2>7. ASSUME NEW r \in Instances \X Versions
        PROVE  r \in Available' <=> r \in Available /\ r # <<i, v>>
    <3>1. PICK a, b : a = KeyOf("artifact", r[1], r[2]) /\ b = KeyOf("config", r[1], r[2])
      OBVIOUS
    <3>2. /\ r \in Available <=> a \in DOMAIN bucket /\ b \in DOMAIN bucket
          /\ r \in Available' <=> a \in DOMAIN bucket' /\ b \in DOMAIN bucket'
      BY <3>1, InAvailable
    <3>3. key = KeyOf(key.kind, i, v)
      BY <1>1, <1>2, Keys
    <3>4. r = <<i, v>> <=> r[1] = i /\ r[2] = v
      OBVIOUS
    <3>5. r = <<i, v>> <=> key \in {a, b}
      <4>1. a = key <=> key.kind = "artifact" /\ r[1] = i /\ r[2] = v
        BY <3>1, <3>3 DEF KeyOf
      <4>2. b = key <=> key.kind = "config" /\ r[1] = i /\ r[2] = v
        BY <3>1, <3>3 DEF KeyOf
      <4> QED BY <1>8, <3>4, <4>1, <4>2
    <3> QED BY <1>2, <3>2, <3>5
  <2>8. Available' = Available \ {<<i, v>>}
    <3>1. Available \subseteq Instances \X Versions /\ Available' \subseteq Instances \X Versions
      BY DEF Available
    <3> QED BY <2>7, <3>1
  <2>9. ASSUME key.kind = "config", <<i, v>> \in Available PROVE FALSE
    <3>1. PICK a : a = KeyOf("artifact", i, v)
      OBVIOUS
    <3>2. a \in DOMAIN bucket /\ a.kind = "artifact" /\ a.inst = i /\ a.version = v
      BY <2>9, <3>1 DEF Available, Present, KeyOf
    <3>3. a \in Doomed(p.inst, w.kept)
      BY <1>1, <2>1, <3>2 DEF Doomed, Release
    <3>4. Rank[key.kind] <= Rank[a.kind]
      BY <1>1, <3>3 DEF NextToDelete
    <3> QED BY <2>9, <3>2, <3>4 DEF Rank
  <2> QED BY <2>2, <2>3, <2>4, <2>5, <2>6, <2>8, <2>9 DEF Catalog
<1>9. CASE key.kind \in {"artifact", "config"} /\ <<i, v>> \in Available
  <2>1. Registry!Withdraw(i, v)
    BY <1>1, <1>6, <1>8, <1>9 DEF Registry!Withdraw, Available, Catalog, Active, Runtime
  <2>2. v \in Registry!Versions
    BY <1>5 DEF Registry!Versions, Versions
  <2> QED BY <1>2, <2>1, <2>2 DEF Registry!Next
<1>10. CASE key.kind \in {"artifact", "config"} /\ <<i, v>> \notin Available
  <2>1. Available' = Available /\ Catalog' = Catalog
    BY <1>8, <1>10
  <2> QED BY <1>1, <1>6, <2>1 DEF Unseen
<1>11. CASE key.kind = "manifest"
  <2>1. key = KeyOf("manifest", i, v) /\ key \in Manifests(i) \ Recent(i)
    <3>1. key = KeyOf(key.kind, i, v)
      BY <1>1, <1>2, Keys
    <3> QED BY <1>1, <1>11, <3>1 DEF Doomed
  <2>2. Available' = Available
    BY <1>2, <1>11, ManifestsAside
  <2>3. v \in Catalog[i] /\ v \notin Registry!Newest(i)
    BY <1>2, <1>5, <2>1, InCatalog, NewestAreRecent
  <2>4. Catalog' = [Catalog EXCEPT ![i] = @ \ {v}]
    <3>1. ASSUME NEW j \in Instances
          PROVE  {k.version : k \in Manifests(j)}'
                   = IF j = i THEN {k.version : k \in Manifests(j)} \ {v}
                     ELSE {k.version : k \in Manifests(j)}
      <4>1. Manifests(j)' = Manifests(j) \ {key}
        BY <1>2, <1>3 DEF Manifests
      <4>2. CASE j = i
        <5>1. \A k \in Manifests(j) : k.version = v <=> k = key
          BY <1>1, <1>2, <1>11, <4>2, Keys DEF Manifests
        <5> QED BY <4>1, <4>2, <5>1
      <4>3. CASE j # i
        <5>1. key \notin Manifests(j)
          BY <1>2, <4>3 DEF Manifests
        <5> QED BY <4>1, <4>3, <5>1
      <4> QED BY <4>2, <4>3
    <3> QED BY <3>1 DEF Catalog
  <2>5. ASSUME <<i, v>> \in Available
        PROVE  v \in {Active[i], Runtime[i].wanted, Runtime[i].running}
    <3>1. PICK a : a = KeyOf("artifact", i, v)
      OBVIOUS
    <3>2. a \in DOMAIN bucket /\ a.kind = "artifact" /\ a.inst = i /\ a.version = v
      BY <2>5, <3>1 DEF Available, Present, KeyOf
    <3>3. <<i, v>> \in w.kept
      <4>1. ASSUME a \in Doomed(p.inst, w.kept) PROVE FALSE
        <5>1. Rank[key.kind] <= Rank[a.kind]
          BY <1>1, <4>1 DEF NextToDelete
        <5> QED BY <1>11, <3>2, <5>1 DEF Rank
      <4> QED BY <1>1, <3>2, <4>1 DEF Doomed, Release
    <3>4. ASSUME NEW m \in Retained(i), Release(bucket[m]) = <<i, v>>
          PROVE  v = Active[i]
      <4>1. bucket[m].version = v
        BY <3>4 DEF Release
      <4>2. m \in Recent(i) \/ m = ActiveKey(i)
        BY <1>2, ManifestSets
      <4>3. ASSUME m \in Recent(i) PROVE FALSE
        <5>1. m \in Manifests(i) /\ m.version # 0 /\ m \in DOMAIN bucket /\ m \in Key
          BY <1>2, <4>3, ManifestSets DEF Manifests
        <5>2. m.version = v /\ m.kind = "manifest" /\ m.inst = i
          BY <1>2, <4>1, <5>1 DEF BucketInv, Manifests
        <5>3. m = key
          BY <2>1, <5>1, <5>2, Keys
        <5> QED BY <2>1, <4>3, <5>3
      <4> QED BY <1>7, <4>1, <4>2, <4>3
    <3>5. <<i, v>> \in Referenced(i)
      BY <1>4, <3>3
    <3>6. v = Active[i] \/ v = stack[i].params
      BY <3>4, <3>5 DEF Referenced
    <3> QED BY <1>2, <3>6 DEF Runtime
  <2>6. Registry!Drop(i, v)
    BY <1>1, <1>6, <2>2, <2>3, <2>4, <2>5
    DEF Registry!Drop, Available, Catalog, Active, Runtime
  <2>7. v \in Registry!Versions
    BY <1>5 DEF Registry!Versions, Versions
  <2> QED BY <1>2, <2>6, <2>7 DEF Registry!Next
<1> QED BY <1>2, <1>9, <1>10, <1>11 DEF Key, Kinds

\* The other calls leave bucket, stacks and clock alone.
LEMMA Calls ==
  ASSUME NEW o \in Operators,
         \/ \E i \in Instances, v \in Versions : BeginDeploy(o, i, v)
         \/ WaitUpdate(o) \/ Die(o)
         \/ Cleanup(o) /\ ~ DeleteKey(o)
  PROVE  UNCHANGED <<bucket, stack, clock>>
<1>1. ASSUME NEW i \in Instances, NEW v \in Versions, BeginDeploy(o, i, v)
      PROVE  UNCHANGED <<bucket, stack, clock>>
  BY <1>1 DEF BeginDeploy
<1>2. ASSUME WaitUpdate(o) \/ Die(o) PROVE UNCHANGED <<bucket, stack, clock>>
  BY <1>2 DEF WaitUpdate, Die
<1>3. ASSUME Cleanup(o), ~ DeleteKey(o) PROVE UNCHANGED <<bucket, stack, clock>>
  BY <1>3 DEF Cleanup, BeginCleanup, ListManifests, ReadActive, ReadStack, ReadManifest,
              ListArtifacts, ListConfigs, EndCleanup
<1> QED BY <1>1, <1>2, <1>3

LEMMA NextRefines ==
  ASSUME IInv, IInv', Serial, DeploysFinish, [Next]_vars
  PROVE  [Registry!Next]_(Registry!vars)
<1>1. Unseen => UNCHANGED Registry!vars
  BY UnseenStutters
<1>2. UNCHANGED <<bucket, stack, clock>> => Unseen
  BY SameBucket DEF Unseen
<1>3. UNCHANGED vars => UNCHANGED <<bucket, stack, clock>>
  BY DEF vars
<1>4. ASSUME NEW o \in Operators, Publish(o) PROVE Registry!Next \/ Unseen
  BY <1>4, BeginRefines, UploadRefines, ActivateRefines DEF Publish
<1>5. ASSUME NEW o \in Operators, Deploy(o) PROVE Registry!Next \/ Unseen
  BY <1>2, <1>5, SubmitRefines, Calls DEF Deploy
<1>6. ASSUME NEW o \in Operators, Cleanup(o) PROVE Registry!Next \/ Unseen
  <2>1. TypeOK'
    BY DEF IInv
  <2> QED BY <1>2, <1>6, <2>1, DeleteRefines, Calls
<1>7. ASSUME NEW o \in Operators, Die(o) PROVE Unseen
  BY <1>2, <1>7, Calls
<1>8. ASSUME CloudFormation PROVE Registry!Next \/ Unseen
  BY <1>8, CloudRefines DEF CloudFormation
<1> QED BY <1>1, <1>2, <1>3, <1>4, <1>5, <1>6, <1>7, <1>8 DEF Next

LEMMA InitRefines == Init => Registry!Init
<1> SUFFICES ASSUME Init PROVE Registry!Init
  OBVIOUS
<1>1. DOMAIN bucket = {} /\ clock = 0
  BY DEF Init
<1>2. Available = {}
  BY <1>1 DEF Available, Present
<1>3. Catalog = [i \in Instances |-> {}]
  <2>1. \A i \in Instances : {k.version : k \in Manifests(i)} = {}
    BY <1>1 DEF Manifests
  <2> QED BY <2>1 DEF Catalog
<1>4. Active = [i \in Instances |-> 0]
  BY <1>1 DEF Active, Present
<1>5. Runtime = [i \in Instances |-> [wanted |-> 0, running |-> 0]]
  BY DEF Init, Runtime
<1> QED BY <1>1, <1>2, <1>3, <1>4, <1>5 DEF Registry!Init, Available, Catalog, Active, Runtime

\* The scripts keep the promises of ReleaseRegistry: a release that is half uploaded or
\* half deleted is nobody's, what a manifest or a Runtime refers to is not withdrawn, and
\* no update makes a Runtime run a release whose configuration is gone.
THEOREM ReleasesAreRegistered ==
  ASSUME NoDashes, DeploysFinish PROVE Spec /\ []Serial => ImplementsRegistry
<1>1. IInv /\ IInv' /\ Serial /\ [Next]_vars => [Registry!Next]_(Registry!vars)
  BY NextRefines
<1> QED BY <1>1, InitRefines, Invariance, PTL DEF Spec, ImplementsRegistry, Registry!Spec
==============================================================================
