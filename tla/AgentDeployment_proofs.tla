------------------------ MODULE AgentDeployment_proofs ------------------------
(***************************************************************************)
(* Proofs about AgentDeployment, for any agents, runs at a time, names,    *)
(* strings, targets and plans.                                             *)
(*                                                                         *)
(* A run relies on a secret it created steps before and on updates it      *)
(* waited for, while other runs come and go and updates that dead runs     *)
(* left behind go on.  The invariant says that every secret belongs to one *)
(* foundation stack, that no ARN is ever used for another agent's secret,  *)
(* and what a run that is alone with its agent knows at each step.         *)
(***************************************************************************)
EXTENDS AgentDeployment, TLAPS

\* Secrets: one foundation stack each, and none has an ARN not given out yet.
Owned ==
  /\ \A a, b \in Agents : foundation[a] = foundation[b] /\ foundation[a] # None => a = b
  /\ \A s \in secrets : s.arn <= born

\* ARN x is known to agent a: it is of the agent's own secret, or of one that
\* is gone, or external.
Own(a, x) ==
  /\ x \in Live => x = foundation[a]
  /\ x \in Arns => x <= born

OwnSecrets(a) ==
  /\ Own(a, runtime[a].secret)
  /\ InProgress(a, "runtime") => Own(a, update[a]["runtime"].given.secret)

\* What is known of the stacks of agent a when plan p has passed them.
HasFoundation(a, p) ==
  p.managed => /\ ~ InProgress(a, "foundation")
               /\ \E s \in secrets : s.arn = foundation[a] /\ s.name = p.name
HasSecret(a, p, x) ==
  IF p.managed THEN x = foundation[a] /\ Holds(x, p) ELSE x = External
HasRuntime(a, p) ==
  /\ ~ InProgress(a, "runtime")
  /\ HasSecret(a, p, runtime[a].secret)
  /\ runtime[a].audience = p.target
HasTarget(a, p) == ~ InProgress(a, "target") /\ target[a] = p.target

Before(kind) ==
  CASE kind = "foundation" -> {"foundation", "await foundation"}
    [] kind = "runtime" -> {"foundation", "await foundation", "secret", "runtime", "await runtime"}

\* What run s knows when it is alone with its agent.
Knows(s) ==
  LET a == s.agent
      p == s.plan
  IN  /\ s.at = "await foundation" =>
           LET u == update[a]["foundation"]
           IN  /\ u.status = "in progress" => u.given = [managed |-> p.managed, name |-> p.name]
               /\ u.status = "complete" => HasFoundation(a, p)
      /\ s.at \notin Before("foundation") => HasFoundation(a, p)
      /\ s.at \notin Before("foundation") \cup {"secret"} => HasSecret(a, p, s.arn)
      /\ s.at = "await runtime" =>
           LET u == update[a]["runtime"]
           IN  /\ u.status = "in progress" => u.given = [secret |-> s.arn, audience |-> p.target]
               /\ u.status = "complete" => HasRuntime(a, p)
      /\ s.at \notin Before("runtime") => HasRuntime(a, p)
      /\ s.at = "await target" =>
           LET u == update[a]["target"]
           IN  /\ u.status = "in progress" => u.given = p.target
               /\ u.status = "complete" => HasTarget(a, p)

\* A run that is alone shares its agent with no other; while a run goes on, its
\* agent's latest deployment is not complete.
RunInv(r) ==
  script[r] # Idle =>
    /\ script[r].agent \in Agents /\ script[r].plan \in Plans /\ script[r].at # "idle"
    /\ Own(script[r].agent, script[r].arn)
    /\ script[r].at \notin Before("foundation") \cup {"secret"} => script[r].arn # None
    /\ completed[script[r].agent] = None
    /\ script[r].alone =>
         /\ \A q \in Runs \ {r} : script[q].agent # script[r].agent
         /\ Knows(script[r])

\* What an undisturbed deployment left.
Served(a) ==
  completed[a] # None =>
    /\ HasFoundation(a, completed[a]) /\ HasRuntime(a, completed[a])
    /\ ~ completed[a].skip => HasTarget(a, completed[a])

IInv ==
  /\ TypeOK
  /\ Owned
  /\ \A a \in Agents : OwnSecrets(a) /\ Served(a)
  /\ \A r \in Runs : RunInv(r)

------------------------------------------------------------------------------
(* Records and functions.                                                    *)

Statuses == {"complete", "in progress", "rolled back"}
UpdateType == [status : Statuses, given : (UNION {Given(k) : k \in Kinds}) \cup {None}]
ScriptType == [at : {"idle", "foundation", "await foundation", "secret",
                     "runtime", "await runtime", "target", "await target"},
               agent : Agents \cup {None}, plan : Plans \cup {None},
               arn : Arns \cup {External, None}, alone : BOOLEAN]
SecretType == [arn : Arns, name : Names, value : Strings \cup {Empty}]

\* The update of one stack changes and no other.
LEMMA OneUpdate ==
  ASSUME TypeOK, NEW a \in Agents, NEW k \in Kinds, NEW u \in UpdateType,
         update' = [update EXCEPT ![a][k] = u]
  PROVE  /\ update' \in [Agents -> [Kinds -> UpdateType]]
         /\ update'[a][k] = u
         /\ \A j \in Kinds \ {k} : update'[a][j] = update[a][j]
         /\ \A b \in Agents \ {a} : update'[b] = update[b]
<1>1. update \in [Agents -> [Kinds -> UpdateType]] BY DEF TypeOK, UpdateType, Statuses
<1>2. update'[a] = [update[a] EXCEPT ![k] = u] BY <1>1
<1>3. update[a] \in [Kinds -> UpdateType] BY <1>1
<1>4. \A b \in Agents \ {a} : update'[b] = update[b] BY <1>1
<1>5. update'[a] \in [Kinds -> UpdateType] BY <1>2, <1>3
<1>6. update' \in [Agents -> [Kinds -> UpdateType]] BY <1>1, <1>4, <1>5
<1> QED BY <1>2, <1>3, <1>4, <1>6

\* One run goes on and no other.
LEMMA OneRun ==
  ASSUME TypeOK, NEW r \in Runs, NEW s \in ScriptType, script' = [script EXCEPT ![r] = s]
  PROVE  /\ script' \in [Runs -> ScriptType]
         /\ script'[r] = s
         /\ \A q \in Runs \ {r} : script'[q] = script[q]
BY DEF TypeOK, ScriptType

\* TypeOK, with the types named.
LEMMA TypesNamed ==
  TypeOK <=>
    /\ secrets \subseteq SecretType
    /\ born \in 0..MaxSecrets
    /\ foundation \in [Agents -> Arns \cup {None}]
    /\ runtime \in [Agents -> [secret : Arns \cup {External, None}, audience : Targets \cup {None}]]
    /\ target \in [Agents -> Targets \cup {None}]
    /\ update \in [Agents -> [Kinds -> UpdateType]]
    /\ \A a \in Agents, k \in Kinds : InProgress(a, k) => update[a][k].given \in Given(k)
    /\ begun \in 0..MaxBegun
    /\ script \in [Runs -> ScriptType]
    /\ completed \in [Agents -> Plans \cup {None}]
    /\ \A s, t \in secrets : s.arn = t.arn => s = t
    /\ Live = {foundation[a] : a \in Agents} \ {None}
BY DEF TypeOK, SecretType, UpdateType, Statuses, ScriptType

\* The same of the next state.
LEMMA NextTypesNamed ==
  /\ secrets' \subseteq SecretType
  /\ born' \in 0..MaxSecrets
  /\ foundation' \in [Agents -> Arns \cup {None}]
  /\ runtime' \in [Agents -> [secret : Arns \cup {External, None}, audience : Targets \cup {None}]]
  /\ target' \in [Agents -> Targets \cup {None}]
  /\ update' \in [Agents -> [Kinds -> UpdateType]]
  /\ \A a \in Agents, k \in Kinds : InProgress(a, k)' => update'[a][k].given \in Given(k)
  /\ begun' \in 0..MaxBegun
  /\ script' \in [Runs -> ScriptType]
  /\ completed' \in [Agents -> Plans \cup {None}]
  /\ \A s, t \in secrets' : s.arn = t.arn => s = t
  /\ Live' = {foundation'[a] : a \in Agents} \ {None}
  => TypeOK'
BY DEF TypeOK, SecretType, UpdateType, Statuses, ScriptType

\* Nothing is deployed.
LEMMA InitInv == Init => IInv
<1> SUFFICES ASSUME Init PROVE IInv OBVIOUS
<1>1. TypeOK
  <2>1. NoUpdate \in UpdateType /\ NoUpdate.status # "in progress"
    BY DEF NoUpdate, UpdateType, Statuses
  <2>2. update \in [Agents -> [Kinds -> UpdateType]] /\ \A a \in Agents, k \in Kinds : ~ InProgress(a, k)
    BY <2>1 DEF Init, InProgress
  <2>3. script \in [Runs -> ScriptType] BY DEF Init, Idle, ScriptType
  <2>4. runtime \in [Agents -> [secret : Arns \cup {External, None}, audience : Targets \cup {None}]]
    BY DEF Init, NoRuntime
  <2> QED BY <2>2, <2>3, <2>4, PlanAssumption, TypesNamed DEF Init, Live
<1>2. Owned BY DEF Init, Owned
<1>3. ASSUME NEW a \in Agents PROVE OwnSecrets(a) /\ Served(a)
  <2>1. ~ InProgress(a, "runtime") BY DEF Init, InProgress, NoUpdate, Kinds
  <2>2. None \notin Arns BY NoneAssumption DEF Arns
  <2> QED BY <2>1, <2>2 DEF Init, OwnSecrets, Own, Served, Live, NoRuntime
<1>4. \A r \in Runs : RunInv(r) BY DEF Init, RunInv
<1> QED BY <1>1, <1>2, <1>3, <1>4 DEF IInv

------------------------------------------------------------------------------
(* What is known of one agent is not disturbed by what happens to another.   *)

Untouched(a) ==
  /\ foundation'[a] = foundation[a] /\ runtime'[a] = runtime[a] /\ target'[a] = target[a]
  /\ update'[a] = update[a]
  /\ \A s \in secrets : s.arn = foundation[a] => s \in secrets'

LEMMA KnownStays ==
  ASSUME NEW a \in Agents, Untouched(a), NEW p \in Plans
  PROVE  /\ HasFoundation(a, p) => HasFoundation(a, p)'
         /\ \A x : HasSecret(a, p, x) => HasSecret(a, p, x)'
         /\ HasRuntime(a, p) => HasRuntime(a, p)'
         /\ HasTarget(a, p) => HasTarget(a, p)'
<1>1. HasFoundation(a, p) => HasFoundation(a, p)' BY DEF Untouched, HasFoundation, InProgress
<1>2. ASSUME NEW x, HasSecret(a, p, x) PROVE HasSecret(a, p, x)'
  BY <1>2 DEF Untouched, HasSecret, Holds
<1>3. HasRuntime(a, p) => HasRuntime(a, p)' BY <1>2 DEF Untouched, HasRuntime, InProgress
<1>4. HasTarget(a, p) => HasTarget(a, p)' BY DEF Untouched, HasTarget, InProgress
<1> QED BY <1>1, <1>2, <1>3, <1>4

LEMMA RunsKnow ==
  ASSUME NEW s \in ScriptType, s.agent \in Agents, s.plan \in Plans, Untouched(s.agent), Knows(s)
  PROVE  Knows(s)'
<1> DEFINE a == s.agent
           p == s.plan
<1>1. update'[a] = update[a] BY DEF Untouched
<1>2. /\ HasFoundation(a, p) => HasFoundation(a, p)'
      /\ \A x : HasSecret(a, p, x) => HasSecret(a, p, x)'
      /\ HasRuntime(a, p) => HasRuntime(a, p)'
      /\ HasTarget(a, p) => HasTarget(a, p)'
  BY KnownStays
<1>3. HasSecret(a, p, s.arn) => HasSecret(a, p, s.arn)' BY <1>2
<1> QED BY <1>1, <1>2, <1>3 DEF Knows

LEMMA ServedStays ==
  ASSUME TypeOK, NEW a \in Agents, Untouched(a), completed'[a] = completed[a], Served(a)
  PROVE  Served(a)'
<1>1. CASE completed[a] = None BY <1>1 DEF Served
<1>2. CASE completed[a] # None
  <2>1. completed[a] \in Plans BY <1>2 DEF TypeOK
  <2> QED BY <1>2, <2>1, KnownStays DEF Served
<1> QED BY <1>1, <1>2

------------------------------------------------------------------------------
(* Steps of a run: no secret comes or goes.                                  *)

OthersOf(r) == {q \in Runs \ {r} : script[q].agent = script[r].agent}

\* Run r goes on as s, or ends.  The runs of its agent that it shares the agent
\* with know nothing, and those of other agents keep what they know.
LEMMA RunMoves ==
  ASSUME IInv, NEW r \in Runs, NEW a \in Agents, script[r] # Idle, a = script[r].agent,
         NEW s \in ScriptType, script' = [script EXCEPT ![r] = s],
         TypeOK', UNCHANGED <<foundation, born, runtime>>, Live' = Live,
         \A x \in secrets' : x.arn <= born,
         \A b \in Agents \ {a} : Untouched(b) /\ completed'[b] = completed[b],
         completed'[a] # None => OthersOf(r) = {},
         Served(a)', OwnSecrets(a)',
         \/ s = Idle
         \/ /\ s.at # "idle" /\ s.agent = a /\ s.plan = script[r].plan
            /\ s.alone = script[r].alone
            /\ s.at \notin Before("foundation") \cup {"secret"} => s.arn # None
            /\ Own(a, s.arn)
            /\ completed'[a] = None
            /\ s.alone => Knows(s)'
  PROVE  IInv'
<1>1. script[r].plan \in Plans BY DEF IInv, RunInv
<1>2. script'[r] = s /\ \A q \in Runs \ {r} : script'[q] = script[q] BY OneRun DEF IInv
<1>3. Owned' BY DEF IInv, Owned
<1>4. ASSUME NEW b \in Agents, b # a PROVE OwnSecrets(b)' /\ Served(b)'
  <2>1. Untouched(b) /\ completed'[b] = completed[b] BY <1>4
  <2>2. Served(b)' BY <2>1, ServedStays DEF IInv
  <2>3. OwnSecrets(b) BY DEF IInv
  <2>4. runtime'[b] = runtime[b] /\ update'[b] = update[b] BY <2>1 DEF Untouched
  <2>5. OwnSecrets(b)' BY <2>3, <2>4 DEF OwnSecrets, InProgress, Own
  <2> QED BY <2>2, <2>5
<1>5. \A b \in Agents : OwnSecrets(b)' /\ Served(b)' BY <1>4
<1>6. ASSUME NEW q \in Runs, q # r PROVE RunInv(q)'
  <2>1. script'[q] = script[q] BY <1>2, <1>6
  <2>2. SUFFICES ASSUME script[q] # Idle PROVE RunInv(q)' BY <2>1 DEF RunInv
  <2>3. PICK d \in ScriptType : d = script[q] BY TypesNamed DEF IInv
  <2>4. script'[q] = d BY <2>1, <2>3
  <2>5. /\ d # Idle /\ d.agent \in Agents /\ d.plan \in Plans /\ d.at # "idle"
        /\ Own(d.agent, d.arn)
        /\ completed[d.agent] = None
        /\ d.at \notin Before("foundation") \cup {"secret"} => d.arn # None
        /\ d.alone => \A t \in Runs \ {q} : script[t].agent # d.agent
        /\ d.alone => Knows(d)
    BY <2>2, <2>3 DEF IInv, RunInv
  <2>6. Own(d.agent, d.arn)' BY <2>5 DEF Own
  <2>7. CASE d.agent = a
    <3>1. q \in OthersOf(r) BY <1>6, <2>3, <2>7 DEF OthersOf
    <3>2. ~ d.alone BY <1>6, <2>5, <2>7
    <3>3. completed'[d.agent] = None BY <2>7, <3>1
    <3> QED BY <2>4, <2>5, <2>6, <3>2, <3>3 DEF RunInv
  <2>8. CASE d.agent # a
    <3>1. Untouched(d.agent) /\ completed'[d.agent] = None BY <2>5, <2>8
    <3>2. d.alone => Knows(d)' BY <2>5, <3>1, RunsKnow
    <3>3. s.agent # d.agent BY <2>5, <2>8, NoneAssumption DEF Idle
    <3>4. d.alone => \A t \in Runs \ {q} : script'[t].agent # d.agent BY <1>2, <2>5, <3>3
    <3> QED BY <2>4, <2>5, <2>6, <3>1, <3>2, <3>4 DEF RunInv
  <2> QED BY <2>7, <2>8
<1>7. RunInv(r)'
  <2>1. CASE s = Idle BY <1>2, <2>1 DEF RunInv
  <2>2. CASE s # Idle
    <3>1. ASSUME s.alone PROVE \A q \in Runs \ {r} : script'[q].agent # a
      <4>1. \A q \in Runs \ {r} : script[q].agent # a BY <2>2, <3>1 DEF IInv, RunInv
      <4> QED BY <4>1, <1>2
    <3>2. Own(a, s.arn)' BY <2>2 DEF Own
    <3> QED BY <1>1, <1>2, <2>2, <3>1, <3>2 DEF RunInv
  <2> QED BY <2>1, <2>2
<1> QED BY <1>3, <1>5, <1>6, <1>7 DEF IInv

\* What is known of a run that goes on.
LEMMA Running ==
  ASSUME IInv, NEW r \in Runs, script[r].at # "idle"
  PROVE  /\ script[r] \in ScriptType /\ script[r] # Idle
         /\ script[r].agent \in Agents /\ script[r].plan \in Plans
         /\ completed[script[r].agent] = None
         /\ Own(script[r].agent, script[r].arn)
         /\ script[r].at \notin Before("foundation") \cup {"secret"} => script[r].arn # None
         /\ script[r].alone => Knows(script[r]) /\ OthersOf(r) = {}
<1>1. script[r] \in ScriptType BY TypesNamed DEF IInv
<1>2. script[r] # Idle BY DEF Idle
<1> QED BY <1>1, <1>2 DEF IInv, RunInv, OthersOf

\* A step of a run that leaves the stacks and the secrets alone.
LEMMA QuietStep ==
  ASSUME IInv, NEW r \in Runs, NEW a \in Agents, script[r].at # "idle", a = script[r].agent,
         NEW s \in ScriptType, script' = [script EXCEPT ![r] = s], UNCHANGED <<cloud, begun>>,
         completed' \in [Agents -> Plans \cup {None}],
         \A b \in Agents \ {a} : completed'[b] = completed[b],
         completed'[a] # None => OthersOf(r) = {},
         Served(a)',
         \/ s = Idle
         \/ /\ s.at # "idle" /\ s.agent = a /\ s.plan = script[r].plan
            /\ s.alone = script[r].alone
            /\ s.at \notin Before("foundation") \cup {"secret"} => s.arn # None
            /\ Own(a, s.arn)
            /\ completed'[a] = None
            /\ s.alone => Knows(s)
  PROVE  IInv'
<1>1. UNCHANGED <<secrets, born, foundation, runtime, target, update>> BY DEF cloud, deployed
<1>2. script' \in [Runs -> ScriptType] BY OneRun DEF IInv
<1>3. Live' = Live BY <1>1 DEF Live
<1>4. \A b \in Agents, k \in Kinds : InProgress(b, k)' <=> InProgress(b, k) BY <1>1 DEF InProgress
<1>5. TypeOK'
  <2>1. UNCHANGED <<secrets, born, foundation, runtime, target, update, begun>> /\ Live' = Live
    BY <1>1, <1>3
  <2> QED BY <2>1, <1>2, <1>4, TypesNamed, NextTypesNamed DEF IInv
<1>6. OwnSecrets(a)' BY <1>1, <1>3 DEF IInv, OwnSecrets, Own, InProgress
<1>7. \A x \in secrets' : x.arn <= born BY <1>1 DEF IInv, Owned
<1>8. \A b \in Agents : Untouched(b) BY <1>1 DEF Untouched
<1>9. Knows(s) => Knows(s)'
  BY <1>1, <1>4 DEF Knows, HasFoundation, HasRuntime, HasTarget, HasSecret, Holds, InProgress
<1>10. script[r] # Idle BY Running
<1>11. \A b \in Agents \ {a} : Untouched(b) /\ completed'[b] = completed[b] BY <1>8
<1> QED BY <1>1, <1>3, <1>5, <1>6, <1>7, <1>9, <1>10, <1>11, RunMoves

\* A failure forgets what the run knew and keeps what it did.
LEMMA FailStep == ASSUME IInv, NEW r \in Runs, Fail(r) PROVE IInv'
<1>1. script[r].at # "idle" BY DEF Fail, IInv, RunInv
<1>2. PICK a \in Agents : a = script[r].agent BY <1>1, Running
<1>3. Idle \in ScriptType BY DEF Idle, ScriptType
<1>4. script' = [script EXCEPT ![r] = Idle] /\ UNCHANGED <<cloud, begun, completed>>
  BY DEF Fail, Ends
<1>5. completed'[a] = None BY <1>1, <1>2, <1>4, Running
<1>6. Served(a)' BY <1>5 DEF Served
<1>7. completed' \in [Agents -> Plans \cup {None}] BY <1>4 DEF IInv, TypeOK
<1> QED BY <1>1, <1>2, <1>3, <1>4, <1>5, <1>6, <1>7, QuietStep

\* A run that is through leaves what it knows.
LEMMA CompletesStep ==
  ASSUME IInv, NEW r \in Runs, script[r].at # "idle", Completes(r),
         NEW a \in Agents, a = script[r].agent, NEW p \in Plans, p = script[r].plan,
         script[r].alone => HasFoundation(a, p) /\ HasRuntime(a, p) /\ (~ p.skip => HasTarget(a, p))
  PROVE  IInv'
<1>1. Idle \in ScriptType BY DEF Idle, ScriptType
<1>2. /\ script' = [script EXCEPT ![r] = Idle] /\ UNCHANGED <<cloud, begun>>
      /\ completed' = [completed EXCEPT ![a] = IF script[r].alone THEN p ELSE None]
  BY DEF Completes, Ends
<1>3. completed \in [Agents -> Plans \cup {None}] BY DEF IInv, TypeOK
<1>4. completed' \in [Agents -> Plans \cup {None}] BY <1>2, <1>3
<1>5. completed'[a] = IF script[r].alone THEN p ELSE None BY <1>2, <1>3
<1>6. \A b \in Agents \ {a} : completed'[b] = completed[b] BY <1>2, <1>3
<1>7. completed'[a] # None => OthersOf(r) = {} BY <1>5, Running
<1>8. UNCHANGED <<secrets, born, foundation, runtime, target, update>> BY <1>2 DEF cloud, deployed
<1>9. script[r].alone => HasFoundation(a, p)' /\ HasRuntime(a, p)' /\ (~ p.skip => HasTarget(a, p)')
  BY <1>8 DEF HasFoundation, HasRuntime, HasTarget, HasSecret, Holds, InProgress
<1>10. Served(a)' BY <1>5, <1>9 DEF Served
<1> QED BY <1>1, <1>2, <1>4, <1>6, <1>7, <1>10, QuietStep

\* From a step to the next one, with what is known of the former.
LEMMA GoesStep ==
  ASSUME IInv, NEW r \in Runs, NEW at \in {"secret", "target"},
         script[r].at \in {"await foundation", "await runtime"},
         Goes(r, script[r], at), UNCHANGED <<cloud, begun, completed>>,
         NEW s, s = [script[r] EXCEPT !.at = at],
         at = "target" => script[r].at = "await runtime",
         s.alone => Knows(s)
  PROVE  IInv'
<1>1. script[r].at # "idle" OBVIOUS
<1>2. PICK a \in Agents : a = script[r].agent BY <1>1, Running
<1>3. /\ s \in ScriptType /\ s.at = at /\ s.plan = script[r].plan /\ s.arn = script[r].arn
      /\ s.agent = a /\ s.alone = script[r].alone
  BY <1>1, <1>2, Running DEF ScriptType
<1>4. script' = [script EXCEPT ![r] = s] BY DEF Goes
<1>5. completed'[a] = None BY <1>1, <1>2, Running
<1>6. Served(a)' BY <1>5 DEF Served
<1>7. completed' \in [Agents -> Plans \cup {None}] BY DEF IInv, TypeOK
<1>8. s.at \notin Before("foundation") \cup {"secret"} => s.arn # None
  BY <1>1, <1>3, Running DEF Before
<1>9. Own(a, s.arn) BY <1>1, <1>2, <1>3, Running
<1>10. s.at # "idle" BY <1>3
<1> QED BY <1>1, <1>2, <1>3, <1>4, <1>5, <1>6, <1>7, <1>8, <1>9, <1>10, QuietStep

\* A run that begins knows nothing yet; those that it joins know nothing any more.
LEMMA BeginStep == ASSUME IInv, NEW r \in Runs, Begin(r) PROVE IInv'
<1>1. PICK a \in Agents, p \in Plans :
        /\ script' = [q \in Runs |->
             IF q = r
               THEN [at |-> IF p.managed \/ p.network THEN "foundation" ELSE "secret",
                     agent |-> a, plan |-> p, arn |-> None,
                     alone |-> {t \in Runs : script[t].agent = a} = {}]
               ELSE [script[q] EXCEPT !.alone =
                       IF q \in {t \in Runs : script[t].agent = a} THEN FALSE ELSE @]]
        /\ completed' = [completed EXCEPT ![a] = None]
  BY DEF Begin
<1>2. /\ UNCHANGED <<secrets, born, foundation, runtime, target, update>>
      /\ script[r] = Idle /\ begun' \in 0..MaxBegun
  <2>1. UNCHANGED <<secrets, born, foundation, runtime, target, update>> /\ script[r] = Idle
    BY DEF Begin, cloud, deployed
  <2>2. begun' = begun + 1 /\ begun < MaxBegun BY DEF Begin
  <2>3. begun \in 0..MaxBegun BY TypesNamed DEF IInv
  <2> QED BY <2>1, <2>2, <2>3, PlanAssumption
<1>3. /\ completed \in [Agents -> Plans \cup {None}] /\ completed' \in [Agents -> Plans \cup {None}]
      /\ completed'[a] = None /\ \A b \in Agents \ {a} : completed'[b] = completed[b]
  BY <1>1 DEF IInv, TypeOK
<1>4. PICK s \in ScriptType :
        /\ script'[r] = s /\ s.at \in {"foundation", "secret"} /\ s.agent = a /\ s.plan = p
        /\ s.arn = None /\ (s.alone => \A t \in Runs : script[t].agent # a)
        /\ s.at = "secret" => ~ p.managed
  <2> DEFINE s == [at |-> IF p.managed \/ p.network THEN "foundation" ELSE "secret",
                   agent |-> a, plan |-> p, arn |-> None,
                   alone |-> {t \in Runs : script[t].agent = a} = {}]
  <2>1. s \in ScriptType BY DEF ScriptType
  <2>2. script'[r] = s BY <1>1
  <2> QED BY <2>1, <2>2
<1>5. ASSUME NEW q \in Runs, q # r
      PROVE  /\ script'[q] \in ScriptType /\ script[q] \in ScriptType
             /\ script[q] = Idle => script'[q] = Idle
             /\ script'[q].at = script[q].at /\ script'[q].agent = script[q].agent
             /\ script'[q].plan = script[q].plan /\ script'[q].arn = script[q].arn
             /\ script'[q].alone => script[q].alone /\ script[q].agent # a
  <2>1. PICK d \in ScriptType : d = script[q] BY TypesNamed DEF IInv
  <2>2. CASE d.agent = a
    <3>1. script'[q] = [d EXCEPT !.alone = FALSE] BY <1>1, <1>5, <2>1, <2>2
    <3>2. d # Idle BY <2>2, NoneAssumption DEF Idle
    <3> QED BY <2>1, <3>1, <3>2 DEF ScriptType
  <2>3. CASE d.agent # a
    <3>1. script'[q] = [d EXCEPT !.alone = d.alone] BY <1>1, <1>5, <2>1, <2>3
    <3>2. [d EXCEPT !.alone = d.alone] = d BY DEF ScriptType
    <3> QED BY <2>1, <2>3, <3>1, <3>2
  <2> QED BY <2>2, <2>3
<1>6. script' \in [Runs -> ScriptType]
  <2>1. \A q \in Runs : script'[q] \in ScriptType BY <1>4, <1>5
  <2> QED BY <1>1, <2>1
<1>7. Live' = Live BY <1>2 DEF Live
<1>8. TypeOK'
  <2>1. \A b \in Agents, k \in Kinds : InProgress(b, k)' <=> InProgress(b, k) BY <1>2 DEF InProgress
  <2> QED BY <1>2, <1>3, <1>6, <1>7, <2>1, TypesNamed, NextTypesNamed DEF IInv
<1>9. Owned' BY <1>2 DEF IInv, Owned
<1>10. \A b \in Agents : Untouched(b) BY <1>2 DEF Untouched
<1>11. ASSUME NEW b \in Agents PROVE OwnSecrets(b)' /\ Served(b)'
  <2>1. OwnSecrets(b)' BY <1>2, <1>7 DEF IInv, OwnSecrets, Own, InProgress
  <2>2. CASE b = a BY <1>3, <2>1, <2>2 DEF Served
  <2>3. CASE b # a BY <1>3, <1>10, <2>1, <2>3, ServedStays DEF IInv
  <2> QED BY <2>2, <2>3
<1>12. RunInv(r)'
  <2>1. Own(a, None)' BY <1>7, NoneAssumption DEF Own, IInv, TypeOK, Arns
  <2>2. s.alone => Knows(s)' BY <1>4 DEF Knows, HasFoundation, Before
  <2>3. s.alone => \A q \in Runs \ {r} : script'[q].agent # a BY <1>4, <1>5
  <2>4. s.at # "idle" /\ s.at \in Before("foundation") \cup {"secret"} BY <1>4 DEF Before
  <2> QED BY <1>3, <1>4, <2>1, <2>2, <2>3, <2>4 DEF RunInv
<1>13. ASSUME NEW q \in Runs, q # r PROVE RunInv(q)'
  <2>1. SUFFICES ASSUME script[q] # Idle PROVE RunInv(q)' BY <1>5, <1>13 DEF RunInv
  <2>2. PICK d \in ScriptType : d = script[q] BY <1>5, <1>13
  <2>3. PICK e \in ScriptType : e = script'[q] BY <1>5, <1>13
  <2>4. /\ e.at = d.at /\ e.agent = d.agent /\ e.plan = d.plan /\ e.arn = d.arn
        /\ e.alone => d.alone /\ d.agent # a
    BY <1>5, <1>13, <2>2, <2>3
  <2>5. /\ d.agent \in Agents /\ d.plan \in Plans /\ d.at # "idle" /\ Own(d.agent, d.arn)
        /\ completed[d.agent] = None
        /\ d.at \notin Before("foundation") \cup {"secret"} => d.arn # None
        /\ d.alone => \A t \in Runs \ {q} : script[t].agent # d.agent
        /\ d.alone => Knows(d)
    BY <2>1, <2>2 DEF IInv, RunInv
  <2>6. Own(e.agent, e.arn)' BY <1>2, <1>7, <2>4, <2>5 DEF Own
  <2>7. completed'[e.agent] = None BY <1>3, <2>4, <2>5
  <2>8. e.alone => \A t \in Runs \ {q} : script'[t].agent # e.agent
    BY <1>4, <1>5, <2>4, <2>5
  <2>9. e.alone => Knows(e)'
    <3>1. d.alone => Knows(d)' BY <1>10, <2>5, RunsKnow
    <3> QED BY <2>4, <3>1 DEF Knows
  <2> QED BY <2>3, <2>4, <2>5, <2>6, <2>7, <2>8, <2>9 DEF RunInv
<1> QED BY <1>8, <1>9, <1>11, <1>12, <1>13 DEF IInv

------------------------------------------------------------------------------
(* Steps of a run that begin an update or write the secret.                  *)

\* What a run hands to a stack.
Handed(s, kind) ==
  CASE kind = "foundation" -> [managed |-> s.plan.managed, name |-> s.plan.name]
    [] kind = "runtime" -> [secret |-> s.arn, audience |-> s.plan.target]
    [] kind = "target" -> s.plan.target

LEMMA HandedOver ==
  ASSUME NEW s
  PROVE  /\ Handed(s, "foundation") = [managed |-> s.plan.managed, name |-> s.plan.name]
         /\ Handed(s, "runtime") = [secret |-> s.arn, audience |-> s.plan.target]
         /\ Handed(s, "target") = s.plan.target
BY DEF Handed

LEMMA Waits ==
  /\ Wait("foundation") = "await foundation"
  /\ Wait("runtime") = "await runtime"
  /\ Wait("target") = "await target"
BY DEF Wait

LEMMA Befores ==
  /\ Before("foundation") = {"foundation", "await foundation"}
  /\ Before("runtime") = {"foundation", "await foundation", "secret", "runtime", "await runtime"}
BY DEF Before

\* What a run that waits for a stack knows of the update it began.
LEMMA SubmitKnows ==
  ASSUME NEW s \in ScriptType, NEW t \in ScriptType, NEW kind \in Kinds,
         s.agent \in Agents, s.at = kind, Knows(s),
         t.at = Wait(kind), t.agent = s.agent, t.plan = s.plan, t.arn = s.arn,
         UNCHANGED <<secrets, foundation, runtime, target>>,
         update'[s.agent][kind].status = "in progress",
         update'[s.agent][kind].given = Handed(s, kind),
         \A j \in Kinds \ {kind} : update'[s.agent][j] = update[s.agent][j]
  PROVE  Knows(t)'
<1>2. "foundation" \in Kinds /\ "runtime" \in Kinds /\ "target" \in Kinds BY DEF Kinds
<1>4. \A p : HasFoundation(s.agent, p) /\ kind # "foundation" => HasFoundation(s.agent, p)'
  BY <1>2 DEF HasFoundation, InProgress
<1>5. \A p, x : HasSecret(s.agent, p, x) => HasSecret(s.agent, p, x)' BY DEF HasSecret, Holds
<1>6. \A p : HasRuntime(s.agent, p) /\ kind # "runtime" => HasRuntime(s.agent, p)'
  BY <1>2 DEF HasRuntime, InProgress, HasSecret, Holds
<1>7. CASE kind = "foundation"
  <2>1. t.at = "await foundation" /\ s.at = "foundation" BY <1>7, Waits
  <2>2. /\ update'[s.agent]["foundation"].status = "in progress"
        /\ update'[s.agent]["foundation"].given = [managed |-> s.plan.managed, name |-> s.plan.name]
    BY <1>7, HandedOver
  <2> QED BY <2>1, <2>2, Befores DEF Knows
<1>8. CASE kind = "runtime"
  <2>1. HasFoundation(s.agent, s.plan) /\ HasSecret(s.agent, s.plan, s.arn)
    BY <1>8, Befores DEF Knows
  <2>2. HasFoundation(s.agent, s.plan)' /\ HasSecret(s.agent, s.plan, s.arn)'
    BY <1>4, <1>5, <1>8, <2>1
  <2>3. t.at = "await runtime" BY <1>8, Waits
  <2>4. /\ update'[s.agent]["runtime"].status = "in progress"
        /\ update'[s.agent]["runtime"].given = [secret |-> s.arn, audience |-> s.plan.target]
    BY <1>8, HandedOver
  <2> QED BY <2>2, <2>3, <2>4, Befores DEF Knows
<1>9. CASE kind = "target"
  <2>1. /\ HasFoundation(s.agent, s.plan) /\ HasSecret(s.agent, s.plan, s.arn)
        /\ HasRuntime(s.agent, s.plan)
    BY <1>9, Befores DEF Knows
  <2>2. /\ HasFoundation(s.agent, s.plan)' /\ HasSecret(s.agent, s.plan, s.arn)'
        /\ HasRuntime(s.agent, s.plan)'
    BY <1>4, <1>5, <1>6, <1>9, <2>1
  <2>3. t.at = "await target" BY <1>9, Waits
  <2>4. /\ update'[s.agent]["target"].status = "in progress"
        /\ update'[s.agent]["target"].given = s.plan.target
    BY <1>9, HandedOver
  <2> QED BY <2>2, <2>3, <2>4, Befores DEF Knows
<1> QED BY <1>7, <1>8, <1>9 DEF Kinds

\* aws cloudformation deploy, for any of the stacks.
LEMMA SubmitStep ==
  ASSUME IInv, NEW r \in Runs, NEW kind \in Kinds,
         Submit(r, kind, Handed(script[r], kind))
  PROVE  IInv'
<1>1. PICK s \in ScriptType : s = script[r] BY TypesNamed DEF IInv
<1>2. script[r].at = kind /\ script[r].at # "idle" BY DEF Submit, Kinds
<1>3. PICK a \in Agents : a = s.agent BY <1>1, <1>2, Running
<1>4. /\ s.plan \in Plans /\ completed[a] = None /\ Own(a, s.arn) /\ s # Idle
      /\ s.at \notin Before("foundation") \cup {"secret"} => s.arn # None
      /\ s.alone => Knows(s)
  BY <1>1, <1>2, <1>3, Running
<1>5. PICK t \in ScriptType :
        /\ t = [s EXCEPT !.at = Wait(kind)]
        /\ t.at = Wait(kind) /\ t.agent = s.agent /\ t.plan = s.plan /\ t.arn = s.arn
        /\ t.alone = s.alone
  <2>1. PICK w \in {"await foundation", "await runtime", "await target"} : w = Wait(kind)
    BY Waits DEF Kinds
  <2> DEFINE t == [s EXCEPT !.at = w]
  <2>2. /\ t \in ScriptType /\ t.at = w /\ t.agent = s.agent /\ t.plan = s.plan /\ t.arn = s.arn
        /\ t.alone = s.alone
    BY DEF ScriptType
  <2> QED BY <2>1, <2>2
<1>6. /\ script' = [script EXCEPT ![r] = t]
      /\ UNCHANGED <<secrets, born, foundation, runtime, target, begun, completed>>
  BY <1>1, <1>5 DEF Submit, Goes, deployed
<1>7. Handed(s, kind) \in Given(kind)
  <2>1. s.plan \in Plan BY <1>4, PlanAssumption
  <2>2. CASE kind = "foundation" BY <2>1, <2>2 DEF Handed, Given, Plan
  <2>3. CASE kind = "runtime"
    <3>1. s.arn # None BY <1>1, <1>2, <1>4, <2>3 DEF Before
    <3>2. s.arn \in Arns \cup {External} BY <3>1 DEF ScriptType
    <3> QED BY <2>1, <2>3, <3>2 DEF Handed, Given, Plan
  <2>4. CASE kind = "target" BY <2>1, <2>4 DEF Handed, Given, Plan
  <2> QED BY <2>2, <2>3, <2>4 DEF Kinds
<1>8. PICK u \in UpdateType :
        /\ u = [status |-> "in progress", given |-> Handed(s, kind)]
        /\ u.status = "in progress" /\ u.given = Handed(s, kind)
  <2>1. PICK g \in UNION {Given(k) : k \in Kinds} : g = Handed(s, kind) BY <1>7
  <2>2. [status |-> "in progress", given |-> g] \in UpdateType BY DEF UpdateType, Statuses
  <2> QED BY <2>1, <2>2
<1>9. update' = [update EXCEPT ![a][kind] = u] BY <1>1, <1>3, <1>8 DEF Submit
<1>10. /\ update' \in [Agents -> [Kinds -> UpdateType]] /\ update'[a][kind] = u
       /\ \A j \in Kinds \ {kind} : update'[a][j] = update[a][j]
       /\ \A b \in Agents \ {a} : update'[b] = update[b]
  BY <1>9, OneUpdate DEF IInv
<1>11. Live' = Live BY <1>6 DEF Live
<1>12. TypeOK'
  <2>1. ASSUME NEW b \in Agents, NEW k \in Kinds, InProgress(b, k)'
        PROVE  update'[b][k].given \in Given(k)
    <3>1. CASE b = a /\ k = kind
      <4>1. update'[b][k] = u BY <1>10, <3>1
      <4> QED BY <1>7, <1>8, <3>1, <4>1
    <3>2. CASE ~ (b = a /\ k = kind)
      <4>1. update'[b][k] = update[b][k] BY <1>10, <3>2
      <4> QED BY <2>1, <4>1, TypesNamed DEF IInv, InProgress
    <3> QED BY <3>1, <3>2
  <2>2. script' \in [Runs -> ScriptType] BY <1>6, OneRun DEF IInv
  <2> QED BY <1>6, <1>10, <1>11, <2>1, <2>2, TypesNamed, NextTypesNamed DEF IInv
<1>13. OwnSecrets(a)'
  <2>1. OwnSecrets(a) BY DEF IInv
  <2>2. Own(a, runtime[a].secret)' BY <1>6, <1>11, <2>1 DEF OwnSecrets, Own
  <2>3. CASE kind = "runtime"
    <3>1. u.given.secret = s.arn
      <4>1. u.given = [secret |-> s.arn, audience |-> s.plan.target] BY <1>8, <2>3, HandedOver
      <4> QED BY <4>1
    <3>4. update'[a]["runtime"] = u BY <1>10, <2>3
    <3>2. Own(a, s.arn)' BY <1>4, <1>6, <1>11 DEF Own
    <3> QED BY <2>2, <3>1, <3>2, <3>4 DEF OwnSecrets, Own
  <2>4. CASE kind # "runtime"
    <3>1. update'[a]["runtime"] = update[a]["runtime"] BY <1>10, <2>4 DEF Kinds
    <3> QED BY <1>6, <1>11, <2>1, <2>2, <3>1 DEF OwnSecrets, Own, InProgress
  <2> QED BY <2>3, <2>4
<1>14. \A b \in Agents \ {a} : Untouched(b) /\ completed'[b] = completed[b]
  BY <1>6, <1>10 DEF Untouched
<1>15. Served(a)' BY <1>4, <1>6 DEF Served
<1>16. s.alone => Knows(t)'
  <2>1. update'[s.agent][kind].status = "in progress" /\ update'[s.agent][kind].given = Handed(s, kind)
    BY <1>3, <1>8, <1>10
  <2>2. \A j \in Kinds \ {kind} : update'[s.agent][j] = update[s.agent][j] BY <1>3, <1>10
  <2>3. UNCHANGED <<secrets, foundation, runtime, target>> BY <1>6
  <2>4. s.at = kind /\ s.agent \in Agents BY <1>1, <1>2, <1>3
  <2> QED BY <1>4, <1>5, <2>1, <2>2, <2>3, <2>4, SubmitKnows
<1>17. \A x \in secrets' : x.arn <= born BY <1>6 DEF IInv, Owned
<1>18. t.at # "idle" /\ (t.at \notin Before("foundation") \cup {"secret"} => t.arn # None)
  <2>1. t.at \in {"await foundation", "await runtime", "await target"} BY <1>5, Waits DEF Kinds
  <2>2. kind # "foundation" => t.arn # None BY <1>1, <1>2, <1>4, <1>5, Befores DEF Kinds
  <2>3. kind = "foundation" => t.at = "await foundation" BY <1>5, Waits
  <2> QED BY <2>1, <2>2, <2>3, Befores
<1>19. completed'[a] = None BY <1>4, <1>6
<1>20. UNCHANGED <<foundation, born, runtime>> BY <1>6
<1> QED BY <1>1, <1>3, <1>4, <1>5, <1>6, <1>11, <1>12, <1>13, <1>14, <1>15, <1>16, <1>17, <1>18,
           <1>19, <1>20, RunMoves

\* Writing the value changes no other secret; the run knows its own from here on.
LEMMA WriteStep == ASSUME IInv, NEW r \in Runs, WriteSecret(r) PROVE IInv'
<1>1. PICK s \in ScriptType : s = script[r] BY TypesNamed DEF IInv
<1>2. s.at = "secret" /\ script[r].at # "idle" BY <1>1 DEF WriteSecret
<1>3. PICK a \in Agents : a = s.agent BY <1>1, <1>2, Running
<1>4. /\ s.plan \in Plans /\ completed[a] = None /\ s # Idle
      /\ s.alone => Knows(s) /\ OthersOf(r) = {}
  BY <1>1, <1>2, <1>3, Running
<1> DEFINE p == s.plan
           f == foundation[a]
           write(x) == IF x.arn = f /\ p.string # None THEN [x EXCEPT !.value = p.string] ELSE x
<1>5. p.string \in Strings \cup {None} /\ p.managed \in BOOLEAN BY <1>4, PlanAssumption DEF Plan
<1>6. PICK arn : arn = IF p.managed THEN f ELSE External OBVIOUS
<1>7. /\ p.managed => f \in Live /\ secrets' = {write(x) : x \in secrets}
      /\ ~ p.managed => secrets' = secrets
      /\ script' = [script EXCEPT ![r] = [[s EXCEPT !.arn = arn] EXCEPT !.at = "runtime"]]
      /\ UNCHANGED <<born, foundation, runtime, target, update, begun, completed>>
  <2>1. CASE p.managed BY <1>1, <1>3, <1>6, <2>1 DEF WriteSecret, Goes
  <2>2. CASE ~ p.managed BY <1>1, <1>3, <1>6, <2>2 DEF WriteSecret, Goes
  <2> QED BY <2>1, <2>2
<1>8. f \in Arns \cup {None} /\ Live \subseteq Arns
  BY TypesNamed DEF IInv, Live, SecretType
<1>9. arn \in Arns \cup {External} /\ arn # None
  <2>1. None \notin Arns /\ External # None BY NoneAssumption DEF Arns
  <2> QED BY <1>6, <1>7, <1>8, <2>1
<1>10. PICK t \in ScriptType :
         /\ script' = [script EXCEPT ![r] = t]
         /\ t.at = "runtime" /\ t.agent = a /\ t.plan = p /\ t.arn = arn /\ t.alone = s.alone
  <2> DEFINE u == [s EXCEPT !.arn = arn]
             t == [u EXCEPT !.at = "runtime"]
  <2>1. u \in ScriptType /\ u.agent = s.agent /\ u.plan = p /\ u.arn = arn /\ u.alone = s.alone
    BY <1>9 DEF ScriptType
  <2>2. /\ t \in ScriptType /\ t.at = "runtime" /\ t.agent = u.agent /\ t.plan = u.plan
        /\ t.arn = u.arn /\ t.alone = u.alone
    <3> HIDE DEF u
    <3> QED BY <2>1 DEF ScriptType
  <2>3. script' = [script EXCEPT ![r] = t] BY <1>7
  <2> QED BY <1>3, <2>1, <2>2, <2>3
<1>11. \A x \in secrets : /\ write(x) \in SecretType /\ write(x).arn = x.arn
                          /\ write(x).name = x.name
                          /\ x.arn # f => write(x) = x
                          /\ x.arn = f /\ p.string # None => write(x).value = p.string
  <2>1. secrets \subseteq SecretType BY TypesNamed DEF IInv
  <2> QED BY <1>5, <2>1 DEF SecretType
<1> HIDE DEF write
<1>12. /\ Live' = Live /\ secrets' \subseteq SecretType
       /\ \A x, y \in secrets' : x.arn = y.arn => x = y
       /\ \A x \in secrets' : x.arn <= born
  <2>1. /\ \A x, y \in secrets : x.arn = y.arn => x = y
        /\ \A x \in secrets : x \in SecretType /\ x.arn <= born
    BY TypesNamed DEF IInv, Owned
  <2>2. CASE p.managed
    <3>1. secrets' = {write(x) : x \in secrets} BY <2>2, <1>7
    <3>2. Live' = Live
      <4>1. ASSUME NEW x \in secrets' PROVE x.arn \in Live BY <3>1, <1>11 DEF Live
      <4>2. ASSUME NEW x \in secrets PROVE x.arn \in Live' BY <3>1, <1>11 DEF Live
      <4> QED BY <4>1, <4>2 DEF Live
    <3>3. ASSUME NEW x \in secrets', NEW y \in secrets', x.arn = y.arn PROVE x = y
      <4>1. PICK v \in secrets : x = write(v) BY <3>1
      <4>2. PICK w \in secrets : y = write(w) BY <3>1
      <4>3. v = w BY <2>1, <4>1, <4>2, <3>3, <1>11
      <4> QED BY <4>1, <4>2, <4>3
    <3>4. ASSUME NEW x \in secrets' PROVE x \in SecretType /\ x.arn <= born
      <4>1. PICK v \in secrets : x = write(v) BY <3>1
      <4> QED BY <2>1, <4>1, <1>11
    <3> QED BY <3>2, <3>3, <3>4
  <2>3. CASE ~ p.managed BY <2>1, <2>3, <1>7 DEF Live
  <2> QED BY <2>2, <2>3
<1>13. \A b \in Agents, k \in Kinds : InProgress(b, k)' <=> InProgress(b, k) BY <1>7 DEF InProgress
<1>14. TypeOK'
  <2>1. script' \in [Runs -> ScriptType] BY <1>10, OneRun DEF IInv
  <2> QED BY <1>7, <1>12, <1>13, <2>1, TypesNamed, NextTypesNamed DEF IInv
<1>15. OwnSecrets(a)' BY <1>7, <1>12 DEF IInv, OwnSecrets, Own, InProgress
<1>16. ASSUME NEW b \in Agents, b # a PROVE Untouched(b) /\ completed'[b] = completed[b]
  <2>1. ASSUME NEW x \in secrets, x.arn = foundation[b] PROVE x \in secrets'
    <3>1. CASE ~ p.managed BY <1>7, <3>1
    <3>2. CASE p.managed
      <4>1. x.arn # f
        <5>1. x.arn # None BY <1>8, NoneAssumption DEF Live, Arns
        <5> QED BY <1>16, <2>1, <5>1 DEF IInv, Owned
      <4>2. write(x) = x BY <4>1, <1>11
      <4> QED BY <1>7, <3>2, <4>2
    <3> QED BY <3>1, <3>2
  <2> QED BY <1>7, <2>1 DEF Untouched
<1>17. Served(a)' /\ completed'[a] = None BY <1>4, <1>7 DEF Served
<1>18. Own(a, arn)
  <2>1. f \in Live => \E x \in secrets : x.arn = f BY DEF Live
  <2>2. External \notin Arns BY NoneAssumption DEF Arns
  <2>3. External \notin Live BY <1>8, <2>2
  <2>4. CASE p.managed BY <1>6, <1>7, <2>1, <2>4 DEF Own, IInv, Owned
  <2>5. CASE ~ p.managed BY <1>6, <2>2, <2>3, <2>5 DEF Own
  <2> QED BY <2>4, <2>5
<1>19. s.alone => Knows(t)'
  <2> SUFFICES ASSUME s.alone PROVE Knows(t)' OBVIOUS
  <2>1. HasFoundation(a, p) BY <1>2, <1>3, <1>4, Befores DEF Knows
  <2>2. CASE ~ p.managed
    <3>1. HasFoundation(a, p)' /\ HasSecret(a, p, arn)' BY <1>6, <2>2 DEF HasFoundation, HasSecret
    <3> QED BY <1>10, <3>1, Befores DEF Knows
  <2>3. CASE p.managed
    <3>1. PICK x \in secrets : x.arn = f /\ x.name = p.name BY <2>1, <2>3 DEF HasFoundation
    <3>2. PICK y \in secrets' : y.arn = f /\ y.name = p.name /\ (p.string # None => y.value = p.string)
      <4>1. write(x) \in secrets' BY <1>7, <2>3
      <4> QED BY <1>11, <3>1, <4>1
    <3>3. HasFoundation(a, p)'
      <4>1. ~ InProgress(a, "foundation") BY <2>1, <2>3 DEF HasFoundation
      <4> QED BY <1>7, <3>2, <4>1 DEF HasFoundation, InProgress
    <3>4. HasSecret(a, p, arn)' BY <1>6, <1>7, <2>3, <3>2 DEF HasSecret, Holds
    <3> QED BY <1>10, <3>3, <3>4, Befores DEF Knows
  <2> QED BY <2>2, <2>3
<1>20. t.at # "idle" /\ t.arn # None BY <1>9, <1>10
<1>21. UNCHANGED <<foundation, born, runtime>> BY <1>7
<1> QED BY <1>1, <1>3, <1>4, <1>10, <1>12, <1>14, <1>15, <1>16, <1>17, <1>18, <1>19, <1>20, <1>21,
           RunMoves

------------------------------------------------------------------------------
(* The steps of deploy.sh with a stack each.                                 *)

\* A run that finds its update complete knows what the stack has.
LEMMA FoundStep ==
  ASSUME IInv, NEW r \in Runs, NEW kind \in Kinds, Finds(r, kind)
  PROVE  /\ script[r] \in ScriptType /\ script[r].at = Wait(kind) /\ script[r].at # "idle"
         /\ script[r].agent \in Agents /\ script[r].plan \in Plans
         /\ script[r].alone =>
              /\ HasFoundation(script[r].agent, script[r].plan)
              /\ kind # "foundation" =>
                   /\ HasSecret(script[r].agent, script[r].plan, script[r].arn)
                   /\ HasRuntime(script[r].agent, script[r].plan)
              /\ kind = "target" => HasTarget(script[r].agent, script[r].plan)
<1>1. script[r].at = Wait(kind) /\ update[script[r].agent][kind].status = "complete" BY DEF Finds
<1>2. CASE kind = "foundation"
  <2>1. script[r].at = "await foundation" BY <1>1, <1>2, Waits
  <2> QED BY <1>1, <1>2, <2>1, Running DEF Knows
<1>3. CASE kind = "runtime"
  <2>1. script[r].at = "await runtime" BY <1>1, <1>3, Waits
  <2> QED BY <1>1, <1>3, <2>1, Running, Befores DEF Knows
<1>4. CASE kind = "target"
  <2>1. script[r].at = "await target" BY <1>1, <1>4, Waits
  <2> QED BY <1>1, <1>4, <2>1, Running, Befores DEF Knows
<1> QED BY <1>2, <1>3, <1>4 DEF Kinds

LEMMA FoundationRun == ASSUME IInv, NEW r \in Runs, DeployFoundation(r) PROVE IInv'
<1>1. "foundation" \in Kinds BY DEF Kinds
<1>2. CASE Submit(r, "foundation",
                  [managed |-> script[r].plan.managed, name |-> script[r].plan.name])
  <2>1. Submit(r, "foundation", Handed(script[r], "foundation")) BY <1>2, HandedOver
  <2> QED BY <1>1, <2>1, SubmitStep
<1>3. CASE Finds(r, "foundation") /\ Goes(r, script[r], "secret") /\ UNCHANGED <<cloud, begun, completed>>
  <2>1. PICK d \in ScriptType :
          /\ d = script[r] /\ d.at = "await foundation"
          /\ d.alone => HasFoundation(d.agent, d.plan)
    BY <1>1, <1>3, FoundStep, Waits
  <2>2. PICK s \in ScriptType :
          /\ s = [d EXCEPT !.at = "secret"] /\ s.at = "secret"
          /\ s.agent = d.agent /\ s.plan = d.plan /\ s.alone = d.alone
    <3> DEFINE u == [d EXCEPT !.at = "secret"]
    <3>1. /\ u \in ScriptType /\ u.at = "secret" /\ u.agent = d.agent /\ u.plan = d.plan
          /\ u.arn = d.arn /\ u.alone = d.alone
      BY DEF ScriptType
    <3> QED BY <3>1
  <2>3. s.alone => Knows(s) BY <2>1, <2>2, Befores DEF Knows
  <2> QED BY <1>3, <2>1, <2>2, <2>3, GoesStep
<1> QED BY <1>2, <1>3 DEF DeployFoundation

LEMMA RuntimeRun == ASSUME IInv, NEW r \in Runs, DeployRuntime(r) PROVE IInv'
<1>1. "runtime" \in Kinds /\ "runtime" # "foundation" BY DEF Kinds
<1>2. CASE Submit(r, "runtime", [secret |-> script[r].arn, audience |-> script[r].plan.target])
  <2>1. Submit(r, "runtime", Handed(script[r], "runtime")) BY <1>2, HandedOver
  <2> QED BY <1>1, <2>1, SubmitStep
<1>3. ASSUME Finds(r, "runtime")
      PROVE  \E d \in ScriptType :
               /\ d = script[r] /\ d.at = "await runtime" /\ d.agent \in Agents /\ d.plan \in Plans
               /\ d.alone => /\ HasFoundation(d.agent, d.plan)
                             /\ HasSecret(d.agent, d.plan, d.arn)
                             /\ HasRuntime(d.agent, d.plan)
  BY <1>1, <1>3, FoundStep, Waits
<1>4. CASE Finds(r, "runtime") /\ script[r].plan.skip /\ Completes(r)
  <2>1. PICK d \in ScriptType :
          /\ d = script[r] /\ d.at = "await runtime" /\ d.agent \in Agents /\ d.plan \in Plans
          /\ d.alone => HasFoundation(d.agent, d.plan) /\ HasRuntime(d.agent, d.plan)
    BY <1>3, <1>4
  <2>2. d.plan.skip BY <1>4, <2>1
  <2> QED BY <1>4, <2>1, <2>2, CompletesStep
<1>5. CASE /\ Finds(r, "runtime") /\ Goes(r, script[r], "target")
           /\ UNCHANGED <<cloud, begun, completed>>
  <2>1. PICK d \in ScriptType :
          /\ d = script[r] /\ d.at = "await runtime"
          /\ d.alone => /\ HasFoundation(d.agent, d.plan)
                        /\ HasSecret(d.agent, d.plan, d.arn)
                        /\ HasRuntime(d.agent, d.plan)
    BY <1>3, <1>5
  <2>2. PICK s \in ScriptType :
          /\ s = [d EXCEPT !.at = "target"] /\ s.at = "target"
          /\ s.agent = d.agent /\ s.plan = d.plan /\ s.arn = d.arn /\ s.alone = d.alone
    <3> DEFINE u == [d EXCEPT !.at = "target"]
    <3>1. /\ u \in ScriptType /\ u.at = "target" /\ u.agent = d.agent /\ u.plan = d.plan
          /\ u.arn = d.arn /\ u.alone = d.alone
      BY DEF ScriptType
    <3> QED BY <3>1
  <2>3. s.alone => Knows(s) BY <2>1, <2>2, Befores DEF Knows
  <2> QED BY <1>5, <2>1, <2>2, <2>3, GoesStep
<1> QED BY <1>2, <1>4, <1>5 DEF DeployRuntime

LEMMA TargetRun == ASSUME IInv, NEW r \in Runs, DeployTarget(r) PROVE IInv'
<1>1. "target" \in Kinds /\ "target" # "foundation" BY DEF Kinds
<1>2. CASE Submit(r, "target", script[r].plan.target)
  <2>1. Submit(r, "target", Handed(script[r], "target")) BY <1>2, HandedOver
  <2> QED BY <1>1, <2>1, SubmitStep
<1>3. CASE Finds(r, "target") /\ Completes(r)
  <2>1. PICK d \in ScriptType :
          /\ d = script[r] /\ d.at # "idle" /\ d.agent \in Agents /\ d.plan \in Plans
          /\ d.alone => /\ HasFoundation(d.agent, d.plan) /\ HasRuntime(d.agent, d.plan)
                        /\ HasTarget(d.agent, d.plan)
    BY <1>1, <1>3, FoundStep
  <2> QED BY <1>3, <2>1, CompletesStep
<1> QED BY <1>2, <1>3 DEF DeployTarget

------------------------------------------------------------------------------
(* CloudFormation.                                                           *)

\* The stacks of agent a change: what the run that is alone with it knows stays
\* true, and so does what it left.
LEMMA StackMoves ==
  ASSUME IInv, NEW a \in Agents, UNCHANGED <<script, completed>>, TypeOK', Owned',
         \A b \in Agents : \A x \in Arns \cup {External, None} : Own(b, x) => Own(b, x)',
         OwnSecrets(a)', Served(a) => Served(a)',
         \A b \in Agents \ {a} : Untouched(b),
         \A s \in ScriptType : s.agent = a /\ s.plan \in Plans /\ s.at # "idle" /\ Knows(s) => Knows(s)'
  PROVE  IInv'
<1>1. ASSUME NEW b \in Agents, b # a PROVE OwnSecrets(b)' /\ Served(b)'
  <2>1. Untouched(b) BY <1>1
  <2>2. Served(b)' BY <2>1, ServedStays DEF IInv
  <2>3. OwnSecrets(b) /\ runtime[b].secret \in Arns \cup {External, None} BY TypesNamed DEF IInv
  <2>4. runtime'[b] = runtime[b] /\ update'[b] = update[b] BY <2>1 DEF Untouched
  <2>5. InProgress(b, "runtime") => update[b]["runtime"].given.secret \in Arns \cup {External, None}
    <3>1. "runtime" \in Kinds BY DEF Kinds
    <3>2. Given("runtime") = [secret : Arns \cup {External}, audience : Targets] BY DEF Given
    <3>3. InProgress(b, "runtime") => update[b]["runtime"].given \in Given("runtime")
      BY <3>1, TypesNamed DEF IInv
    <3>4. ASSUME NEW g \in Given("runtime") PROVE g.secret \in Arns \cup {External, None}
      <4>1. g \in [secret : Arns \cup {External}, audience : Targets] BY <3>2, Zenon
      <4> QED BY <4>1
    <3> QED BY <3>3, <3>4
  <2>6. \A x \in Arns \cup {External, None} : Own(b, x) => Own(b, x)' OBVIOUS
  <2>7. OwnSecrets(b)' BY <2>3, <2>4, <2>5, <2>6 DEF OwnSecrets, InProgress, Own
  <2> QED BY <2>2, <2>7
<1>2. ASSUME NEW r \in Runs PROVE RunInv(r)'
  <2>1. PICK d \in ScriptType : d = script[r] BY TypesNamed DEF IInv
  <2>2. script'[r] = d /\ \A q \in Runs : script'[q] = script[q] BY <2>1
  <2>3. SUFFICES ASSUME d # Idle PROVE RunInv(r)' BY <2>2 DEF RunInv
  <2>4. /\ d.agent \in Agents /\ d.plan \in Plans /\ d.at # "idle" /\ Own(d.agent, d.arn)
        /\ completed[d.agent] = None
        /\ d.at \notin Before("foundation") \cup {"secret"} => d.arn # None
        /\ d.alone => \A q \in Runs \ {r} : script[q].agent # d.agent
        /\ d.alone => Knows(d)
    BY <2>1, <2>3 DEF IInv, RunInv
  <2>5. d.arn \in Arns \cup {External, None} BY DEF ScriptType
  <2>6. Own(d.agent, d.arn)' BY <2>4, <2>5
  <2>7. d.alone => Knows(d)'
    <3>1. CASE d.agent = a BY <2>4, <3>1
    <3>2. CASE d.agent # a BY <2>4, <3>2, RunsKnow
    <3> QED BY <3>1, <3>2
  <2>8. completed'[d.agent] = None BY <2>4
  <2> QED BY <2>2, <2>4, <2>6, <2>7, <2>8 DEF RunInv
<1>3. \A b \in Agents : OwnSecrets(b)' /\ Served(b)' BY <1>1 DEF IInv
<1> QED BY <1>2, <1>3 DEF IInv

\* An update that has ended is not in progress, and no other one is touched.
LEMMA UpdateEnds ==
  ASSUME TypeOK, NEW a \in Agents, NEW kind \in Kinds, NEW how \in {"complete", "rolled back"},
         Ended(a, kind, how)
  PROVE  /\ update' \in [Agents -> [Kinds -> UpdateType]]
         /\ update'[a][kind].status = how
         /\ \A j \in Kinds \ {kind} : update'[a][j] = update[a][j]
         /\ \A b \in Agents \ {a} : update'[b] = update[b]
         /\ \A b \in Agents, k \in Kinds :
              InProgress(b, k)' => InProgress(b, k) /\ update'[b][k] = update[b][k]
<1> DEFINE u == [NoUpdate EXCEPT !.status = how]
<1>1. u \in UpdateType /\ u.status = how BY DEF NoUpdate, UpdateType, Statuses
<1>2. update' = [update EXCEPT ![a][kind] = u] BY DEF Ended
<1> HIDE DEF u
<1>3. /\ update' \in [Agents -> [Kinds -> UpdateType]] /\ update'[a][kind] = u
      /\ \A j \in Kinds \ {kind} : update'[a][j] = update[a][j]
      /\ \A b \in Agents \ {a} : update'[b] = update[b]
  BY <1>1, <1>2, OneUpdate
<1>4. ASSUME NEW b \in Agents, NEW k \in Kinds, InProgress(b, k)'
      PROVE  InProgress(b, k) /\ update'[b][k] = update[b][k]
  <2>1. b # a \/ k # kind BY <1>1, <1>3, <1>4 DEF InProgress
  <2>2. update'[b][k] = update[b][k] BY <1>3, <2>1
  <2> QED BY <1>4, <2>2 DEF InProgress
<1> QED BY <1>1, <1>3, <1>4

\* A stack that is rolled back has what it had.
LEMMA RolledBackStep == ASSUME IInv, NEW a \in Agents, RolledBack(a) PROVE IInv'
<1>1. PICK kind \in Kinds :
        /\ InProgress(a, kind) /\ Ended(a, kind, "rolled back")
        /\ UNCHANGED <<secrets, born, foundation, runtime, target, begun, script, completed>>
  BY DEF RolledBack, deployed
<1>2. /\ update' \in [Agents -> [Kinds -> UpdateType]]
      /\ update'[a][kind].status = "rolled back"
      /\ \A j \in Kinds \ {kind} : update'[a][j] = update[a][j]
      /\ \A b \in Agents \ {a} : update'[b] = update[b]
      /\ \A b \in Agents, k \in Kinds :
           InProgress(b, k)' => InProgress(b, k) /\ update'[b][k] = update[b][k]
  BY <1>1, UpdateEnds DEF IInv
<1>3. "foundation" \in Kinds /\ "runtime" \in Kinds /\ "target" \in Kinds BY DEF Kinds
<1>4. Live' = Live BY <1>1 DEF Live
<1>5. TypeOK'
  <2>1. \A b \in Agents, k \in Kinds : InProgress(b, k)' => update'[b][k].given \in Given(k)
    BY <1>2, TypesNamed DEF IInv
  <2>2. Live' = {foundation'[b] : b \in Agents} \ {None} BY <1>1, <1>4, TypesNamed DEF IInv
  <2>3. /\ runtime' \in [Agents -> [secret : Arns \cup {External, None}, audience : Targets \cup {None}]]
        /\ script' \in [Runs -> ScriptType]
    BY <1>1, TypesNamed DEF IInv
  <2> QED BY <1>1, <1>2, <2>1, <2>2, <2>3, TypesNamed, NextTypesNamed DEF IInv
<1>6. Owned' BY <1>1 DEF IInv, Owned
<1>7. \A b \in Agents : \A x \in Arns \cup {External, None} : Own(b, x) => Own(b, x)'
  BY <1>1, <1>4 DEF Own
<1>8. OwnSecrets(a)' BY <1>1, <1>2, <1>3, <1>4 DEF IInv, OwnSecrets, Own
<1>9. \A p : /\ HasFoundation(a, p) => HasFoundation(a, p)'
             /\ \A x : HasSecret(a, p, x) => HasSecret(a, p, x)'
  BY <1>1, <1>2, <1>3 DEF HasFoundation, HasSecret, Holds
<1>10. \A p : /\ HasRuntime(a, p) => HasRuntime(a, p)'
              /\ HasTarget(a, p) => HasTarget(a, p)'
  BY <1>1, <1>2, <1>3 DEF HasRuntime, HasTarget, HasSecret, Holds
<1>11. Served(a) => Served(a)' BY <1>1, <1>9, <1>10 DEF Served
<1>12. \A b \in Agents \ {a} : Untouched(b) BY <1>1, <1>2 DEF Untouched
<1>13. ASSUME NEW s \in ScriptType, s.agent = a, Knows(s) PROVE Knows(s)'
  <2>1. ASSUME NEW k \in Kinds, update'[a][k].status # "rolled back" PROVE update'[a][k] = update[a][k]
    BY <1>2, <2>1
  <2>2. /\ HasFoundation(a, s.plan) => HasFoundation(a, s.plan)'
        /\ HasSecret(a, s.plan, s.arn) => HasSecret(a, s.plan, s.arn)'
        /\ HasRuntime(a, s.plan) => HasRuntime(a, s.plan)'
        /\ HasTarget(a, s.plan) => HasTarget(a, s.plan)'
    BY <1>9, <1>10
  <2> QED BY <1>3, <1>13, <2>1, <2>2 DEF Knows
<1>14. UNCHANGED <<script, completed>> BY <1>1
<1> QED BY <1>5, <1>6, <1>7, <1>8, <1>11, <1>12, <1>13, <1>14, StackMoves

\* The Runtime has what its update was begun with, which a run that waits knows.
LEMMA RuntimeUpdatedStep == ASSUME IInv, NEW a \in Agents, RuntimeUpdated(a) PROVE IInv'
<1>1. "foundation" \in Kinds /\ "runtime" \in Kinds /\ "target" \in Kinds BY DEF Kinds
<1>2. PICK g \in [secret : Arns \cup {External}, audience : Targets] :
        g = update[a]["runtime"].given
  <2>1. InProgress(a, "runtime") BY DEF RuntimeUpdated
  <2>2. update[a]["runtime"].given \in Given("runtime") BY <1>1, <2>1, TypesNamed DEF IInv
  <2>3. Given("runtime") = [secret : Arns \cup {External}, audience : Targets] BY DEF Given
  <2> QED BY <2>2, <2>3
<1>3. /\ InProgress(a, "runtime") /\ Ended(a, "runtime", "complete")
      /\ runtime' = [runtime EXCEPT ![a] = g]
      /\ UNCHANGED <<secrets, born, foundation, target, begun, script, completed>>
  BY <1>2 DEF RuntimeUpdated
<1>4. /\ update' \in [Agents -> [Kinds -> UpdateType]]
      /\ update'[a]["runtime"].status = "complete"
      /\ \A j \in Kinds \ {"runtime"} : update'[a][j] = update[a][j]
      /\ \A b \in Agents \ {a} : update'[b] = update[b]
      /\ \A b \in Agents, k \in Kinds :
           InProgress(b, k)' => InProgress(b, k) /\ update'[b][k] = update[b][k]
  BY <1>1, <1>3, UpdateEnds DEF IInv
<1>5. Live' = Live BY <1>3 DEF Live
<1>6. /\ runtime' \in [Agents -> [secret : Arns \cup {External, None}, audience : Targets \cup {None}]]
      /\ runtime'[a] = g /\ \A b \in Agents \ {a} : runtime'[b] = runtime[b]
  BY <1>3, TypesNamed DEF IInv
<1>7. TypeOK' BY <1>3, <1>4, <1>5, <1>6, TypesNamed, NextTypesNamed DEF IInv
<1>8. Owned' BY <1>3 DEF IInv, Owned
<1>9. \A b \in Agents : \A x \in Arns \cup {External, None} : Own(b, x) => Own(b, x)'
  BY <1>3, <1>5 DEF Own
<1>10. OwnSecrets(a)'
  <2>1. Own(a, g.secret) BY <1>2, <1>3 DEF IInv, OwnSecrets
  <2>2. ~ InProgress(a, "runtime")' BY <1>4 DEF InProgress
  <2> QED BY <1>3, <1>5, <1>6, <2>1, <2>2 DEF OwnSecrets, Own
<1>11. \A p : /\ HasFoundation(a, p) => HasFoundation(a, p)'
              /\ \A x : HasSecret(a, p, x) => HasSecret(a, p, x)'
  BY <1>1, <1>3, <1>4 DEF HasFoundation, HasSecret, Holds
<1>12. \A p : ~ HasRuntime(a, p) BY <1>3 DEF HasRuntime
<1>13. Served(a) => Served(a)' BY <1>3, <1>12 DEF Served
<1>14. \A b \in Agents \ {a} : Untouched(b) BY <1>3, <1>4, <1>6 DEF Untouched
<1>15. ASSUME NEW s \in ScriptType, s.agent = a, Knows(s) PROVE Knows(s)'
  <2>1. s.at \in Before("runtime") BY <1>12, <1>15 DEF Knows
  <2>2. /\ HasFoundation(a, s.plan) => HasFoundation(a, s.plan)'
        /\ HasSecret(a, s.plan, s.arn) => HasSecret(a, s.plan, s.arn)'
    BY <1>11
  <2>3. update'[a]["foundation"] = update[a]["foundation"] BY <1>1, <1>4
  <2>4. CASE s.at # "await runtime" BY <1>15, <2>1, <2>2, <2>3, <2>4, Befores DEF Knows
  <2>5. CASE s.at = "await runtime"
    <3>1. g = [secret |-> s.arn, audience |-> s.plan.target]
      BY <1>2, <1>3, <1>15, <2>5 DEF Knows, InProgress
    <3>2. g.secret = s.arn /\ g.audience = s.plan.target BY <3>1
    <3>3. HasFoundation(a, s.plan) /\ HasSecret(a, s.plan, s.arn)
      BY <1>15, <2>5, Befores DEF Knows
    <3>4. ~ InProgress(a, "runtime")' BY <1>4 DEF InProgress
    <3>5. HasSecret(a, s.plan, g.secret)' BY <2>2, <3>2, <3>3
    <3>6. HasRuntime(a, s.plan)' BY <1>6, <3>2, <3>4, <3>5 DEF HasRuntime, HasSecret, Holds
    <3> QED BY <1>4, <1>15, <2>2, <2>5, <3>3, <3>6, Befores DEF Knows
  <2> QED BY <2>4, <2>5
<1>16. UNCHANGED <<script, completed>> BY <1>3
<1> QED BY <1>7, <1>8, <1>9, <1>10, <1>13, <1>14, <1>15, <1>16, StackMoves

\* The target has the name its update was begun with, which a run that waits knows.
LEMMA TargetUpdatedStep == ASSUME IInv, NEW a \in Agents, TargetUpdated(a) PROVE IInv'
<1>1. "foundation" \in Kinds /\ "runtime" \in Kinds /\ "target" \in Kinds BY DEF Kinds
<1>2. PICK g \in Targets : g = update[a]["target"].given
  <2>1. InProgress(a, "target") BY DEF TargetUpdated
  <2>2. update[a]["target"].given \in Given("target") BY <1>1, <2>1, TypesNamed DEF IInv
  <2>3. Given("target") = Targets BY DEF Given
  <2> QED BY <2>2, <2>3
<1>3. /\ InProgress(a, "target") /\ Ended(a, "target", "complete")
      /\ target' = [target EXCEPT ![a] = g]
      /\ UNCHANGED <<secrets, born, foundation, runtime, begun, script, completed>>
  BY <1>2 DEF TargetUpdated
<1>4. /\ update' \in [Agents -> [Kinds -> UpdateType]]
      /\ update'[a]["target"].status = "complete"
      /\ \A j \in Kinds \ {"target"} : update'[a][j] = update[a][j]
      /\ \A b \in Agents \ {a} : update'[b] = update[b]
      /\ \A b \in Agents, k \in Kinds :
           InProgress(b, k)' => InProgress(b, k) /\ update'[b][k] = update[b][k]
  BY <1>1, <1>3, UpdateEnds DEF IInv
<1>5. Live' = Live BY <1>3 DEF Live
<1>6. /\ target' \in [Agents -> Targets \cup {None}]
      /\ target'[a] = g /\ \A b \in Agents \ {a} : target'[b] = target[b]
  BY <1>3, TypesNamed DEF IInv
<1>7. TypeOK'
  <2>1. \A b \in Agents, k \in Kinds : InProgress(b, k)' => update'[b][k].given \in Given(k)
    BY <1>4, TypesNamed DEF IInv
  <2>2. Live' = {foundation'[b] : b \in Agents} \ {None} BY <1>3, <1>5, TypesNamed DEF IInv
  <2>3. /\ runtime' \in [Agents -> [secret : Arns \cup {External, None}, audience : Targets \cup {None}]]
        /\ script' \in [Runs -> ScriptType]
    BY <1>3, TypesNamed DEF IInv
  <2> QED BY <1>3, <1>4, <1>6, <2>1, <2>2, <2>3, TypesNamed, NextTypesNamed DEF IInv
<1>8. Owned' BY <1>3 DEF IInv, Owned
<1>9. \A b \in Agents : \A x \in Arns \cup {External, None} : Own(b, x) => Own(b, x)'
  BY <1>3, <1>5 DEF Own
<1>10. OwnSecrets(a)' BY <1>1, <1>3, <1>4, <1>5 DEF IInv, OwnSecrets, Own
<1>11. \A p : /\ HasFoundation(a, p) => HasFoundation(a, p)'
              /\ \A x : HasSecret(a, p, x) => HasSecret(a, p, x)'
  BY <1>1, <1>3, <1>4 DEF HasFoundation, HasSecret, Holds
<1>12. \A p : HasRuntime(a, p) => HasRuntime(a, p)'
  BY <1>1, <1>3, <1>4 DEF HasRuntime, HasSecret, Holds
<1>13. \A p : ~ HasTarget(a, p) BY <1>3 DEF HasTarget
<1>14. Served(a) => Served(a)' BY <1>3, <1>11, <1>12, <1>13 DEF Served
<1>15. \A b \in Agents \ {a} : Untouched(b) BY <1>3, <1>4, <1>6 DEF Untouched
<1>16. ASSUME NEW s \in ScriptType, s.agent = a, Knows(s) PROVE Knows(s)'
  <2>1. /\ HasFoundation(a, s.plan) => HasFoundation(a, s.plan)'
        /\ HasSecret(a, s.plan, s.arn) => HasSecret(a, s.plan, s.arn)'
        /\ HasRuntime(a, s.plan) => HasRuntime(a, s.plan)'
    BY <1>11, <1>12
  <2>2. /\ update'[a]["foundation"] = update[a]["foundation"]
        /\ update'[a]["runtime"] = update[a]["runtime"]
    BY <1>1, <1>4
  <2>3. s.at = "await target" => HasTarget(a, s.plan)'
    <3> SUFFICES ASSUME s.at = "await target" PROVE HasTarget(a, s.plan)' OBVIOUS
    <3>1. g = s.plan.target BY <1>2, <1>3, <1>16 DEF Knows, InProgress
    <3> QED BY <1>4, <1>6, <3>1 DEF HasTarget, InProgress
  <2>4. s.at = "await target" => update'[a]["target"].status = "complete" BY <1>4
  <2> QED BY <1>16, <2>1, <2>2, <2>3, <2>4 DEF Knows
<1>17. UNCHANGED <<script, completed>> BY <1>3
<1> QED BY <1>7, <1>8, <1>9, <1>10, <1>14, <1>15, <1>16, <1>17, StackMoves

\* The foundation keeps its secret, or has a new one or none, and the former is gone.
LEMMA Replaced ==
  ASSUME IInv, NEW a \in Agents, NEW g \in [managed : BOOLEAN, name : Names],
         g = update[a]["foundation"].given,
         InProgress(a, "foundation"), Ended(a, "foundation", "complete"),
         UNCHANGED <<runtime, target, begun, script, completed>>,
         NEW f, f = foundation[a], NEW h \in Arns \cup {None},
         foundation' = [foundation EXCEPT ![a] = h],
         h = None \/ h = f \/ (h = born + 1 /\ born' = born + 1),
         born' \in 0..MaxSecrets, born' >= born,
         secrets' \subseteq SecretType,
         \A s, t \in secrets' : s.arn = t.arn => s = t,
         \A s \in secrets' : s.arn <= born',
         \A s \in secrets : s.arn # f => s \in secrets',
         Live' = (Live \ {f}) \cup ({h} \ {None}),
         g.managed => \E s \in secrets' : s.arn = h /\ s.name = g.name
  PROVE  IInv'
<1>1. "foundation" \in Kinds /\ "runtime" \in Kinds /\ "target" \in Kinds BY DEF Kinds
<1>2. /\ update' \in [Agents -> [Kinds -> UpdateType]]
      /\ update'[a]["foundation"].status = "complete"
      /\ \A j \in Kinds \ {"foundation"} : update'[a][j] = update[a][j]
      /\ \A b \in Agents \ {a} : update'[b] = update[b]
      /\ \A b \in Agents, k \in Kinds :
           InProgress(b, k)' => InProgress(b, k) /\ update'[b][k] = update[b][k]
  BY <1>1, UpdateEnds DEF IInv
<1>3. /\ foundation \in [Agents -> Arns \cup {None}] /\ born \in Nat
      /\ Live = {foundation[b] : b \in Agents} \ {None}
  BY TypesNamed, PlanAssumption DEF IInv
<1>4. foundation'[a] = h /\ \A b \in Agents \ {a} : foundation'[b] = foundation[b] BY <1>3
<1>5. \A b \in Agents : foundation[b] # None => foundation[b] \in Live /\ foundation[b] <= born
  <2>1. \A x \in Live : x <= born BY DEF Live, IInv, Owned
  <2> QED BY <1>3, <2>1
<1>6. ASSUME NEW b \in Agents \ {a}, foundation[b] # None PROVE foundation[b] # h /\ foundation[b] # f
  <2>1. foundation[b] \in Nat /\ foundation[b] <= born BY <1>3, <1>5, <1>6 DEF Arns
  <2>2. foundation[b] # f BY <1>6 DEF IInv, Owned
  <2> QED BY <1>3, <1>6, <2>1, <2>2
<1>7. TypeOK'
  <2>1. \A b \in Agents, k \in Kinds : InProgress(b, k)' => update'[b][k].given \in Given(k)
    BY <1>2, TypesNamed DEF IInv
  <2>2. Live' = {foundation'[b] : b \in Agents} \ {None}
    <3>1. ASSUME NEW x \in Live' PROVE x \in {foundation'[b] : b \in Agents} \ {None}
      BY <3>1, <1>3, <1>4
    <3>2. ASSUME NEW b \in Agents, foundation'[b] # None PROVE foundation'[b] \in Live'
      BY <3>2, <1>4, <1>5, <1>6
    <3> QED BY <3>1, <3>2
  <2>3. /\ runtime' \in [Agents -> [secret : Arns \cup {External, None}, audience : Targets \cup {None}]]
        /\ script' \in [Runs -> ScriptType] /\ foundation' \in [Agents -> Arns \cup {None}]
        /\ target' \in [Agents -> Targets \cup {None}] /\ begun' \in 0..MaxBegun
        /\ completed' \in [Agents -> Plans \cup {None}]
    BY <1>3, TypesNamed DEF IInv
  <2> QED BY <1>2, <2>1, <2>2, <2>3, NextTypesNamed
<1>8. Owned'
  <2>1. ASSUME NEW b \in Agents, NEW c \in Agents, foundation'[b] = foundation'[c], foundation'[b] # None
        PROVE  b = c
    BY <2>1, <1>4, <1>6 DEF IInv, Owned
  <2> QED BY <2>1 DEF Owned
<1>9. ASSUME NEW b \in Agents, NEW x \in Arns \cup {External, None}, Own(b, x) PROVE Own(b, x)'
  <2>1. x \in Arns => x <= born' BY <1>3, <1>9 DEF Own, Arns
  <2>2. ASSUME x \in Live' PROVE x = foundation'[b]
    <3>1. CASE x \in Live
      <4>1. x = foundation[b] BY <1>9, <3>1 DEF Own
      <4>2. CASE b = a BY <1>4, <2>2, <4>1, <4>2
      <4>3. CASE b # a BY <1>4, <4>1, <4>3
      <4> QED BY <4>2, <4>3
    <3>2. CASE x \notin Live
      <4>1. x = h /\ h # None BY <2>2, <3>2
      <4>2. h # f BY <1>3, <1>5, <3>2, <4>1
      <4>3. x = born + 1 /\ x \in Arns BY <4>1, <4>2
      <4> QED BY <1>3, <1>9, <4>3 DEF Own
    <3> QED BY <3>1, <3>2
  <2> QED BY <2>1, <2>2 DEF Own
<1>10. OwnSecrets(a)'
  <2>1. OwnSecrets(a) /\ runtime[a].secret \in Arns \cup {External, None} BY TypesNamed DEF IInv
  <2>2. update'[a]["runtime"] = update[a]["runtime"] BY <1>1, <1>2
  <2>3. ASSUME InProgress(a, "runtime")
        PROVE  update[a]["runtime"].given.secret \in Arns \cup {External, None}
    <3>1. update[a]["runtime"].given \in Given("runtime") BY <1>1, <2>3, TypesNamed DEF IInv
    <3>2. Given("runtime") = [secret : Arns \cup {External}, audience : Targets] BY DEF Given
    <3>3. update[a]["runtime"].given \in [secret : Arns \cup {External}, audience : Targets]
      BY <3>1, <3>2, Zenon
    <3> QED BY <3>3
  <2>4. \A x \in Arns \cup {External, None} : Own(a, x) => Own(a, x)' BY <1>9
  <2>5. UNCHANGED runtime OBVIOUS
  <2> QED BY <2>1, <2>2, <2>3, <2>4, <2>5 DEF OwnSecrets, InProgress, Own
<1>11. \A p : HasFoundation(a, p) => ~ p.managed BY DEF HasFoundation
<1>12. ASSUME NEW p, ~ p.managed
       PROVE  /\ HasFoundation(a, p)'
              /\ \A x : HasSecret(a, p, x) => HasSecret(a, p, x)'
              /\ HasRuntime(a, p) => HasRuntime(a, p)'
              /\ HasTarget(a, p) => HasTarget(a, p)'
  BY <1>1, <1>2, <1>12 DEF HasFoundation, HasSecret, HasRuntime, HasTarget
<1>13. Served(a) => Served(a)' BY <1>11, <1>12 DEF Served
<1>14. ASSUME NEW b \in Agents \ {a} PROVE Untouched(b)
  <2>1. ASSUME NEW s \in secrets, s.arn = foundation[b] PROVE s \in secrets'
    <3>1. s.arn # None
      <4>1. s.arn \in Live /\ Live \subseteq Arns BY <1>3 DEF Live
      <4> QED BY <4>1, NoneAssumption DEF Arns
    <3> QED BY <1>6, <2>1, <3>1
  <2> QED BY <1>2, <1>4, <2>1 DEF Untouched
<1>15. ASSUME NEW s \in ScriptType, s.agent = a, s.at # "idle", Knows(s) PROVE Knows(s)'
  <2>1. CASE s.at = "await foundation"
    <3>1. g = [managed |-> s.plan.managed, name |-> s.plan.name] BY <1>15, <2>1 DEF Knows, InProgress
    <3>2. g.managed = s.plan.managed /\ g.name = s.plan.name BY <3>1
    <3>3. HasFoundation(a, s.plan)' BY <1>2, <1>4, <3>2 DEF HasFoundation, InProgress
    <3> QED BY <1>2, <1>15, <2>1, <3>3, Befores DEF Knows
  <2>2. CASE s.at = "foundation" BY <2>2, Befores DEF Knows
  <2>3. CASE s.at \notin Before("foundation")
    <3>1. ~ s.plan.managed BY <1>11, <1>15, <2>3 DEF Knows
    <3>2. /\ HasFoundation(a, s.plan)'
          /\ HasSecret(a, s.plan, s.arn) => HasSecret(a, s.plan, s.arn)'
          /\ HasRuntime(a, s.plan) => HasRuntime(a, s.plan)'
          /\ HasTarget(a, s.plan) => HasTarget(a, s.plan)'
      BY <1>12, <3>1
    <3>3. /\ update'[a]["runtime"] = update[a]["runtime"]
          /\ update'[a]["target"] = update[a]["target"]
      BY <1>1, <1>2
    <3> QED BY <1>15, <2>3, <3>2, <3>3, Befores DEF Knows
  <2> QED BY <2>1, <2>2, <2>3, Befores
<1>16. UNCHANGED <<script, completed>> OBVIOUS
<1>17. \A s \in ScriptType : s.agent = a /\ s.plan \in Plans /\ s.at # "idle" /\ Knows(s) => Knows(s)'
  BY <1>15
<1>18. \A b \in Agents : \A x \in Arns \cup {External, None} : Own(b, x) => Own(b, x)' BY <1>9
<1> QED BY <1>7, <1>8, <1>10, <1>13, <1>14, <1>16, <1>17, <1>18, StackMoves

LEMMA FoundationUpdatedStep == ASSUME IInv, NEW a \in Agents, FoundationUpdated(a) PROVE IInv'
<1> DEFINE f == foundation[a]
           former == {s \in secrets : s.arn = f}
<1>1. "foundation" \in Kinds BY DEF Kinds
<1>2. PICK g \in [managed : BOOLEAN, name : Names] : g = update[a]["foundation"].given
  <2>1. InProgress(a, "foundation") BY DEF FoundationUpdated
  <2>2. update[a]["foundation"].given \in Given("foundation") BY <1>1, <2>1, TypesNamed DEF IInv
  <2>3. Given("foundation") = [managed : BOOLEAN, name : Names] BY DEF Given
  <2>4. update[a]["foundation"].given \in [managed : BOOLEAN, name : Names] BY <2>2, <2>3, Zenon
  <2> QED BY <2>4
<1>3. /\ InProgress(a, "foundation") /\ Ended(a, "foundation", "complete")
      /\ UNCHANGED <<runtime, target, begun, script, completed>>
  BY DEF FoundationUpdated
<1>4. /\ secrets \subseteq SecretType /\ born \in 0..MaxSecrets
      /\ foundation \in [Agents -> Arns \cup {None}]
      /\ \A s, t \in secrets : s.arn = t.arn => s = t
      /\ Live = {foundation[b] : b \in Agents} \ {None}
      /\ \A s \in secrets : s.arn <= born /\ s.arn \in Arns
  BY TypesNamed DEF IInv, Owned, SecretType
<1>5. CASE (Kept(f, g) \/ (~ g.managed /\ f = None)) /\ UNCHANGED <<secrets, born, foundation>>
  <2>1. foundation' = [foundation EXCEPT ![a] = f] BY <1>4, <1>5
  <2>2. Live' = (Live \ {f}) \cup ({f} \ {None}) BY <1>4, <1>5 DEF Live
  <2>3. g.managed => \E s \in secrets' : s.arn = f /\ s.name = g.name
    <3> SUFFICES ASSUME g.managed PROVE \E s \in secrets : s.arn = f /\ s.name = g.name BY <1>5
    <3>1. f # None /\ NameOf(f) = g.name BY <1>5 DEF Kept
    <3>2. PICK s \in secrets : s.arn = f BY <1>4, <3>1 DEF Live
    <3>3. (CHOOSE t \in secrets : t.arn = f) = s BY <1>4, <3>2
    <3> QED BY <3>1, <3>2, <3>3 DEF NameOf
  <2>4. born' \in 0..MaxSecrets /\ born' >= born BY <1>4, <1>5, PlanAssumption
  <2>5. /\ secrets' \subseteq SecretType /\ \A s, t \in secrets' : s.arn = t.arn => s = t
        /\ \A s \in secrets' : s.arn <= born'
        /\ \A s \in secrets : s.arn # f => s \in secrets'
        /\ f \in Arns \cup {None}
    BY <1>4, <1>5
  <2> QED BY <1>2, <1>3, <2>1, <2>2, <2>3, <2>4, <2>5, Replaced
<1>6. CASE /\ g.managed /\ ~ Kept(f, g) /\ born < MaxSecrets /\ born' = born + 1
           /\ secrets' = (secrets \ former) \cup
                {[arn |-> born + 1, name |-> g.name, value |-> Empty]}
           /\ foundation' = [foundation EXCEPT ![a] = born + 1]
  <2>1. PICK h \in Arns : h = born + 1 BY <1>4, <1>6, PlanAssumption DEF Arns
  <2>2. PICK new \in SecretType :
          /\ new = [arn |-> born + 1, name |-> g.name, value |-> Empty]
          /\ new.arn = h /\ new.name = g.name
    <3> DEFINE new == [arn |-> h, name |-> g.name, value |-> Empty]
    <3>1. new \in SecretType /\ new.arn = h /\ new.name = g.name BY DEF SecretType
    <3>2. new = [arn |-> born + 1, name |-> g.name, value |-> Empty] BY <2>1
    <3> QED BY <3>1, <3>2
  <2>3. secrets' = (secrets \ former) \cup {new} BY <1>6, <2>2
  <2>4. h # None BY NoneAssumption DEF Arns
  <2>5. Live' = (Live \ {f}) \cup ({h} \ {None})
    <3>1. Live' = {s.arn : s \in secrets \ former} \cup {new.arn} BY <2>3 DEF Live
    <3>2. {s.arn : s \in secrets \ former} = Live \ {f} BY DEF Live
    <3> QED BY <2>2, <2>4, <3>1, <3>2
  <2>6. born' \in 0..MaxSecrets /\ born' >= born BY <1>4, <1>6, PlanAssumption
  <2>7. /\ secrets' \subseteq SecretType
        /\ \A s \in secrets : s.arn # f => s \in secrets'
        /\ new \in secrets'
    BY <1>4, <2>3
  <2>8. \A s \in secrets' : s.arn <= born' BY <1>4, <1>6, <2>1, <2>2, <2>3 DEF Arns
  <2>9. \A s, t \in secrets' : s.arn = t.arn => s = t BY <1>4, <2>1, <2>2, <2>3 DEF Arns
  <2>10. foundation' = [foundation EXCEPT ![a] = h] /\ born' = born + 1 BY <1>6, <2>1
  <2>11. \E s \in secrets' : s.arn = h /\ s.name = g.name BY <2>2, <2>7
  <2> QED BY <1>2, <1>3, <2>1, <2>5, <2>6, <2>7, <2>8, <2>9, <2>10, <2>11, Replaced
<1>7. CASE /\ ~ g.managed /\ f # None /\ secrets' = secrets \ former
           /\ foundation' = [foundation EXCEPT ![a] = None] /\ UNCHANGED born
  <2>1. Live' = (Live \ {f}) \cup ({None} \ {None}) BY <1>7 DEF Live
  <2>2. born' \in 0..MaxSecrets /\ born' >= born BY <1>4, <1>7, PlanAssumption
  <2>3. /\ secrets' \subseteq SecretType /\ \A s, t \in secrets' : s.arn = t.arn => s = t
        /\ \A s \in secrets' : s.arn <= born'
        /\ \A s \in secrets : s.arn # f => s \in secrets'
    BY <1>4, <1>7
  <2>4. None \in Arns \cup {None} OBVIOUS
  <2> QED BY <1>2, <1>3, <1>7, <2>1, <2>2, <2>3, <2>4, Replaced
<1> QED BY <1>2, <1>5, <1>6, <1>7 DEF FoundationUpdated

------------------------------------------------------------------------------

\* Every step keeps the invariant.
LEMMA NextInv == IInv /\ [Next]_vars => IInv'
<1> SUFFICES ASSUME IInv, [Next]_vars PROVE IInv' OBVIOUS
<1>1. ASSUME NEW r \in Runs, Deploy(r) PROVE IInv'
  BY <1>1, BeginStep, FoundationRun, WriteStep, RuntimeRun, TargetRun, FailStep DEF Deploy
<1>2. ASSUME NEW a \in Agents, CloudFormation(a) PROVE IInv'
  BY <1>2, FoundationUpdatedStep, RuntimeUpdatedStep, TargetUpdatedStep, RolledBackStep
  DEF CloudFormation
<1>3. CASE UNCHANGED vars
  <2>1. UNCHANGED <<secrets, born, foundation, runtime, target, update, begun, script, completed>>
    BY <1>3 DEF vars
  <2>2. Live' = Live BY <2>1 DEF Live
  <2>3. TypeOK' BY <2>1, <2>2, TypesNamed, NextTypesNamed DEF IInv, InProgress
  <2>4. Owned' BY <2>1 DEF IInv, Owned
  <2>5. \A b \in Agents : Untouched(b) BY <2>1 DEF Untouched
  <2>6. ASSUME NEW b \in Agents PROVE OwnSecrets(b)' /\ Served(b)'
    <3>1. OwnSecrets(b)' BY <2>1, <2>2 DEF IInv, OwnSecrets, Own, InProgress
    <3>2. completed'[b] = completed[b] BY <2>1
    <3> QED BY <2>5, <3>1, <3>2, ServedStays DEF IInv
  <2>7. ASSUME NEW r \in Runs PROVE RunInv(r)'
    <3>1. PICK d \in ScriptType : d = script[r] BY TypesNamed DEF IInv
    <3>2. /\ script'[r] = d /\ UNCHANGED <<script, completed>>
          /\ \A x : Own(d.agent, x) => Own(d.agent, x)'
      BY <2>1, <2>2, <3>1 DEF Own
    <3>3. d # Idle => d.agent \in Agents /\ d.plan \in Plans /\ (d.alone => Knows(d))
      BY <3>1 DEF IInv, RunInv
    <3>4. d # Idle /\ d.alone => Knows(d)' BY <2>5, <3>3, RunsKnow
    <3> QED BY <3>1, <3>2, <3>4 DEF IInv, RunInv
  <2> QED BY <2>3, <2>4, <2>6, <2>7 DEF IInv
<1> QED BY <1>1, <1>2, <1>3 DEF Next

LEMMA Invariance == Spec => []IInv
BY InitInv, NextInv, PTL DEF Spec

\* For any agents, runs and plans: every secret belongs to one foundation stack
\* and no ARN is given twice (agent-foundation.yaml:133-165).
THEOREM TypeCorrect == Spec => []TypeOK
<1>1. IInv => TypeOK BY DEF IInv
<1> QED BY <1>1, Invariance, PTL

\* A deployment that no other run for its agent overlapped leaves a Runtime with
\* the secret of its plan, that secret with its string, and a target that agrees
\* with the Runtime, until the next run for that agent begins (deploy.sh:74-217).
THEOREM Completed == Spec => []CompletedServes
<1>1. IInv => CompletedServes
  <2> SUFFICES ASSUME IInv, NEW a \in Agents, completed[a] # None
               PROVE  /\ IF completed[a].managed
                           THEN Holds(runtime[a].secret, completed[a])
                           ELSE runtime[a].secret = External
                      /\ runtime[a].audience = completed[a].target
                      /\ ~ completed[a].skip => target[a] = completed[a].target
    BY DEF CompletedServes
  <2> QED BY DEF IInv, Served, HasRuntime, HasSecret, HasTarget
<1> QED BY <1>1, Invariance, PTL

\* A Runtime loses its secret only by a foundation update of its own agent that
\* renames it or no longer manages it (agent-foundation.yaml:133-165).
THEOREM SecretKept == Spec => SecretLostByRenameOnly
<1> DEFINE step(a) ==
      runtime[a].secret \in Live /\ runtime[a].secret \notin Live' =>
         LET u == update[a].foundation
         IN  /\ u.status = "in progress"
             /\ ~ u.given.managed \/ u.given.name # NameOf(runtime[a].secret)
<1>1. ASSUME IInv, [Next]_vars, NEW a \in Agents PROVE step(a)
  <2> SUFFICES ASSUME runtime[a].secret \in Live, runtime[a].secret \notin Live'
               PROVE  /\ update[a].foundation.status = "in progress"
                      /\ \/ ~ update[a].foundation.given.managed
                         \/ update[a].foundation.given.name # NameOf(runtime[a].secret)
    OBVIOUS
  <2>1. runtime[a].secret = foundation[a] /\ foundation[a] # None
    <3>1. Own(a, runtime[a].secret) BY <1>1 DEF IInv, OwnSecrets
    <3>2. Live \subseteq Arns BY <1>1, TypesNamed DEF IInv, Live, SecretType
    <3> QED BY <3>1, <3>2, NoneAssumption DEF Own, Arns
  <2>2. ASSUME NEW r \in Runs, Deploy(r) PROVE Live' = Live
    <3>1. CASE WriteSecret(r)
      <4> DEFINE p == script[r].plan
                 arn == foundation[script[r].agent]
                 write(t) == IF t.arn = arn /\ p.string # None THEN [t EXCEPT !.value = p.string] ELSE t
      <4>1. secrets' = secrets \/ secrets' = {write(t) : t \in secrets}
        BY <3>1 DEF WriteSecret
      <4>2. \A t \in secrets : write(t).arn = t.arn BY <1>1, TypesNamed DEF IInv, SecretType
      <4> HIDE DEF write
      <4> QED BY <4>1, <4>2 DEF Live
    <3>2. CASE ~ WriteSecret(r)
      BY <2>2, <3>2 DEF Deploy, Begin, DeployFoundation, DeployRuntime, DeployTarget, Fail, Submit,
                        Completes, cloud, deployed, Live
    <3> QED BY <3>1, <3>2
  <2>3. PICK b \in Agents : CloudFormation(b) BY <1>1, <2>2 DEF Next, vars, Live
  <2>4. FoundationUpdated(b)
    BY <2>3 DEF CloudFormation, RuntimeUpdated, TargetUpdated, RolledBack, deployed, Live
  <2>5. /\ ~ Kept(foundation[b], update[b]["foundation"].given)
        /\ \A s \in secrets : s.arn # foundation[b] => s \in secrets'
    <3> DEFINE g == update[b].foundation.given
               f == foundation[b]
               former == {s \in secrets : s.arn = f}
    <3>1. \/ UNCHANGED secrets
          \/ /\ ~ Kept(f, g)
             /\ \E new : secrets' = (secrets \ former) \cup {new}
          \/ ~ g.managed /\ secrets' = secrets \ former
      BY <2>4 DEF FoundationUpdated
    <3>2. CASE UNCHANGED secrets BY <3>2 DEF Live
    <3>3. CASE ~ Kept(f, g) /\ \E new : secrets' = (secrets \ former) \cup {new} BY <3>3
    <3>4. CASE ~ g.managed /\ secrets' = secrets \ former BY <3>4 DEF Kept
    <3> QED BY <3>1, <3>2, <3>3, <3>4
  <2>6. foundation[b] = foundation[a]
    <3>1. PICK s \in secrets : s.arn = foundation[a] BY <2>1 DEF Live
    <3> QED BY <2>1, <2>5, <3>1 DEF Live
  <2>7. b = a BY <1>1, <2>1, <2>6 DEF IInv, Owned
  <2>8. InProgress(a, "foundation") BY <2>4, <2>7 DEF FoundationUpdated
  <2> QED BY <2>1, <2>5, <2>7, <2>8 DEF Kept, InProgress
<1>2. IInv /\ [Next]_vars => [\A a \in Agents : step(a)]_vars BY <1>1
<1> QED BY <1>2, Invariance, PTL DEF Spec, SecretLostByRenameOnly

==============================================================================
