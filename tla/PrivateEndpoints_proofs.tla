------------------------ MODULE PrivateEndpoints_proofs ------------------------
(***************************************************************************)
(* Proofs about PrivateEndpoints, for any agents, VPCs, route tables and   *)
(* older stacks, when reads succeed and deployments do not overlap: the    *)
(* script may die anywhere, and the next one then meets a stack that       *)
(* CloudFormation still completes or rolls back under its reads.           *)
(*                                                                         *)
(* The invariant relates what the script has read to what the stack says   *)
(* now: a stack only grows, so a merge with what it said covers whatever   *)
(* it routes when the merge is written; a stack between two complete       *)
(* states has a script that waits for it, or the mark of one that died.    *)
(***************************************************************************)
EXTENDS PrivateEndpoints, TLAPS

\* Deployments do not overlap, whoever runs them.
Serial == \A o, p \in Operators : op[o] # Idle /\ op[p] # Idle => o = p

\* describe-stacks fails only for a stack that does not exist.
ReadsSucceed == ReadsMayFail = FALSE

\* What an agent of the stack's VPC asks for.
Asked(n, x) == \E a \in Agents : VpcOf[a] = StackVpc[n] /\ AccessOf[a] = x

\* A stack that is being updated adds to its route tables and keeps its subnets, one
\* that is there is never created again, and its access is an agent's of its VPC.
Sound(n, t) ==
  /\ t.status = "absent" => t = Absent
  /\ n \in Older => t.status \notin {"creating", "failed"}
  /\ t.tables \subseteq t.params
  /\ t.subnets # None => t.wanted = t.subnets
  /\ t.status \in {"creating", "updating"} => t.asks # None
  /\ t.status \notin {"absent", "creating", "failed"} => t.access # None
  /\ t.asks # None => Asked(n, t.asks)
  /\ t.access # None => Asked(n, t.access)

\* A stack between two complete states has a script that waits for it, or an orphan's mark.
Attended(n) ==
  Busy(n) => n \in orphans \/ \E o \in Operators : op[o].at = "wait" /\ op[o].name = n

\* A deployed Runtime has the group of a stack of its VPC.
Grouped(a, group) ==
  \E n \in Names, x \in Access :
    /\ group = <<n, x>> /\ StackVpc[n] = VpcOf[a]
    /\ Asked(n, x) /\ stacks[n].access # None

\* The stack a script has chosen is the one of the VPC, there is none, or one of two
\* was left by a script that died.
Chosen(s) ==
  /\ s.name \in Names /\ StackVpc[s.name] = VpcOf[s.agent]
  /\ \A n \in Names : Exists(n) /\ StackVpc[n] = VpcOf[s.agent] =>
       n = s.name \/ n \in orphans \/ s.name \in orphans
  /\ ~ Exists(s.name) => s.name \notin Older

\* What a script in the state s knows.
Knows(s) ==
  /\ s.at # "idle" => s.agent \in Agents
  /\ s.at = "list" => ~ Exists(VpcOf[s.agent])
  /\ s.at \in {"vpc", "subnets", "tables", "deploy", "wait", "output"} => Chosen(s)
  /\ s.at \in {"subnets", "tables"} => s.same = Exists(s.name)
  /\ s.at \in {"tables", "deploy"} =>
       (stacks[s.name].wanted # None => s.subnets = stacks[s.name].wanted)
  /\ s.at = "deploy" => TablesOf[s.agent] \cup stacks[s.name].params \subseteq s.merged
  /\ s.at = "wait" /\ stacks[s.name].status \notin {"rolledback", "failed"} =>
       TablesOf[s.agent] \subseteq stacks[s.name].params
  /\ s.at = "output" =>
       TablesOf[s.agent] \subseteq stacks[s.name].tables /\ stacks[s.name].access # None
  /\ s.at = "runtime" /\ s.agent \notin OptedOut =>
       /\ Chosen(s) /\ TablesOf[s.agent] \subseteq stacks[s.name].tables
       /\ Grouped(s.agent, s.group)

IInv ==
  /\ TypeOK
  /\ SecondStackOnlyOrphaned /\ EndpointsCoverRuntimes
  /\ \A n \in Names : Sound(n, stacks[n]) /\ Attended(n)
  /\ \A a \in Served : Grouped(a, runtime[a].group)
  /\ \A o \in Operators : Knows(op[o])

LEMMA IdleKnows == Knows(Idle)
BY DEF Knows, Idle

\* The agents of a VPC that ask for the same access have it.
LEMMA Admitted == IInv => RuntimesAdmitted
<1> SUFFICES ASSUME IInv, NEW a \in Served, Alike(VpcOf[a])
             PROVE  \E n \in Names : StackVpc[n] = VpcOf[a] /\ runtime[a].group = <<n, stacks[n].access>>
  BY DEF RuntimesAdmitted
<1>1. PICK n \in Names, x \in Access :
        /\ runtime[a].group = <<n, x>> /\ StackVpc[n] = VpcOf[a]
        /\ Asked(n, x) /\ stacks[n].access # None
  BY DEF IInv, Grouped
<1>2. Asked(n, stacks[n].access)
  BY <1>1 DEF IInv, Sound
<1>3. x = stacks[n].access
  BY <1>1, <1>2 DEF Asked, Alike
<1> QED BY <1>1, <1>3

LEMMA InitInv == Init => IInv
<1> SUFFICES ASSUME Init PROVE IInv
  OBVIOUS
<1>1. PICK made \in SUBSET Older, founder \in [Older -> Agents \ OptedOut] :
        /\ \A n \in Older : VpcOf[founder[n]] = OlderIn[n]
        /\ stacks = [n \in Names |->
             IF n \in made
             THEN [status |-> "ready",
                   params |-> TablesOf[founder[n]], tables |-> TablesOf[founder[n]],
                   wanted |-> founder[n], subnets |-> founder[n],
                   asks |-> AccessOf[founder[n]], access |-> AccessOf[founder[n]]]
             ELSE Absent]
        /\ runtime = [a \in Agents |->
             LET own == {n \in made : founder[n] = a}
             IN  [deployed |-> own # {},
                  group |-> IF own = {} THEN None
                            ELSE <<CHOOSE n \in own : TRUE, AccessOf[a]>>]]
  BY DEF Init
<1> DEFINE own(a) == {n \in made : founder[n] = a}
<1>2. op = [o \in Operators |-> Idle] /\ Idle \in Script /\ orphans = {}
  BY DEF Init, Idle, Script
<1>3. ASSUME NEW n \in made
      PROVE  /\ n \in Names /\ n \in Older /\ founder[n] \in Agents \ OptedOut
             /\ stacks[n].status = "ready"
             /\ stacks[n].params = TablesOf[founder[n]] /\ stacks[n].tables = TablesOf[founder[n]]
             /\ stacks[n].wanted = founder[n] /\ stacks[n].subnets = founder[n]
             /\ stacks[n].asks = AccessOf[founder[n]] /\ stacks[n].access = AccessOf[founder[n]]
             /\ AccessOf[founder[n]] \in Access /\ AccessOf[founder[n]] # None
             /\ StackVpc[n] = VpcOf[founder[n]]
  BY <1>1, <1>3, EndpointAssumption DEF Names, StackVpc
<1>4. ASSUME NEW n \in Names \ made
      PROVE  stacks[n] = Absent /\ ~ Exists(n)
  BY <1>1, <1>4 DEF Names, Absent, Exists
<1>5. ASSUME NEW a \in Agents, own(a) # {}
      PROVE  \E n \in own(a) : runtime[a] = [deployed |-> TRUE, group |-> <<n, AccessOf[a]>>]
  <2>1. (CHOOSE n \in own(a) : TRUE) \in own(a)
    BY <1>5
  <2>2. runtime[a] = [deployed |-> TRUE, group |-> <<CHOOSE n \in own(a) : TRUE, AccessOf[a]>>]
    BY <1>1, <1>5
  <2> QED BY <2>1, <2>2
<1>6. ASSUME NEW a \in Agents, own(a) = {}
      PROVE  runtime[a] = [deployed |-> FALSE, group |-> None]
  BY <1>1, <1>6
<1> HIDE DEF own
<1>7. TypeOK
  <2>1. Absent \in Stack
    BY DEF Absent, Stack
  <2>2. ASSUME NEW n \in made PROVE stacks[n] \in Stack
    <3>1. /\ founder[n] \in Agents /\ TablesOf[founder[n]] \in SUBSET RouteTables
          /\ AccessOf[founder[n]] \in Access /\ n \in Names
      BY <1>3, EndpointAssumption
    <3>2. stacks[n] = [status |-> "ready",
                       params |-> TablesOf[founder[n]], tables |-> TablesOf[founder[n]],
                       wanted |-> founder[n], subnets |-> founder[n],
                       asks |-> AccessOf[founder[n]], access |-> AccessOf[founder[n]]]
      BY <1>1, <3>1
    <3> QED BY <3>1, <3>2 DEF Stack
  <2>3. stacks \in [Names -> Stack]
    BY <1>1, <1>4, <2>1, <2>2
  <2>4. ASSUME NEW a \in Agents
        PROVE  runtime[a] \in [deployed : BOOLEAN, group : Groups \cup {None}]
    <3>1. CASE own(a) # {}
      <4>1. PICK n \in own(a) : runtime[a] = [deployed |-> TRUE, group |-> <<n, AccessOf[a]>>]
        BY <1>5, <3>1
      <4>2. <<n, AccessOf[a]>> \in Groups
        BY <1>3, EndpointAssumption DEF own, Groups
      <4> QED BY <4>1, <4>2
    <3>2. CASE own(a) = {}
      <4>1. runtime[a] = [deployed |-> FALSE, group |-> None]
        BY <1>6, <3>2
      <4> QED BY <4>1
    <3> QED BY <3>1, <3>2
  <2>5. runtime \in [Agents -> [deployed : BOOLEAN, group : Groups \cup {None}]]
    BY <1>1, <2>4
  <2>6. ASSUME NEW n \in Names
        PROVE  /\ stacks[n].params = stacks[n].tables /\ stacks[n].wanted = stacks[n].subnets
               /\ stacks[n].asks = stacks[n].access
    <3>1. CASE n \in made
      BY <1>3, <3>1
    <3>2. CASE n \notin made
      BY <1>4, <3>2 DEF Absent
    <3> QED BY <3>1, <3>2
  <2> QED BY <1>2, <2>3, <2>5, <2>6 DEF TypeOK
<1>8. SecondStackOnlyOrphaned
  <2> SUFFICES ASSUME NEW n \in Names, NEW m \in Names, Exists(n), Exists(m), StackVpc[n] = StackVpc[m]
               PROVE  n = m
    BY DEF SecondStackOnlyOrphaned
  <2> QED BY <1>3, <1>4, EndpointAssumption DEF StackVpc
<1>9. ASSUME NEW a \in Served
      PROVE  /\ \E n \in Names : StackVpc[n] = VpcOf[a] /\ TablesOf[a] \subseteq stacks[n].tables
             /\ Grouped(a, runtime[a].group)
  <2>1. a \in Agents /\ runtime[a].deployed
    BY DEF Served
  <2>2. own(a) # {}
    BY <1>6, <2>1
  <2>3. PICK n \in own(a) : runtime[a] = [deployed |-> TRUE, group |-> <<n, AccessOf[a]>>]
    BY <1>5, <2>1, <2>2
  <2>4. n \in made /\ founder[n] = a
    BY DEF own
  <2>5. /\ n \in Names /\ StackVpc[n] = VpcOf[a] /\ stacks[n].tables = TablesOf[a]
        /\ AccessOf[a] \in Access /\ stacks[n].access # None
    BY <1>3, <2>4
  <2> QED BY <2>1, <2>3, <2>5 DEF Grouped, Asked
<1>10. ASSUME NEW n \in Names PROVE Sound(n, stacks[n]) /\ Attended(n)
  <2>1. CASE n \in made
    BY <1>3, <2>1 DEF Sound, Asked, Attended, Busy
  <2>2. CASE n \notin made
    BY <1>4, <2>2 DEF Sound, Absent, Attended, Busy
  <2> QED BY <2>1, <2>2
<1> QED BY <1>2, <1>7, <1>8, <1>9, <1>10, IdleKnows DEF IInv, EndpointsCoverRuntimes

------------------------------------------------------------------------------
(* The steps of the script that only read.                                 *)

\* What a script knows is about the stacks and their orphans' marks, of which more
\* can only help.
LEMMA KnowsMore ==
  ASSUME NEW s, stacks' = stacks, orphans \subseteq orphans', Knows(s) PROVE Knows(s)'
BY DEF Knows, Chosen, Exists, Grouped

\* A script that waits for a stack that is changing does not leave it unmarked.
LEMMA ScriptMoves ==
  ASSUME IInv, NEW o \in Operators, NEW s \in Script, Becomes(o, s), Knows(s),
         UNCHANGED <<stacks, runtime>>, orphans \subseteq orphans', orphans' \subseteq Names,
         op[o].at = "wait" /\ Busy(op[o].name) => op[o].name \in orphans'
  PROVE  IInv'
<1>1. op' = [op EXCEPT ![o] = s] /\ op \in [Operators -> Script]
  BY DEF Becomes, IInv, TypeOK
<1>2. TypeOK'
  BY <1>1 DEF IInv, TypeOK
<1>3. SecondStackOnlyOrphaned' /\ EndpointsCoverRuntimes'
  BY DEF IInv, SecondStackOnlyOrphaned, EndpointsCoverRuntimes, Served, Exists
<1>4. ASSUME NEW n \in Names PROVE Sound(n, stacks[n])' /\ Attended(n)'
  <2>1. Sound(n, stacks[n]) /\ Attended(n)
    BY DEF IInv
  <2>2. Sound(n, stacks[n])'
    BY <2>1 DEF Sound, Asked
  <2>3. ASSUME Busy(n)' PROVE n \in orphans' \/ \E p \in Operators : op'[p].at = "wait" /\ op'[p].name = n
    <3>1. Busy(n)
      BY <2>3 DEF Busy
    <3>2. CASE n \in orphans
      BY <3>2
    <3>3. ASSUME NEW p \in Operators, op[p].at = "wait", op[p].name = n
          PROVE  n \in orphans' \/ \E q \in Operators : op'[q].at = "wait" /\ op'[q].name = n
      <4>1. CASE p = o
        BY <3>1, <3>3, <4>1
      <4>2. CASE p # o
        BY <1>1, <3>3, <4>2
      <4> QED BY <4>1, <4>2
    <3> QED BY <2>1, <3>1, <3>2, <3>3 DEF Attended
  <2> QED BY <2>2, <2>3 DEF Attended
<1>5. \A a \in Served' : Grouped(a, runtime[a].group)'
  BY DEF IInv, Served, Grouped, Asked
<1>6. ASSUME NEW p \in Operators PROVE Knows(op[p])'
  <2>1. op'[p] = s \/ op'[p] = op[p]
    BY <1>1
  <2>2. Knows(s)' /\ Knows(op[p])
    BY KnowsMore DEF IInv
  <2>3. PICK k : k = op'[p] /\ Knows(k)
    BY <2>1, <2>2 DEF IInv
  <2>4. Knows(k)'
    BY <2>3, KnowsMore
  <2> QED BY <2>3, <2>4 DEF Knows, Chosen
<1> QED BY <1>2, <1>3, <1>4, <1>5, <1>6 DEF IInv

\* A script that was not waiting for a changing stack leaves no orphan.
LEMMA ScriptReads ==
  ASSUME IInv, NEW o \in Operators, NEW s \in Script, Becomes(o, s), Knows(s),
         UNCHANGED <<stacks, runtime, orphans>>, op[o].at # "wait" \/ ~ Busy(op[o].name)
  PROVE  IInv'
BY ScriptMoves DEF IInv, TypeOK

LEMMA IdleScript == ASSUME NEW o, Ends(o) PROVE Idle \in Script /\ Becomes(o, Idle)
BY DEF Idle, Script, Ends, Becomes

LEMMA EndsStep ==
  ASSUME IInv, NEW o \in Operators, Ends(o), UNCHANGED <<stacks, runtime, orphans>>,
         op[o].at # "wait" \/ ~ Busy(op[o].name)
  PROVE  IInv'
BY IdleKnows, IdleScript, ScriptReads

LEMMA DieStep == ASSUME IInv, NEW o \in Operators, Die(o) PROVE IInv'
<1>1. op[o].at = "wait" => op[o].name \in Names
  BY DEF IInv, Knows, Chosen
<1>2. /\ Ends(o) /\ UNCHANGED <<stacks, runtime>> /\ orphans \subseteq orphans'
      /\ orphans' \subseteq Names
      /\ op[o].at = "wait" /\ Busy(op[o].name) => op[o].name \in orphans'
  BY <1>1 DEF Die, IInv, TypeOK
<1> QED BY <1>2, IdleKnows, IdleScript, ScriptMoves

\* What the steps below start from.
LEMMA ScriptAt ==
  ASSUME IInv, NEW o \in Operators
  PROVE  /\ op[o] \in Script /\ Knows(op[o])
         /\ op[o].at # "idle" => op[o].agent \in Agents /\ VpcOf[op[o].agent] \in Vpcs
BY EndpointAssumption DEF IInv, TypeOK, Knows

LEMMA StackAt ==
  ASSUME IInv, NEW n \in Names
  PROVE  /\ stacks \in [Names -> Stack] /\ stacks[n] \in Stack /\ Sound(n, stacks[n])
         /\ stacks[n].wanted \in Agents \cup {None} /\ stacks[n].params \subseteq RouteTables
         /\ ~ Exists(n) => stacks[n].wanted = None /\ stacks[n].params = {}
<1>1. stacks \in [Names -> Stack] /\ stacks[n] \in Stack /\ Sound(n, stacks[n])
  BY DEF IInv, TypeOK
<1>2. ~ Exists(n) => stacks[n] = Absent
  BY <1>1 DEF Sound, Exists
<1> QED BY <1>1, <1>2 DEF Stack, Absent

LEMMA BeginStep ==
  ASSUME IInv, NEW o \in Operators, NEW a \in Agents, Begin(o, a) PROVE IInv'
<1> DEFINE s == [Idle EXCEPT !.agent = a, !.at = IF a \in OptedOut THEN "runtime" ELSE "named"]
<1>1. /\ s \in Script /\ s.agent = a
      /\ s.at = IF a \in OptedOut THEN "runtime" ELSE "named"
  BY DEF Idle, Script
<1>2. Knows(s)
  BY <1>1 DEF Knows
<1> QED BY <1>1, <1>2, ScriptReads DEF Begin, Idle

LEMMA DefaultName ==
  ASSUME NEW v \in Vpcs PROVE v \in Names /\ v \notin Older /\ StackVpc[v] = v
BY EndpointAssumption DEF Names, StackVpc

LEMMA LookUpDefaultStep ==
  ASSUME IInv, ReadsSucceed, NEW o \in Operators, LookUpDefault(o) PROVE IInv'
<1> DEFINE v == VpcOf[op[o].agent]
<1>1. op[o] \in Script /\ op[o].agent \in Agents /\ v \in Vpcs
  BY ScriptAt DEF LookUpDefault
<1>2. CASE Exists(v)
  <2> DEFINE s == [op[o] EXCEPT !.name = v, !.at = "vpc"]
  <2>1. s \in Script /\ s.at = "vpc" /\ s.name = v /\ s.agent = op[o].agent
    BY <1>1, DefaultName DEF Script
  <2>2. Knows(s)
    BY <1>1, <1>2, <2>1, DefaultName DEF Knows, Chosen, IInv, SecondStackOnlyOrphaned
  <2>3. Becomes(o, s) /\ UNCHANGED <<stacks, runtime, orphans>> /\ op[o].at = "named"
    BY <1>2 DEF LookUpDefault, ReadsSucceed
  <2> QED BY <2>1, <2>2, <2>3, ScriptReads
<1>3. CASE ~ Exists(v)
  <2> DEFINE s == [op[o] EXCEPT !.at = "list"]
  <2>1. s \in Script /\ s.at = "list" /\ s.agent = op[o].agent
    BY <1>1 DEF Script
  <2>2. Knows(s)
    BY <1>1, <1>3, <2>1 DEF Knows
  <2> QED BY <1>3, <2>1, <2>2, ScriptReads DEF LookUpDefault
<1> QED BY <1>2, <1>3

LEMMA SearchStacksStep ==
  ASSUME IInv, Serial, ReadsSucceed, NEW o \in Operators, SearchStacks(o) PROVE IInv'
<1> DEFINE v == VpcOf[op[o].agent]
           found(n) == [op[o] EXCEPT !.name = n, !.at = "vpc"]
<1>1. op[o] \in Script /\ op[o].agent \in Agents /\ v \in Vpcs /\ ~ Exists(v)
  BY ScriptAt DEF SearchStacks, Knows
<1>2. ASSUME NEW n \in Names
      PROVE  found(n) \in Script /\ found(n).at = "vpc" /\ found(n).name = n
             /\ found(n).agent = op[o].agent
  BY <1>1 DEF Script
<1>3. UNCHANGED <<stacks, runtime, orphans>> /\ op[o].at = "list"
  BY DEF SearchStacks
<1>4. \/ \E n \in Matching(v) : Becomes(o, found(n))
      \/ Matching(v) = {} /\ Becomes(o, found(v))
  BY DEF SearchStacks, ReadsSucceed
<1> HIDE DEF found
<1>5. ASSUME NEW n \in Matching(v), Becomes(o, found(n)) PROVE IInv'
  <2>1. n \in Names /\ StackVpc[n] = v /\ Exists(n)
    BY DEF Matching, Listed, Exists
  <2>2. Chosen(found(n))
    BY <1>1, <1>2, <2>1 DEF Chosen, IInv, SecondStackOnlyOrphaned
  <2>3. Knows(found(n))
    BY <1>1, <1>2, <2>1, <2>2 DEF Knows
  <2> QED BY <1>2, <1>5, <1>3, <2>1, <2>3, ScriptReads
<1>6. ASSUME Matching(v) = {}, Becomes(o, found(v)) PROVE IInv'
  <2>1. ASSUME NEW n \in Names, Exists(n), StackVpc[n] = v PROVE n = v \/ n \in orphans
    <3>1. stacks[n] \in Stack /\ Sound(n, stacks[n]) /\ Attended(n)
      BY DEF IInv, TypeOK
    <3>2. CASE n \in Older
      <4>1. stacks[n].status \notin Listed \cup {"absent", "creating", "failed"}
        BY <1>6, <2>1, <3>1, <3>2 DEF Matching, Sound, Exists
      <4>2. Busy(n)
        BY <3>1, <4>1 DEF Stack, Listed, Busy
      <4>3. ASSUME NEW p \in Operators PROVE op[p].at # "wait"
        BY <1>3 DEF Serial, Idle
      <4> QED BY <3>1, <4>2, <4>3 DEF Attended
    <3>3. CASE n \notin Older
      BY <2>1, <3>3 DEF StackVpc
    <3> QED BY <3>2, <3>3
  <2>2. Knows(found(v))
    BY <1>1, <1>2, <2>1, DefaultName DEF Knows, Chosen
  <2> QED BY <1>1, <1>2, <1>6, <1>3, <2>2, DefaultName, ScriptReads
<1> QED BY <1>5, <1>6, <1>4

LEMMA ReadVpcStep ==
  ASSUME IInv, ReadsSucceed, NEW o \in Operators, ReadVpc(o) PROVE IInv'
<1> DEFINE s == [op[o] EXCEPT !.same = Exists(op[o].name), !.at = "subnets"]
<1>1. op[o] \in Script /\ op[o].agent \in Agents /\ Chosen(op[o])
  BY ScriptAt DEF ReadVpc, Knows
<1>2. Exists(op[o].name) \in BOOLEAN
  BY DEF Exists
<1>3. /\ s \in Script /\ s.at = "subnets" /\ s.name = op[o].name /\ s.agent = op[o].agent
      /\ s.same = Exists(op[o].name)
  BY <1>1, <1>2 DEF Script
<1>4. Becomes(o, s) /\ UNCHANGED <<stacks, runtime, orphans>> /\ op[o].at = "vpc"
  BY DEF ReadVpc, ReadsSucceed
<1> HIDE DEF s
<1>5. Knows(s)
  BY <1>1, <1>3 DEF Knows, Chosen
<1> QED BY <1>3, <1>4, <1>5, ScriptReads

LEMMA ReadSubnetsStep ==
  ASSUME IInv, ReadsSucceed, NEW o \in Operators, ReadSubnets(o) PROVE IInv'
<1> DEFINE n == op[o].name
           subnets == IF op[o].same /\ stacks[n].wanted # None
                      THEN stacks[n].wanted ELSE op[o].agent
           s == [op[o] EXCEPT !.subnets = subnets, !.at = "tables"]
<1>1. /\ op[o] \in Script /\ op[o].agent \in Agents /\ Chosen(op[o]) /\ n \in Names
      /\ op[o].same = Exists(n)
  BY ScriptAt DEF ReadSubnets, Knows, Chosen
<1>2. subnets \in Agents \cup {None} /\ (stacks[n].wanted # None => subnets = stacks[n].wanted)
  BY <1>1, StackAt
<1>3. Becomes(o, s) /\ UNCHANGED <<stacks, runtime, orphans>> /\ op[o].at = "subnets"
  BY DEF ReadSubnets, ReadsSucceed
<1> HIDE DEF subnets
<1>4. /\ s \in Script /\ s.at = "tables" /\ s.name = n /\ s.agent = op[o].agent
      /\ s.same = op[o].same /\ s.subnets = subnets
  BY <1>1, <1>2 DEF Script
<1> HIDE DEF s
<1>5. Knows(s)
  BY <1>1, <1>2, <1>4 DEF Knows, Chosen
<1> QED BY <1>3, <1>4, <1>5, ScriptReads

LEMMA MergeTablesStep ==
  ASSUME IInv, ReadsSucceed, NEW o \in Operators, MergeTables(o) PROVE IInv'
<1> DEFINE n == op[o].name
           merged == TablesOf[op[o].agent] \cup (IF op[o].same THEN stacks[n].params ELSE {})
           s == [op[o] EXCEPT !.merged = merged, !.at = "deploy"]
<1>1. /\ op[o] \in Script /\ op[o].agent \in Agents /\ Chosen(op[o]) /\ n \in Names
      /\ op[o].same = Exists(n)
      /\ stacks[n].wanted # None => op[o].subnets = stacks[n].wanted
  BY ScriptAt DEF MergeTables, Knows, Chosen
<1>2. /\ merged \in SUBSET RouteTables
      /\ TablesOf[op[o].agent] \cup stacks[n].params \subseteq merged
  BY <1>1, StackAt, EndpointAssumption
<1>3. Becomes(o, s) /\ UNCHANGED <<stacks, runtime, orphans>> /\ op[o].at = "tables"
  BY DEF MergeTables, ReadsSucceed
<1> HIDE DEF merged
<1>4. /\ s \in Script /\ s.at = "deploy" /\ s.name = n /\ s.agent = op[o].agent
      /\ s.subnets = op[o].subnets /\ s.merged = merged
  BY <1>1, <1>2 DEF Script
<1> HIDE DEF s
<1>5. Knows(s)
  BY <1>1, <1>2, <1>4 DEF Knows, Chosen
<1> QED BY <1>3, <1>4, <1>5, ScriptReads

------------------------------------------------------------------------------
(* The steps that write, and CloudFormation.                               *)

\* A stack whose tables grow takes no route from a Runtime.
LEMMA Grows ==
  ASSUME EndpointsCoverRuntimes, runtime' = runtime,
         \A n \in Names : stacks[n].tables \subseteq stacks'[n].tables
  PROVE  EndpointsCoverRuntimes'
<1> SUFFICES ASSUME NEW a \in Served'
             PROVE  \E n \in Names : StackVpc[n] = VpcOf[a] /\ TablesOf[a] \subseteq stacks'[n].tables
  BY DEF EndpointsCoverRuntimes
<1>1. PICK n \in Names : StackVpc[n] = VpcOf[a] /\ TablesOf[a] \subseteq stacks[n].tables
  BY DEF EndpointsCoverRuntimes, Served
<1> QED BY <1>1

\* A group that a stack of the VPC has stays the group of a stack of the VPC.
LEMMA StayGrouped ==
  ASSUME NEW a, NEW group, Grouped(a, group),
         \A n \in Names : stacks[n].access # None => stacks'[n].access # None
  PROVE  Grouped(a, group)'
BY DEF Grouped, Asked

\* The merge is written: into a new stack only if the VPC has none, or orphans alone.
LEMMA WriteStep ==
  ASSUME IInv, Serial, NEW o \in Operators, op[o].at = "deploy",
         NEW status \in {"creating", "updating"}, Write(o, status),
         status = "creating" <=> ~ Exists(op[o].name),
         status = "updating" => Usable(op[o].name),
         Becomes(o, [op[o] EXCEPT !.at = "wait"]), UNCHANGED <<runtime, orphans>>
  PROVE  IInv'
<1>0. PICK n, s, t :
        /\ n = op[o].name /\ s = [op[o] EXCEPT !.at = "wait"]
        /\ t = [stacks[n] EXCEPT !.status = status, !.params = op[o].merged,
                                 !.wanted = op[o].subnets, !.asks = AccessOf[op[o].agent]]
  OBVIOUS
<1>1. /\ op[o] \in Script /\ op[o].agent \in Agents /\ n \in Names
      /\ StackVpc[n] = VpcOf[op[o].agent]
      /\ \A m \in Names : Exists(m) /\ StackVpc[m] = VpcOf[op[o].agent] =>
           m = n \/ m \in orphans \/ n \in orphans
      /\ status = "creating" => n \notin Older
      /\ stacks[n].wanted # None => op[o].subnets = stacks[n].wanted
      /\ TablesOf[op[o].agent] \cup stacks[n].params \subseteq op[o].merged
      /\ AccessOf[op[o].agent] \in Access /\ AccessOf[op[o].agent] # None
      /\ Asked(n, AccessOf[op[o].agent])
  BY <1>0, ScriptAt, EndpointAssumption DEF Knows, Chosen, Asked
<1>2. stacks \in [Names -> Stack] /\ op \in [Operators -> Script] /\ stacks[n] \in Stack
  BY <1>1 DEF IInv, TypeOK
<1>3. /\ t \in Stack /\ t.status = status /\ t.params = op[o].merged
      /\ t.tables = stacks[n].tables /\ t.wanted = op[o].subnets /\ t.subnets = stacks[n].subnets
      /\ t.asks = AccessOf[op[o].agent] /\ t.access = stacks[n].access
  BY <1>0, <1>1, <1>2 DEF Stack, Script
<1>4. stacks' = [stacks EXCEPT ![n] = t]
  BY <1>0, <1>2 DEF Write
<1>5. /\ s \in Script /\ s.at = "wait" /\ s.name = n /\ s.agent = op[o].agent
      /\ op' = [op EXCEPT ![o] = s]
  BY <1>0, <1>1 DEF Script, Becomes
<1>6. /\ stacks'[n] = t /\ \A m \in Names \ {n} : stacks'[m] = stacks[m]
      /\ op'[o] = s /\ \A p \in Operators \ {o} : op'[p] = op[p]
  BY <1>1, <1>2, <1>4, <1>5
<1>7. TypeOK'
  <2>1. stacks' \in [Names -> Stack] /\ op' \in [Operators -> Script]
    BY <1>2, <1>3, <1>4, <1>5
  <2>2. ASSUME NEW m \in Names, stacks'[m].status \notin {"creating", "updating", "rollingback"}
        PROVE  /\ stacks'[m].params = stacks'[m].tables /\ stacks'[m].wanted = stacks'[m].subnets
               /\ stacks'[m].asks = stacks'[m].access
    <3>1. m # n
      BY <1>3, <1>6, <2>2
    <3> QED BY <1>6, <2>2, <3>1 DEF IInv, TypeOK
  <2> QED BY <2>1, <2>2 DEF IInv, TypeOK
<1>8. ASSUME NEW m \in Names PROVE Exists(m)' <=> Exists(m) \/ m = n
  <2>1. t.status # "absent"
    BY <1>3
  <2>2. CASE m = n
    BY <1>6, <2>1, <2>2 DEF Exists
  <2>3. CASE m # n
    BY <1>6, <2>3 DEF Exists
  <2> QED BY <2>2, <2>3
<1>9. SecondStackOnlyOrphaned'
  BY <1>1, <1>8 DEF IInv, SecondStackOnlyOrphaned
<1>10. EndpointsCoverRuntimes'
  BY <1>3, <1>6, Grows DEF IInv
<1>11. \A a \in Served' : Grouped(a, runtime[a].group)'
  <2>1. \A m \in Names : stacks[m].access # None => stacks'[m].access # None
    BY <1>3, <1>6
  <2>2. \A a \in Served : Grouped(a, runtime[a].group)'
    BY <2>1, StayGrouped DEF IInv
  <2> QED BY <2>2 DEF Served
<1>12. ASSUME NEW m \in Names PROVE Sound(m, stacks[m])' /\ Attended(m)'
  <2>1. Sound(m, stacks[m]) /\ Attended(m)
    BY DEF IInv
  <2>2. CASE m = n
    <3>1. n \in Older => t.status \notin {"creating", "failed"}
      BY <1>1, <1>3
    <3>2. t.tables \subseteq t.params /\ (t.subnets # None => t.wanted = t.subnets)
      BY <1>1, <1>3, <2>1, <2>2 DEF Sound
    <3>3. /\ t.status \notin {"absent", "creating", "failed"} => t.access # None
          /\ t.access # None => Asked(n, t.access)
      <4>1. Sound(n, stacks[n]) /\ (Exists(n) => stacks[n].status \notin {"absent", "creating", "failed"})
        BY <1>0, <1>1, <1>3, <2>1, <2>2 DEF Exists, Usable
      <4> QED BY <1>0, <1>1, <1>3, <4>1 DEF Sound, Exists
    <3>4. Sound(n, t)
      BY <1>1, <1>3, <3>1, <3>2, <3>3 DEF Sound
    <3>5. Sound(n, t)'
      BY <3>4, <1>6 DEF Sound, Asked
    <3> QED BY <1>5, <1>6, <2>2, <3>4 DEF Sound, Asked, Attended
  <2>3. CASE m # n
    <3>1. Sound(m, stacks[m])'
      BY <1>6, <2>1, <2>3 DEF Sound, Asked
    <3>2. ASSUME NEW p \in Operators PROVE op[p].at # "wait"
      BY DEF Serial, Idle
    <3> QED BY <1>6, <2>1, <2>3, <3>1, <3>2 DEF Attended, Busy
  <2> QED BY <2>2, <2>3
<1>13. ASSUME NEW p \in Operators PROVE Knows(op[p])'
  <2>1. CASE p = o
    <3>1. Chosen(s)'
      <4>1. Exists(n)'
        BY <1>1, <1>8
      <4> QED BY <1>1, <1>5, <1>8, <4>1 DEF Chosen
    <3>2. TablesOf[s.agent] \subseteq stacks'[s.name].params
      BY <1>1, <1>3, <1>5, <1>6
    <3>3. Knows(s)'
      BY <1>1, <1>5, <3>1, <3>2 DEF Knows
    <3> QED BY <1>6, <2>1, <3>3
  <2>2. CASE p # o
    <3>1. op[o] # Idle
      BY DEF Idle
    <3>2. op[p] = Idle
      BY <2>2, <3>1 DEF Serial
    <3>3. Knows(Idle)'
      BY DEF Knows, Idle
    <3> QED BY <1>6, <2>2, <3>2, <3>3
  <2> QED BY <2>1, <2>2
<1> QED BY <1>7, <1>9, <1>10, <1>11, <1>12, <1>13 DEF IInv

LEMMA DeployStep ==
  ASSUME IInv, Serial, NEW o \in Operators, Deploy(o) PROVE IInv'
<1> DEFINE n == op[o].name
<1>1. /\ op[o] \in Script /\ op[o].at = "deploy" /\ op[o].agent \in Agents
      /\ Chosen(op[o]) /\ n \in Names /\ UNCHANGED <<runtime, orphans>>
      /\ TablesOf[op[o].agent] \cup stacks[n].params \subseteq op[o].merged
  BY ScriptAt DEF Deploy, Knows, Chosen
<1>2. CASE Create(o)
  BY <1>1, <1>2, WriteStep DEF Create
<1>3. CASE Update(o)
  BY <1>1, <1>3, WriteStep DEF Update, Usable, Exists
<1>4. CASE NothingToDeploy(o)
  <2> DEFINE s == [op[o] EXCEPT !.at = "output"]
  <2>1. s \in Script /\ s.at = "output" /\ s.name = n /\ s.agent = op[o].agent
    BY <1>1 DEF Script
  <2>2. /\ stacks[n].params = op[o].merged /\ stacks[n].params = stacks[n].tables
        /\ stacks[n].access # None
    BY <1>1, <1>4 DEF NothingToDeploy, Usable, Unchanged, IInv, TypeOK, Sound
  <2>3. Becomes(o, s) /\ UNCHANGED <<stacks, runtime, orphans>>
    BY <1>1, <1>4 DEF NothingToDeploy
  <2> HIDE DEF s
  <2>4. Knows(s)
    BY <1>1, <2>1, <2>2 DEF Knows, Chosen
  <2> QED BY <1>1, <2>1, <2>3, <2>4, ScriptReads
<1>5. CASE Refused(o)
  BY <1>1, <1>5, EndsStep DEF Refused
<1> QED BY <1>2, <1>3, <1>4, <1>5 DEF Deploy

LEMMA WaitStep ==
  ASSUME IInv, NEW o \in Operators, Wait(o) PROVE IInv'
<1> DEFINE n == op[o].name
           s == [op[o] EXCEPT !.at = "output"]
<1>1. /\ op[o] \in Script /\ op[o].at = "wait" /\ op[o].agent \in Agents
      /\ Chosen(op[o]) /\ n \in Names /\ UNCHANGED <<stacks, runtime, orphans>>
      /\ stacks[n].status \notin {"rolledback", "failed"} =>
           TablesOf[op[o].agent] \subseteq stacks[n].params
  BY ScriptAt DEF Wait, Knows, Chosen
<1>2. CASE stacks[n].status = "ready" /\ Becomes(o, s)
  <2>1. s \in Script /\ s.at = "output" /\ s.name = n /\ s.agent = op[o].agent
    BY <1>1 DEF Script
  <2>2. stacks[n].params = stacks[n].tables /\ stacks[n].access # None /\ ~ Busy(n)
    BY <1>1, <1>2 DEF IInv, TypeOK, Busy, Sound
  <2> HIDE DEF s
  <2>3. Knows(s)
    BY <1>1, <1>2, <2>1, <2>2 DEF Knows, Chosen
  <2> QED BY <1>1, <1>2, <2>1, <2>2, <2>3, ScriptReads
<1>3. CASE stacks[n].status \in {"rolledback", "failed"} /\ Ends(o)
  BY <1>1, <1>3, EndsStep DEF Busy
<1> QED BY <1>2, <1>3 DEF Wait

LEMMA ReadGroupStep ==
  ASSUME IInv, ReadsSucceed, NEW o \in Operators, ReadGroup(o) PROVE IInv'
<1> DEFINE n == op[o].name
           x == stacks[n].access
           s == [op[o] EXCEPT !.group = <<n, x>>, !.at = "runtime"]
<1>1. /\ op[o] \in Script /\ op[o].agent \in Agents /\ Chosen(op[o]) /\ n \in Names
      /\ StackVpc[n] = VpcOf[op[o].agent]
      /\ TablesOf[op[o].agent] \subseteq stacks[n].tables /\ x # None
  BY ScriptAt DEF ReadGroup, Knows, Chosen
<1>2. x \in Access /\ Asked(n, x)
  <2>1. Asked(n, x)
    BY <1>1, StackAt DEF Sound
  <2> QED BY <2>1, EndpointAssumption DEF Asked
<1>3. Becomes(o, s) /\ UNCHANGED <<stacks, runtime, orphans>> /\ op[o].at = "output"
  BY DEF ReadGroup, ReadsSucceed
<1>4. /\ s \in Script /\ s.at = "runtime" /\ s.name = n /\ s.agent = op[o].agent
      /\ s.group = <<n, x>>
  <2>1. <<n, x>> \in Groups \cup {None}
    BY <1>1, <1>2 DEF Groups
  <2> QED BY <1>1, <2>1 DEF Script
<1> HIDE DEF s
<1>5. Grouped(s.agent, s.group)
  BY <1>1, <1>2, <1>4 DEF Grouped
<1>6. Knows(s)
  BY <1>1, <1>4, <1>5 DEF Knows, Chosen
<1> QED BY <1>3, <1>4, <1>6, ScriptReads

LEMMA DeployRuntimeStep ==
  ASSUME IInv, NEW o \in Operators, DeployRuntime(o) PROVE IInv'
<1> DEFINE a == op[o].agent
           new == [deployed |-> TRUE, group |-> op[o].group]
<1>1. /\ a \in Agents /\ stacks' = stacks /\ orphans' = orphans /\ op[o].at = "runtime"
      /\ runtime' = [runtime EXCEPT ![a] = new] /\ op' = [op EXCEPT ![o] = Idle]
      /\ op[o].group \in Groups \cup {None}
      /\ a \notin OptedOut => /\ Chosen(op[o]) /\ TablesOf[a] \subseteq stacks[op[o].name].tables
                              /\ Grouped(a, op[o].group)
  BY ScriptAt DEF DeployRuntime, Ends, Knows, Script
<1>2. TypeOK'
  <2>1. Idle \in Script /\ new \in [deployed : BOOLEAN, group : Groups \cup {None}]
    BY <1>1 DEF Idle, Script
  <2>2. /\ op' \in [Operators -> Script]
        /\ runtime' \in [Agents -> [deployed : BOOLEAN, group : Groups \cup {None}]]
    BY <1>1, <2>1 DEF IInv, TypeOK
  <2> QED BY <1>1, <2>2 DEF IInv, TypeOK
<1>3. ASSUME NEW b \in Agents \ {a} PROVE runtime'[b] = runtime[b]
  BY <1>1 DEF IInv, TypeOK
<1>4. runtime'[a] = new
  BY <1>1 DEF IInv, TypeOK
<1>5. ASSUME NEW b \in Served'
      PROVE  /\ \E n \in Names : StackVpc[n] = VpcOf[b] /\ TablesOf[b] \subseteq stacks[n].tables
             /\ Grouped(b, runtime'[b].group)
  <2>1. CASE b = a
    BY <1>1, <1>4, <2>1 DEF Served, Chosen
  <2>2. CASE b # a
    <3>1. b \in Served /\ runtime'[b] = runtime[b]
      BY <1>3, <2>2 DEF Served
    <3> QED BY <3>1 DEF IInv, EndpointsCoverRuntimes
  <2> QED BY <2>1, <2>2
<1>6. EndpointsCoverRuntimes' /\ \A b \in Served' : Grouped(b, runtime[b].group)'
  BY <1>1, <1>5 DEF EndpointsCoverRuntimes, Grouped
<1>7. SecondStackOnlyOrphaned'
  BY <1>1 DEF IInv, SecondStackOnlyOrphaned, Exists
<1>8. ASSUME NEW n \in Names PROVE Sound(n, stacks[n])' /\ Attended(n)'
  <2>1. Sound(n, stacks[n])'
    BY <1>1 DEF IInv, Sound, Asked
  <2>2. Attended(n)
    BY DEF IInv
  <2>3. ASSUME NEW p \in Operators, op[p].at = "wait"
        PROVE  op'[p] = op[p]
    BY <1>1, <2>3 DEF IInv, TypeOK
  <2> QED BY <1>1, <2>1, <2>2, <2>3 DEF Attended, Busy
<1>9. ASSUME NEW p \in Operators PROVE Knows(op[p])'
  <2>1. PICK k : k = op'[p] /\ (k = Idle \/ k = op[p])
    BY <1>1 DEF IInv, TypeOK
  <2>2. Knows(k)
    BY <2>1, IdleKnows DEF IInv
  <2>3. Knows(k)'
    BY <1>1, <2>2, KnowsMore
  <2> QED BY <2>1, <2>3 DEF Knows, Chosen
<1> QED BY <1>2, <1>6, <1>7, <1>8, <1>9 DEF IInv

\* CloudFormation takes a step: the stack routes all that it did, and no more than it
\* said.  No script is misled, whatever it has read.
LEMMA CloudMoves ==
  ASSUME IInv, NEW n \in Names, Busy(n), NEW t \in Stack, Sound(n, t),
         stacks' = [stacks EXCEPT ![n] = t], UNCHANGED <<runtime, op, orphans>>,
         t.status # "absent",
         t.status \notin {"creating", "updating", "rollingback"} =>
           t.params = t.tables /\ t.wanted = t.subnets /\ t.asks = t.access,
         stacks[n].tables \subseteq t.tables, t.params \subseteq stacks[n].params,
         t.status \notin {"rolledback", "failed"} => t.params = stacks[n].params,
         t.wanted # None => t.wanted = stacks[n].wanted,
         stacks[n].access # None => t.access # None
  PROVE  IInv'
<1>1. /\ stacks'[n] = t /\ \A m \in Names \ {n} : stacks'[m] = stacks[m]
      /\ stacks' \in [Names -> Stack]
  BY StackAt
<1>2. TypeOK'
  <2>1. ASSUME NEW m \in Names, stacks'[m].status \notin {"creating", "updating", "rollingback"}
        PROVE  /\ stacks'[m].params = stacks'[m].tables /\ stacks'[m].wanted = stacks'[m].subnets
               /\ stacks'[m].asks = stacks'[m].access
    BY <1>1, <2>1 DEF IInv, TypeOK
  <2> QED BY <1>1, <2>1 DEF IInv, TypeOK
<1>3. ASSUME NEW m \in Names PROVE Exists(m)' <=> Exists(m)
  BY <1>1 DEF Exists, Busy
<1>4. SecondStackOnlyOrphaned'
  BY <1>3 DEF IInv, SecondStackOnlyOrphaned
<1>5. EndpointsCoverRuntimes'
  BY <1>1, Grows DEF IInv
<1>6. \A m \in Names : stacks[m].access # None => stacks'[m].access # None
  BY <1>1
<1>7. \A a \in Served' : Grouped(a, runtime[a].group)'
  <2>1. \A a \in Served : Grouped(a, runtime[a].group)'
    BY <1>6, StayGrouped DEF IInv
  <2> QED BY <2>1 DEF Served
<1>8. ASSUME NEW m \in Names PROVE Sound(m, stacks[m])' /\ Attended(m)'
  <2>1. Sound(m, stacks[m]) /\ Attended(m) /\ Attended(n)
    BY DEF IInv
  <2>2. CASE m = n
    BY <1>1, <2>1, <2>2 DEF Sound, Asked, Attended
  <2>3. CASE m # n
    BY <1>1, <2>1, <2>3 DEF Sound, Asked, Attended, Busy
  <2> QED BY <2>2, <2>3
<1>9. ASSUME NEW o \in Operators PROVE Knows(op[o])'
  <2>0. PICK s : s = op[o]
    OBVIOUS
  <2>1. Knows(s) /\ op'[o] = s /\ (s.at # "idle" => VpcOf[s.agent] \in Names)
    BY <2>0, ScriptAt, DefaultName DEF IInv
  <2>2. ASSUME s.name \in Names
        PROVE  /\ Chosen(s)' <=> Chosen(s)
               /\ stacks[s.name].tables \subseteq stacks'[s.name].tables
               /\ stacks'[s.name].params \subseteq stacks[s.name].params
               /\ stacks'[s.name].wanted # None => stacks'[s.name].wanted = stacks[s.name].wanted
               /\ stacks'[s.name].status \notin {"rolledback", "failed"} =>
                    /\ stacks[s.name].status \notin {"rolledback", "failed"}
                    /\ stacks'[s.name].params = stacks[s.name].params
    <3>1. Chosen(s)' <=> Chosen(s)
      BY <1>3, <2>1, <2>2 DEF Chosen
    <3>2. CASE s.name = n
      BY <1>1, <3>1, <3>2 DEF Busy
    <3>3. CASE s.name # n
      BY <1>1, <2>2, <3>1, <3>3
    <3> QED BY <3>2, <3>3
  <2>3. Grouped(s.agent, s.group) => Grouped(s.agent, s.group)'
    BY <1>6, StayGrouped
  <2>4. CASE s.name \in Names
    <3>1. Knows(s)'
      BY <1>3, <1>6, <2>1, <2>2, <2>3, <2>4 DEF Knows, Exists
    <3> QED BY <2>1, <3>1
  <2>5. CASE s.name \notin Names
    BY <1>3, <2>1, <2>5 DEF Knows, Chosen
  <2> QED BY <2>4, <2>5
<1> QED BY <1>2, <1>4, <1>5, <1>7, <1>8, <1>9 DEF IInv

LEMMA CompleteStep ==
  ASSUME IInv, NEW n \in Names, Complete(n) PROVE IInv'
<1>1. stacks \in [Names -> Stack] /\ stacks[n] \in Stack /\ Sound(n, stacks[n]) /\ Pending(n)
  BY StackAt DEF Complete
<1>2. PICK status : status = IF stacks[n].status = "creating" THEN "ready" ELSE "cleaning"
  OBVIOUS
<1> DEFINE t == [stacks[n] EXCEPT !.status = status, !.tables = stacks[n].params,
                                  !.subnets = stacks[n].wanted, !.access = stacks[n].asks]
<1>3. /\ t \in Stack /\ t.status = status /\ t.params = stacks[n].params
      /\ t.tables = stacks[n].params /\ t.wanted = stacks[n].wanted
      /\ t.subnets = stacks[n].wanted /\ t.asks = stacks[n].asks /\ t.access = stacks[n].asks
  BY <1>1, <1>2 DEF Stack
<1>4. Busy(n) /\ stacks' = [stacks EXCEPT ![n] = t] /\ UNCHANGED <<runtime, op, orphans>>
  BY <1>1, <1>2 DEF Complete, Pending, Busy
<1> HIDE DEF t
<1>5. Sound(n, t) /\ stacks[n].tables \subseteq t.tables /\ t.access # None
  BY <1>1, <1>2, <1>3 DEF Sound, Pending
<1> QED BY <1>2, <1>3, <1>4, <1>5, CloudMoves

LEMMA CleanUpStep ==
  ASSUME IInv, NEW n \in Names, CleanUp(n) \/ FailToUpdate(n) PROVE IInv'
<1>1. /\ stacks \in [Names -> Stack] /\ stacks[n] \in Stack /\ Sound(n, stacks[n])
      /\ stacks[n].status \in {"cleaning", "updating"}
  BY StackAt DEF CleanUp, FailToUpdate
<1>2. PICK status : status = IF stacks[n].status = "cleaning" THEN "ready" ELSE "rollingback"
  OBVIOUS
<1> DEFINE t == [stacks[n] EXCEPT !.status = status]
<1>3. /\ t \in Stack /\ t.status = status /\ t.params = stacks[n].params
      /\ t.tables = stacks[n].tables /\ t.wanted = stacks[n].wanted
      /\ t.subnets = stacks[n].subnets /\ t.asks = stacks[n].asks /\ t.access = stacks[n].access
  BY <1>1, <1>2 DEF Stack
<1>4. Busy(n) /\ stacks' = [stacks EXCEPT ![n] = t] /\ UNCHANGED <<runtime, op, orphans>>
  BY <1>1, <1>2 DEF CleanUp, FailToUpdate, Busy
<1> HIDE DEF t
<1>5. Sound(n, t) /\ t.access # None
  BY <1>1, <1>2, <1>3 DEF Sound
<1>6. status = "ready" =>
        /\ stacks[n].params = stacks[n].tables /\ stacks[n].wanted = stacks[n].subnets
        /\ stacks[n].asks = stacks[n].access
  BY <1>1, <1>2 DEF IInv, TypeOK
<1> QED BY <1>2, <1>3, <1>4, <1>5, <1>6, CloudMoves

LEMMA RollBackStep ==
  ASSUME IInv, NEW n \in Names, RollBack(n) PROVE IInv'
<1>1. /\ stacks \in [Names -> Stack] /\ stacks[n] \in Stack /\ Sound(n, stacks[n])
      /\ stacks[n].status \in {"creating", "rollingback"}
  BY StackAt DEF RollBack
<1>2. PICK status : status = IF stacks[n].status = "creating" THEN "failed" ELSE "rolledback"
  OBVIOUS
<1> DEFINE t == [stacks[n] EXCEPT !.status = status, !.params = stacks[n].tables,
                                  !.wanted = stacks[n].subnets, !.asks = stacks[n].access]
<1>3. /\ t \in Stack /\ t.status = status /\ t.params = stacks[n].tables
      /\ t.tables = stacks[n].tables /\ t.wanted = stacks[n].subnets
      /\ t.subnets = stacks[n].subnets /\ t.asks = stacks[n].access /\ t.access = stacks[n].access
  BY <1>1, <1>2 DEF Stack
<1>4. Busy(n) /\ stacks' = [stacks EXCEPT ![n] = t] /\ UNCHANGED <<runtime, op, orphans>>
  BY <1>1, <1>2 DEF RollBack, Busy
<1> HIDE DEF t
<1>5. /\ Sound(n, t) /\ t.params \subseteq stacks[n].params
      /\ t.wanted # None => t.wanted = stacks[n].wanted
  BY <1>1, <1>2, <1>3 DEF Sound
<1> QED BY <1>2, <1>3, <1>4, <1>5, CloudMoves

LEMMA NextInv == ASSUME ReadsSucceed, IInv, Serial, [Next]_vars PROVE IInv'
<1>1. CASE UNCHANGED vars
  <2>1. TypeOK' /\ SecondStackOnlyOrphaned' /\ EndpointsCoverRuntimes'
    BY <1>1 DEF IInv, TypeOK, SecondStackOnlyOrphaned, EndpointsCoverRuntimes, Served,
                Exists, vars
  <2>2. \A n \in Names : Sound(n, stacks[n])' /\ Attended(n)'
    BY <1>1 DEF IInv, Sound, Asked, Attended, Busy, vars
  <2>3. \A a \in Served' : Grouped(a, runtime[a].group)'
    BY <1>1 DEF IInv, Served, Grouped, Asked, vars
  <2>4. ASSUME NEW o \in Operators PROVE Knows(op[o])'
    <3>1. PICK k : k = op[o] /\ Knows(k)
      BY DEF IInv
    <3>2. Knows(k)' /\ op'[o] = k
      BY <1>1, <3>1, KnowsMore DEF vars
    <3> QED BY <3>2 DEF Knows, Chosen
  <2> QED BY <2>1, <2>2, <2>3, <2>4 DEF IInv
<1>2. ASSUME NEW o \in Operators, Run(o) PROVE IInv'
  <2>1. CASE \E a \in Agents : Begin(o, a)
    BY <2>1, BeginStep
  <2>2. CASE LookUpDefault(o) \/ SearchStacks(o) \/ ReadVpc(o) \/ ReadSubnets(o) \/ MergeTables(o)
    BY <2>2, LookUpDefaultStep, SearchStacksStep, ReadVpcStep, ReadSubnetsStep, MergeTablesStep
  <2>3. CASE Deploy(o) \/ Wait(o) \/ ReadGroup(o) \/ DeployRuntime(o)
    BY <2>3, DeployStep, WaitStep, ReadGroupStep, DeployRuntimeStep
  <2>4. CASE Die(o)
    BY <2>4, DieStep
  <2> QED BY <1>2, <2>1, <2>2, <2>3, <2>4 DEF Run
<1> QED BY <1>1, <1>2, CompleteStep, CleanUpStep, RollBackStep DEF Next

------------------------------------------------------------------------------
(* Types, whatever fails and overlaps.                                     *)

Waits == {"vpc", "subnets", "tables", "deploy", "wait", "output"}

\* The agent a script deploys, and the stack it acts on, are there.
ScriptInv(s) ==
  /\ s.at # "idle" => s.agent \in Agents
  /\ s.at \in Waits => s.name \in Names
  /\ s.at = "output" => stacks[s.name].access # None

\* What a stack that is not being changed has is what its parameters name; a stack that
\* was once complete has an access.
Settled(t) == t.params = t.tables /\ t.wanted = t.subnets /\ t.asks = t.access
Formed(t) ==
  /\ t.status \notin {"creating", "updating", "rollingback"} => Settled(t)
  /\ t.status \in {"creating", "updating"} => t.asks # None
  /\ t.status \notin {"absent", "creating", "failed"} => t.access # None

TInv ==
  /\ TypeOK
  /\ \A n \in Names : Formed(stacks[n])
  /\ \A o \in Operators : ScriptInv(op[o])

\* A script takes a step; what stacks there are keep their access.
LEMMA ScriptTypes ==
  ASSUME TInv, NEW o \in Operators, NEW s \in Script, Becomes(o, s), ScriptInv(s)',
         \A n \in Names : stacks[n].access # None => stacks'[n].access # None
  PROVE  op' \in [Operators -> Script] /\ \A p \in Operators : ScriptInv(op[p])'
<1>1. op \in [Operators -> Script] /\ op' = [op EXCEPT ![o] = s]
  BY DEF TInv, TypeOK, Becomes
<1>2. ASSUME NEW p \in Operators PROVE ScriptInv(op[p])'
  <2>1. CASE p = o
    BY <1>1, <2>1 DEF ScriptInv
  <2>2. CASE p # o
    <3>1. op'[p] = op[p] /\ ScriptInv(op[p])
      BY <1>1, <2>2 DEF TInv
    <3> QED BY <3>1 DEF ScriptInv, Waits
  <2> QED BY <2>1, <2>2
<1> QED BY <1>1, <1>2

\* A step of a script that changes nothing but the script.
LEMMA MoveTypes ==
  ASSUME TInv, NEW o \in Operators, NEW s \in Script, Becomes(o, s),
         UNCHANGED <<stacks, runtime, orphans>>, ScriptInv(s)
  PROVE  TInv'
<1>1. ScriptInv(s)'
  BY DEF ScriptInv
<1>2. op' \in [Operators -> Script] /\ \A p \in Operators : ScriptInv(op[p])'
  BY <1>1, ScriptTypes
<1>3. \A n \in Names : Formed(stacks[n])'
  BY DEF TInv, Formed, Settled
<1> QED BY <1>2, <1>3 DEF TInv, TypeOK

\* A stack changes, and keeps its access if it has one.
LEMMA StackTypes ==
  ASSUME TInv, NEW n \in Names, NEW t \in Stack, stacks' = [stacks EXCEPT ![n] = t],
         Formed(t), stacks[n].access # None => t.access # None
  PROVE  /\ stacks' \in [Names -> Stack]
         /\ \A m \in Names : Formed(stacks[m])'
         /\ \A m \in Names : stacks[m].access # None => stacks'[m].access # None
<1>1. stacks \in [Names -> Stack]
  BY DEF TInv, TypeOK
<1>2. stacks'[n] = t /\ \A m \in Names \ {n} : stacks'[m] = stacks[m]
  BY <1>1
<1>3. ASSUME NEW m \in Names PROVE Formed(stacks[m])'
  <2>1. stacks'[m] = t \/ stacks'[m] = stacks[m]
    BY <1>2
  <2>2. Formed(stacks[m])
    BY DEF TInv
  <2>3. Formed(stacks'[m])
    BY <2>1, <2>2
  <2> QED BY <2>3 DEF Formed, Settled
<1> QED BY <1>1, <1>2, <1>3

LEMMA RunTypes == ASSUME TInv, NEW o \in Operators, Run(o) PROVE TInv'
<1> DEFINE s == op[o]
           n == s.name
<1>1. /\ s \in Script
      /\ s.at # "idle" => s.agent \in Agents /\ VpcOf[s.agent] \in Names
                          /\ TablesOf[s.agent] \subseteq RouteTables
      /\ s.at \in Waits => n \in Names /\ stacks[n] \in Stack /\ Formed(stacks[n])
      /\ ScriptInv(s)
  BY EndpointAssumption, DefaultName DEF TInv, TypeOK, ScriptInv
<1>2. ASSUME NEW a \in Agents, Begin(o, a) PROVE TInv'
  <2> DEFINE t == [Idle EXCEPT !.agent = a, !.at = IF a \in OptedOut THEN "runtime" ELSE "named"]
  <2>1. t \in Script /\ t.agent = a /\ t.at \in {"runtime", "named"}
    BY DEF Idle, Script
  <2>2. Becomes(o, t) /\ UNCHANGED <<stacks, runtime, orphans>>
    BY <1>2 DEF Begin
  <2> HIDE DEF t
  <2> QED BY <2>1, <2>2, MoveTypes DEF ScriptInv, Waits
<1>3. ASSUME NEW m \in Names, s.at # "idle", Becomes(o, [s EXCEPT !.name = m, !.at = "vpc"]),
             UNCHANGED <<stacks, runtime, orphans>>
      PROVE  TInv'
  <2>1. [s EXCEPT !.name = m, !.at = "vpc"] \in Script
    BY <1>1 DEF Script
  <2> QED BY <1>1, <1>3, <2>1, MoveTypes DEF Script, ScriptInv, Waits
<1>4. ASSUME LookUpDefault(o) PROVE TInv'
  <2>1. ASSUME Becomes(o, [s EXCEPT !.at = "list"]) PROVE TInv'
    <3>1. [s EXCEPT !.at = "list"] \in Script
      BY <1>1 DEF Script
    <3> QED BY <1>1, <1>4, <2>1, <3>1, MoveTypes DEF LookUpDefault, Script, ScriptInv, Waits
  <2> QED BY <1>1, <1>3, <1>4, <2>1 DEF LookUpDefault
<1>5. ASSUME SearchStacks(o) PROVE TInv'
  BY <1>1, <1>3, <1>5 DEF SearchStacks, Matching
<1>6. ASSUME ReadVpc(o) PROVE TInv'
  <2>1. PICK same \in BOOLEAN : Becomes(o, [s EXCEPT !.same = same, !.at = "subnets"])
    BY <1>6 DEF ReadVpc, Exists
  <2>2. [s EXCEPT !.same = same, !.at = "subnets"] \in Script
    BY <1>1 DEF Script
  <2> QED BY <1>1, <1>6, <2>1, <2>2, MoveTypes DEF ReadVpc, Script, ScriptInv, Waits
<1>7. ASSUME ReadSubnets(o) PROVE TInv'
  <2>1. PICK found \in BOOLEAN :
          Becomes(o, [s EXCEPT !.subnets = IF found /\ stacks[n].wanted # None
                                           THEN stacks[n].wanted ELSE s.agent,
                               !.at = "tables"])
    BY <1>1, <1>7 DEF ReadSubnets, Script
  <2>2. PICK subnets \in Agents \cup {None} :
          Becomes(o, [s EXCEPT !.subnets = subnets, !.at = "tables"])
    BY <1>1, <1>7, <2>1 DEF ReadSubnets, Stack, Waits
  <2>3. [s EXCEPT !.subnets = subnets, !.at = "tables"] \in Script
    BY <1>1 DEF Script
  <2> QED BY <1>1, <1>7, <2>2, <2>3, MoveTypes DEF ReadSubnets, Script, ScriptInv, Waits
<1>8. ASSUME MergeTables(o) PROVE TInv'
  <2>1. PICK found \in BOOLEAN :
          Becomes(o, [s EXCEPT !.merged = TablesOf[s.agent] \cup
                                            (IF found THEN stacks[n].params ELSE {}),
                               !.at = "deploy"])
    BY <1>1, <1>8 DEF MergeTables, Script
  <2>2. PICK merged \in SUBSET RouteTables :
          Becomes(o, [s EXCEPT !.merged = merged, !.at = "deploy"])
    BY <1>1, <1>8, <2>1 DEF MergeTables, Stack, Waits
  <2>3. [s EXCEPT !.merged = merged, !.at = "deploy"] \in Script
    BY <1>1 DEF Script
  <2> QED BY <1>1, <1>8, <2>2, <2>3, MoveTypes DEF MergeTables, Script, ScriptInv, Waits
<1>9. ASSUME Ends(o), UNCHANGED <<stacks, runtime, orphans>> PROVE TInv'
  <2>1. Idle \in Script /\ Idle.at = "idle"
    BY DEF Idle, Script
  <2>2. Becomes(o, Idle)
    BY <1>9 DEF Ends, Becomes
  <2> QED BY <1>9, <2>1, <2>2, MoveTypes DEF ScriptInv, Waits
<1>10. ASSUME NEW group \in Groups \cup {None}, NEW at \in {"output", "runtime"},
              s.at \in {"deploy", "wait", "output"}, stacks[n].access # None,
              Becomes(o, [s EXCEPT !.group = group, !.at = at])
                \/ Becomes(o, [s EXCEPT !.at = at]),
              UNCHANGED <<stacks, runtime, orphans>>
       PROVE  TInv'
  <2>1. PICK t \in Script : Becomes(o, t) /\ t.agent = s.agent /\ t.name = n /\ t.at = at
    <3>1. [s EXCEPT !.group = group, !.at = at] \in Script /\ [s EXCEPT !.at = at] \in Script
      BY <1>1 DEF Script
    <3> QED BY <1>1, <1>10, <3>1 DEF Script
  <2> QED BY <1>1, <1>10, <2>1, MoveTypes DEF ScriptInv, Waits
<1>11. ASSUME Deploy(o) PROVE TInv'
  <2>1. ASSUME NEW status \in {"creating", "updating"}, Write(o, status),
               Becomes(o, [s EXCEPT !.at = "wait"]),
               Formed(stacks[n]), status = "updating" => stacks[n].access # None
        PROVE  TInv'
    <3> DEFINE t == [stacks[n] EXCEPT !.status = status, !.params = s.merged,
                                      !.wanted = s.subnets, !.asks = AccessOf[s.agent]]
    <3>1. s.at = "deploy" /\ UNCHANGED <<runtime, orphans>>
      BY <1>11 DEF Deploy
    <3>2. AccessOf[s.agent] \in Access /\ AccessOf[s.agent] # None
      BY <1>1, <3>1, EndpointAssumption
    <3>3. t \in Stack /\ t.status = status /\ t.asks = AccessOf[s.agent]
          /\ t.access = stacks[n].access
      BY <1>1, <3>1, <3>2 DEF Stack, Script, Waits
    <3>4. stacks' = [stacks EXCEPT ![n] = t]
      BY <1>1, <2>1, <3>1 DEF Write, TInv, TypeOK, Waits
    <3> HIDE DEF t
    <3>5. Formed(t)
      BY <2>1, <3>2, <3>3 DEF Formed
    <3>6. PICK w \in Script : w = [s EXCEPT !.at = "wait"] /\ w.at = "wait" /\ w.name \in Names
                            /\ w.agent \in Agents
      <4>1. [s EXCEPT !.at = "wait"] \in Script /\ n \in Names /\ s.agent \in Agents
        BY <1>1, <3>1 DEF Script, Waits
      <4> QED BY <1>1, <4>1 DEF Script
    <3>7. /\ stacks' \in [Names -> Stack]
          /\ \A m \in Names : Formed(stacks[m])'
          /\ \A m \in Names : stacks[m].access # None => stacks'[m].access # None
      BY <1>1, <3>1, <3>3, <3>4, <3>5, StackTypes DEF Waits
    <3>8. ScriptInv(w)'
      BY <3>6 DEF ScriptInv
    <3>9. op' \in [Operators -> Script] /\ \A p \in Operators : ScriptInv(op[p])'
      BY <2>1, <3>6, <3>7, <3>8, ScriptTypes
    <3> QED BY <3>1, <3>7, <3>9 DEF TInv, TypeOK, Formed, Settled
  <2>0. s.at = "deploy" /\ Formed(stacks[n])
        /\ (Usable(n) => stacks[n].access # None)
    BY <1>1, <1>11 DEF Deploy, Waits, Formed, Usable
  <2>2. CASE Create(o) \/ Update(o)
    BY <2>0, <2>1, <2>2 DEF Create, Update
  <2>3. CASE NothingToDeploy(o)
    <3>1. PICK group : group \in Groups \cup {None}
      OBVIOUS
    <3> QED BY <1>10, <1>11, <2>0, <2>3, <3>1 DEF Deploy, NothingToDeploy
  <2>4. CASE Refused(o)
    BY <1>9, <1>11, <2>4 DEF Deploy, Refused
  <2> QED BY <1>11, <2>2, <2>3, <2>4 DEF Deploy
<1>12. ASSUME Wait(o) PROVE TInv'
  <2>1. s.at = "wait" /\ (stacks[n].status = "ready" => stacks[n].access # None)
    BY <1>1, <1>12 DEF Wait, Waits, Formed
  <2>2. PICK group : group \in Groups \cup {None}
    OBVIOUS
  <2> QED BY <1>9, <1>10, <1>12, <2>1, <2>2 DEF Wait
<1>13. ASSUME ReadGroup(o) PROVE TInv'
  <2>1. s.at = "output" /\ n \in Names /\ stacks[n] \in Stack /\ stacks[n].access # None
    BY <1>1, <1>13 DEF ReadGroup, ScriptInv, Waits
  <2>2. <<n, stacks[n].access>> \in Groups
    BY <2>1 DEF Stack, Groups
  <2>3. PICK group \in Groups \cup {None} : Becomes(o, [s EXCEPT !.group = group, !.at = "runtime"])
    BY <1>13, <2>2 DEF ReadGroup
  <2> QED BY <1>10, <1>13, <2>1, <2>3 DEF ReadGroup
<1>14. ASSUME DeployRuntime(o) PROVE TInv'
  <2>1. Idle \in Script /\ Becomes(o, Idle) /\ UNCHANGED <<stacks, orphans>>
    BY <1>14, IdleScript DEF DeployRuntime
  <2>2. ScriptInv(Idle)'
    BY DEF ScriptInv, Idle, Waits
  <2>3. op' \in [Operators -> Script] /\ \A p \in Operators : ScriptInv(op[p])'
    BY <2>1, <2>2, ScriptTypes
  <2>4. [deployed |-> TRUE, group |-> s.group] \in [deployed : BOOLEAN, group : Groups \cup {None}]
    BY <1>1 DEF Script
  <2>5. runtime' \in [Agents -> [deployed : BOOLEAN, group : Groups \cup {None}]]
    BY <1>14, <2>4 DEF DeployRuntime, TInv, TypeOK
  <2> QED BY <2>1, <2>3, <2>5 DEF TInv, TypeOK, Formed, Settled
<1>15. ASSUME Die(o) PROVE TInv'
  <2>1. Idle \in Script /\ Becomes(o, Idle) /\ UNCHANGED <<stacks, runtime>>
    BY <1>15, IdleScript DEF Die
  <2>2. ScriptInv(Idle)'
    BY DEF ScriptInv, Idle, Waits
  <2>3. op' \in [Operators -> Script] /\ \A p \in Operators : ScriptInv(op[p])'
    BY <2>1, <2>2, ScriptTypes
  <2>4. orphans' \subseteq Names
    BY <1>1, <1>15 DEF Die, TInv, TypeOK, Waits
  <2> QED BY <2>1, <2>3, <2>4 DEF TInv, TypeOK, Formed, Settled
<1> QED BY <1>2, <1>4, <1>5, <1>6, <1>7, <1>8, <1>11, <1>12, <1>13, <1>14, <1>15 DEF Run

LEMMA CloudTypes ==
  ASSUME TInv, NEW n \in Names, Complete(n) \/ CleanUp(n) \/ FailToUpdate(n) \/ RollBack(n)
  PROVE  TInv'
<1>1. stacks \in [Names -> Stack] /\ stacks[n] \in Stack /\ Formed(stacks[n])
      /\ UNCHANGED <<runtime, op, orphans>>
  BY DEF TInv, TypeOK, Complete, CleanUp, FailToUpdate, RollBack
<1>2. ASSUME NEW t \in Stack, Formed(t), stacks' = [stacks EXCEPT ![n] = t],
             stacks[n].access # None => t.access # None
      PROVE  TInv'
  <2>1. /\ stacks' \in [Names -> Stack] /\ \A m \in Names : Formed(stacks[m])'
        /\ \A m \in Names : stacks[m].access # None => stacks'[m].access # None
    BY <1>2, StackTypes
  <2>2. ASSUME NEW o \in Operators PROVE ScriptInv(op[o])'
    BY <1>1, <2>1 DEF TInv, ScriptInv, Waits
  <2> QED BY <1>1, <2>1, <2>2 DEF TInv, TypeOK, Formed, Settled
<1>3. ASSUME Complete(n) PROVE TInv'
  <2>1. PICK status : status = IF stacks[n].status = "creating" THEN "ready" ELSE "cleaning"
    OBVIOUS
  <2> DEFINE t == [stacks[n] EXCEPT !.status = status, !.tables = stacks[n].params,
                                    !.subnets = stacks[n].wanted, !.access = stacks[n].asks]
  <2>2. /\ t \in Stack /\ t.status = status /\ t.params = t.tables /\ t.wanted = t.subnets
        /\ t.asks = t.access /\ t.asks = stacks[n].asks
    BY <1>1, <2>1 DEF Stack
  <2>3. stacks' = [stacks EXCEPT ![n] = t]
    BY <1>1, <1>3, <2>1 DEF Complete
  <2>4. stacks[n].asks # None
    BY <1>1, <1>3 DEF Complete, Pending, Formed
  <2> HIDE DEF t
  <2>5. Formed(t)
    BY <2>1, <2>2, <2>4 DEF Formed, Settled
  <2> QED BY <1>2, <2>2, <2>3, <2>4, <2>5
<1>4. ASSUME CleanUp(n) \/ FailToUpdate(n) PROVE TInv'
  <2>1. PICK status : status = IF stacks[n].status = "cleaning" THEN "ready" ELSE "rollingback"
    OBVIOUS
  <2> DEFINE t == [stacks[n] EXCEPT !.status = status]
  <2>2. /\ t \in Stack /\ t.status = status /\ (Settled(t) <=> Settled(stacks[n]))
        /\ t.access = stacks[n].access
    BY <1>1, <2>1 DEF Stack, Settled
  <2>3. stacks' = [stacks EXCEPT ![n] = t] /\ stacks[n].status \in {"cleaning", "updating"}
    BY <1>1, <1>4, <2>1 DEF CleanUp, FailToUpdate
  <2> HIDE DEF t
  <2>4. Formed(t)
    BY <1>1, <2>1, <2>2, <2>3 DEF Formed
  <2> QED BY <1>2, <2>2, <2>3, <2>4
<1>5. ASSUME RollBack(n) PROVE TInv'
  <2>1. PICK status : status = IF stacks[n].status = "creating" THEN "failed" ELSE "rolledback"
    OBVIOUS
  <2> DEFINE t == [stacks[n] EXCEPT !.status = status, !.params = stacks[n].tables,
                                    !.wanted = stacks[n].subnets, !.asks = stacks[n].access]
  <2>2. /\ t \in Stack /\ t.status = status /\ t.params = t.tables /\ t.wanted = t.subnets
        /\ t.asks = t.access /\ t.access = stacks[n].access
    BY <1>1, <2>1 DEF Stack
  <2>3. stacks' = [stacks EXCEPT ![n] = t] /\ stacks[n].status \in {"creating", "rollingback"}
    BY <1>1, <1>5, <2>1 DEF RollBack
  <2> HIDE DEF t
  <2>4. Formed(t)
    BY <1>1, <2>1, <2>2, <2>3 DEF Formed, Settled
  <2> QED BY <1>2, <2>2, <2>3, <2>4
<1> QED BY <1>3, <1>4, <1>5

------------------------------------------------------------------------------
(* The results.                                                            *)

\* Stacks and scripts keep their types and a stack that is not being changed has what
\* its parameters name, also when reads fail and deployments overlap.
THEOREM TypeCorrect == Spec => []TypeOK
<1>1. Init => TInv
  <2> SUFFICES ASSUME Init PROVE TInv
    OBVIOUS
  <2>1. IInv /\ \A o \in Operators : op[o].at = "idle"
    BY InitInv DEF Init, Idle
  <2>2. \A n \in Names : Formed(stacks[n])
    BY <2>1 DEF IInv, TypeOK, Sound, Formed, Settled
  <2>3. \A o \in Operators : ScriptInv(op[o])
    BY <2>1 DEF ScriptInv, Waits
  <2> QED BY <2>1, <2>2, <2>3 DEF IInv, TInv
<1>2. TInv /\ [Next]_vars => TInv'
  <2> SUFFICES ASSUME TInv, [Next]_vars PROVE TInv'
    OBVIOUS
  <2>1. CASE UNCHANGED vars
    BY <2>1 DEF TInv, TypeOK, ScriptInv, Formed, Settled, vars
  <2> QED BY <2>1, RunTypes, CloudTypes DEF Next
<1>3. TInv => TypeOK
  BY DEF TInv
<1> QED BY <1>1, <1>2, <1>3, PTL DEF Spec

\* A single operator's deployments do not overlap: the hypothesis of the theorems
\* below holds in the run that checks their properties.
LEMMA OneOperator == ASSUME \A o, p \in Operators : o = p PROVE Spec => []Serial
<1>1. Serial
  BY DEF Serial
<1> QED BY <1>1, PTL

LEMMA Invariance == ASSUME ReadsSucceed PROVE Spec /\ []Serial => []IInv
<1>1. IInv /\ Serial /\ [Next]_vars => IInv'
  BY NextInv
<1> QED BY <1>1, InitInv, PTL DEF Spec

\* The route tables of every deployed Runtime stay routed to the S3 endpoint of its
\* VPC, when deploy_private_endpoints.sh is interrupted anywhere, its updates roll
\* back, the next one reads a stack that is still changing, and finds it or makes a
\* second one.
THEOREM RoutesAreKept ==
  ASSUME ReadsSucceed PROVE Spec /\ []Serial => []EndpointsCoverRuntimes
<1>1. IInv => EndpointsCoverRuntimes
  BY DEF IInv
<1> QED BY <1>1, Invariance, PTL

\* Where the agents of a VPC ask for the same access, every deployed Runtime has a group
\* that its stack admits, whatever the deployments of other agents do to the stack.
THEOREM RuntimesStayAdmitted ==
  ASSUME ReadsSucceed PROVE Spec /\ []Serial => []RuntimesAdmitted
BY Admitted, Invariance, PTL

\* find_product_endpoint_stack makes a second stack for a VPC only if a script died
\* while the one that is there was changing.
THEOREM StacksAreShared ==
  ASSUME ReadsSucceed PROVE Spec /\ []Serial => []SecondStackOnlyOrphaned
<1>1. IInv => SecondStackOnlyOrphaned
  BY DEF IInv
<1> QED BY <1>1, Invariance, PTL

\* No deployment moves the interface endpoints of a stack that has them.
THEOREM EndpointsStay ==
  ASSUME ReadsSucceed PROVE Spec /\ []Serial => SubnetsStable
<1> DEFINE Stable == \A n \in Names :
             stacks[n].subnets # None => stacks'[n].subnets = stacks[n].subnets
<1>1. ASSUME IInv, [Next]_vars PROVE [Stable]_vars
  <2>1. stacks \in [Names -> Stack] /\ \A n \in Names : Sound(n, stacks[n])
    BY <1>1 DEF IInv, TypeOK
  <2>2. ASSUME NEW m \in Names, Complete(m) PROVE Stable
    BY <2>1, <2>2 DEF Complete, Sound
  <2>3. ASSUME NEW m \in Names, CleanUp(m) \/ FailToUpdate(m) \/ RollBack(m) PROVE Stable
    <3>1. CASE CleanUp(m)
      BY <2>1, <3>1 DEF CleanUp
    <3>2. CASE FailToUpdate(m)
      BY <2>1, <3>2 DEF FailToUpdate
    <3>3. CASE RollBack(m)
      BY <2>1, <3>3 DEF RollBack
    <3> QED BY <2>3, <3>1, <3>2, <3>3
  <2>4. ASSUME NEW o \in Operators, Run(o), stacks' # stacks PROVE Stable
    <3>1. PICK status \in {"creating", "updating"} : Write(o, status)
      BY <2>4 DEF Run, Begin, LookUpDefault, SearchStacks, ReadVpc, ReadSubnets, MergeTables,
                  Deploy, Create, Update, NothingToDeploy, Refused, Wait, ReadGroup,
                  DeployRuntime, Die
    <3> QED BY <2>1, <3>1 DEF Write
  <2> QED BY <1>1, <2>2, <2>3, <2>4 DEF Next, vars
<1> QED BY <1>1, Invariance, PTL DEF Spec, SubnetsStable
=============================================================================
