--------------------------- MODULE McpClient_proofs ---------------------------
(***************************************************************************)
(* Proofs about McpClient, for any runs, tools and number of questions.    *)
(*                                                                         *)
(* A response may come to a request that was given up, and a request may   *)
(* be served after its client went on.  The invariant says why neither     *)
(* misleads a client: a response that reaches a run answers its newest     *)
(* request, and what the run concludes from it the Gateway has recorded.   *)
(***************************************************************************)
EXTENDS McpClient, TLAPS

\* The tool of a run that passed was listed to it, and its call served.
Earned(c, s) ==
  s.exit = "passed" => s.tool \in offered[c] /\ \E n \in 0..s.id : <<c, n, s.tool>> \in served

\* What a run knows at each of its steps.
RunInv(c) ==
  /\ run[c].at \in {"list", "prompt", "call"} => c \in ready
  /\ run[c].at \in {"prompt", "call"} => run[c].tool \in offered[c]
  /\ run[c].at = "list" /\ run[c].response # None /\ run[c].response.body = "result"
       => run[c].response.listed \subseteq offered[c]
  /\ run[c].at = "notify" /\ run[c].response # None /\ run[c].response.body # "refused"
       => c \in ready
  /\ run[c].at = "call" /\ run[c].response # None /\ run[c].response.ok
       => <<c, run[c].id, run[c].tool>> \in served
  /\ Earned(c, run[c])
  /\ run[c].exit = "passed" => run[c].at \in {"delete", "ended"}
  /\ run[c].at = "delete" \/ (run[c].at = "ended" /\ run[c].session) => c \in deleted
  /\ c \in deleted => run[c].at \in {"delete", "ended"}

\* A request on its way is not newer than its run, carries the tool of the run
\* if it is the one awaited, and was sent after the handshake.
RequestInv(m) ==
  LET s == run[m.client]
  IN  /\ m.id <= s.id
      /\ m.id = s.id /\ m.method = s.at => m.tool = s.tool
      /\ m.method \in {"list", "call"} => m.client \in ready
      /\ m.method = "call" => m.tool \in offered[m.client]

IInv ==
  /\ TypeOK
  /\ \A c \in Clients : RunInv(c)
  /\ \A m \in pending : RequestInv(m)

LEMMA InitInv == Init => IInv
<1> SUFFICES ASSUME Init PROVE IInv
  OBVIOUS
<1>1. TypeOK
  BY DEF Init, TypeOK, Run, Methods
<1>2. ASSUME NEW c \in Clients PROVE RunInv(c)
  BY DEF Init, RunInv, Earned
<1> QED BY <1>1, <1>2 DEF IInv, Init

\* The three safety properties follow.
LEMMA Consequences == IInv => HandshakeFirst /\ PassedWasServed /\ HeldSessionsDeleted
<1> SUFFICES ASSUME IInv PROVE HandshakeFirst /\ PassedWasServed /\ HeldSessionsDeleted
  OBVIOUS
<1>1. HandshakeFirst
  BY DEF IInv, RequestInv, HandshakeFirst
<1>2. PassedWasServed
  BY DEF IInv, RunInv, Earned, PassedWasServed
<1>3. HeldSessionsDeleted
  BY DEF IInv, RunInv, HeldSessionsDeleted
<1> QED BY <1>1, <1>2, <1>3

------------------------------------------------------------------------------
(* A run moves: it sends, goes on without sending, or leaves.              *)

RequestOf(c, s) ==
  [client |-> c, id |-> s.id, method |-> s.at, session |-> s.session, tool |-> s.tool]

\* A run that moves to a state s, perhaps with a request of that state, disturbs
\* no other run and no request under way.
LEMMA Moves ==
  ASSUME IInv, NEW c \in Clients, NEW s \in Run,
         run' = [run EXCEPT ![c] = s],
         UNCHANGED gateway, deleted' \in {deleted, deleted \cup {c}},
         \/ s.id = run[c].id /\ s.at \notin Methods /\ pending' = pending
         \/ /\ s.id = run[c].id + 1 /\ s.at \in Methods
            /\ pending' = pending \cup {RequestOf(c, s)}
            /\ s.at \in {"list", "call"} => c \in ready
            /\ s.at = "call" => s.tool \in offered[c],
         RunInv(c)'
  PROVE  IInv'
<1> USE DEF IInv
<1>1. /\ open' = open /\ ready' = ready /\ offered' = offered /\ served' = served
      /\ run'[c] = s /\ \A d \in Clients \ {c} : run'[d] = run[d]
      /\ run[c].id \in Nat /\ s.id \in Nat
  BY DEF gateway, TypeOK, Run
<1>2. TypeOK'
  <2>1. run' \in [Clients -> Run]
    BY DEF TypeOK
  <2>2. RequestOf(c, s) \in Request \/ s.at \notin Methods
    BY DEF RequestOf, Request, Run
  <2>3. pending' \subseteq Request
    BY <2>2 DEF TypeOK
  <2> QED BY <1>1, <2>1, <2>3 DEF TypeOK
<1>3. ASSUME NEW d \in Clients PROVE RunInv(d)'
  <2>1. CASE d # c
    <3>1. RunInv(d) /\ run'[d] = run[d] /\ (d \in deleted' <=> d \in deleted)
      BY <1>1, <2>1
    <3>2. Earned(d, run[d])'
      BY <1>1, <3>1 DEF RunInv, Earned
    <3> QED BY <1>1, <3>1, <3>2 DEF RunInv
  <2> QED BY <2>1
<1>4. ASSUME NEW m \in pending PROVE RequestInv(m)'
  <2>1. m.client \in Clients /\ m.id \in Nat /\ m.method \in Methods /\ RequestInv(m)
    BY DEF TypeOK, Request
  <2>2. CASE m.client # c
    BY <1>1, <2>1, <2>2 DEF RequestInv
  <2>3. CASE m.client = c
    BY <1>1, <2>1, <2>3 DEF RequestInv
  <2> QED BY <2>2, <2>3
<1>5. ASSUME s.id = run[c].id + 1, s.at \in {"list", "call"} => c \in ready,
             s.at = "call" => s.tool \in offered[c]
      PROVE  RequestInv(RequestOf(c, s))'
  BY <1>1, <1>5 DEF RequestInv, RequestOf
<1> QED BY <1>2, <1>3, <1>4, <1>5

LEMMA Sends ==
  ASSUME IInv, NEW c \in Clients, NEW s \in Run, NEW method \in Methods,
         s.id = run[c].id, Send(c, s, method),
         UNCHANGED gateway, deleted' \in {deleted, deleted \cup {c}},
         method \in {"list", "call"} => c \in ready,
         method = "call" => s.tool \in offered[c],
         Earned(c, s), s.exit = "passed" => method = "delete",
         c \in deleted' <=> method = "delete"
  PROVE  IInv'
<1> DEFINE t == [s EXCEPT !.at = method, !.id = s.id + 1, !.response = None]
<1>1. /\ t \in Run /\ t.at = method /\ t.id = s.id + 1 /\ t.response = None
      /\ t.tool = s.tool /\ t.exit = s.exit /\ t.session = s.session
      /\ s.id \in Nat
  <2>1. s.id \in Nat /\ s.id + 1 \in Nat /\ None \in Response \cup {None}
    BY DEF Run
  <2>2. method \in Methods \cup {"start", "prompt", "ended"}
    OBVIOUS
  <2> QED BY <2>1, <2>2 DEF Run
<1>2. run' = [run EXCEPT ![c] = t] /\ pending' = pending \cup {RequestOf(c, t)}
  BY <1>1 DEF Send, RequestOf
<1>3. run'[c] = t /\ ready' = ready /\ offered' = offered /\ served' = served
  BY <1>2 DEF IInv, TypeOK, gateway
<1>4. Earned(c, t)'
  <2>1. 0..s.id \subseteq 0..t.id
    BY <1>1
  <2>2. Earned(c, s)'
    BY <1>3 DEF Earned
  <2>3. t.exit = s.exit /\ t.tool = s.tool
    BY <1>1
  <2> HIDE DEF t
  <2> QED BY <2>1, <2>2, <2>3 DEF Earned
<1>5. RunInv(c)'
  BY <1>1, <1>3, <1>4 DEF RunInv, Methods
<1> QED BY <1>1, <1>2, <1>5, Moves

LEMMA GoesOn ==
  ASSUME IInv, NEW c \in Clients, NEW s \in Run, NEW at \in {"prompt", "ended"},
         s.id = run[c].id, Goes(c, s, at),
         UNCHANGED gateway, UNCHANGED deleted,
         at = "prompt" => c \in ready /\ s.tool \in offered[c],
         Earned(c, s), s.exit = "passed" => at = "ended",
         c \in deleted => at = "ended",
         at = "ended" /\ s.session => c \in deleted
  PROVE  IInv'
<1> DEFINE t == [s EXCEPT !.at = at, !.response = None]
<1>1. /\ t \in Run /\ t.at = at /\ t.id = s.id /\ t.response = None
      /\ t.tool = s.tool /\ t.exit = s.exit /\ t.session = s.session
  BY DEF Run
<1>2. run' = [run EXCEPT ![c] = t] /\ pending' = pending
  BY DEF Goes
<1>3. run'[c] = t /\ ready' = ready /\ offered' = offered /\ served' = served
  BY <1>2 DEF IInv, TypeOK, gateway
<1>4. Earned(c, t)'
  BY <1>1, <1>3 DEF Earned
<1>5. RunInv(c)'
  BY <1>1, <1>3, <1>4 DEF RunInv
<1>6. t.at \notin Methods
  BY <1>1 DEF Methods
<1> QED BY <1>1, <1>2, <1>5, <1>6, Moves

\* The finally of a script that has not sent its DELETE.
LEMMA Closes ==
  ASSUME IInv, NEW c \in Clients, NEW s \in Run, s.id = run[c].id, Close(c, s),
         UNCHANGED gateway, Earned(c, s), c \notin deleted
  PROVE  IInv'
<1>1. CASE s.session
  BY <1>1, Sends DEF Close, Methods
<1>2. CASE ~ s.session
  BY <1>2, GoesOn DEF Close
<1> QED BY <1>1, <1>2

LEMMA Fails ==
  ASSUME IInv, NEW c \in Clients, run[c].at \in Methods, Fail(c), UNCHANGED gateway
  PROVE  IInv'
<1> DEFINE s == [run[c] EXCEPT !.exit = "failed"]
<1>1. /\ run[c] \in Run /\ s \in Run /\ s.id = run[c].id /\ s.exit = "failed"
      /\ s.session = run[c].session /\ RunInv(c)
  BY DEF IInv, TypeOK, Run
<1>2. Earned(c, s)
  BY <1>1 DEF Earned
<1>3. CASE c \in Repl /\ run[c].at = "call"
  BY <1>1, <1>3, GoesOn DEF Fail, RunInv
<1>4. CASE run[c].at = "delete"
  BY <1>1, <1>2, <1>4, GoesOn DEF Fail, RunInv
<1>5. CASE ~ (c \in Repl /\ run[c].at = "call") /\ run[c].at # "delete"
  BY <1>1, <1>2, <1>5, Closes DEF Fail, RunInv, Methods
<1> QED BY <1>3, <1>4, <1>5

------------------------------------------------------------------------------
(* The steps of a run.                                                     *)

LEMMA ReceiveInitializeStep ==
  ASSUME IInv, NEW c \in Clients, ReceiveInitialize(c) PROVE IInv'
<1>1. run[c] \in Run /\ RunInv(c) /\ run[c].at = "initialize" /\ run[c].response \in Response
  BY DEF IInv, TypeOK, ReceiveInitialize, Got, Run
<1>2. CASE Result(c)
  <2> DEFINE s == [run[c] EXCEPT !.session = run[c].response.session]
  <2>1. s \in Run /\ s.id = run[c].id /\ s.exit = run[c].exit /\ s.tool = run[c].tool
    BY <1>1 DEF Run, Response
  <2>2. Earned(c, s) /\ c \notin deleted /\ s.exit # "passed"
    BY <1>1, <2>1 DEF RunInv, Earned
  <2>3. Send(c, s, "notify") /\ UNCHANGED deleted /\ UNCHANGED gateway
    BY <1>2 DEF ReceiveInitialize
  <2> HIDE DEF s
  <2> QED BY <2>1, <2>2, <2>3, Sends DEF Methods
<1>3. CASE ~ Result(c)
  BY <1>1, <1>3, Fails DEF ReceiveInitialize, Methods
<1> QED BY <1>2, <1>3

LEMMA ReceiveNotifyStep ==
  ASSUME IInv, NEW c \in Clients, ReceiveNotify(c) PROVE IInv'
<1>1. run[c] \in Run /\ RunInv(c) /\ run[c].at = "notify" /\ run[c].response # None
  BY DEF IInv, TypeOK, ReceiveNotify, Got
<1>2. CASE run[c].response.body # "refused"
  BY <1>1, <1>2, Sends DEF ReceiveNotify, Methods, RunInv
<1>3. CASE run[c].response.body = "refused"
  BY <1>1, <1>3, Fails DEF ReceiveNotify, Methods
<1> QED BY <1>2, <1>3

LEMMA ReceiveListStep ==
  ASSUME IInv, NEW c \in Clients, ReceiveList(c) PROVE IInv'
<1>1. run[c] \in Run /\ RunInv(c) /\ run[c].at = "list" /\ run[c].response \in Response
  BY DEF IInv, TypeOK, ReceiveList, Got, Run
<1>2. ASSUME NEW t \in Selected(c, run[c].response.listed),
             LET s == [run[c] EXCEPT !.tool = t]
             IN  IF c \in Repl THEN Goes(c, s, "prompt") ELSE Send(c, s, "call"),
             UNCHANGED deleted, Result(c)
      PROVE  IInv'
  <2> DEFINE s == [run[c] EXCEPT !.tool = t]
  <2>1. run[c].response.listed \subseteq offered[c] /\ run[c].response.listed \subseteq Tools
    <3>1. run[c].response # None /\ run[c].response.body = "result"
      BY <1>1, <1>2, ResponseAssumption DEF Result
    <3> QED BY <1>1, <3>1 DEF RunInv, Response
  <2>2. t \in Tools /\ t \in offered[c]
    BY <1>2, <2>1 DEF Selected
  <2>3. s \in Run /\ s.id = run[c].id /\ s.exit = run[c].exit /\ s.tool = t
    BY <1>1, <2>2 DEF Run
  <2>4. run[c].exit # "passed" /\ c \in ready /\ c \notin deleted
    BY <1>1 DEF RunInv
  <2>5. Earned(c, s) /\ s.exit # "passed"
    BY <2>3, <2>4 DEF Earned
  <2>6. UNCHANGED gateway
    BY DEF ReceiveList
  <2>7. CASE c \in Repl
    BY <1>2, <2>2, <2>3, <2>4, <2>5, <2>6, <2>7, GoesOn
  <2>8. CASE c \notin Repl
    BY <1>2, <2>2, <2>3, <2>4, <2>5, <2>6, <2>8, Sends DEF Methods
  <2> QED BY <2>7, <2>8
<1>3. CASE Fail(c)
  BY <1>1, <1>3, Fails DEF ReceiveList, Methods
<1> QED BY <1>2, <1>3 DEF ReceiveList

LEMMA ReceiveCallStep ==
  ASSUME IInv, NEW c \in Clients, ReceiveCall(c) PROVE IInv'
<1>1. /\ run[c] \in Run /\ RunInv(c) /\ run[c].at = "call" /\ run[c].response # None
      /\ UNCHANGED gateway /\ run[c].id \in Nat
  BY DEF IInv, TypeOK, ReceiveCall, Got, Run
<1>2. CASE Result(c) /\ c \in Repl
  BY <1>1, <1>2, GoesOn DEF ReceiveCall, RunInv
<1>3. CASE Result(c) /\ c \notin Repl /\ run[c].response.ok
  <2> DEFINE s == [run[c] EXCEPT !.exit = "passed"]
  <2>1. s \in Run /\ s.id = run[c].id /\ s.tool = run[c].tool
    BY <1>1 DEF Run
  <2>2. /\ <<c, run[c].id, run[c].tool>> \in served /\ c \notin deleted
        /\ run[c].tool \in offered[c]
    BY <1>1, <1>3 DEF RunInv
  <2>3. Earned(c, s)
    BY <1>1, <2>1, <2>2 DEF Earned
  <2> QED BY <1>1, <1>3, <2>1, <2>2, <2>3, Closes DEF ReceiveCall
<1>4. CASE ~ (Result(c) /\ (c \in Repl \/ run[c].response.ok))
  BY <1>1, <1>4, Fails DEF ReceiveCall, Methods
<1> QED BY <1>2, <1>3, <1>4

LEMMA ReceiveDeleteStep ==
  ASSUME IInv, NEW c \in Clients, ReceiveDelete(c) PROVE IInv'
<1>1. run[c] \in Run /\ RunInv(c) /\ run[c].at = "delete" /\ UNCHANGED gateway
  BY DEF IInv, TypeOK, ReceiveDelete, Got
<1>2. CASE run[c].response.body # "refused"
  BY <1>1, <1>2, GoesOn DEF ReceiveDelete, RunInv
<1>3. CASE run[c].response.body = "refused"
  BY <1>1, <1>3, Fails DEF ReceiveDelete, Methods
<1> QED BY <1>2, <1>3

\* Reading on through a stream changes nothing a run knows.
LEMMA ReceiveOtherStep ==
  ASSUME IInv, NEW c \in Clients, ReceiveOther(c) PROVE IInv'
<1> USE DEF IInv
<1> DEFINE t == [run[c] EXCEPT !.response = None]
<1>1. /\ run[c] \in Run /\ t \in Run /\ t.at = run[c].at /\ t.id = run[c].id
      /\ t.session = run[c].session /\ t.tool = run[c].tool /\ t.exit = run[c].exit
      /\ t.response = None
  BY DEF TypeOK, Run
<1>2. run' = [run EXCEPT ![c] = t] /\ run'[c] = t /\ \A d \in Clients \ {c} : run'[d] = run[d]
  BY DEF ReceiveOther, TypeOK
<1>3. /\ open' = open /\ ready' = ready /\ offered' = offered /\ served' = served
      /\ deleted' = deleted /\ pending' = pending
  BY DEF ReceiveOther, gateway
<1> HIDE DEF t
<1>4. TypeOK'
  BY <1>1, <1>2, <1>3 DEF TypeOK
<1>5. ASSUME NEW d \in Clients PROVE RunInv(d)'
  <2>1. RunInv(d)
    OBVIOUS
  <2> QED BY <1>1, <1>2, <1>3, <2>1 DEF RunInv, Earned
<1>6. ASSUME NEW m \in pending PROVE RequestInv(m)'
  <2>1. m.client \in Clients /\ RequestInv(m)
    BY DEF TypeOK, Request
  <2> QED BY <1>1, <1>2, <1>3, <2>1 DEF RequestInv
<1> QED BY <1>3, <1>4, <1>5, <1>6

LEMMA BeginStep ==
  ASSUME IInv, NEW c \in Clients, Begin(c) PROVE IInv'
<1>1. run[c] \in Run /\ RunInv(c) /\ run[c].at = "start"
  BY DEF IInv, TypeOK, Begin
<1> QED BY <1>1, Sends DEF Begin, RunInv, Methods

LEMMA AskStep ==
  ASSUME IInv, NEW c \in Clients, Ask(c) PROVE IInv'
<1>1. run[c] \in Run /\ RunInv(c) /\ run[c].at = "prompt"
  BY DEF IInv, TypeOK, Ask
<1> QED BY <1>1, Sends DEF Ask, RunInv, Methods

LEMMA QuitStep ==
  ASSUME IInv, NEW c \in Clients, Quit(c) PROVE IInv'
<1> DEFINE s == [run[c] EXCEPT !.exit = "failed"]
<1>1. /\ run[c] \in Run /\ s \in Run /\ s.id = run[c].id /\ s.exit = "failed"
      /\ RunInv(c) /\ UNCHANGED gateway
  BY DEF IInv, TypeOK, Run, Quit
<1>2. c \notin deleted /\ Earned(c, s) /\ Earned(c, run[c])
  BY <1>1 DEF RunInv, Earned, Quit, Methods
<1>3. Close(c, run[c]) \/ Close(c, s)
  BY DEF Quit
<1> QED BY <1>1, <1>2, <1>3, Closes

LEMMA ClientStep ==
  ASSUME IInv, NEW c \in Clients, Client(c) PROVE IInv'
<1>1. ASSUME GiveUp(c) PROVE IInv'
  BY <1>1, Fails DEF GiveUp
<1> QED BY <1>1, BeginStep, AskStep, QuitStep, ReceiveOtherStep, ReceiveInitializeStep,
           ReceiveNotifyStep, ReceiveListStep, ReceiveCallStep, ReceiveDeleteStep DEF Client, Receive

------------------------------------------------------------------------------
(* The Gateway and the network.                                            *)

\* A request that is awaited is the newest of its run, and what comes reaches the
\* run: what the run may conclude from it must be recorded in the same step.
LEMMA Reaches ==
  ASSUME IInv, NEW m \in pending, NEW response \in Response,
         pending' \subseteq pending, deleted' = deleted,
         run' = IF Awaited(m) THEN [run EXCEPT ![m.client].response = response] ELSE run,
         open' \subseteq Clients,
         ready' \in {ready, ready \cup {m.client}},
         offered' \in [Clients -> SUBSET Tools],
         \A d \in Clients : offered[d] \subseteq offered'[d],
         served' \in {served, served \cup {<<m.client, m.id, m.tool>>}},
         m.method = "notify" /\ response.body # "refused" => m.client \in ready',
         m.method = "list" /\ response.body = "result"
           => response.listed \subseteq offered'[m.client],
         m.method = "call" /\ response.ok => <<m.client, m.id, m.tool>> \in served'
  PROVE  IInv'
<1> USE DEF IInv
<1> DEFINE c == m.client
           t == [run[c] EXCEPT !.response = response]
<1>1. /\ m \in Request /\ c \in Clients /\ m.id \in Nat /\ m.tool \in Tools \cup {None}
      /\ RequestInv(m) /\ run[c] \in Run /\ RunInv(c)
  BY DEF TypeOK, Request
<1>2. /\ ready \subseteq ready' /\ served \subseteq served' /\ deleted' = deleted
      /\ pending' \subseteq pending
  OBVIOUS
<1>3. /\ t \in Run /\ t.at = run[c].at /\ t.id = run[c].id /\ t.session = run[c].session
      /\ t.tool = run[c].tool /\ t.exit = run[c].exit /\ t.response = response
  BY <1>1 DEF Run
<1>4. \/ run' = run
      \/ run[c].at = m.method /\ run[c].id = m.id /\ run' = [run EXCEPT ![c] = t]
  BY DEF Awaited
<1>5. run' \in [Clients -> Run]
  BY <1>1, <1>3, <1>4 DEF TypeOK
<1>6. TypeOK'
  <2>1. ready' \subseteq Clients /\ served' \subseteq Clients \X Nat \X (Tools \cup {None})
    BY <1>1 DEF TypeOK
  <2> QED BY <1>2, <1>5, <2>1 DEF TypeOK
<1>7. ASSUME NEW d \in Clients
      PROVE  /\ run'[d].at = run[d].at /\ run'[d].id = run[d].id
             /\ run'[d].session = run[d].session /\ run'[d].tool = run[d].tool
             /\ run'[d].exit = run[d].exit
             /\ \/ run'[d].response = run[d].response
                \/ /\ d = c /\ run[c].at = m.method /\ run[c].id = m.id
                   /\ run'[d].response = response
  <2>1. CASE run' = run
    BY <2>1
  <2>2. CASE run[c].at = m.method /\ run[c].id = m.id /\ run' = [run EXCEPT ![c] = t]
    <3>1. CASE d = c
      <4>1. run'[d] = t
        BY <1>1, <2>2, <3>1 DEF TypeOK
      <4> QED BY <1>3, <2>2, <3>1, <4>1
    <3>2. CASE d # c
      <4>1. run'[d] = run[d]
        BY <1>1, <2>2, <3>2 DEF TypeOK
      <4> QED BY <4>1
    <3> QED BY <3>1, <3>2
  <2> QED BY <1>4, <2>1, <2>2
<1>8. ASSUME NEW d \in Clients PROVE RunInv(d)'
  <2>1. RunInv(d)
    OBVIOUS
  <2>2. Earned(d, run[d])'
    BY <1>2, <1>7, <2>1 DEF RunInv, Earned
  <2>3. run'[d].at = "notify" /\ run'[d].response # None /\ run'[d].response.body # "refused"
          => d \in ready'
    BY <1>2, <1>7, <2>1 DEF RunInv
  <2>4. run'[d].at = "call" /\ run'[d].response # None /\ run'[d].response.ok
          => <<d, run'[d].id, run'[d].tool>> \in served'
    <3>1. CASE run'[d].response = run[d].response
      BY <1>2, <1>7, <2>1, <3>1 DEF RunInv
    <3>2. CASE d = c /\ run[c].at = m.method /\ run[c].id = m.id /\ run'[d].response = response
      <4>1. m.tool = run[c].tool
        BY <1>1, <3>2 DEF RequestInv
      <4> QED BY <1>7, <3>2, <4>1
    <3> QED BY <1>7, <3>1, <3>2
  <2>5. run'[d].at = "list" /\ run'[d].response # None /\ run'[d].response.body = "result"
          => run'[d].response.listed \subseteq offered'[d]
    BY <1>2, <1>7, <2>1 DEF RunInv
  <2>6. offered[d] \subseteq offered'[d]
    OBVIOUS
  <2> QED BY <1>2, <1>7, <2>1, <2>2, <2>3, <2>4, <2>5, <2>6 DEF RunInv
<1>9. ASSUME NEW n \in pending PROVE RequestInv(n)'
  <2>1. n.client \in Clients /\ RequestInv(n)
    BY DEF TypeOK, Request
  <2> QED BY <1>2, <1>7, <2>1 DEF RequestInv
<1> QED BY <1>2, <1>6, <1>8, <1>9

\* An answer that lists nothing.
LEMMA Answers ==
  ASSUME IInv, NEW m \in pending, NEW response \in Response, Answer(m, response),
         open' \subseteq Clients, offered' = offered,
         ready' \in {ready, ready \cup {m.client}},
         served' \in {served, served \cup {<<m.client, m.id, m.tool>>}},
         m.method = "notify" /\ response.body # "refused" => m.client \in ready',
         m.method = "list" => response.body # "result",
         m.method = "call" /\ response.ok => <<m.client, m.id, m.tool>> \in served'
  PROVE  IInv'
<1>1. offered \in [Clients -> SUBSET Tools]
  BY DEF IInv, TypeOK
<1> QED BY <1>1, Reaches DEF Answer

LEMMA InterjectStep ==
  ASSUME IInv, NEW m \in pending, Interject(m) PROVE IInv'
<1>1. OtherEvent \in Response /\ ~ OtherEvent.ok /\ OtherEvent.body = "other"
  BY DEF OtherEvent, Nothing, Response, Bodies
<1>2. offered \in [Clients -> SUBSET Tools] /\ open \subseteq Clients
  BY DEF IInv, TypeOK
<1>3. /\ m.method # "notify" /\ Awaited(m) /\ pending' = pending /\ deleted' = deleted
      /\ run' = [run EXCEPT ![m.client].response = OtherEvent]
      /\ open' = open /\ ready' = ready /\ offered' = offered /\ served' = served
  BY DEF Interject, gateway
<1> QED BY <1>1, <1>2, <1>3, Reaches

LEMMA HandleStep ==
  ASSUME IInv, NEW m \in pending, Handle(m) PROVE IInv'
<1>1. m \in Request /\ m.client \in Clients /\ open \subseteq Clients
  BY DEF IInv, TypeOK, Request
<1>2. Nothing \in Response /\ ~ Nothing.ok
  BY DEF Nothing, Response, Bodies
<1>3. ASSUME HandleInitialize(m) PROVE IInv'
  <2>1. PICK body \in Bodies \ {"refused"}, session \in BOOLEAN :
          /\ Answer(m, [Nothing EXCEPT !.body = body, !.session = session])
          /\ open' = IF session THEN open \cup {m.client} ELSE open
    BY <1>3 DEF HandleInitialize
  <2>2. [Nothing EXCEPT !.body = body, !.session = session] \in Response
    BY <1>2 DEF Response
  <2> QED BY <1>1, <1>3, <2>1, <2>2, Answers DEF HandleInitialize
<1>4. ASSUME HandleNotify(m) PROVE IInv'
  <2>1. [Nothing EXCEPT !.body = "result"] \in Response
    BY <1>2 DEF Response, Bodies
  <2> QED BY <1>1, <1>4, <2>1, Answers DEF HandleNotify
<1>5. ASSUME HandleList(m) PROVE IInv'
  <2>1. PICK body \in Bodies \ {"refused"}, listed \in SUBSET Tools :
          /\ Answer(m, [Nothing EXCEPT !.body = body, !.listed = listed])
          /\ offered' = [offered EXCEPT ![m.client] = IF body = "result" THEN @ \cup listed ELSE @]
    BY <1>5 DEF HandleList
  <2> DEFINE response == [Nothing EXCEPT !.body = body, !.listed = listed]
  <2>2. /\ response \in Response /\ response.body = body /\ response.listed = listed
        /\ response.ok = FALSE
    BY <1>2 DEF Response
  <2>3. /\ offered' \in [Clients -> SUBSET Tools]
        /\ \A d \in Clients : offered[d] \subseteq offered'[d]
        /\ response.body = "result" => response.listed \subseteq offered'[m.client]
    <3>1. offered \in [Clients -> SUBSET Tools]
      BY DEF IInv, TypeOK
    <3>2. offered' = [offered EXCEPT ![m.client] = IF body = "result" THEN @ \cup listed ELSE @]
      BY <2>1
    <3> HIDE DEF response
    <3> QED BY <1>1, <2>1, <2>2, <3>1, <3>2
  <2>4. Answer(m, response) /\ m.method = "list" /\ open' = open /\ ready' = ready
        /\ served' = served
    BY <1>5, <2>1 DEF HandleList
  <2> HIDE DEF response
  <2> QED BY <1>1, <2>2, <2>3, <2>4, Reaches DEF Answer
<1>6. ASSUME HandleCall(m) PROVE IInv'
  <2>1. PICK body \in Bodies \ {"refused"}, ok \in BOOLEAN :
          /\ Answer(m, [Nothing EXCEPT !.body = body, !.ok = ok])
          /\ served' = IF ok THEN served \cup {<<m.client, m.id, m.tool>>} ELSE served
    BY <1>6 DEF HandleCall
  <2> DEFINE response == [Nothing EXCEPT !.body = body, !.ok = ok]
  <2>2. response \in Response /\ response.ok = ok
    BY <1>2 DEF Response
  <2>3. response.ok => <<m.client, m.id, m.tool>> \in served'
    BY <2>1, <2>2
  <2>4. served' \in {served, served \cup {<<m.client, m.id, m.tool>>}}
    BY <2>1
  <2> HIDE DEF response
  <2> QED BY <1>1, <1>6, <2>1, <2>2, <2>3, <2>4, Answers DEF HandleCall, response
<1>7. ASSUME HandleDelete(m) PROVE IInv'
  <2>1. [Nothing EXCEPT !.body = "result"] \in Response
    BY <1>2 DEF Response, Bodies
  <2> QED BY <1>1, <1>7, <2>1, Answers DEF HandleDelete
<1>8. ASSUME Refuse(m) PROVE IInv'
  BY <1>1, <1>2, <1>8, Answers DEF Refuse, gateway, Nothing
<1> QED BY <1>3, <1>4, <1>5, <1>6, <1>7, <1>8 DEF Handle

LEMMA LoseStep ==
  ASSUME IInv, NEW m \in pending, Lose(m) PROVE IInv'
<1>1. TypeOK'
  BY DEF IInv, TypeOK, Lose, gateway
<1>2. ASSUME NEW c \in Clients PROVE RunInv(c)'
  BY DEF IInv, RunInv, Earned, Lose, gateway
<1>3. ASSUME NEW n \in pending' PROVE RequestInv(n)'
  BY DEF IInv, RequestInv, Lose, gateway
<1> QED BY <1>1, <1>2, <1>3 DEF IInv, Lose

LEMMA ExpireStep ==
  ASSUME IInv, NEW c \in Clients, Expire(c) PROVE IInv'
<1>1. TypeOK'
  BY DEF IInv, TypeOK, Expire
<1>2. ASSUME NEW d \in Clients PROVE RunInv(d)'
  BY DEF IInv, RunInv, Earned, Expire
<1>3. ASSUME NEW n \in pending' PROVE RequestInv(n)'
  BY DEF IInv, RequestInv, Expire
<1> QED BY <1>1, <1>2, <1>3 DEF IInv, Expire

LEMMA NextInv == IInv /\ [Next]_vars => IInv'
<1> SUFFICES ASSUME IInv, [Next]_vars PROVE IInv'
  OBVIOUS
<1>1. CASE UNCHANGED vars
  <2>1. TypeOK'
    BY <1>1 DEF IInv, TypeOK, vars
  <2>2. ASSUME NEW c \in Clients PROVE RunInv(c)'
    BY <1>1 DEF IInv, RunInv, Earned, vars
  <2>3. ASSUME NEW m \in pending PROVE RequestInv(m)'
    BY <1>1 DEF IInv, RequestInv, vars
  <2> QED BY <1>1, <2>1, <2>2, <2>3 DEF IInv, vars
<1> QED BY <1>1, ClientStep, ExpireStep, HandleStep, InterjectStep, LoseStep DEF Next

------------------------------------------------------------------------------
(* The results.                                                            *)

LEMMA Invariance == Spec => []IInv
BY InitInv, NextInv, PTL DEF Spec

\* Runs, requests and the Gateway's records keep their types, for any number of
\* scripts and questions.
THEOREM TypeCorrect == Spec => []TypeOK
<1>1. IInv => TypeOK
  BY DEF IInv
<1> QED BY <1>1, Invariance, PTL

\* initialize, the notification, then tools/list and tools/call: the order of
\* smoke_test.main and agent_cli.main holds at the Gateway too, though requests
\* overtake one another there and a client may have given up.
THEOREM HandshakeComesFirst == Spec => []HandshakeFirst
BY Consequences, Invariance, PTL

\* The smoke test prints that it passed only after a call of this very run, to the
\* tool it selected, was answered with status ok.
THEOREM PassesAreEarned == Spec => []PassedWasServed
BY Consequences, Invariance, PTL

\* However a script ends, the DELETE of the session it held was sent, and nothing
\* was sent in that session after it.
THEOREM SessionsAreClosed == Spec => []HeldSessionsDeleted
BY Consequences, Invariance, PTL

------------------------------------------------------------------------------
(* Every wait ends.  The hypothesis FairActionsEnabled says what fairness  *)
(* needs of ENABLED, of which the provers know nothing.                    *)

\* Where a run can go from a method it waits in.
Onward(c, method) ==
  {p \in {"notify", "list", "call", "prompt", "delete", "ended"} :
     CASE method = "initialize" -> p \in {"notify", "delete", "ended"}
       [] method = "notify" -> p \in {"list", "delete", "ended"}
       [] method = "list" -> p \in {"delete", "ended"} \cup
                                   (IF c \in Repl THEN {"prompt"} ELSE {"call"})
       [] method = "call" -> p \in {"delete", "ended"} \cup
                                   (IF c \in Repl THEN {"prompt"} ELSE {})
       [] method = "delete" -> p = "ended"}

\* Every guard is the whole condition of its step: a run that waits can give up,
\* and one that has a response can take it, whatever the response is.
FairActionsEnabled ==
  \A c \in Clients : run[c].at \in Methods =>
    IF run[c].response = None THEN ENABLED <<GiveUp(c)>>_vars ELSE ENABLED <<Receive(c)>>_vars

\* A run that moves to a state is at its place.
LEMMA Placed ==
  ASSUME NEW s \in Run, NEW place, NEW id
  PROVE  /\ [s EXCEPT !.at = place, !.id = id, !.response = None].at = place
         /\ [s EXCEPT !.at = place, !.response = None].at = place
  BY DEF Run

\* Sending, going on and closing each leave the run at the place they name.
LEMMA Arrives ==
  ASSUME IInv, NEW c \in Clients, NEW s \in Run
  PROVE  /\ \A method : Send(c, s, method) => run'[c].at = method
         /\ \A place : Goes(c, s, place) => run'[c].at = place
         /\ Close(c, s) => run'[c].at \in {"delete", "ended"}
<1>1. DOMAIN run = Clients
  BY DEF IInv, TypeOK
<1>2. ASSUME NEW method, Send(c, s, method) PROVE run'[c].at = method
  <2>1. run'[c] = [s EXCEPT !.at = method, !.id = s.id + 1, !.response = None]
    BY <1>1, <1>2 DEF Send
  <2> QED BY <2>1, Placed
<1>3. ASSUME NEW place, Goes(c, s, place) PROVE run'[c].at = place
  <2>1. run'[c] = [s EXCEPT !.at = place, !.response = None]
    BY <1>1, <1>3 DEF Goes
  <2> QED BY <2>1, Placed
<1> QED BY <1>2, <1>3 DEF Close

\* A failure, and every step of a waiting run but reading on, goes onward.
LEMMA FailsOnward ==
  ASSUME IInv, NEW c \in Clients, run[c].at \in Methods, Fail(c)
  PROVE  run'[c].at \in Onward(c, run[c].at)
<1>1. run[c] \in Run /\ [run[c] EXCEPT !.exit = "failed"] \in Run
  BY DEF IInv, TypeOK, Run
<1> QED BY <1>1, Arrives DEF Fail, Onward, Methods

LEMMA ClientOnward ==
  ASSUME IInv, NEW c \in Clients, run[c].at \in Methods, Client(c), ~ ReceiveOther(c)
  PROVE  run'[c].at \in Onward(c, run[c].at)
<1> DEFINE Goal == run'[c].at \in Onward(c, run[c].at)
<1>1. /\ run \in [Clients -> Run] /\ run[c] \in Run
      /\ \A exit \in {"none", "passed", "failed"} : [run[c] EXCEPT !.exit = exit] \in Run
  BY DEF IInv, TypeOK, Run
<1>2. ASSUME Fail(c) PROVE Goal
  BY <1>2, FailsOnward
<1>3. ASSUME ReceiveInitialize(c) PROVE Goal
  <2>1. [run[c] EXCEPT !.session = run[c].response.session] \in Run
    BY <1>1, <1>3 DEF ReceiveInitialize, Got, Run, Response
  <2> QED BY <1>2, <1>3, <2>1, Arrives DEF ReceiveInitialize, Got, Onward
<1>4. ASSUME ReceiveNotify(c) PROVE Goal
  BY <1>1, <1>2, <1>4, Arrives DEF ReceiveNotify, Got, Onward
<1>5. ASSUME ReceiveList(c), ~ Fail(c) PROVE Goal
  <2>1. PICK t \in Selected(c, run[c].response.listed) :
          IF c \in Repl THEN Goes(c, [run[c] EXCEPT !.tool = t], "prompt")
                        ELSE Send(c, [run[c] EXCEPT !.tool = t], "call")
    BY <1>5 DEF ReceiveList
  <2>2. [run[c] EXCEPT !.tool = t] \in Run
    BY <1>1, <1>5, ClientAssumption DEF ReceiveList, Got, Selected, Run, Response
  <2> QED BY <1>5, <2>1, <2>2, Arrives DEF ReceiveList, Got, Onward
<1>6. ASSUME ReceiveCall(c) PROVE Goal
  BY <1>1, <1>2, <1>6, Arrives DEF ReceiveCall, Got, Onward
<1>7. ASSUME ReceiveDelete(c) PROVE Goal
  BY <1>1, <1>2, <1>7, Arrives DEF ReceiveDelete, Got, Onward
<1>8. ASSUME Quit(c) PROVE Goal
  BY <1>1, <1>8, Arrives DEF Quit, Onward, Methods
<1> QED BY <1>2, <1>3, <1>4, <1>5, <1>6, <1>7, <1>8
        DEF Client, Receive, Begin, Ask, GiveUp, Methods

Answered(c) == run[c].response # None /\ ~ Interrupted(c)

\* Nobody else moves a run, nor does reading on, and its answer is not taken back.
LEMMA OthersWait ==
  ASSUME IInv, NEW c \in Clients, [Next]_vars
  PROVE  \/ Client(c) /\ ~ ReceiveOther(c)
         \/ run'[c].at = run[c].at /\ (Answered(c) => Answered(c)')
<1> DEFINE Waits == run'[c].at = run[c].at /\ (Answered(c) => Answered(c)')
<1>1. run \in [Clients -> Run]
  BY DEF IInv, TypeOK
<1>2. ASSUME NEW d \in Clients, Client(d), d # c PROVE run'[c] = run[c]
  BY <1>1, <1>2 DEF Client, Receive, Begin, Ask, GiveUp, Quit, ReceiveOther, ReceiveInitialize,
     ReceiveNotify, ReceiveList, ReceiveCall, ReceiveDelete, Fail, Close, Send, Goes
<1>3. ASSUME NEW m \in pending, NEW response \in Response, Answer(m, response),
             response.body # "other"
      PROVE  Waits
  <2>1. m.client \in Clients
    BY DEF IInv, TypeOK, Request
  <2>2. response # None
    BY ResponseAssumption
  <2>3. run'[c] = run[c] \/ run'[c] = [run[c] EXCEPT !.response = response]
    BY <1>1, <1>3, <2>1 DEF Answer
  <2>4. run[c] \in Run
    BY <1>1
  <2>5. CASE run'[c] = [run[c] EXCEPT !.response = response]
    <3>1. run'[c].at = run[c].at /\ run'[c].response = response
      BY <2>4, <2>5 DEF Run
    <3> QED BY <1>3, <2>2, <3>1 DEF Answered, Interrupted
  <2> QED BY <2>3, <2>5 DEF Answered, Interrupted
<1>4. ASSUME NEW m \in pending, Handle(m)
      PROVE  \E response \in Response : Answer(m, response) /\ response.body # "other"
  <2> DEFINE Goal == \E response \in Response : Answer(m, response) /\ response.body # "other"
  <2>1. /\ Nothing \in Response /\ "other" \notin Bodies /\ Nothing.body = "refused"
        /\ "result" \in Bodies
    BY DEF Nothing, Response, Bodies
  <2>2. ASSUME NEW body \in Bodies, NEW session \in BOOLEAN, NEW listed \in SUBSET Tools,
               NEW ok \in BOOLEAN
        PROVE  /\ Answer(m, [Nothing EXCEPT !.body = body]) => Goal
               /\ Answer(m, [Nothing EXCEPT !.body = body, !.session = session]) => Goal
               /\ Answer(m, [Nothing EXCEPT !.body = body, !.listed = listed]) => Goal
               /\ Answer(m, [Nothing EXCEPT !.body = body, !.ok = ok]) => Goal
    <3>1. /\ [Nothing EXCEPT !.body = body] \in Response
          /\ [Nothing EXCEPT !.body = body].body = body
      BY <2>1 DEF Response
    <3>2. /\ [Nothing EXCEPT !.body = body, !.session = session] \in Response
          /\ [Nothing EXCEPT !.body = body, !.session = session].body = body
      BY <2>1 DEF Response
    <3>3. /\ [Nothing EXCEPT !.body = body, !.listed = listed] \in Response
          /\ [Nothing EXCEPT !.body = body, !.listed = listed].body = body
      BY <2>1 DEF Response
    <3>4. /\ [Nothing EXCEPT !.body = body, !.ok = ok] \in Response
          /\ [Nothing EXCEPT !.body = body, !.ok = ok].body = body
      BY <2>1 DEF Response
    <3>5. body # "other"
      BY <2>1
    <3> QED BY <3>1, <3>2, <3>3, <3>4, <3>5
  <2> HIDE DEF Goal
  <2>3. Refuse(m) => Goal
    BY <2>1 DEF Refuse, Goal
  <2>4. /\ HandleInitialize(m) => Goal
        /\ HandleNotify(m) => Goal
        /\ HandleList(m) => Goal
        /\ HandleCall(m) => Goal
        /\ HandleDelete(m) => Goal
    BY <2>1, <2>2 DEF HandleInitialize, HandleNotify, HandleList, HandleCall, HandleDelete
  <2>5. Goal
    BY <1>4, <2>3, <2>4 DEF Handle
  <2> QED BY <2>5 DEF Goal
<1>5. ASSUME NEW m \in pending, Lose(m) PROVE Waits
  BY <1>5 DEF Lose, Answered, Interrupted
<1>6. ASSUME NEW d \in Clients, Expire(d) PROVE Waits
  BY <1>6 DEF Expire, Answered, Interrupted
<1>7. CASE UNCHANGED vars
  BY <1>7 DEF vars, Answered, Interrupted
<1>8. ASSUME NEW m \in pending, Interject(m) PROVE Waits
  <2>1. m.client \in Clients
    BY DEF IInv, TypeOK, Request
  <2>2. \/ run'[c] = run[c]
        \/ run[c].response = None /\ run'[c].at = run[c].at
    BY <1>1, <1>8, <2>1 DEF Interject, Run
  <2> QED BY <2>2 DEF Answered, Interrupted
<1>9. CASE ReceiveOther(c)
  <2>1. run'[c].at = run[c].at
    BY <1>1, <1>9 DEF ReceiveOther, Run
  <2> QED BY <1>9, <2>1 DEF ReceiveOther, Answered
<1>10. ASSUME NEW d \in Clients, Client(d), d # c PROVE Waits
  BY <1>2, <1>10 DEF Answered, Interrupted
<1> QED BY <1>3, <1>4, <1>5, <1>6, <1>7, <1>8, <1>9, <1>10 DEF Next

\* Whatever a run waits for, it goes on, if the Gateway does not interrupt for ever.
MovesOn(c, method) == run[c].at = method ~> run[c].at \in Onward(c, method)

LEMMA WaitEnds ==
  ASSUME NEW c \in Clients, NEW method \in Methods
  PROVE  FairSpec /\ []FairActionsEnabled /\ FallsSilent(c) => MovesOn(c, method)
<1> DEFINE W == run[c].at = method /\ run[c].response = None
           O == run[c].at = method /\ Interrupted(c)
           G == run[c].at = method /\ Answered(c)
           P == run[c].at \in Onward(c, method)
<1>1. IInv /\ [Next]_vars => /\ W \/ O => W' \/ O' \/ G' \/ P'
                             /\ G => G' \/ P'
  BY OthersWait, ClientOnward DEF Answered, Interrupted
<1>2. IInv => /\ W /\ <<GiveUp(c)>>_vars => P'
              /\ G /\ <<Receive(c)>>_vars => P'
  BY ClientOnward DEF Client, GiveUp, ReceiveOther, Answered, Interrupted
<1>3. FairActionsEnabled => /\ W => ENABLED <<GiveUp(c)>>_vars
                            /\ G => ENABLED <<Receive(c)>>_vars
  BY DEF FairActionsEnabled, Answered
<1>4. Fairness => ClientFairness(c)
  BY DEF Fairness
<1>5. run[c].at = method <=> W \/ O \/ G
  BY DEF Answered, Interrupted
<1>6. P <=> run[c].at \in Onward(c, method)
  OBVIOUS
<1>7. ~ Interrupted(c) => ~ O
  OBVIOUS
<1> HIDE DEF W, O, G, P
<1> QED BY <1>1, <1>2, <1>3, <1>4, <1>5, <1>6, <1>7, Invariance, PTL
        DEF FairSpec, Spec, ClientFairness, MovesOn, FallsSilent

\* smoke_test.py and agent_cli.py: a smoke test that sent initialize ends, and the CLI
\* comes back from each question, by the answer or by the timeout of its socket,
\* though the Gateway may never answer, unless it sends other events for ever.
THEOREM WaitsEnd == FairSpec /\ []FairActionsEnabled => EveryWaitEnds
<1>1. ASSUME NEW c \in Clients, c \notin Repl
      PROVE  FairSpec /\ []FairActionsEnabled /\ FallsSilent(c) => RunEnds(c)
  <2> DEFINE At(p) == run[c].at = p
  <2>1. /\ run[c].at \in Onward(c, "initialize") => At("notify") \/ At("delete") \/ At("ended")
        /\ run[c].at \in Onward(c, "notify") => At("list") \/ At("delete") \/ At("ended")
        /\ run[c].at \in Onward(c, "list") => At("call") \/ At("delete") \/ At("ended")
        /\ run[c].at \in Onward(c, "call") => At("delete") \/ At("ended")
        /\ run[c].at \in Onward(c, "delete") => At("ended")
    BY <1>1 DEF Onward
  <2>2. "initialize" \in Methods /\ "notify" \in Methods /\ "list" \in Methods
        /\ "call" \in Methods /\ "delete" \in Methods
    BY DEF Methods
  <2>3. FairSpec /\ []FairActionsEnabled /\ FallsSilent(c) =>
          /\ MovesOn(c, "initialize") /\ MovesOn(c, "notify") /\ MovesOn(c, "list")
          /\ MovesOn(c, "call") /\ MovesOn(c, "delete")
    BY <2>2, WaitEnds
  <2> QED BY <2>1, <2>3, PTL DEF RunEnds, MovesOn
<1>2. ASSUME NEW c \in Clients
      PROVE  FairSpec /\ []FairActionsEnabled /\ FallsSilent(c) => CallReturns(c)
  <2>1. run[c].at \in Onward(c, "call") => run[c].at \in {"prompt", "delete", "ended"}
    BY DEF Onward
  <2>2. FairSpec /\ []FairActionsEnabled /\ FallsSilent(c) => MovesOn(c, "call")
    <3>1. "call" \in Methods
      BY DEF Methods
    <3> QED BY <3>1, WaitEnds
  <2> QED BY <2>1, <2>2, PTL DEF CallReturns, MovesOn
<1> QED BY <1>1, <1>2 DEF EveryWaitEnds
==============================================================================
