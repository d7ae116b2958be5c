------------------------------- MODULE McpClient -------------------------------
(***************************************************************************)
(* The two MCP clients of the Gateway: the end-to-end smoke test           *)
(* (src/scripts/smoke_test.py) and the interactive CLI                     *)
(* (src/scripts/agent_cli.py), which shares its HTTP functions.            *)
(*                                                                         *)
(* A client has one request in flight and a connection for each; it gives  *)
(* a request up when its socket is silent for the timeout or breaks, and   *)
(* the request may still reach the Gateway, whose late answer nobody       *)
(* reads.  The Gateway (external) is seen through the status, the session  *)
(* header and the JSON-RPC payload of its responses, and the other events  *)
(* it sends on a stream before the payload.                                *)
(***************************************************************************)
EXTENDS Naturals, FiniteSets

CONSTANTS
  Clients,   \* runs of a script
  Repl,      \* the runs of agent_cli.py; the others are smoke tests
  Tools,     \* the ask_database tools of the Gateway's targets
  Expected,  \* the tool of the run's --target-name, None without one
  Questions, \* bound: questions asked in one run of the CLI
  None

ASSUME ClientAssumption ==
  /\ Repl \subseteq Clients
  /\ Expected \in [Clients -> Tools \cup {None}]
  /\ None \notin Tools
  /\ Questions \in Nat

VARIABLES
  run,       \* where each run is, what it holds, what it has read
  pending,   \* the requests on their way to the Gateway
  open,      \* the runs whose Gateway session is open
  ready,     \* the runs whose initialized notification the Gateway has
  offered,   \* the tools the Gateway listed to each run
  served,    \* the tool calls the Gateway answered with status ok
  deleted    \* the runs that sent a DELETE for their session

vars == <<run, pending, open, ready, offered, served, deleted>>
gateway == <<open, ready, offered, served>>

Methods == {"initialize", "notify", "list", "call", "delete"}
Bodies == {"result", "error", "unreadable", "refused"}
Request == [client : Clients, id : Nat, method : Methods,
            session : BOOLEAN, tool : Tools \cup {None}]

\* What comes back: a payload with this id, one with an error, neither, or an
\* HTTP error; with a session header, the tools listed, the status of the tool.
Response == [body : Bodies \cup {"other"}, session : BOOLEAN, listed : SUBSET Tools, ok : BOOLEAN]
ASSUME ResponseAssumption == None \notin Response
Nothing == [body |-> "refused", session |-> FALSE, listed |-> {}, ok |-> FALSE]

\* Part of a stream that is not the payload waited for.
OtherEvent == [Nothing EXCEPT !.body = "other"]

Run == [at : Methods \cup {"start", "prompt", "ended"}, id : Nat, session : BOOLEAN,
        tool : Tools \cup {None}, exit : {"none", "passed", "failed"},
        response : Response \cup {None}]

Init ==
  /\ run = [c \in Clients |-> [at |-> "start", id |-> 0, session |-> FALSE, tool |-> None,
                               exit |-> "none", response |-> None]]
  /\ pending = {}
  /\ open = {} /\ ready = {} /\ served = {}
  /\ offered = [c \in Clients |-> {}]
  /\ deleted = {}

------------------------------------------------------------------------------
(* Sending and leaving.                                                    *)

\* _post, _notify and _delete_session send one request, in the state s of the run.
Send(c, s, method) ==
  /\ run' = [run EXCEPT ![c] = [s EXCEPT !.at = method, !.id = s.id + 1, !.response = None]]
  /\ pending' = pending \cup
       {[client |-> c, id |-> s.id + 1, method |-> method, session |-> s.session, tool |-> s.tool]}

Goes(c, s, at) ==
  /\ run' = [run EXCEPT ![c] = [s EXCEPT !.at = at, !.response = None]]
  /\ UNCHANGED pending

\* finally: _delete_session returns at once when no session is held.
Close(c, s) ==
  IF s.session
    THEN Send(c, s, "delete") /\ deleted' = deleted \cup {c}
    ELSE Goes(c, s, "ended") /\ UNCHANGED deleted

\* Mutant: a failure ends the script without the finally.
FailUnclosed(c) ==
  /\ IF c \in Repl /\ run[c].at = "call"
       THEN Goes(c, run[c], "prompt")
       ELSE Goes(c, [run[c] EXCEPT !.exit = "failed"], "ended")
  /\ UNCHANGED deleted

\* An exception: the CLI reports it and prompts again if it was a question,
\* otherwise the script ends, through its finally.
Fail(c) ==
  IF c \in Repl /\ run[c].at = "call"
    THEN Goes(c, run[c], "prompt") /\ UNCHANGED deleted
    ELSE IF run[c].at = "delete"
      THEN Goes(c, [run[c] EXCEPT !.exit = "failed"], "ended") /\ UNCHANGED deleted
      ELSE Close(c, [run[c] EXCEPT !.exit = "failed"])

------------------------------------------------------------------------------
(* The steps of a run.                                                     *)

Begin(c) ==
  /\ run[c].at = "start"
  /\ Send(c, run[c], "initialize")
  /\ UNCHANGED <<gateway, deleted>>

\* What came is more of a stream, and not yet its payload.
Interrupted(c) == run[c].response # None /\ run[c].response.body = "other"

Got(c, method) == run[c].at = method /\ run[c].response # None /\ ~ Interrupted(c)
Result(c) == run[c].response.body = "result"

\* Mutant: the notification is not awaited.
ReceiveInitializeUnawaited(c) ==
  /\ Got(c, "initialize")
  /\ IF Result(c)
       THEN LET s == [run[c] EXCEPT !.session = run[c].response.session, !.id = @ + 2]
            IN  /\ run' = [run EXCEPT ![c] = [s EXCEPT !.at = "list", !.response = None]]
                /\ pending' = pending \cup
                     {[client |-> c, id |-> s.id - 1, method |-> "notify",
                       session |-> s.session, tool |-> None],
                      [client |-> c, id |-> s.id, method |-> "list",
                       session |-> s.session, tool |-> None]}
                /\ UNCHANGED deleted
       ELSE Fail(c)
  /\ UNCHANGED gateway

\* The payload is read and checked before the session header is looked at.
ReceiveInitialize(c) ==
  /\ Got(c, "initialize")
  /\ IF Result(c)
       THEN /\ Send(c, [run[c] EXCEPT !.session = run[c].response.session], "notify")
            /\ UNCHANGED deleted
       ELSE Fail(c)
  /\ UNCHANGED gateway

\* Any 2xx will do; the body is not read.
ReceiveNotify(c) ==
  /\ Got(c, "notify")
  /\ IF run[c].response.body # "refused"
       THEN Send(c, run[c], "list") /\ UNCHANGED deleted
       ELSE Fail(c)
  /\ UNCHANGED gateway

\* Mutant: the tool's name is made from the target without looking at the list.
SelectedUnlisted(c, listed) == IF Expected[c] # None THEN {Expected[c]} ELSE listed

\* _find_tool_name: the tool of the named target, or else any ask_database.
Selected(c, listed) == IF Expected[c] \in listed THEN {Expected[c]} ELSE listed

ReceiveList(c) ==
  /\ Got(c, "list")
  /\ \/ /\ Result(c)
        /\ \E t \in Selected(c, run[c].response.listed) :
             LET s == [run[c] EXCEPT !.tool = t]
             IN  IF c \in Repl THEN Goes(c, s, "prompt") ELSE Send(c, s, "call")
        /\ UNCHANGED deleted
     \/ /\ ~ Result(c) \/ Selected(c, run[c].response.listed) = {}
        /\ Fail(c)
  /\ UNCHANGED gateway

\* A question typed at the prompt.
Ask(c) ==
  /\ run[c].at = "prompt"
  /\ run[c].id < 3 + Questions
  /\ Send(c, run[c], "call")
  /\ UNCHANGED <<gateway, deleted>>

\* Mutant: the smoke test accepts any answer of the tool.
ReceiveCallUnchecked(c) ==
  /\ Got(c, "call")
  /\ IF Result(c)
       THEN IF c \in Repl
              THEN Goes(c, run[c], "prompt") /\ UNCHANGED deleted
              ELSE Close(c, [run[c] EXCEPT !.exit = "passed"])
       ELSE Fail(c)
  /\ UNCHANGED gateway

\* The CLI prints what came; the smoke test passes on status ok.
ReceiveCall(c) ==
  /\ Got(c, "call")
  /\ IF Result(c) /\ (c \in Repl \/ run[c].response.ok)
       THEN IF c \in Repl
              THEN Goes(c, run[c], "prompt") /\ UNCHANGED deleted
              ELSE Close(c, [run[c] EXCEPT !.exit = "passed"])
       ELSE Fail(c)
  /\ UNCHANGED gateway

\* 404 and 405 are taken for a closed session; other errors are raised.
ReceiveDelete(c) ==
  /\ Got(c, "delete")
  /\ IF run[c].response.body # "refused"
       THEN Goes(c, run[c], "ended") /\ UNCHANGED deleted
       ELSE Fail(c)
  /\ UNCHANGED gateway

\* A line that is no payload of this request: the loop of _read_response reads on.
ReceiveOther(c) ==
  /\ run[c].at \in Methods /\ Interrupted(c)
  /\ run' = [run EXCEPT ![c].response = None]
  /\ UNCHANGED <<pending, gateway, deleted>>

Receive(c) ==
  \/ ReceiveOther(c) \/ ReceiveInitialize(c) \/ ReceiveNotify(c) \/ ReceiveList(c)
  \/ ReceiveCall(c) \/ ReceiveDelete(c)

\* Mutant: a tool call is awaited without a timeout.
GiveUpExceptCalls(c) ==
  /\ run[c].at \in Methods \ {"call"}
  /\ run[c].response = None
  /\ Fail(c)
  /\ UNCHANGED gateway

\* Mutant: a timeout has an exit status of its own.
GiveUpAsTimeout(c) ==
  /\ run[c].at \in Methods
  /\ run[c].response = None
  /\ run' = [run EXCEPT ![c].at = "ended", ![c].exit = "timeout"]
  /\ UNCHANGED <<pending, gateway, deleted>>

\* The connection or a read of it raises: nothing came for the time of the socket's
\* timeout, or it broke.
GiveUp(c) ==
  /\ run[c].at \in Methods
  /\ run[c].response = None
  /\ Fail(c)
  /\ UNCHANGED gateway

\* EOF or :quit at the prompt, or Ctrl-C wherever the script waits.
Quit(c) ==
  /\ run[c].at \in (Methods \ {"delete"}) \cup {"prompt"}
  /\ IF run[c].at = "prompt"
       THEN Close(c, run[c])
       ELSE Close(c, [run[c] EXCEPT !.exit = "failed"])
  /\ UNCHANGED gateway

------------------------------------------------------------------------------
(* The Gateway (external) and the network.                                 *)

Awaited(m) == run[m.client].at = m.method /\ run[m.client].id = m.id

\* The response reaches the run if it still waits for this very request.
Answer(m, response) ==
  /\ pending' = pending \ {m}
  /\ run' = IF Awaited(m) THEN [run EXCEPT ![m.client].response = response] ELSE run
  /\ UNCHANGED deleted

\* An event of the stream, a comment or a part of a body comes before the payload,
\* and may come again; the answers to the notification and to DELETE are not read.
Interject(m) ==
  /\ m.method \in {"initialize", "list", "call"} /\ Awaited(m)
  /\ run[m.client].response = None
  /\ run' = [run EXCEPT ![m.client].response = OtherEvent]
  /\ UNCHANGED <<pending, gateway, deleted>>

Refuse(m) == Answer(m, Nothing) /\ UNCHANGED gateway

\* A request in a session that is closed is refused.
Admitted(m) == m.session => m.client \in open

HandleInitialize(m) ==
  /\ m.method = "initialize"
  /\ \E body \in Bodies \ {"refused"}, session \in BOOLEAN :
       /\ Answer(m, [Nothing EXCEPT !.body = body, !.session = session])
       /\ open' = IF session THEN open \cup {m.client} ELSE open
  /\ UNCHANGED <<ready, offered, served>>

HandleNotify(m) ==
  /\ m.method = "notify" /\ Admitted(m)
  /\ Answer(m, [Nothing EXCEPT !.body = "result"])
  /\ ready' = ready \cup {m.client}
  /\ UNCHANGED <<open, offered, served>>

\* The targets that exist change as agents are deployed.
HandleList(m) ==
  /\ m.method = "list" /\ Admitted(m)
  /\ \E body \in Bodies \ {"refused"}, listed \in SUBSET Tools :
       /\ Answer(m, [Nothing EXCEPT !.body = body, !.listed = listed])
       /\ offered' = [offered EXCEPT ![m.client] = IF body = "result" THEN @ \cup listed ELSE @]
  /\ UNCHANGED <<open, ready, served>>

HandleCall(m) ==
  /\ m.method = "call" /\ Admitted(m)
  /\ \E body \in Bodies \ {"refused"}, ok \in BOOLEAN :
       /\ Answer(m, [Nothing EXCEPT !.body = body, !.ok = ok])
       /\ served' = IF ok THEN served \cup {<<m.client, m.id, m.tool>>} ELSE served
  /\ UNCHANGED <<open, ready, offered>>

\* A Gateway without client-terminated sessions answers 405.
HandleDelete(m) ==
  /\ m.method = "delete"
  /\ Answer(m, [Nothing EXCEPT !.body = "result"])
  /\ open' \in {open, open \ {m.client}}
  /\ UNCHANGED <<ready, offered, served>>

Handle(m) ==
  \/ HandleInitialize(m) \/ HandleNotify(m) \/ HandleList(m)
  \/ HandleCall(m) \/ HandleDelete(m) \/ Refuse(m)

\* A request whose sender gave up never arrives.
Lose(m) ==
  /\ ~ Awaited(m)
  /\ pending' = pending \ {m}
  /\ UNCHANGED <<run, gateway, deleted>>

\* The Gateway ends a session of its own accord.
Expire(c) ==
  /\ c \in open
  /\ open' = open \ {c}
  /\ UNCHANGED <<run, pending, ready, offered, served, deleted>>

Client(c) == Begin(c) \/ Receive(c) \/ Ask(c) \/ GiveUp(c) \/ Quit(c)

Next ==
  \/ \E c \in Clients : Client(c) \/ Expire(c)
  \/ \E m \in pending : Handle(m) \/ Interject(m) \/ Lose(m)

Spec == Init /\ [][Next]_vars

\* A script reads what came, and a socket on which nothing comes times out; nothing
\* makes the Gateway answer or stop sending other events, or the user type.
ClientFairness(c) == WF_vars(Receive(c)) /\ WF_vars(GiveUp(c))

Fairness == \A c \in Clients : ClientFairness(c)

FairSpec == Spec /\ Fairness

------------------------------------------------------------------------------
(* Properties.                                                             *)

\* Runs and requests are well formed.
TypeOK ==
  /\ run \in [Clients -> Run]
  /\ pending \subseteq Request
  /\ open \subseteq Clients /\ ready \subseteq Clients
  /\ deleted \subseteq Clients
  /\ offered \in [Clients -> SUBSET Tools]
  /\ served \subseteq Clients \X Nat \X (Tools \cup {None})

\* tools/list and tools/call are sent only once the Gateway has the initialized
\* notification, whatever was lost, and a call only for a tool it listed to this run.
HandshakeFirst ==
  \A m \in pending : m.method \in {"list", "call"} =>
    m.client \in ready /\ (m.method = "call" => m.tool \in offered[m.client])

\* "End-to-end smoke test passed": a call of this very run, to the tool it selected
\* among those listed to it, was answered by the Gateway with status ok.
PassedWasServed ==
  \A c \in Clients : run[c].exit = "passed" =>
    /\ run[c].tool \in offered[c]
    /\ \E n \in 0..run[c].id : <<c, n, run[c].tool>> \in served

\* However a run ends, and wherever it failed, it sent a DELETE for the session
\* it held, and nothing in that session after it.
HeldSessionsDeleted ==
  \A c \in Clients :
    /\ run[c].at = "ended" /\ run[c].session => c \in deleted
    /\ c \in deleted => run[c].at \in {"delete", "ended"}

\* A smoke test that has begun ends, and the CLI comes back from every question,
\* though the Gateway may never answer, unless it sends other events for ever: the
\* timeout of the socket bounds each read and not the response.
RunEnds(c) == run[c].at = "initialize" ~> run[c].at = "ended"
CallReturns(c) == run[c].at = "call" ~> run[c].at \in {"prompt", "delete", "ended"}

FallsSilent(c) == <>[](~ Interrupted(c))

EveryWaitEnds ==
  \A c \in Clients : FallsSilent(c) => (c \notin Repl => RunEnds(c)) /\ CallReturns(c)

==============================================================================
