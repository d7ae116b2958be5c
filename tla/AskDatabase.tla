----------------------------- MODULE AskDatabase -----------------------------
(***************************************************************************)
(* The ask_database handler of the data-agent Runtime (src/main.py) with   *)
(* the thread that executes its statement                                  *)
(* (src/app/capabilities/database/database.py).                            *)
(*                                                                         *)
(* One asyncio event loop serves every request, so the code between two    *)
(* awaits is one atomic step: receipt to the LLM call, LLM reply to the    *)
(* submission of the statement, rows to the response.  The deadline of     *)
(* asyncio.timeout, the LLM and the threads of the default executor        *)
(* interleave freely with those steps.  A timeout cancels a statement that *)
(* is still queued; a thread that is running cannot be cancelled and goes  *)
(* on behind a request that has been answered.                             *)
(***************************************************************************)
EXTENDS Naturals, Sequences

CONSTANTS
  Requests,     \* calls of the tool
  Workers,      \* threads of the default executor of asyncio.to_thread
  Grants,       \* authorization grants the internal context can carry
  Statements,   \* SQL texts the LLM can produce
  Configs,      \* versions of the configuration object load_config can find
  IncludeSql,   \* the requests made with include_sql=True
  None          \* "nothing yet"

ConfigType ==
  [required : SUBSET Grants,      \* capability.required_grants
   viewer   : Grants,             \* the grant that may see the SQL
   allowSql : BOOLEAN,            \* query.allow_sql_by_default
   allowed  : SUBSET Statements,  \* the candidates validate_sql accepts
   provider : BOOLEAN,            \* llm.provider is openai or bedrock
   dialect  : BOOLEAN]            \* database.dialect is in DATABASE_SETUPS

ASSUME ConfigAssumption == Configs \subseteq ConfigType /\ IncludeSql \subseteq Requests
ASSUME NoneAssumption ==
  /\ None \notin Requests \cup Statements \cup Configs
  /\ \A grants \in SUBSET Grants : grants # None

VARIABLES
  phase,      \* where the handler of each request is suspended
  config,     \* the configuration this call loaded
  caller,     \* the grants of the verified internal context
  statement,  \* candidate.sql
  outcome,    \* what the awaited LLM call or thread came back with
  deadline,   \* the timer of asyncio.timeout
  queue,      \* the executor's FIFO of submitted calls
  job,        \* where _execute_sync is for each request
  worker,     \* the request each thread is working for
  session,    \* what holds of the database session: {} is closed
  answer,     \* the status of the response
  shown,      \* the SQL the response shows
  audit       \* the audit events emitted

vars == <<phase, config, caller, statement, outcome, deadline, queue, job,
          worker, session, answer, shown, audit>>

\* What the threads of the executor never touch, and what they share.
handler == <<phase, config, caller, statement, deadline, answer, shown, audit>>
pool == <<queue, job, worker, session>>

Failures == {"value_error", "exception"}
SessionFacts == {"open", "read_only", "statement_timeout"}
Running == {"load_secret", "connect", "configure", "execute", "dispose"}

Init ==
  /\ phase = [r \in Requests |-> "absent"]
  /\ config = [r \in Requests |-> None]
  /\ caller = [r \in Requests |-> None]
  /\ statement = [r \in Requests |-> None]
  /\ outcome = [r \in Requests |-> "pending"]
  /\ deadline = [r \in Requests |-> "off"]
  /\ queue = <<>>
  /\ job = [r \in Requests |-> "none"]
  /\ worker = [w \in Workers |-> None]
  /\ session = [r \in Requests |-> {}]
  /\ answer = [r \in Requests |-> "none"]
  /\ shown = [r \in Requests |-> None]
  /\ audit = [r \in Requests |-> <<>>]

------------------------------------------------------------------------------
(* How a request ends: one audit event, then the response.                 *)

\* Leaving the handler also leaves asyncio.timeout, which cancels its timer.
Leave(r, status, sql) ==
  /\ phase' = [phase EXCEPT ![r] = "answered"]
  /\ deadline' = [deadline EXCEPT ![r] = "off"]
  /\ answer' = [answer EXCEPT ![r] = status]
  /\ shown' = [shown EXCEPT ![r] = sql]

\* emit(): a line of the audit log.
Emit(r, event) == audit' = [audit EXCEPT ![r] = Append(@, event)]

Reject(r) == Leave(r, "rejected", None) /\ Emit(r, "rejected")

\* Mutant: a timeout is answered with a status of its own.
FailWithOwnStatus(r) ==
  /\ Leave(r, IF deadline[r] = "expired" THEN "timeout" ELSE "error", None)
  /\ Emit(r, "failed")

Fail(r) == Leave(r, "error", None) /\ Emit(r, "failed")

\* except PermissionError / except ValueError / except Exception
Handle(r, failure) ==
  \/ failure = "value_error" /\ Reject(r)
  \/ failure = "exception" /\ Fail(r)

------------------------------------------------------------------------------
(* From receipt to the LLM call: no await suspends, one step of the loop.  *)

Arrive(r) ==
  /\ phase[r] = "absent"
  /\ phase' = [phase EXCEPT ![r] = "received"]
  /\ UNCHANGED <<config, caller, statement, outcome, deadline, answer, shown, audit, pool>>

\* load_config and config.capability run before the try block.
LoadConfigFails(r) ==
  /\ phase[r] = "received"
  /\ phase' = [phase EXCEPT ![r] = "escaped"]
  /\ UNCHANGED <<config, caller, statement, outcome, deadline, answer, shown, audit, pool>>

\* Invalid input or an internal context that does not verify is rejected; an
\* unreadable signing secret is an operational failure.
RefuseUnverified(r) ==
  /\ phase[r] = "received"
  /\ \E cfg \in Configs : config' = [config EXCEPT ![r] = cfg]
  /\ Reject(r) \/ Fail(r)
  /\ UNCHANGED <<caller, statement, outcome, pool>>

\* A verified caller misses a grant, or the question, the context or the
\* configured provider is refused.
RefuseVerified(r) ==
  /\ phase[r] = "received"
  /\ \E cfg \in Configs, grants \in SUBSET Grants, acceptable \in BOOLEAN :
        /\ ~(cfg.required \subseteq grants /\ acceptable /\ cfg.provider)
        /\ config' = [config EXCEPT ![r] = cfg]
        /\ caller' = [caller EXCEPT ![r] = grants]
  /\ Reject(r)
  /\ UNCHANGED <<statement, outcome, pool>>

\* Mutant: the required grants are not compared with the caller's.
ServeAnyone(r) ==
  /\ phase[r] = "received"
  /\ \E cfg \in Configs, grants \in SUBSET Grants :
        /\ cfg.provider
        /\ config' = [config EXCEPT ![r] = cfg]
        /\ caller' = [caller EXCEPT ![r] = grants]
  /\ phase' = [phase EXCEPT ![r] = "generating"]
  /\ deadline' = [deadline EXCEPT ![r] = "armed"]
  /\ UNCHANGED <<statement, outcome, answer, shown, audit, pool>>

\* Mutant: the LLM is called without a deadline.
ServeUnbounded(r) ==
  /\ phase[r] = "received"
  /\ \E cfg \in Configs, grants \in SUBSET Grants :
        /\ cfg.required \subseteq grants
        /\ cfg.provider
        /\ config' = [config EXCEPT ![r] = cfg]
        /\ caller' = [caller EXCEPT ![r] = grants]
  /\ phase' = [phase EXCEPT ![r] = "generating"]
  /\ UNCHANGED <<statement, outcome, deadline, answer, shown, audit, pool>>

\* The caller is served: the deadline is armed and the LLM is called, unless
\* the model client cannot be built (its secret is unreadable).
Serve(r) ==
  /\ phase[r] = "received"
  /\ \E cfg \in Configs, grants \in SUBSET Grants :
        /\ cfg.required \subseteq grants
        /\ cfg.provider
        /\ config' = [config EXCEPT ![r] = cfg]
        /\ caller' = [caller EXCEPT ![r] = grants]
  /\ \/ /\ phase' = [phase EXCEPT ![r] = "generating"]
        /\ deadline' = [deadline EXCEPT ![r] = "armed"]
        /\ UNCHANGED <<answer, shown, audit>>
     \/ Fail(r)
  /\ UNCHANGED <<statement, outcome, pool>>

Begin(r) ==
  LoadConfigFails(r) \/ RefuseUnverified(r) \/ RefuseVerified(r) \/ Serve(r)

------------------------------------------------------------------------------
(* The LLM call and the deadline.                                          *)

\* The task is being cancelled: it consumes no result any more.
Cancelled(r) == deadline[r] = "expired"

\* The LLM answers, or fails (unparseable structured output is a ValueError).
LlmReplies(r) ==
  /\ phase[r] = "generating"
  /\ ~Cancelled(r)
  /\ outcome[r] = "pending"
  /\ \/ /\ outcome' = [outcome EXCEPT ![r] = "candidate"]
        /\ \E s \in Statements : statement' = [statement EXCEPT ![r] = s]
     \/ /\ \E f \in Failures : outcome' = [outcome EXCEPT ![r] = f]
        /\ UNCHANGED statement
  /\ UNCHANGED <<phase, config, caller, deadline, answer, shown, audit, pool>>

\* The timer fires while the handler is suspended: the task is cancelled, and
\* a result that is ready but not yet consumed is lost.
Expire(r) ==
  /\ phase[r] \in {"generating", "querying"}
  /\ deadline[r] = "armed"
  /\ deadline' = [deadline EXCEPT ![r] = "expired"]
  /\ UNCHANGED <<phase, config, caller, statement, outcome, answer, shown, audit, pool>>

------------------------------------------------------------------------------
(* The handler resumes.                                                    *)

\* Mutant: the queued call is not cancelled (as under asyncio.shield).
TimeOutShielded(r) ==
  /\ Cancelled(r)
  /\ Fail(r)
  /\ UNCHANGED <<config, caller, statement, outcome, pool>>

\* Mutant: the timed-out handler answers without its audit event.
TimeOutSilently(r) ==
  /\ Cancelled(r)
  /\ job' = [job EXCEPT ![r] = IF @ = "queued" THEN "dropped" ELSE @]
  /\ Leave(r, "error", None)
  /\ UNCHANGED <<audit, config, caller, statement, outcome, queue, worker, session>>

\* Cancellation reaches the await first: a call still in the executor's queue
\* is dropped, a running one is left alone; TimeoutError is an Exception.
TimeOut(r) ==
  /\ Cancelled(r)
  /\ job' = [job EXCEPT ![r] = IF @ = "queued" THEN "dropped" ELSE @]
  /\ Fail(r)
  /\ UNCHANGED <<config, caller, statement, outcome, queue, worker, session>>

\* Mutant: the candidate is submitted before it is validated.
SubmitCandidate(r) ==
  /\ phase[r] = "generating"
  /\ ~Cancelled(r)
  /\ outcome[r] = "candidate"
  /\ outcome' = [outcome EXCEPT ![r] = "pending"]
  /\ queue' = Append(queue, r)
  /\ job' = [job EXCEPT ![r] = "queued"]
  /\ \/ /\ statement[r] \notin config[r].allowed
        /\ Reject(r)
     \/ /\ statement[r] \in config[r].allowed
        /\ phase' = [phase EXCEPT ![r] = "querying"]
        /\ UNCHANGED <<deadline, answer, shown, audit>>
  /\ UNCHANGED <<config, caller, statement, worker, session>>

\* The candidate is validated; the accepted statement is submitted to the
\* executor before the handler suspends again.
UseCandidate(r) ==
  /\ phase[r] = "generating"
  /\ ~Cancelled(r)
  /\ outcome[r] = "candidate"
  /\ \/ /\ statement[r] \notin config[r].allowed
        /\ Reject(r)
        /\ UNCHANGED <<outcome, queue, job>>
     \/ /\ statement[r] \in config[r].allowed
        /\ phase' = [phase EXCEPT ![r] = "querying"]
        /\ outcome' = [outcome EXCEPT ![r] = "pending"]
        /\ queue' = Append(queue, r)
        /\ job' = [job EXCEPT ![r] = "queued"]
        /\ UNCHANGED <<deadline, answer, shown, audit>>
  /\ UNCHANGED <<config, caller, statement, worker, session>>

\* The LLM call failed, or the thread came back with an exception.
UseFailure(r) ==
  /\ phase[r] \in {"generating", "querying"}
  /\ ~Cancelled(r)
  /\ phase[r] = "querying" => job[r] = "finished"
  /\ outcome[r] \in Failures
  /\ Handle(r, outcome[r])
  /\ UNCHANGED <<config, caller, statement, outcome, pool>>

\* can_show_sql
SqlVisible(r) ==
  r \in IncludeSql /\ (config[r].allowSql \/ config[r].viewer \in caller[r])

\* Mutant: the handler resumes as soon as the rows are fetched, before the
\* thread has disposed of its engine.
UseRowsEarly(r) ==
  /\ phase[r] = "querying"
  /\ ~Cancelled(r)
  /\ outcome[r] = "rows"
  /\ Leave(r, "ok", IF SqlVisible(r) THEN statement[r] ELSE None)
  /\ Emit(r, "completed")
  /\ UNCHANGED <<config, caller, statement, outcome, pool>>

\* The rows are normalised and shaped (which may fail) and returned.
UseRows(r) ==
  /\ phase[r] = "querying"
  /\ ~Cancelled(r)
  /\ job[r] = "finished"
  /\ outcome[r] = "rows"
  /\ \/ /\ Leave(r, "ok", IF SqlVisible(r) THEN statement[r] ELSE None)
        /\ Emit(r, "completed")
     \/ \E f \in Failures : Handle(r, f)
  /\ UNCHANGED <<config, caller, statement, outcome, pool>>

Resume(r) == TimeOut(r) \/ UseCandidate(r) \/ UseFailure(r) \/ UseRows(r)

------------------------------------------------------------------------------
(* The executor's threads: _execute_sync, step by step.                    *)

\* An idle thread takes the oldest call, and skips it if it was cancelled.
Take(w) ==
  /\ worker[w] = None
  /\ queue # <<>>
  /\ queue' = Tail(queue)
  /\ IF job[Head(queue)] = "queued"
       THEN /\ worker' = [worker EXCEPT ![w] = Head(queue)]
            /\ job' = [job EXCEPT ![Head(queue)] = "load_secret"]
       ELSE UNCHANGED <<worker, job>>
  /\ UNCHANGED <<outcome, session, handler>>

\* The thread's function returns or raises: the thread is idle again.
Return(w, r) ==
  /\ job' = [job EXCEPT ![r] = "finished"]
  /\ worker' = [worker EXCEPT ![w] = None]

\* The secret is read for this call; an unsupported dialect raises before any
\* engine exists.
LoadDatabaseSecret(w, r) ==
  /\ worker[w] = r
  /\ job[r] = "load_secret"
  /\ \/ /\ config[r].dialect
        /\ job' = [job EXCEPT ![r] = "connect"]
        /\ UNCHANGED <<worker, outcome>>
     \/ /\ \E f \in Failures : outcome' = [outcome EXCEPT ![r] = f]
        /\ Return(w, r)
  /\ UNCHANGED <<queue, session, handler>>

\* Mutant: a failure does not close the connection.
AbortLeaking(r) ==
  /\ \E f \in Failures : outcome' = [outcome EXCEPT ![r] = f]
  /\ job' = [job EXCEPT ![r] = "dispose"]
  /\ UNCHANGED session

\* Inside the try: a failure rolls back, closes the connection and goes on to
\* engine.dispose().
Abort(r) ==
  /\ \E f \in Failures : outcome' = [outcome EXCEPT ![r] = f]
  /\ job' = [job EXCEPT ![r] = "dispose"]
  /\ session' = [session EXCEPT ![r] = {}]

\* create_engine and engine.connect() open a connection of its own (NullPool).
Connect(w, r) ==
  /\ worker[w] = r
  /\ job[r] = "connect"
  /\ \/ /\ job' = [job EXCEPT ![r] = "configure"]
        /\ session' = [session EXCEPT ![r] = {"open"}]
        /\ UNCHANGED outcome
     \/ Abort(r)
  /\ UNCHANGED <<queue, worker, handler>>

\* Mutant: the transaction is read-only but has no statement timeout.
ConfigureUnbounded(w, r) ==
  /\ worker[w] = r
  /\ job[r] = "configure"
  /\ \/ /\ job' = [job EXCEPT ![r] = "execute"]
        /\ session' = [session EXCEPT ![r] = @ \cup {"read_only"}]
        /\ UNCHANGED outcome
     \/ Abort(r)
  /\ UNCHANGED <<queue, worker, handler>>

\* _configure_postgresql, in the transaction the statement will run in.
Configure(w, r) ==
  /\ worker[w] = r
  /\ job[r] = "configure"
  /\ \/ /\ job' = [job EXCEPT ![r] = "execute"]
        /\ session' = [session EXCEPT ![r] = @ \cup {"read_only", "statement_timeout"}]
        /\ UNCHANGED outcome
     \/ Abort(r)
  /\ UNCHANGED <<queue, worker, handler>>

\* The statement ends: its rows are fetched and the session committed and
\* closed, or the database (its statement timeout included) raises.
Execute(w, r) ==
  /\ worker[w] = r
  /\ job[r] = "execute"
  /\ \/ /\ outcome' = [outcome EXCEPT ![r] = "rows"]
        /\ job' = [job EXCEPT ![r] = "dispose"]
        /\ session' = [session EXCEPT ![r] = {}]
     \/ Abort(r)
  /\ UNCHANGED <<queue, worker, handler>>

\* engine.dispose() in the finally, and the thread's function is over.
Dispose(w, r) ==
  /\ worker[w] = r
  /\ job[r] = "dispose"
  /\ Return(w, r)
  /\ UNCHANGED <<outcome, queue, session, handler>>

Thread(w, r) ==
  \/ LoadDatabaseSecret(w, r) \/ Connect(w, r) \/ Configure(w, r)
  \/ Execute(w, r) \/ Dispose(w, r)

------------------------------------------------------------------------------

Next ==
  \/ \E r \in Requests :
        Arrive(r) \/ Begin(r) \/ LlmReplies(r) \/ Expire(r) \/ Resume(r)
  \/ \E w \in Workers : Take(w) \/ \E r \in Requests : Thread(w, r)

Spec == Init /\ [][Next]_vars

\* The loop runs what is ready and timers fire; nothing makes the LLM answer.
RequestFairness(r) == WF_vars(Begin(r)) /\ WF_vars(Expire(r)) /\ WF_vars(Resume(r))

\* A thread goes on.  A statement is sure to end only where the database was told
\* to bound it; connecting is bounded by connect_args.connect_timeout.
CallFairness(w, r) ==
  /\ WF_vars(LoadDatabaseSecret(w, r))
  /\ WF_vars(Connect(w, r))
  /\ WF_vars(Configure(w, r))
  /\ WF_vars("statement_timeout" \in session[r] /\ Execute(w, r))
  /\ WF_vars(Dispose(w, r))

LoopFairness == \A r \in Requests : RequestFairness(r)
TakeFairness == \A w \in Workers : WF_vars(Take(w))
ThreadFairness == \A w \in Workers : \A r \in Requests : CallFairness(w, r)

Fairness == LoopFairness /\ TakeFairness /\ ThreadFairness

FairSpec == Spec /\ Fairness

------------------------------------------------------------------------------
(* Properties.                                                             *)

Events == {"completed", "rejected", "failed"}

\* Every variable has its type.
TypeOK ==
  /\ phase \in [Requests -> {"absent", "received", "generating", "querying",
                             "answered", "escaped"}]
  /\ config \in [Requests -> Configs \cup {None}]
  /\ caller \in [Requests -> {None} \cup SUBSET Grants]
  /\ statement \in [Requests -> Statements \cup {None}]
  /\ outcome \in [Requests -> {"pending", "candidate", "rows"} \cup Failures]
  /\ deadline \in [Requests -> {"off", "armed", "expired"}]
  /\ queue \in Seq(Requests)
  /\ job \in [Requests -> {"none", "queued", "dropped", "finished"} \cup Running]
  /\ worker \in [Workers -> Requests \cup {None}]
  /\ session \in [Requests -> SUBSET SessionFacts]
  /\ answer \in [Requests -> {"none", "ok", "rejected", "error"}]
  /\ shown \in [Requests -> Statements \cup {None}]
  /\ audit \in [Requests -> Seq(Events)]

\* A thread works on a statement, whether or not its request still waits, only
\* for a caller whose grants cover the ones required by the configuration that
\* very call loaded, only on text that configuration's validator accepts, and
\* the statement runs only in an open, read-only, time-bounded transaction.
VettedWork(r) ==
  /\ config[r] # None /\ caller[r] # None
  /\ config[r].required \subseteq caller[r]
  /\ statement[r] \in config[r].allowed

OnlyVettedStatementsRun ==
  \A r \in Requests :
    /\ job[r] \in Running => VettedWork(r)
    /\ job[r] = "execute" => session[r] = SessionFacts

\* Concurrent database sessions never exceed the threads of the executor, even
\* counting those of timed-out requests: every running call has a thread, no
\* thread serves two calls, no call two threads, and only running calls have a
\* session.
SessionsOwned ==
  /\ \A r \in Requests :
        /\ job[r] \in Running <=> \E w \in Workers : worker[w] = r
        /\ session[r] # {} => job[r] \in {"configure", "execute"}
  /\ \A v, w \in Workers : worker[v] = worker[w] /\ worker[w] # None => v = w

\* A request answered "ok" got the rows of its own finished statement, and its
\* session is closed; one that was rejected has no work left in the executor.
AnswerAfterWork ==
  \A r \in Requests :
    /\ answer[r] = "ok" =>
         job[r] = "finished" /\ outcome[r] = "rows" /\ session[r] = {}
    /\ answer[r] = "rejected" => job[r] \in {"none", "finished"}

\* The audit trail and the responses agree: an answered request has exactly one
\* event, of the same outcome; one that is not answered has none.
EventOf(status) ==
  IF status = "ok" THEN "completed"
  ELSE IF status = "rejected" THEN "rejected" ELSE "failed"

AuditMatchesAnswer ==
  \A r \in Requests :
    IF phase[r] = "answered"
      THEN answer[r] # "none" /\ audit[r] = <<EventOf(answer[r])>>
      ELSE answer[r] = "none" /\ audit[r] = <<>>

\* No thread begins to work for a request that was already answered: a call
\* that times out in the queue never reaches the database.
NoWorkAfterAnswer ==
  [][\A r \in Requests :
       job[r] \notin Running /\ job'[r] \in Running => phase[r] = "querying"]_vars

\* Every request that arrived ends, whatever the LLM and the database do.
RequestEnds(r) == phase[r] = "received" ~> phase[r] \in {"answered", "escaped"}

EveryRequestEnds == \A r \in Requests : RequestEnds(r)

\* A thread that took a call, be its request waiting or timed out, comes back
\* to the pool.
ComesBack(w, r) == worker[w] = r ~> worker[w] = None

ThreadsComeBack == \A w \in Workers : \A r \in Requests : ComesBack(w, r)

------------------------------------------------------------------------------
(* The contract this design implements.                                    *)

Status(r) ==
  CASE phase[r] = "absent" -> "absent"
    [] phase[r] = "escaped" -> "escaped"
    [] phase[r] = "answered" -> answer[r]
    [] OTHER -> "pending"

Contract == INSTANCE RequestContract WITH
  status <- [r \in Requests |-> Status(r)],
  read <- {r \in Requests : outcome[r] = "rows"}

ImplementsContract == Contract!Spec
==============================================================================
