-------------------------- MODULE AskDatabase_proofs --------------------------
(***************************************************************************)
(* Proofs about AskDatabase for any sets of requests, threads, grants,     *)
(* statements and configurations.  Inv is the inductive invariant: the     *)
(* typing, what each request's handler and thread can be at together, the  *)
(* ownership of threads and sessions, and what the executor's queue holds. *)
(***************************************************************************)
EXTENDS AskDatabase, TLAPS

\* What the phase of a handler says of its call.
HandlerInv ==
  \A r \in Requests :
    /\ phase[r] \in {"absent", "received", "escaped", "generating"} => job[r] = "none"
    /\ phase[r] = "querying" => job[r] \in {"queued", "finished"} \cup Running
    /\ phase[r] = "answered" => job[r] # "queued"
    /\ phase[r] \in {"generating", "querying"} <=> deadline[r] # "off"
    /\ phase[r] = "generating" =>
         /\ config[r] # None /\ caller[r] # None
         /\ config[r].required \subseteq caller[r]
    /\ job[r] # "none" => VettedWork(r)

\* What the place of a thread says of its session and of its outcome.
ThreadInv ==
  \A r \in Requests :
    /\ session[r] = IF job[r] = "configure" THEN {"open"}
                    ELSE IF job[r] = "execute" THEN SessionFacts ELSE {}
    /\ outcome[r] = "rows" => job[r] \in {"dispose", "finished"}
    /\ job[r] \in Running <=> \E w \in Workers : worker[w] = r

ThreadsApart ==
  \A v, w \in Workers : worker[v] = worker[w] /\ worker[w] # None => v = w

\* The queue holds each waiting call once.
QueueInv ==
  /\ \A i \in 1..Len(queue) : job[queue[i]] \in {"queued", "dropped"}
  /\ \A i, j \in 1..Len(queue) : queue[i] = queue[j] => i = j

Inv ==
  /\ TypeOK
  /\ HandlerInv
  /\ ThreadInv
  /\ ThreadsApart
  /\ QueueInv
  /\ AnswerAfterWork
  /\ AuditMatchesAnswer

------------------------------------------------------------------------------

\* The two safety properties that are not conjuncts of Inv follow from it.
LEMMA InvImplies == Inv => OnlyVettedStatementsRun /\ SessionsOwned
  BY DEF Inv, TypeOK, HandlerInv, ThreadInv, ThreadsApart, OnlyVettedStatementsRun,
         SessionsOwned, Running, VettedWork

\* The empty Runtime satisfies the invariant.
LEMMA InitInv == Init => Inv
  BY NoneAssumption
  DEF Init, Inv, TypeOK, HandlerInv, ThreadInv, ThreadsApart, QueueInv, AnswerAfterWork,
      AuditMatchesAnswer, Failures, Running

------------------------------------------------------------------------------
(* Steps that end a request.                                               *)

\* What one request's end leaves: an answer and its one event, the timer off,
\* and nothing else touched.
Ended(r) ==
  /\ phase'[r] = "answered" /\ deadline'[r] = "off"
  /\ answer'[r] # "none" /\ audit'[r] = <<EventOf(answer'[r])>>
  /\ \A q \in Requests \ {r} :
        /\ phase'[q] = phase[q] /\ deadline'[q] = deadline[q]
        /\ answer'[q] = answer[q] /\ shown'[q] = shown[q] /\ audit'[q] = audit[q]

EndTyped ==
  /\ phase' \in [Requests -> {"absent", "received", "generating", "querying",
                              "answered", "escaped"}]
  /\ deadline' \in [Requests -> {"off", "armed", "expired"}]
  /\ answer' \in [Requests -> {"none", "ok", "rejected", "error"}]
  /\ shown' \in [Requests -> Statements \cup {None}]
  /\ audit' \in [Requests -> Seq(Events)]

\* A first event is the only one: Append to the empty log is a log of one.
LEMMA FirstEvent ==
  ASSUME NEW e \in Events
  PROVE  Append(<<>>, e) = <<e>> /\ Append(<<>>, e) \in Seq(Events)
  OBVIOUS

\* Reject, Fail and the completed path all end a request that has no answer.
LEMMA EndFacts ==
  ASSUME TypeOK, AuditMatchesAnswer, NEW r \in Requests, phase[r] # "answered",
         NEW status \in {"ok", "rejected", "error"}, NEW sql \in Statements \cup {None},
         Leave(r, status, sql), Emit(r, EventOf(status))
  PROVE  EndTyped /\ Ended(r) /\ answer'[r] = status /\ shown'[r] = sql
<1>1. audit[r] = <<>>
  BY DEF AuditMatchesAnswer
<1>2. EventOf(status) \in Events
  BY DEF EventOf, Events
<1>3. audit' = [audit EXCEPT ![r] = <<EventOf(status)>>] /\ <<EventOf(status)>> \in Seq(Events)
  BY <1>1, <1>2, FirstEvent DEF Emit, TypeOK
<1>4. audit' \in [Requests -> Seq(Events)] /\ audit'[r] = <<EventOf(status)>>
      /\ \A q \in Requests \ {r} : audit'[q] = audit[q]
  BY <1>3 DEF TypeOK
<1>5. answer' \in [Requests -> {"none", "ok", "rejected", "error"}] /\ answer'[r] = status
      /\ \A q \in Requests \ {r} : answer'[q] = answer[q]
  BY DEF Leave, TypeOK
<1>6. shown' \in [Requests -> Statements \cup {None}] /\ shown'[r] = sql
      /\ \A q \in Requests \ {r} : shown'[q] = shown[q]
  BY DEF Leave, TypeOK
<1>7. phase'[r] = "answered" /\ deadline'[r] = "off"
      /\ \A q \in Requests \ {r} : phase'[q] = phase[q] /\ deadline'[q] = deadline[q]
  BY DEF Leave, TypeOK
<1>8. /\ phase' \in [Requests -> {"absent", "received", "generating", "querying",
                                  "answered", "escaped"}]
      /\ deadline' \in [Requests -> {"off", "armed", "expired"}]
  BY DEF Leave, TypeOK
<1> QED
  BY <1>4, <1>5, <1>6, <1>7, <1>8 DEF EndTyped, Ended

LEMMA RejectFacts ==
  ASSUME TypeOK, AuditMatchesAnswer, NEW r \in Requests, phase[r] # "answered", Reject(r)
  PROVE  EndTyped /\ Ended(r) /\ answer'[r] = "rejected" /\ shown'[r] = None
<1>1. Leave(r, "rejected", None) /\ Emit(r, EventOf("rejected"))
  BY DEF Reject, EventOf
<1> QED
  BY <1>1, EndFacts

LEMMA FailFacts ==
  ASSUME TypeOK, AuditMatchesAnswer, NEW r \in Requests, phase[r] # "answered", Fail(r)
  PROVE  EndTyped /\ Ended(r) /\ answer'[r] = "error" /\ shown'[r] = None
<1>1. Leave(r, "error", None) /\ Emit(r, EventOf("error"))
  BY DEF Fail, EventOf
<1> QED
  BY <1>1, EndFacts

\* An end preserves the invariant when it answers "ok" only for finished rows,
\* "rejected" only with no work left in the executor, shows SQL only to the
\* entitled, and leaves no queued call behind.
LEMMA EndInv ==
  ASSUME Inv, NEW r \in Requests,
         phase[r] \in {"received", "generating", "querying"},
         EndTyped, Ended(r),
         config' \in [Requests -> Configs \cup {None}],
         caller' \in [Requests -> {None} \cup SUBSET Grants],
         \A q \in Requests :
            q # r \/ phase[r] # "received" => config'[q] = config[q] /\ caller'[q] = caller[q],
         job' = [job EXCEPT ![r] = IF @ = "queued" THEN "dropped" ELSE @],
         answer'[r] = "ok" => job[r] = "finished" /\ outcome[r] = "rows",
         answer'[r] = "rejected" => job[r] \in {"none", "finished"},
         UNCHANGED <<statement, outcome, queue, worker, session>>
  PROVE  Inv'
<1> USE DEF Inv
<1>1. /\ job' \in [Requests -> {"none", "queued", "dropped", "finished"} \cup Running]
      /\ job'[r] = IF job[r] = "queued" THEN "dropped" ELSE job[r]
      /\ \A q \in Requests \ {r} : job'[q] = job[q]
  BY DEF TypeOK
<1>2. TypeOK'
  BY <1>1 DEF TypeOK, EndTyped
<1>3. HandlerInv'
  BY <1>1 DEF HandlerInv, VettedWork, Ended, Running
<1>4. ThreadInv'
  BY <1>1 DEF ThreadInv, Running
<1>5. ThreadsApart'
  BY DEF ThreadsApart
<1>6. QueueInv'
  <2>1. \A i \in 1..Len(queue) : queue[i] \in Requests
    BY DEF TypeOK
  <2> QED
    BY <1>1, <2>1 DEF QueueInv
<1>7. AnswerAfterWork'
  BY <1>1 DEF AnswerAfterWork, Ended, ThreadInv
<1>8. AuditMatchesAnswer'
  BY DEF AuditMatchesAnswer, Ended
<1> QED
  BY <1>2, <1>3, <1>4, <1>5, <1>6, <1>7, <1>8

------------------------------------------------------------------------------
(* One lemma per action of the handler.                                    *)

LEMMA ArriveInv ==
  ASSUME Inv, NEW r \in Requests, Arrive(r)
  PROVE  Inv'
<1> USE DEF Inv, Arrive, pool
<1>1. TypeOK'
  BY DEF TypeOK
<1>2. HandlerInv'
  BY DEF TypeOK, HandlerInv, VettedWork
<1>3. ThreadInv' /\ ThreadsApart' /\ QueueInv' /\ AnswerAfterWork'
  BY DEF ThreadInv, ThreadsApart, QueueInv, AnswerAfterWork
<1>4. AuditMatchesAnswer'
  BY DEF TypeOK, AuditMatchesAnswer
<1> QED
  BY <1>1, <1>2, <1>3, <1>4

LEMMA LoadConfigFailsInv ==
  ASSUME Inv, NEW r \in Requests, LoadConfigFails(r)
  PROVE  Inv'
<1> USE DEF Inv, LoadConfigFails, pool
<1>1. TypeOK'
  BY DEF TypeOK
<1>2. HandlerInv'
  BY DEF TypeOK, HandlerInv, VettedWork
<1>3. ThreadInv' /\ ThreadsApart' /\ QueueInv' /\ AnswerAfterWork'
  BY DEF ThreadInv, ThreadsApart, QueueInv, AnswerAfterWork
<1>4. AuditMatchesAnswer'
  BY DEF TypeOK, AuditMatchesAnswer
<1> QED
  BY <1>1, <1>2, <1>3, <1>4

\* Before the LLM call no thread works for the request.
LEMMA ReceivedIsIdle ==
  ASSUME Inv, NEW r \in Requests, phase[r] \in {"received", "generating"}
  PROVE  job[r] = "none" /\ job = [job EXCEPT ![r] = IF @ = "queued" THEN "dropped" ELSE @]
  BY DEF Inv, TypeOK, HandlerInv

LEMMA RefuseUnverifiedInv ==
  ASSUME Inv, NEW r \in Requests, RefuseUnverified(r)
  PROVE  Inv'
<1>1. EndTyped /\ Ended(r) /\ answer'[r] \in {"rejected", "error"} /\ shown'[r] = None
  BY RejectFacts, FailFacts DEF Inv, RefuseUnverified
<1>2. /\ config' \in [Requests -> Configs \cup {None}]
      /\ \A q \in Requests : q # r => config'[q] = config[q]
  BY DEF Inv, TypeOK, RefuseUnverified
<1>3. caller' = caller /\ caller' \in [Requests -> {None} \cup SUBSET Grants]
  BY DEF Inv, TypeOK, RefuseUnverified
<1>4. job' = [job EXCEPT ![r] = IF @ = "queued" THEN "dropped" ELSE @] /\ job[r] = "none"
  BY ReceivedIsIdle DEF RefuseUnverified, pool
<1> QED
  BY <1>1, <1>2, <1>3, <1>4, EndInv DEF RefuseUnverified, pool

LEMMA RefuseVerifiedInv ==
  ASSUME Inv, NEW r \in Requests, RefuseVerified(r)
  PROVE  Inv'
<1>1. EndTyped /\ Ended(r) /\ answer'[r] = "rejected" /\ shown'[r] = None
  BY RejectFacts DEF Inv, RefuseVerified
<1>2. /\ config' \in [Requests -> Configs \cup {None}]
      /\ \A q \in Requests : q # r => config'[q] = config[q]
  BY DEF Inv, TypeOK, RefuseVerified
<1>3. /\ caller' \in [Requests -> {None} \cup SUBSET Grants]
      /\ \A q \in Requests : q # r => caller'[q] = caller[q]
  BY DEF Inv, TypeOK, RefuseVerified
<1>4. job' = [job EXCEPT ![r] = IF @ = "queued" THEN "dropped" ELSE @] /\ job[r] = "none"
  BY ReceivedIsIdle DEF RefuseVerified, pool
<1> QED
  BY <1>1, <1>2, <1>3, <1>4, EndInv DEF RefuseVerified, pool

LEMMA ServeInv ==
  ASSUME Inv, NEW r \in Requests, Serve(r)
  PROVE  Inv'
<1> USE DEF Inv
<1>1. PICK cfg \in Configs, grants \in SUBSET Grants :
         /\ cfg.required \subseteq grants
         /\ config' = [config EXCEPT ![r] = cfg]
         /\ caller' = [caller EXCEPT ![r] = grants]
  BY DEF Serve
<1>2. /\ config' \in [Requests -> Configs \cup {None}] /\ config'[r] = cfg
      /\ caller' \in [Requests -> {None} \cup SUBSET Grants] /\ caller'[r] = grants
      /\ \A q \in Requests : q # r => config'[q] = config[q] /\ caller'[q] = caller[q]
  BY <1>1 DEF TypeOK
<1>3. cfg # None /\ grants # None
  BY NoneAssumption
<1>4. job' = [job EXCEPT ![r] = IF @ = "queued" THEN "dropped" ELSE @] /\ job[r] = "none"
  BY ReceivedIsIdle DEF Serve, pool
<1>5. CASE Fail(r)
  <2>1. EndTyped /\ Ended(r) /\ answer'[r] = "error" /\ shown'[r] = None
    BY <1>5, FailFacts DEF Serve
  <2> QED
    BY <1>2, <1>4, <2>1, EndInv DEF Serve, pool
<1>6. CASE /\ phase' = [phase EXCEPT ![r] = "generating"]
           /\ deadline' = [deadline EXCEPT ![r] = "armed"]
           /\ UNCHANGED <<answer, shown, audit>>
  <2> USE DEF Serve, pool
  <2>1. TypeOK'
    BY <1>2, <1>6 DEF TypeOK
  <2>2. HandlerInv'
    BY <1>1, <1>2, <1>3, <1>6 DEF TypeOK, HandlerInv, VettedWork
  <2>3. ThreadInv' /\ ThreadsApart' /\ QueueInv' /\ AnswerAfterWork'
    BY <1>6 DEF ThreadInv, ThreadsApart, QueueInv, AnswerAfterWork
  <2>4. AuditMatchesAnswer'
    BY <1>6 DEF TypeOK, AuditMatchesAnswer
  <2> QED
    BY <2>1, <2>2, <2>3, <2>4
<1> QED
  BY <1>5, <1>6 DEF Serve

LEMMA LlmRepliesInv ==
  ASSUME Inv, NEW r \in Requests, LlmReplies(r)
  PROVE  Inv'
<1> USE DEF Inv, LlmReplies
<1>1. /\ outcome' \in [Requests -> {"pending", "candidate", "rows"} \cup Failures]
      /\ outcome'[r] # "rows"
      /\ \A q \in Requests : q # r => outcome'[q] = outcome[q]
  BY DEF TypeOK, Failures
<1>2. /\ statement' \in [Requests -> Statements \cup {None}]
      /\ \A q \in Requests : q # r => statement'[q] = statement[q]
  <2>1. CASE UNCHANGED statement
    BY <2>1 DEF TypeOK
  <2>2. CASE \E s \in Statements : statement' = [statement EXCEPT ![r] = s]
    BY <2>2 DEF TypeOK
  <2> QED
    BY <2>1, <2>2
<1>3. job[r] = "none"
  BY ReceivedIsIdle
<1>4. TypeOK'
  BY <1>1, <1>2 DEF TypeOK, pool
<1>5. HandlerInv'
  BY <1>2, <1>3 DEF HandlerInv, VettedWork, pool
<1>6. ThreadInv' /\ ThreadsApart' /\ QueueInv'
  BY <1>1 DEF ThreadInv, ThreadsApart, QueueInv, pool
<1>7. AnswerAfterWork'
  BY <1>1, <1>3 DEF AnswerAfterWork, pool
<1>8. AuditMatchesAnswer'
  BY DEF AuditMatchesAnswer
<1> QED
  BY <1>4, <1>5, <1>6, <1>7, <1>8

LEMMA ExpireInv ==
  ASSUME Inv, NEW r \in Requests, Expire(r)
  PROVE  Inv'
<1> USE DEF Inv, Expire, pool
<1>1. TypeOK' /\ HandlerInv'
  BY DEF TypeOK, HandlerInv, VettedWork
<1>2. ThreadInv' /\ ThreadsApart' /\ QueueInv' /\ AnswerAfterWork'
  BY DEF ThreadInv, ThreadsApart, QueueInv, AnswerAfterWork
<1>3. AuditMatchesAnswer'
  BY DEF AuditMatchesAnswer
<1> QED
  BY <1>1, <1>2, <1>3

LEMMA TimeOutInv ==
  ASSUME Inv, NEW r \in Requests, TimeOut(r)
  PROVE  Inv'
<1>1. phase[r] \in {"generating", "querying"}
  BY DEF Inv, HandlerInv, TimeOut, Cancelled
<1>2. EndTyped /\ Ended(r) /\ answer'[r] = "error" /\ shown'[r] = None
  BY <1>1, FailFacts DEF Inv, TimeOut
<1>3. /\ config' = config /\ config' \in [Requests -> Configs \cup {None}]
      /\ caller' = caller /\ caller' \in [Requests -> {None} \cup SUBSET Grants]
  BY DEF Inv, TypeOK, TimeOut
<1> QED
  BY <1>1, <1>2, <1>3, EndInv DEF TimeOut

LEMMA UseCandidateInv ==
  ASSUME Inv, NEW r \in Requests, UseCandidate(r)
  PROVE  Inv'
<1> USE DEF Inv
<1>1. job[r] = "none" /\ job = [job EXCEPT ![r] = IF @ = "queued" THEN "dropped" ELSE @]
  BY ReceivedIsIdle DEF UseCandidate
<1>2. /\ config' = config /\ config' \in [Requests -> Configs \cup {None}]
      /\ caller' = caller /\ caller' \in [Requests -> {None} \cup SUBSET Grants]
  BY DEF TypeOK, UseCandidate
<1>3. CASE Reject(r) /\ UNCHANGED <<outcome, queue, job>>
  <2>1. EndTyped /\ Ended(r) /\ answer'[r] = "rejected" /\ shown'[r] = None
    BY <1>3, RejectFacts DEF UseCandidate
  <2> QED
    BY <1>1, <1>2, <1>3, <2>1, EndInv DEF UseCandidate
<1>4. CASE /\ statement[r] \in config[r].allowed
           /\ phase' = [phase EXCEPT ![r] = "querying"]
           /\ outcome' = [outcome EXCEPT ![r] = "pending"]
           /\ queue' = Append(queue, r)
           /\ job' = [job EXCEPT ![r] = "queued"]
           /\ UNCHANGED <<deadline, answer, shown, audit>>
  <2>0. UNCHANGED <<config, caller, statement, worker, session>> /\ phase[r] = "generating"
    BY DEF UseCandidate
  <2>1. TypeOK'
    BY <1>4, <2>0 DEF TypeOK
  <2>2. job'[r] = "queued" /\ \A q \in Requests : q # r => job'[q] = job[q]
    BY <1>4 DEF TypeOK
  <2>3. HandlerInv'
    BY <1>4, <2>0, <2>2 DEF TypeOK, HandlerInv, VettedWork
  <2>4. ThreadInv' /\ ThreadsApart'
    BY <1>1, <1>4, <2>0, <2>2 DEF TypeOK, ThreadInv, ThreadsApart, Running
  <2>5. QueueInv'
    <3>1. \A i \in 1..Len(queue) : queue[i] \in Requests /\ queue[i] # r
      <4>1. \A i \in 1..Len(queue) : queue[i] \in Requests
        BY DEF TypeOK
      <4> QED
        BY <1>1, <4>1 DEF QueueInv
    <3>2. /\ Len(queue') = Len(queue) + 1 /\ queue'[Len(queue) + 1] = r
          /\ \A i \in 1..Len(queue) : queue'[i] = queue[i]
          /\ Len(queue) \in Nat
      BY <1>4 DEF TypeOK
    <3> QED
      BY <2>2, <3>1, <3>2 DEF QueueInv
  <2>6. AnswerAfterWork'
    BY <1>4, <2>0, <2>2 DEF TypeOK, AnswerAfterWork, AuditMatchesAnswer
  <2>7. AuditMatchesAnswer'
    BY <1>4, <2>0 DEF TypeOK, AuditMatchesAnswer
  <2> QED
    BY <2>1, <2>3, <2>4, <2>5, <2>6, <2>7
<1> QED
  BY <1>3, <1>4 DEF UseCandidate

LEMMA UseFailureInv ==
  ASSUME Inv, NEW r \in Requests, UseFailure(r)
  PROVE  Inv'
<1>1. EndTyped /\ Ended(r) /\ answer'[r] \in {"rejected", "error"} /\ shown'[r] = None
  BY RejectFacts, FailFacts DEF Inv, UseFailure, Handle
<1>2. /\ config' = config /\ config' \in [Requests -> Configs \cup {None}]
      /\ caller' = caller /\ caller' \in [Requests -> {None} \cup SUBSET Grants]
  BY DEF Inv, TypeOK, UseFailure
<1>3. job[r] \in {"none", "finished"}
  BY ReceivedIsIdle DEF UseFailure
<1>4. job' = [job EXCEPT ![r] = IF @ = "queued" THEN "dropped" ELSE @]
  BY <1>3 DEF Inv, TypeOK, UseFailure, pool
<1> QED
  BY <1>1, <1>2, <1>3, <1>4, EndInv DEF UseFailure, pool

LEMMA UseRowsInv ==
  ASSUME Inv, NEW r \in Requests, UseRows(r)
  PROVE  Inv'
<1>1. /\ config' = config /\ config' \in [Requests -> Configs \cup {None}]
      /\ caller' = caller /\ caller' \in [Requests -> {None} \cup SUBSET Grants]
  BY DEF Inv, TypeOK, UseRows
<1>2. job' = [job EXCEPT ![r] = IF @ = "queued" THEN "dropped" ELSE @]
  BY DEF Inv, TypeOK, UseRows, pool
<1>3. CASE \E f \in Failures : Handle(r, f)
  <2>1. EndTyped /\ Ended(r) /\ answer'[r] \in {"rejected", "error"} /\ shown'[r] = None
    BY <1>3, RejectFacts, FailFacts DEF Inv, UseRows, Handle
  <2> QED
    BY <1>1, <1>2, <2>1, EndInv DEF UseRows, pool
<1>4. CASE /\ Leave(r, "ok", IF SqlVisible(r) THEN statement[r] ELSE None)
           /\ Emit(r, "completed")
  <2>1. EventOf("ok") = "completed"
    BY DEF EventOf
  <2>2. (IF SqlVisible(r) THEN statement[r] ELSE None) \in Statements \cup {None}
    BY DEF Inv, TypeOK
  <2>3. /\ EndTyped /\ Ended(r) /\ answer'[r] = "ok"
        /\ shown'[r] = IF SqlVisible(r) THEN statement[r] ELSE None
    BY <1>4, <2>1, <2>2, EndFacts DEF Inv, UseRows
  <2> QED
    BY <1>1, <1>2, <2>3, EndInv DEF UseRows, SqlVisible, pool
<1> QED
  BY <1>3, <1>4 DEF UseRows

------------------------------------------------------------------------------
(* The threads.                                                            *)

LEMMA TakeInv ==
  ASSUME Inv, NEW w \in Workers, Take(w)
  PROVE  Inv'
<1> DEFINE r == Head(queue)
<1> USE DEF Inv
<1>1. /\ Len(queue) \in Nat \ {0} /\ r \in Requests /\ r = queue[1]
      /\ queue' \in Seq(Requests) /\ Len(queue') = Len(queue) - 1
      /\ \A i \in 1..Len(queue') : queue'[i] = queue[i + 1]
      /\ \A i \in 1..Len(queue) : queue[i] \in Requests
  BY DEF Take, TypeOK
<1>2. UNCHANGED <<outcome, session, handler>> /\ worker[w] = None
  BY DEF Take
<1>3. CASE job[r] = "queued"
  <2>1. worker' = [worker EXCEPT ![w] = r] /\ job' = [job EXCEPT ![r] = "load_secret"]
    BY <1>3 DEF Take
  <2>2. /\ job' \in [Requests -> {"none", "queued", "dropped", "finished"} \cup Running]
        /\ job'[r] = "load_secret" /\ \A q \in Requests : q # r => job'[q] = job[q]
    BY <1>1, <2>1 DEF TypeOK, Running
  <2>3. /\ worker' \in [Workers -> Requests \cup {None}]
        /\ worker'[w] = r /\ \A v \in Workers : v # w => worker'[v] = worker[v]
    BY <1>1, <2>1 DEF TypeOK
  <2>4. \A v \in Workers : worker[v] # r
    BY <1>1, <1>3 DEF ThreadInv, Running
  <2>5. TypeOK'
    BY <1>1, <1>2, <2>2, <2>3 DEF TypeOK, handler
  <2>6. HandlerInv'
    <3>1. phase[r] = "querying"
      BY <1>1, <1>3 DEF HandlerInv, TypeOK
    <3> QED
      BY <1>1, <1>2, <1>3, <2>2, <3>1 DEF HandlerInv, VettedWork, handler, Running
  <2>7. ThreadInv'
    <3>1. ASSUME NEW q \in Requests
          PROVE  job'[q] \in Running <=> \E v \in Workers : worker'[v] = q
      <4>1. CASE q = r
        BY <2>2, <2>3, <4>1 DEF Running
      <4>2. CASE q # r
        <5>1. q # None
          BY NoneAssumption
        <5> QED
          BY <1>2, <2>2, <2>3, <4>2, <5>1 DEF ThreadInv
      <4> QED
        BY <4>1, <4>2
    <3>2. outcome[r] # "rows" /\ session[r] = {}
      BY <1>1, <1>3 DEF ThreadInv
    <3> QED
      BY <1>2, <2>2, <3>1, <3>2 DEF ThreadInv
  <2>8. ThreadsApart'
    BY <2>3, <2>4 DEF ThreadsApart
  <2>9. QueueInv'
    BY <1>1, <2>2 DEF QueueInv
  <2>10. AnswerAfterWork'
    BY <1>1, <1>2, <1>3, <2>2 DEF AnswerAfterWork, handler
  <2> QED
    BY <1>2, <2>5, <2>6, <2>7, <2>8, <2>9, <2>10
    DEF AuditMatchesAnswer, handler
<1>4. CASE job[r] # "queued"
  <2>1. UNCHANGED <<worker, job>>
    BY <1>4 DEF Take
  <2>2. TypeOK'
    BY <1>1, <1>2, <2>1 DEF TypeOK, handler
  <2>3. QueueInv'
    BY <1>1, <2>1 DEF QueueInv
  <2> QED
    BY <1>2, <2>1, <2>2, <2>3
    DEF HandlerInv, VettedWork, ThreadInv, ThreadsApart, AnswerAfterWork,
        AuditMatchesAnswer, handler
<1> QED
  BY <1>3, <1>4

\* What a step of the thread w, working for r, does, seen from outside.
Progress(w, r) ==
  /\ worker[w] = r
  /\ job[r] \in Running /\ job'[r] \in (Running \ {"load_secret"}) \cup {"finished"}
  /\ session'[r] = IF job'[r] = "configure" THEN {"open"}
                   ELSE IF job'[r] = "execute" THEN SessionFacts ELSE {}
  /\ outcome'[r] = "rows" => job'[r] \in {"dispose", "finished"}
  /\ outcome[r] = "rows" => outcome'[r] = "rows"
  /\ worker' = IF job'[r] = "finished" THEN [worker EXCEPT ![w] = None] ELSE worker
  /\ \A q \in Requests \ {r} :
        job'[q] = job[q] /\ session'[q] = session[q] /\ outcome'[q] = outcome[q]
  /\ UNCHANGED <<queue, handler>>
  /\ job' \in [Requests -> {"none", "queued", "dropped", "finished"} \cup Running]
  /\ session' \in [Requests -> SUBSET SessionFacts]
  /\ outcome' \in [Requests -> {"pending", "candidate", "rows"} \cup Failures]

LEMMA ProgressInv ==
  ASSUME Inv, NEW w \in Workers, NEW r \in Requests, Progress(w, r)
  PROVE  Inv'
<1> USE DEF Inv, Progress
<1>1. /\ worker' \in [Workers -> Requests \cup {None}]
      /\ \A v \in Workers : v # w => worker'[v] = worker[v]
      /\ worker'[w] = IF job'[r] = "finished" THEN None ELSE r
  BY DEF TypeOK
<1>2. TypeOK'
  BY <1>1 DEF TypeOK, handler
<1>3. HandlerInv'
  BY DEF HandlerInv, VettedWork, handler, Running
<1>4. ThreadInv'
  <2>1. ASSUME NEW q \in Requests
        PROVE  job'[q] \in Running <=> \E v \in Workers : worker'[v] = q
    <3>1. CASE q = r
      <4>1. \A v \in Workers : v # w => worker[v] # r
        BY NoneAssumption DEF ThreadsApart
      <4> QED
        BY <1>1, <3>1, <4>1, NoneAssumption DEF Running
    <3>2. CASE q # r
      BY <1>1, <3>2, NoneAssumption DEF ThreadInv
    <3> QED
      BY <3>1, <3>2
  <2> QED
    BY <2>1 DEF ThreadInv
<1>5. ThreadsApart'
  BY <1>1 DEF ThreadsApart
<1>6. QueueInv'
  <2>1. \A i \in 1..Len(queue) : queue[i] \in Requests /\ queue[i] # r
    <3>1. \A i \in 1..Len(queue) : queue[i] \in Requests
      BY DEF TypeOK
    <3> QED
      BY <3>1 DEF QueueInv, Running
  <2> QED
    BY <2>1 DEF QueueInv
<1>7. AnswerAfterWork'
  BY DEF AnswerAfterWork, handler, Running
<1> QED
  BY <1>2, <1>3, <1>4, <1>5, <1>6, <1>7 DEF AuditMatchesAnswer, handler

LEMMA LoadDatabaseSecretProgress ==
  ASSUME Inv, NEW w \in Workers, NEW r \in Requests, LoadDatabaseSecret(w, r)
  PROVE  Progress(w, r)
<1> USE DEF Inv, TypeOK, LoadDatabaseSecret, Progress
<1>1. session'[r] = {} /\ outcome[r] # "rows"
  BY DEF ThreadInv
<1>2. CASE job' = [job EXCEPT ![r] = "connect"] /\ UNCHANGED <<worker, outcome>>
  BY <1>1, <1>2 DEF Running
<1>3. CASE (\E f \in Failures : outcome' = [outcome EXCEPT ![r] = f]) /\ Return(w, r)
  <2>1. PICK f \in Failures : outcome' = [outcome EXCEPT ![r] = f]
    BY <1>3
  <2> QED
    BY <1>1, <1>3, <2>1 DEF Return, Running
<1> QED
  BY <1>2, <1>3

\* Connect, Configure and Execute share their failure.
LEMMA AbortProgress ==
  ASSUME Inv, NEW w \in Workers, NEW r \in Requests, worker[w] = r,
         job[r] \in {"connect", "configure", "execute"},
         Abort(r), UNCHANGED <<queue, worker, handler>>
  PROVE  Progress(w, r)
<1>1. PICK f \in Failures : outcome' = [outcome EXCEPT ![r] = f]
  BY DEF Abort
<1>2. outcome[r] # "rows"
  BY DEF Inv, ThreadInv
<1> QED
  BY <1>1, <1>2 DEF Inv, TypeOK, Abort, Progress, Running

LEMMA ConnectProgress ==
  ASSUME Inv, NEW w \in Workers, NEW r \in Requests, Connect(w, r)
  PROVE  Progress(w, r)
<1>1. CASE Abort(r)
  BY <1>1, AbortProgress DEF Connect, Running
<1>2. CASE /\ job' = [job EXCEPT ![r] = "configure"]
           /\ session' = [session EXCEPT ![r] = {"open"}]
           /\ UNCHANGED outcome
  <2>1. outcome[r] # "rows"
    BY DEF Inv, ThreadInv, Connect
  <2> QED
    BY <1>2, <2>1 DEF Inv, TypeOK, Connect, Progress, Running, SessionFacts
<1> QED
  BY <1>1, <1>2 DEF Connect

LEMMA ConfigureProgress ==
  ASSUME Inv, NEW w \in Workers, NEW r \in Requests, Configure(w, r)
  PROVE  Progress(w, r)
<1>1. CASE Abort(r)
  BY <1>1, AbortProgress DEF Configure, Running
<1>2. CASE /\ job' = [job EXCEPT ![r] = "execute"]
           /\ session' = [session EXCEPT ![r] = @ \cup {"read_only", "statement_timeout"}]
           /\ UNCHANGED outcome
  <2>1. outcome[r] # "rows" /\ session[r] = {"open"}
    BY DEF Inv, ThreadInv, Configure
  <2>2. session' = [session EXCEPT ![r] = SessionFacts]
    BY <1>2, <2>1 DEF SessionFacts
  <2> QED
    BY <1>2, <2>1, <2>2 DEF Inv, TypeOK, Configure, Progress, Running
<1> QED
  BY <1>1, <1>2 DEF Configure

LEMMA ExecuteProgress ==
  ASSUME Inv, NEW w \in Workers, NEW r \in Requests, Execute(w, r)
  PROVE  Progress(w, r)
<1>1. CASE Abort(r)
  BY <1>1, AbortProgress DEF Execute, Running
<1>2. CASE /\ outcome' = [outcome EXCEPT ![r] = "rows"]
           /\ job' = [job EXCEPT ![r] = "dispose"]
           /\ session' = [session EXCEPT ![r] = {}]
  BY <1>2 DEF Inv, TypeOK, Execute, Progress, Running
<1> QED
  BY <1>1, <1>2 DEF Execute

LEMMA DisposeProgress ==
  ASSUME Inv, NEW w \in Workers, NEW r \in Requests, Dispose(w, r)
  PROVE  Progress(w, r)
<1>1. session[r] = {}
  BY DEF Inv, ThreadInv, Dispose
<1> QED
  BY <1>1 DEF Inv, TypeOK, Dispose, Return, Progress, Running

LEMMA ThreadProgress ==
  ASSUME Inv, NEW w \in Workers, NEW r \in Requests, Thread(w, r)
  PROVE  Progress(w, r)
  BY LoadDatabaseSecretProgress, ConnectProgress, ConfigureProgress, ExecuteProgress,
     DisposeProgress DEF Thread

------------------------------------------------------------------------------
(* The theorems.                                                           *)

\* Every step of the Runtime preserves the invariant.
LEMMA NextInv == Inv /\ [Next]_vars => Inv'
<1> SUFFICES ASSUME Inv, [Next]_vars PROVE Inv'
  OBVIOUS
<1>1. ASSUME NEW r \in Requests, Arrive(r) PROVE Inv'
  BY <1>1, ArriveInv
<1>2. ASSUME NEW r \in Requests, Begin(r) PROVE Inv'
  BY <1>2, LoadConfigFailsInv, RefuseUnverifiedInv, RefuseVerifiedInv, ServeInv DEF Begin
<1>3. ASSUME NEW r \in Requests, LlmReplies(r) PROVE Inv'
  BY <1>3, LlmRepliesInv
<1>4. ASSUME NEW r \in Requests, Expire(r) PROVE Inv'
  BY <1>4, ExpireInv
<1>5. ASSUME NEW r \in Requests, Resume(r) PROVE Inv'
  BY <1>5, TimeOutInv, UseCandidateInv, UseFailureInv, UseRowsInv DEF Resume
<1>6. ASSUME NEW w \in Workers, Take(w) PROVE Inv'
  BY <1>6, TakeInv
<1>7. ASSUME NEW w \in Workers, NEW r \in Requests, Thread(w, r) PROVE Inv'
  BY <1>7, ThreadProgress, ProgressInv
<1>8. CASE UNCHANGED vars
  BY <1>8 DEF vars, Inv, TypeOK, HandlerInv, ThreadInv, ThreadsApart, QueueInv,
     AnswerAfterWork, AuditMatchesAnswer, VettedWork
<1> QED
  BY <1>1, <1>2, <1>3, <1>4, <1>5, <1>6, <1>7, <1>8 DEF Next

\* Whatever requests, threads and timers do, handlers and threads stay in the places
\* and in the relation that ask_database and _execute_sync keep them in.
THEOREM Invariance == Spec => []Inv
  BY InitInv, NextInv, PTL DEF Spec

\* Every reachable state is well typed.
THEOREM TypeCorrect == Spec => []TypeOK
<1>1. Inv => TypeOK
  BY DEF Inv
<1> QED
  BY <1>1, Invariance, PTL

\* main.py and database.py: no statement runs for a caller without the grants,
\* without having been validated, or outside a read-only bounded transaction.
THEOREM VettedStatements == Spec => []OnlyVettedStatementsRun
  BY InvImplies, Invariance, PTL

\* database.py: the sessions are those of the executor's threads.
THEOREM OwnedSessions == Spec => []SessionsOwned
  BY InvImplies, Invariance, PTL

\* main.py: the status of an answer says where the work of its request ended.
THEOREM AnswersFollowWork == Spec => []AnswerAfterWork
<1>1. Inv => AnswerAfterWork
  BY DEF Inv
<1> QED
  BY <1>1, Invariance, PTL

\* main.py and audit.py: one event per answered request, of the same outcome.
THEOREM AuditTrail == Spec => []AuditMatchesAnswer
<1>1. Inv => AuditMatchesAnswer
  BY DEF Inv
<1> QED
  BY <1>1, Invariance, PTL

------------------------------------------------------------------------------
(* No work after the answer.                                               *)

\* Only a thread that takes a queued call begins to work.
LEMMA WorkBegins ==
  ASSUME Inv, Next
  PROVE  \A r \in Requests :
           job[r] \notin Running /\ job'[r] \in Running => phase[r] = "querying"
<1> USE DEF Inv
<1>1. ASSUME NEW r \in Requests, Arrive(r) \/ Begin(r) \/ LlmReplies(r) \/ Expire(r)
      PROVE  job' = job
  BY <1>1 DEF Arrive, Begin, LoadConfigFails, RefuseUnverified, RefuseVerified, Serve,
              LlmReplies, Expire, pool
<1>2. ASSUME NEW r \in Requests, Resume(r), NEW q \in Requests
      PROVE  job'[q] = job[q] \/ job'[q] \in {"queued", "dropped"}
  BY <1>2 DEF TypeOK, Resume, TimeOut, UseCandidate, UseFailure, UseRows, pool
<1>3. ASSUME NEW w \in Workers, Take(w), NEW q \in Requests,
             job[q] \notin Running, job'[q] \in Running
      PROVE  phase[q] = "querying"
  <2>1. Head(queue) \in Requests
    BY <1>3 DEF Take, TypeOK
  <2>2. q = Head(queue) /\ job[q] = "queued"
    BY <1>3, <2>1 DEF Take, TypeOK
  <2> QED
    BY <2>2 DEF TypeOK, HandlerInv
<1>4. ASSUME NEW w \in Workers, NEW r \in Requests, Thread(w, r), NEW q \in Requests,
             job[q] \notin Running
      PROVE  job'[q] = job[q]
  BY <1>4, ThreadProgress DEF Progress
<1> QED
  BY <1>1, <1>2, <1>3, <1>4 DEF Next, Running

\* database.py: asyncio.to_thread's call runs for a waiting request or never.
THEOREM NoLateWork == Spec => NoWorkAfterAnswer
<1>1. Inv /\ [Next]_vars =>
        [\A r \in Requests :
           job[r] \notin Running /\ job'[r] \in Running => phase[r] = "querying"]_vars
  BY WorkBegins
<1> QED
  BY <1>1, Invariance, PTL DEF Spec, NoWorkAfterAnswer

------------------------------------------------------------------------------
(* The refinement of RequestContract.                                      *)

StatusMap == [r \in Requests |-> Status(r)]
ReadMap == {r \in Requests : outcome[r] = "rows"}

\* A handler step that ends r is an End of the contract.
LEMMA EndRefines ==
  ASSUME Inv, NEW r \in Requests,
         phase[r] \in {"received", "generating", "querying"},
         EndTyped, Ended(r), UNCHANGED outcome,
         answer'[r] = "ok" => outcome[r] = "rows"
  PROVE  Contract!End(r)
<1>1. StatusMap[r] = "pending"
  BY DEF StatusMap, Status
<1>2. StatusMap' = [StatusMap EXCEPT ![r] = answer'[r]]
  BY DEF StatusMap, Status, Ended
<1>3. answer'[r] \in {"rejected", "error", "escaped"} \cup (IF r \in ReadMap THEN {"ok"} ELSE {})
  BY DEF EndTyped, Ended, ReadMap
<1>4. ReadMap' = ReadMap
  BY DEF ReadMap
<1> QED
  BY <1>1, <1>2, <1>3, <1>4 DEF Contract!End, StatusMap, ReadMap

\* A step that changes neither map is a stutter of the contract.
LEMMA StutterRefines ==
  ASSUME StatusMap' = StatusMap, ReadMap' = ReadMap
  PROVE  UNCHANGED Contract!vars
  BY DEF Contract!vars, StatusMap, ReadMap

LEMMA HandlerRefines ==
  ASSUME Inv, NEW r \in Requests,
         Arrive(r) \/ Begin(r) \/ LlmReplies(r) \/ Expire(r) \/ Resume(r)
  PROVE  [Contract!Next]_(Contract!vars)
<1> USE DEF Inv
<1>1. CASE Arrive(r)
  <2>1. StatusMap[r] = "absent" /\ StatusMap' = [StatusMap EXCEPT ![r] = "pending"]
    BY <1>1 DEF StatusMap, Status, Arrive, TypeOK
  <2>2. ReadMap' = ReadMap
    BY <1>1 DEF ReadMap, Arrive
  <2>3. Contract!Arrive(r)
    BY <2>1, <2>2 DEF Contract!Arrive, StatusMap, ReadMap
  <2> QED
    BY <2>3 DEF Contract!Next
<1>2. CASE LoadConfigFails(r)
  <2>1. StatusMap[r] = "pending" /\ StatusMap' = [StatusMap EXCEPT ![r] = "escaped"]
    BY <1>2 DEF StatusMap, Status, LoadConfigFails, TypeOK
  <2>2. ReadMap' = ReadMap
    BY <1>2 DEF ReadMap, LoadConfigFails
  <2>3. Contract!End(r)
    BY <2>1, <2>2 DEF Contract!End, StatusMap, ReadMap
  <2> QED
    BY <2>3 DEF Contract!Next
<1>3. CASE RefuseUnverified(r) \/ RefuseVerified(r) \/ (Serve(r) /\ Fail(r))
  <2>1. EndTyped /\ Ended(r) /\ answer'[r] # "ok" /\ UNCHANGED outcome /\ phase[r] = "received"
    BY <1>3, RejectFacts, FailFacts DEF RefuseUnverified, RefuseVerified, Serve
  <2> QED
    BY <2>1, EndRefines DEF Contract!Next
<1>4. CASE Serve(r) /\ phase' = [phase EXCEPT ![r] = "generating"] /\ UNCHANGED answer
  <2>1. StatusMap' = StatusMap /\ ReadMap' = ReadMap
    BY <1>4 DEF StatusMap, Status, ReadMap, Serve, TypeOK
  <2> QED
    BY <2>1, StutterRefines
<1>5. CASE LlmReplies(r)
  <2>1. StatusMap' = StatusMap
    BY <1>5 DEF StatusMap, Status, LlmReplies
  <2>2. ReadMap' = ReadMap
    BY <1>5 DEF ReadMap, LlmReplies, TypeOK, Failures
  <2> QED
    BY <2>1, <2>2, StutterRefines
<1>6. CASE Expire(r)
  <2>1. StatusMap' = StatusMap /\ ReadMap' = ReadMap
    BY <1>6 DEF StatusMap, Status, ReadMap, Expire
  <2> QED
    BY <2>1, StutterRefines
<1>7. CASE TimeOut(r)
  <2>1. phase[r] \in {"generating", "querying"}
    BY <1>7 DEF HandlerInv, TimeOut, Cancelled
  <2>2. EndTyped /\ Ended(r) /\ answer'[r] = "error" /\ UNCHANGED outcome
    BY <1>7, <2>1, FailFacts DEF TimeOut
  <2> QED
    BY <2>1, <2>2, EndRefines DEF Contract!Next
<1>8. CASE UseCandidate(r) /\ Reject(r) /\ UNCHANGED outcome
  <2>1. EndTyped /\ Ended(r) /\ answer'[r] = "rejected" /\ phase[r] = "generating"
    BY <1>8, RejectFacts DEF UseCandidate
  <2> QED
    BY <1>8, <2>1, EndRefines DEF Contract!Next
<1>9. CASE /\ UseCandidate(r) /\ phase' = [phase EXCEPT ![r] = "querying"]
           /\ outcome' = [outcome EXCEPT ![r] = "pending"] /\ UNCHANGED answer
  <2>1. StatusMap' = StatusMap /\ ReadMap' = ReadMap
    BY <1>9 DEF StatusMap, Status, ReadMap, UseCandidate, TypeOK
  <2> QED
    BY <2>1, StutterRefines
<1>10. CASE UseFailure(r)
  <2>1. EndTyped /\ Ended(r) /\ answer'[r] # "ok" /\ UNCHANGED outcome
        /\ phase[r] \in {"generating", "querying"}
    BY <1>10, RejectFacts, FailFacts DEF UseFailure, Handle
  <2> QED
    BY <2>1, EndRefines DEF Contract!Next
<1>11. CASE UseRows(r)
  <2>1. \A sql : Leave(r, "ok", sql) /\ Emit(r, "completed") /\ sql \in Statements \cup {None}
                 => EndTyped /\ Ended(r)
    <3>1. EventOf("ok") = "completed"
      BY DEF EventOf
    <3> QED
      BY <1>11, <3>1, EndFacts DEF UseRows
  <2>2. (IF SqlVisible(r) THEN statement[r] ELSE None) \in Statements \cup {None}
    BY DEF TypeOK
  <2>3. EndTyped /\ Ended(r)
    BY <1>11, <2>1, <2>2, RejectFacts, FailFacts DEF UseRows, Handle
  <2>4. UNCHANGED outcome /\ outcome[r] = "rows" /\ phase[r] = "querying"
    BY <1>11 DEF UseRows
  <2> QED
    BY <2>3, <2>4, EndRefines DEF Contract!Next
<1> QED
  BY <1>1, <1>2, <1>3, <1>4, <1>5, <1>6, <1>7, <1>8, <1>9, <1>10, <1>11
  DEF Begin, Resume, Serve, UseCandidate

LEMMA PoolRefines ==
  ASSUME Inv, NEW w \in Workers, Take(w) \/ \E r \in Requests : Thread(w, r)
  PROVE  [Contract!Next]_(Contract!vars)
<1> USE DEF Inv
<1>1. StatusMap' = StatusMap
  <2>1. UNCHANGED <<phase, answer>>
    BY ThreadProgress DEF Take, Progress, handler
  <2> QED
    BY <2>1 DEF StatusMap, Status
<1>2. CASE Take(w)
  BY <1>1, <1>2, StutterRefines DEF ReadMap, Take
<1>3. ASSUME NEW r \in Requests, Thread(w, r)
      PROVE  [Contract!Next]_(Contract!vars)
  <2>1. Progress(w, r)
    BY <1>3, ThreadProgress
  <2>2. CASE r \in ReadMap <=> r \in ReadMap'
    <3>1. ReadMap' = ReadMap
      BY <2>1, <2>2 DEF ReadMap, Progress
    <3> QED
      BY <1>1, <3>1, StutterRefines
  <2>3. CASE r \notin ReadMap /\ r \in ReadMap'
    <3>1. ReadMap' = ReadMap \cup {r}
      BY <2>1, <2>3 DEF ReadMap, Progress
    <3>2. Status(r) \in {"pending", "error"}
      <4>1. phase[r] \in {"querying", "answered"}
        BY <2>1 DEF Progress, HandlerInv, TypeOK, Running
      <4>2. phase[r] = "answered" => answer[r] = "error"
        BY <2>1 DEF Progress, AnswerAfterWork, AuditMatchesAnswer, TypeOK, Running
      <4> QED
        BY <4>1, <4>2 DEF Status
    <3>3. Contract!Read(r)
      BY <1>1, <2>3, <3>1, <3>2 DEF Contract!Read, StatusMap, ReadMap
    <3> QED
      BY <3>3 DEF Contract!Next
  <2>4. r \in ReadMap => r \in ReadMap'
    BY <2>1 DEF ReadMap, Progress
  <2> QED
    BY <2>2, <2>3, <2>4
<1> QED
  BY <1>2, <1>3

\* The Runtime implements the contract: every step is a step of it or none.
THEOREM Implementation == Spec => ImplementsContract
<1>1. Init => Contract!Init
  BY DEF Init, Contract!Init, Status
<1>2. Inv /\ [Next]_vars => [Contract!Next]_(Contract!vars)
  <2>1. CASE UNCHANGED vars
    BY <2>1 DEF vars, Contract!vars, Status
  <2> QED
    BY <2>1, HandlerRefines, PoolRefines DEF Next
<1> QED
  BY <1>1, <1>2, Invariance, PTL DEF Spec, ImplementsContract, Contract!Spec

------------------------------------------------------------------------------
(* Every request ends and every thread comes back.                         *)
(*                                                                         *)
(* The provers know nothing of ENABLED.  What the fairness needs of it is  *)
(* named here, where each guard holds its action is enabled, and is the    *)
(* hypothesis of the two theorems.                                         *)

\* The call r has the thread w, and is at this place of _execute_sync.
At(w, r, place) == worker[w] = r /\ job[r] = place

\* Every guard is the whole condition of its step: a request that was received can
\* begin, a timer that is armed can fire, a cancelled handler can resume.
RequestAble(r) ==
  /\ phase[r] = "received" => ENABLED <<Begin(r)>>_vars
  /\ deadline[r] = "armed" => ENABLED <<Expire(r)>>_vars
  /\ deadline[r] = "expired" => ENABLED <<Resume(r)>>_vars

\* A thread can go on from every place, with a result or with an exception.
CallAble(w, r) ==
  /\ At(w, r, "load_secret") => ENABLED <<LoadDatabaseSecret(w, r)>>_vars
  /\ At(w, r, "connect") => ENABLED <<Connect(w, r)>>_vars
  /\ At(w, r, "configure") => ENABLED <<Configure(w, r)>>_vars
  /\ At(w, r, "execute") /\ session[r] = SessionFacts =>
       ENABLED <<"statement_timeout" \in session[r] /\ Execute(w, r)>>_vars
  /\ At(w, r, "dispose") => ENABLED <<Dispose(w, r)>>_vars

FairActionsEnabled ==
  /\ \A r \in Requests : RequestAble(r)
  /\ \A w \in Workers : \A r \in Requests : CallAble(w, r)

Waiting == {"generating", "querying"}
Over == {"answered", "escaped"}

\* A handler goes from its receipt to its wait to its end, never back, and a timer
\* that fired stays so until the handler left.
LEMMA PhaseMoves ==
  ASSUME Inv, NEW r \in Requests, [Next]_vars
  PROVE  /\ phase[r] = "received" => phase'[r] \in {"received"} \cup Waiting \cup Over
         /\ phase[r] \in Waiting => phase'[r] \in Waiting \cup Over
         /\ deadline[r] = "expired" => deadline'[r] \in {"expired", "off"}
<1> DEFINE Moves ==
      /\ phase[r] = "received" => phase'[r] \in {"received"} \cup Waiting \cup Over
      /\ phase[r] \in Waiting => phase'[r] \in Waiting \cup Over
      /\ deadline[r] = "expired" => deadline'[r] \in {"expired", "off"}
<1> USE DEF Inv, TypeOK, Waiting, Over
<1>1. ASSUME NEW q \in Requests, Arrive(q) \/ LlmReplies(q) \/ Expire(q) PROVE Moves
  BY <1>1 DEF Arrive, LlmReplies, Expire, HandlerInv
<1>2. ASSUME NEW q \in Requests, Begin(q) PROVE Moves
  BY <1>2 DEF Begin, LoadConfigFails, RefuseUnverified, RefuseVerified, Serve,
              Fail, Reject, Leave, HandlerInv
<1>3. ASSUME NEW q \in Requests, Resume(q) PROVE Moves
  BY <1>3 DEF Resume, TimeOut, UseCandidate, UseFailure, UseRows, Handle,
              Fail, Reject, Leave, Cancelled, HandlerInv
<1>4. ASSUME NEW w \in Workers, Take(w) \/ \E q \in Requests : Thread(w, q) PROVE Moves
  BY <1>4, ThreadProgress DEF Take, Progress, handler
<1>5. CASE UNCHANGED vars
  BY <1>5 DEF vars
<1> QED
  BY <1>1, <1>2, <1>3, <1>4, <1>5 DEF Next

\* What the two theorems use of the fairness and of the hypothesis.
LEMMA RequestFair ==
  ASSUME NEW r \in Requests
  PROVE  FairSpec /\ []FairActionsEnabled => Spec /\ RequestFairness(r) /\ []RequestAble(r)
<1>1. LoopFairness => RequestFairness(r)
  BY DEF LoopFairness
<1>2. FairActionsEnabled => RequestAble(r)
  BY DEF FairActionsEnabled
<1> QED
  BY <1>1, <1>2, PTL DEF FairSpec, Fairness

\* Where the fair steps of a handler take it.
LEMMA HandlerEffects ==
  ASSUME Inv, NEW r \in Requests
  PROVE  /\ Begin(r) => phase'[r] \in Waiting \cup Over
         /\ Expire(r) => deadline'[r] = "expired"
         /\ deadline[r] = "expired" /\ Resume(r) => phase'[r] = "answered"
<1> USE DEF Inv, TypeOK, Waiting, Over
<1>1. Begin(r) => phase'[r] \in Waiting \cup Over
  BY DEF Begin, LoadConfigFails, RefuseUnverified, RefuseVerified, Serve, Fail, Reject, Leave
<1>2. Expire(r) => deadline'[r] = "expired"
  BY DEF Expire
<1>3. deadline[r] = "expired" /\ Resume(r) => phase'[r] = "answered"
  BY DEF Resume, TimeOut, UseCandidate, UseFailure, UseRows, Cancelled, Fail, Leave
<1> QED
  BY <1>1, <1>2, <1>3

\* main.py: every call of ask_database that arrived is answered, or ends in the
\* exception of load_config, whatever the LLM and the database do: the received
\* request begins, then waits, and either ends or its timer fires and ends it.
THEOREM RequestsEnd == FairSpec /\ []FairActionsEnabled => EveryRequestEnds
<1>1. ASSUME NEW r \in Requests
      PROVE  FairSpec /\ []FairActionsEnabled => RequestEnds(r)
  <2> DEFINE A == phase[r] = "received"
             B == phase[r] \in Waiting /\ deadline[r] = "armed"
             C == phase[r] \in Waiting /\ deadline[r] = "expired"
             D == phase[r] \in Over
  <2>1. Inv' /\ phase'[r] \in Waiting => B' \/ C'
    BY DEF Inv, TypeOK, HandlerInv, Waiting
  <2>2. Inv /\ Inv' /\ A /\ [Next]_vars => A' \/ B' \/ C' \/ D'
    BY <2>1, PhaseMoves
  <2>3. Inv /\ Inv' /\ A /\ <<Begin(r)>>_vars => B' \/ C' \/ D'
    BY <2>1, HandlerEffects
  <2>4. Inv /\ Inv' /\ B /\ [Next]_vars => B' \/ C' \/ D'
    BY <2>1, PhaseMoves
  <2>5. Inv /\ Inv' /\ B /\ <<Expire(r)>>_vars => C' \/ D'
    BY HandlerEffects, PhaseMoves DEF Next
  <2>6. Inv /\ Inv' /\ C /\ [Next]_vars => C' \/ D'
    BY <2>1, PhaseMoves DEF Inv, TypeOK, HandlerInv, Waiting
  <2>7. Inv /\ Inv' /\ C /\ <<Resume(r)>>_vars => D'
    BY HandlerEffects DEF Over
  <2>8. RequestAble(r) => /\ A => ENABLED <<Begin(r)>>_vars
                          /\ B => ENABLED <<Expire(r)>>_vars
                          /\ C => ENABLED <<Resume(r)>>_vars
    BY DEF RequestAble
  <2>9. A <=> phase[r] = "received"
    OBVIOUS
  <2>10. D <=> phase[r] \in {"answered", "escaped"}
    BY DEF Over
  <2> HIDE DEF A, B, C, D
  <2> QED
    BY <2>2, <2>3, <2>4, <2>5, <2>6, <2>7, <2>8, <2>9, <2>10, RequestFair, Invariance, PTL
       DEF Spec, RequestFairness, RequestEnds
<1> QED
  BY <1>1 DEF EveryRequestEnds

LEMMA CallFair ==
  ASSUME NEW w \in Workers, NEW r \in Requests
  PROVE  FairSpec /\ []FairActionsEnabled => Spec /\ CallFairness(w, r) /\ []CallAble(w, r)
<1>1. ThreadFairness => CallFairness(w, r)
  BY DEF ThreadFairness
<1>2. FairActionsEnabled => CallAble(w, r)
  BY DEF FairActionsEnabled
<1> QED
  BY <1>1, <1>2, PTL DEF FairSpec, Fairness

\* A thread that serves a call is at one of its places, and alone with it.
LEMMA ServingPlaces ==
  ASSUME Inv, NEW w \in Workers, NEW r \in Requests, worker[w] = r
  PROVE  /\ job[r] \in Running
         /\ \A v \in Workers : worker[v] = r => v = w
         /\ job[r] = "execute" => session[r] = SessionFacts
  BY NoneAssumption DEF Inv, ThreadInv, ThreadsApart

\* A step of anybody else leaves a serving thread and its call where they are.
LEMMA ServingStays ==
  ASSUME Inv, NEW w \in Workers, NEW r \in Requests, worker[w] = r, [Next]_vars
  PROVE  Thread(w, r) \/ (worker'[w] = r /\ job'[r] = job[r])
<1> DEFINE Stays == worker'[w] = r /\ job'[r] = job[r]
<1>1. job[r] \in Running /\ \A v \in Workers : worker[v] = r => v = w
  BY ServingPlaces
<1>2. ASSUME NEW q \in Requests, Arrive(q) \/ Begin(q) \/ LlmReplies(q) \/ Expire(q)
      PROVE  Stays
  BY <1>2 DEF Arrive, Begin, LoadConfigFails, RefuseUnverified, RefuseVerified, Serve,
              LlmReplies, Expire, pool
<1>3. ASSUME NEW q \in Requests, Resume(q) PROVE Stays
  <2>1. UseCandidate(q) => job[q] = "none"
    BY DEF UseCandidate, Inv, HandlerInv
  <2> QED
    BY <1>1, <1>3, <2>1 DEF Inv, TypeOK, Resume, TimeOut, UseCandidate, UseFailure, UseRows,
                            pool, Running
<1>4. ASSUME NEW v \in Workers, Take(v) PROVE Stays
  <2>1. Head(queue) \in Requests
    BY <1>4 DEF Take, Inv, TypeOK
  <2>2. v # w
    BY <1>4, NoneAssumption DEF Take
  <2> QED
    BY <1>1, <1>4, <2>1, <2>2 DEF Inv, TypeOK, Take, Running
<1>5. ASSUME NEW v \in Workers, NEW q \in Requests, Thread(v, q), ~ (v = w /\ q = r)
      PROVE  Stays
  <2>1. Progress(v, q) /\ worker[v] = q
    BY <1>5, ThreadProgress DEF Progress
  <2>2. v # w /\ q # r
    BY <1>1, <1>5, <2>1
  <2> QED
    BY <2>1, <2>2 DEF Progress
<1>6. CASE UNCHANGED vars
  BY <1>6 DEF vars
<1> QED
  BY <1>2, <1>3, <1>4, <1>5, <1>6 DEF Next

\* Where the next step of a call takes its thread.
LEMMA ThreadEffects ==
  ASSUME Inv, NEW w \in Workers, NEW r \in Requests
  PROVE  /\ LoadDatabaseSecret(w, r) => worker'[w] = None \/ At(w, r, "connect")'
         /\ Connect(w, r) => At(w, r, "configure")' \/ At(w, r, "dispose")'
         /\ Configure(w, r) => At(w, r, "execute")' \/ At(w, r, "dispose")'
         /\ Execute(w, r) => At(w, r, "dispose")'
         /\ Dispose(w, r) => worker'[w] = None
<1> USE DEF Inv, TypeOK, At
<1>1. LoadDatabaseSecret(w, r) => worker'[w] = None \/ At(w, r, "connect")'
  BY DEF LoadDatabaseSecret, Return
<1>2. Connect(w, r) => At(w, r, "configure")' \/ At(w, r, "dispose")'
  BY DEF Connect, Abort
<1>3. Configure(w, r) => At(w, r, "execute")' \/ At(w, r, "dispose")'
  BY DEF Configure, Abort
<1>4. Execute(w, r) => At(w, r, "dispose")'
  BY DEF Execute, Abort
<1>5. Dispose(w, r) => worker'[w] = None
  BY DEF Dispose, Return
<1> QED
  BY <1>1, <1>2, <1>3, <1>4, <1>5

\* Every step takes a serving thread forward through _execute_sync or not at all.
LEMMA ThreadMoves ==
  ASSUME Inv, NEW w \in Workers, NEW r \in Requests, [Next]_vars
  PROVE  /\ At(w, r, "load_secret") =>
              At(w, r, "load_secret")' \/ At(w, r, "connect")' \/ worker'[w] = None
         /\ At(w, r, "connect") =>
              At(w, r, "connect")' \/ At(w, r, "configure")' \/ At(w, r, "dispose")'
         /\ At(w, r, "configure") =>
              At(w, r, "configure")' \/ At(w, r, "execute")' \/ At(w, r, "dispose")'
         /\ At(w, r, "execute") => At(w, r, "execute")' \/ At(w, r, "dispose")'
         /\ At(w, r, "dispose") => At(w, r, "dispose")' \/ worker'[w] = None
<1>1. ASSUME NEW place, At(w, r, place) PROVE Thread(w, r) \/ At(w, r, place)'
  BY <1>1, ServingStays DEF At
<1>2. Thread(w, r) => CASE job[r] = "load_secret" -> LoadDatabaseSecret(w, r)
                        [] job[r] = "connect" -> Connect(w, r)
                        [] job[r] = "configure" -> Configure(w, r)
                        [] job[r] = "execute" -> Execute(w, r)
                        [] job[r] = "dispose" -> Dispose(w, r)
  BY DEF Thread, LoadDatabaseSecret, Connect, Configure, Execute, Dispose
<1> QED
  BY <1>1, <1>2, ThreadEffects DEF At

\* database.py: a thread that took a call goes through secret, connection, transaction,
\* statement and dispose, or skips what a failure skips, and is idle again; the
\* statement cannot hold it, because it runs only where its timeout was set.
THEOREM ThreadsReturn == FairSpec /\ []FairActionsEnabled => ThreadsComeBack
<1>1. ASSUME NEW w \in Workers, NEW r \in Requests
      PROVE  FairSpec /\ []FairActionsEnabled => ComesBack(w, r)
  <2> DEFINE L == At(w, r, "load_secret")
             C == At(w, r, "connect")
             F == At(w, r, "configure")
             E == At(w, r, "execute")
             D == At(w, r, "dispose")
             N == worker[w] = None
  <2>1. Inv /\ worker[w] = r => L \/ C \/ F \/ E \/ D
    BY ServingPlaces DEF Running, At
  <2>2. Inv /\ [Next]_vars => /\ L => L' \/ C' \/ N'
                              /\ C => C' \/ F' \/ D'
                              /\ F => F' \/ E' \/ D'
                              /\ E => E' \/ D'
                              /\ D => D' \/ N'
    BY ThreadMoves
  <2>3. Inv => /\ <<LoadDatabaseSecret(w, r)>>_vars => C' \/ N'
               /\ <<Connect(w, r)>>_vars => F' \/ D'
               /\ <<Configure(w, r)>>_vars => E' \/ D'
               /\ <<"statement_timeout" \in session[r] /\ Execute(w, r)>>_vars => D'
               /\ <<Dispose(w, r)>>_vars => N'
    BY ThreadEffects
  <2>4. Inv /\ CallAble(w, r) =>
          /\ L => ENABLED <<LoadDatabaseSecret(w, r)>>_vars
          /\ C => ENABLED <<Connect(w, r)>>_vars
          /\ F => ENABLED <<Configure(w, r)>>_vars
          /\ E => ENABLED <<"statement_timeout" \in session[r] /\ Execute(w, r)>>_vars
          /\ D => ENABLED <<Dispose(w, r)>>_vars
    <3>1. Inv /\ E => session[r] = SessionFacts
      BY ServingPlaces DEF At
    <3> QED
      BY <3>1 DEF CallAble
  <2>5. N <=> worker[w] = None
    OBVIOUS
  <2> HIDE DEF L, C, F, E, D, N
  <2> QED
    BY <2>1, <2>2, <2>3, <2>4, <2>5, CallFair, Invariance, PTL
       DEF Spec, CallFairness, ComesBack
<1> QED
  BY <1>1 DEF ThreadsComeBack
==============================================================================
