----------------------------- MODULE QueryAnswer -----------------------------
(***************************************************************************)
(* The data of one ask_database call, which AskDatabase leaves out: the    *)
(* request and its limits, the statement of the LLM and the verdict on it, *)
(* the rows it finds, and the rows, count and flag of the answer           *)
(* (src/main.py, src/app/capabilities/database/security.py).               *)
(***************************************************************************)
EXTENDS SqlValidator

CONSTANTS
  Calls,       \* [config, request] of each call considered
  Candidates,  \* the statements the LLM can answer to each of them
  Results      \* [found, keys] the database can come back with for each of
               \* them: how many rows without the LIMIT, and their keys

\* max_rows of a request without one: the code's None, which pydantic keeps
\* apart from 0 and its `or` does not.
Default == 0

LimitsType ==
  [default_max_rows : Nat, absolute_max_rows : Nat, max_summary_rows : Nat,
   max_question_length : Nat, max_context_items : Nat]

ASSUME CallAssumption ==
  /\ \A c \in Calls :
       /\ c.config.limits \in LimitsType
       /\ c.request.max_rows \in Nat
  /\ DOMAIN Candidates = Calls /\ DOMAIN Results = Calls
  /\ \A c \in Calls : \A stmt \in Candidates[c] : WellFormed(stmt)
  /\ \A c \in Calls : \A result \in Results[c] : result.found \in Nat

VARIABLES
  step,       \* where the call is
  call,       \* its configuration and request
  candidate,  \* the statement of the LLM
  limit,      \* the LIMIT the validator wrote into it
  result,     \* what the database found (its rows have the same keys)
  answer      \* the data of the response

vars == <<step, call, candidate, limit, result, answer>>

NoStatement == [constructs |-> {}, functions |-> {}, limit |-> {}, blocks |-> <<>>]
NoResult == [found |-> 0, keys |-> {}]
NoAnswer == [status |-> "none", count |-> 0, row_count |-> 0, truncated |-> FALSE, keys |-> {}]
Rejected == [NoAnswer EXCEPT !.status = "rejected"]

Init ==
  /\ step = "received"
  /\ call \in Calls
  /\ candidate = NoStatement
  /\ limit = 0
  /\ result = NoResult
  /\ answer = NoAnswer

Limits == call.config.limits

\* AskDatabaseRequest, validate_question and validate_context: lengths are
\* scaled, in_scope is the verdict of OUT_OF_SCOPE_PATTERNS.
RequestAccepted ==
  /\ call.request.question \in 1 .. Limits.max_question_length
  /\ call.request.in_scope
  /\ call.request.context <= Limits.max_context_items

Refuse ==
  /\ step = "received"
  /\ ~RequestAccepted
  /\ step' = "answered"
  /\ answer' = Rejected
  /\ UNCHANGED <<call, candidate, limit, result>>

\* request.max_rows or default, within absolute_max_rows.
Asked ==
  IF call.request.max_rows = Default THEN Limits.default_max_rows ELSE call.request.max_rows
MaxRows == Lesser(Asked, Limits.absolute_max_rows)

Generate ==
  /\ step = "received"
  /\ RequestAccepted
  /\ step' = "generated"
  /\ candidate' \in Candidates[call]
  /\ UNCHANGED <<call, limit, result, answer>>

\* The candidate is refused, or re-rendered with its bound.
Validate ==
  /\ step = "generated"
  /\ \/ /\ ~Accepted(candidate, call.config.model)
        /\ step' = "answered"
        /\ answer' = Rejected
        /\ UNCHANGED limit
     \/ /\ Accepted(candidate, call.config.model)
        /\ step' = "validated"
        /\ limit' = BoundedRows(candidate, MaxRows, Limits.absolute_max_rows)
        /\ UNCHANGED answer
  /\ UNCHANGED <<call, candidate, result>>

\* The database runs the statement; it is external and finds what it finds.
Execute ==
  /\ step = "validated"
  /\ step' = "fetched"
  /\ result' \in Results[call]
  /\ UNCHANGED <<call, candidate, limit, answer>>

Fetched == Lesser(result.found, limit)

------------------------------------------------------------------------------
(* normalize_rows, _response_rows and _json_payload.                       *)

\* Keys that are denied are dropped, also when the statement gave them as alias.
\* What the cells hold, where text is capped and redacted, is left out.
Normalized(keys) == keys \ call.config.model.denied

\* Mutant: the summary is compared with the limit of the query.
TruncatedByLimit(fetched, shown) == fetched > Limits.absolute_max_rows

\* _response_rows: more rows came from the database than are shown.
Truncated(fetched, shown) == fetched > shown

Respond ==
  /\ step = "fetched"
  /\ step' = "answered"
  /\ LET rows == Lesser(Fetched, Limits.absolute_max_rows)
         shown == Lesser(rows, Limits.max_summary_rows)
     IN answer' = [status |-> "ok", count |-> shown, row_count |-> rows,
                   truncated |-> Truncated(Fetched, shown),
                   keys |-> Normalized(result.keys)]
  /\ UNCHANGED <<call, candidate, limit, result>>

Next == Refuse \/ Generate \/ Validate \/ Execute \/ Respond

Spec == Init /\ [][Next]_vars

------------------------------------------------------------------------------
(* Properties.                                                             *)

\* Every variable has its type.
TypeOK ==
  /\ step \in {"received", "generated", "validated", "fetched", "answered"}
  /\ call \in Calls
  /\ DOMAIN candidate = DOMAIN NoStatement
  /\ limit \in Nat
  /\ result.found \in Nat
  /\ answer.status \in {"none", "rejected", "ok"}
  /\ answer.count \in Nat /\ answer.row_count \in Nat /\ answer.truncated \in BOOLEAN

\* The data model lists the column for a relation that the qualifier can name
\* somewhere in the statement, or a local relation it can name projects it.
Listed(stmt, model, column) ==
  \/ \E p \in Tables(stmt) :
       LET table == SourceAt(stmt, p)
       IN /\ column.qualifier \in {Nothing, table.alias, table.name}
          /\ Relation(table) \in DOMAIN model.relations
          /\ column.name \in model.relations[Relation(table)]
  \/ \E b \in Recorded(stmt, "cte") \cup Recorded(stmt, "derived") :
       /\ column.qualifier \in {Nothing, stmt.blocks[b].name}
       /\ column.name \in stmt.blocks[b].projects

\* What the checks of validate_sql guarantee of every statement that is executed,
\* names of several meanings and unqualified columns included: a table of a
\* schema is one the data model lists, whatever the CTEs are called, every
\* column has a listing somewhere, and nothing that is denied is read or, by an
\* alias, answered.  Which of several relations of a name a column is read of,
\* the flat checks cannot tell.
AcceptedIsListed ==
  LET model == call.config.model
  IN step \in {"validated", "fetched"} \/ answer.status = "ok" =>
       /\ \A p \in Tables(candidate) :
            LET table == SourceAt(candidate, p)
            IN table.schema # Nothing =>
                 table.catalog = Nothing /\ Relation(table) \in DOMAIN model.relations
       /\ \A column \in Columns(candidate) :
            column.name \notin model.denied /\ Listed(candidate, model, column)
       /\ answer.keys \cap model.denied = {}

\* An answer has no more rows than the request, or else the default, the statement
\* and each limit of the configuration allow.
ShownWithinBounds ==
  answer.status = "ok" =>
    /\ answer.row_count <= Asked
    /\ \A n \in candidate.limit : answer.row_count <= n
    /\ answer.row_count <= Limits.absolute_max_rows
    /\ answer.count <= Lesser(answer.row_count, Limits.max_summary_rows)

\* An answer that is not marked truncated is whole, unless it has as many rows
\* as the LIMIT: then the flag cannot tell, for it never sees what the database
\* left out.  A marked one says in row_count how many rows were fetched.
UnmarkedIsWhole ==
  answer.status = "ok" =>
    /\ ~answer.truncated => answer.count = result.found \/ answer.count = limit
    /\ answer.truncated <=> answer.count < answer.row_count
==============================================================================
