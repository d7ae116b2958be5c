-------------------------- MODULE QueryAnswer_proofs --------------------------
(***************************************************************************)
(* The verdict on a statement and the rows of an answer, for every         *)
(* configuration, request, statement and result.                           *)
(***************************************************************************)
EXTENDS QueryAnswer, TLAPS, FiniteSetTheorems, WellFoundedInduction

\* The LIMIT is the one the call and its statement determine, and an answer is
\* made of the result the call still holds.
Determined ==
  /\ call \in Calls
  /\ candidate \in {NoStatement} \cup Candidates[call]
  /\ step \in {"generated", "validated", "fetched"} => candidate \in Candidates[call]
  /\ step \in {"validated", "fetched"} =>
       Accepted(candidate, call.config.model) /\ limit = BoundedRows(candidate, MaxRows, Limits.absolute_max_rows)
  /\ step # "answered" => answer = NoAnswer
  /\ limit \in Nat
  /\ result.found \in Nat

Shaped ==
  answer.status = "ok" =>
    /\ step = "answered"
    /\ candidate \in Candidates[call] /\ Accepted(candidate, call.config.model)
    /\ limit = BoundedRows(candidate, MaxRows, Limits.absolute_max_rows)
    /\ answer.row_count = Lesser(Fetched, Limits.absolute_max_rows)
    /\ answer.count = Lesser(answer.row_count, Limits.max_summary_rows)
    /\ answer.truncated = (Fetched > answer.count)
    /\ answer.keys = Normalized(result.keys)

Inv == Determined /\ Shaped

\* The bound is a number, and none of the limits it is made of is below it.
LEMMA Bound ==
  ASSUME NEW stmt, NEW m \in Nat, NEW n \in Nat,
         stmt.limit \subseteq Nat, \A i, j \in stmt.limit : i = j
  PROVE  /\ BoundedRows(stmt, m, n) \in Nat
         /\ BoundedRows(stmt, m, n) <= m
         /\ BoundedRows(stmt, m, n) <= n
         /\ \A i \in stmt.limit : BoundedRows(stmt, m, n) <= i
<1>1. CASE stmt.limit = {}
  BY <1>1 DEF BoundedRows, Lesser
<1>2. CASE stmt.limit # {}
  <2>1. PICK i \in stmt.limit : i = CHOOSE j \in stmt.limit : TRUE
    BY <1>2
  <2>2. i \in Nat /\ \A j \in stmt.limit : j = i
    BY <2>1
  <2>3. BoundedRows(stmt, m, n) = Lesser(Lesser(m, n), i)
    BY <1>2, <2>1 DEF BoundedRows
  <2> QED BY <2>2, <2>3 DEF Lesser
<1> QED BY <1>1, <1>2

\* The limits of a call are numbers.
LEMMA LimitsAreNumbers ==
  ASSUME call \in Calls
  PROVE  /\ Limits.default_max_rows \in Nat
         /\ Limits.absolute_max_rows \in Nat
         /\ Limits.max_summary_rows \in Nat
         /\ call.request.max_rows \in Nat
         /\ MaxRows \in Nat
         /\ MaxRows <= Limits.absolute_max_rows
         /\ Asked \in Nat /\ MaxRows <= Asked
<1>1. Limits \in LimitsType /\ call.request.max_rows \in Nat
  BY CallAssumption DEF Limits
<1>2. /\ Limits.default_max_rows \in Nat
      /\ Limits.absolute_max_rows \in Nat
      /\ Limits.max_summary_rows \in Nat
  BY <1>1 DEF LimitsType
<1> QED BY <1>1, <1>2 DEF MaxRows, Lesser, Asked

LEMMA InitInv == Init => Inv
  BY DEF Init, Inv, Determined, Shaped, NoAnswer, NoStatement, NoResult

LEMMA NextInv == Inv /\ [Next]_vars => Inv'
<1> SUFFICES ASSUME Inv, [Next]_vars PROVE Inv'
  OBVIOUS
<1> USE DEF Inv
<1>0. /\ step = "answered" => step' = "answered"
      /\ call' = call /\ Limits' = Limits /\ MaxRows' = MaxRows
  BY DEF Next, Refuse, Generate, Validate, Execute, Respond, vars, Limits, MaxRows, Asked
<1>1. CASE Refuse
  BY <1>0, <1>1 DEF Refuse, Determined, Shaped, Rejected, NoAnswer
<1>2. CASE Generate
  BY <1>0, <1>2 DEF Generate, Determined, Shaped, NoAnswer
<1>3. CASE Validate
  <2>1. candidate \in Candidates[call] /\ call \in Calls /\ answer = NoAnswer
    BY <1>3 DEF Validate, Determined
  <2>2. BoundedRows(candidate, MaxRows, Limits.absolute_max_rows) \in Nat
    BY <2>1, CallAssumption, LimitsAreNumbers, Bound DEF WellFormed
  <2>3. candidate' = candidate /\ result' = result
    BY <1>3 DEF Validate
  <2>4. CASE Accepted(candidate, call.config.model)
    BY <1>0, <1>3, <2>1, <2>2, <2>3, <2>4 DEF Validate, Determined, Shaped, NoAnswer
  <2>5. CASE ~Accepted(candidate, call.config.model)
    BY <1>0, <1>3, <2>1, <2>3, <2>5 DEF Validate, Determined, Shaped, Rejected, NoAnswer
  <2> QED BY <2>4, <2>5
<1>4. CASE Execute
  BY <1>0, <1>4, CallAssumption DEF Execute, Determined, Shaped, NoAnswer
<1>5. CASE Respond
  <2>1. /\ UNCHANGED <<candidate, limit, result>> /\ Fetched' = Fetched
        /\ step = "fetched" /\ step' = "answered"
    BY <1>5 DEF Respond, Fetched
  <2>2. /\ answer'.status = "ok"
        /\ answer'.row_count = Lesser(Fetched, Limits.absolute_max_rows)
        /\ answer'.count = Lesser(answer'.row_count, Limits.max_summary_rows)
        /\ answer'.truncated = (Fetched > answer'.count)
        /\ answer'.keys = Normalized(result.keys)
    BY <1>5 DEF Respond, Truncated
  <2>3. Normalized(result.keys)' = Normalized(result.keys)
    BY <1>0, <2>1 DEF Normalized
  <2>4. Determined'
    BY <1>0, <2>1 DEF Determined
  <2>5. Shaped'
    BY <1>0, <2>1, <2>2, <2>3 DEF Determined, Shaped
  <2> QED BY <2>4, <2>5
<1>6. CASE UNCHANGED vars
  <2>1. UNCHANGED <<step, candidate, limit, result, answer>> /\ Fetched' = Fetched
    BY <1>6 DEF vars, Fetched
  <2> QED BY <1>0, <2>1 DEF Determined, Shaped, Normalized
<1> QED BY <1>1, <1>2, <1>3, <1>4, <1>5, <1>6 DEF Next

LEMMA Invariant == Spec => []Inv
  BY InitInv, NextInv, PTL DEF Spec

\* What an answer says of its rows, in numbers.
LEMMA Answered ==
  ASSUME Inv, answer.status = "ok"
  PROVE  /\ limit \in Nat /\ result.found \in Nat
         /\ Limits.absolute_max_rows \in Nat /\ Limits.max_summary_rows \in Nat
         /\ call.request.max_rows \in Nat
         /\ limit <= Limits.absolute_max_rows
         /\ Asked \in Nat /\ limit <= Asked
         /\ \A n \in candidate.limit : n \in Nat /\ limit <= n
         /\ answer.row_count = Lesser(result.found, limit)
         /\ answer.count = Lesser(answer.row_count, Limits.max_summary_rows)
         /\ answer.truncated = (answer.row_count > answer.count)
<1> USE DEF Inv
<1>1. call \in Calls /\ limit \in Nat /\ result.found \in Nat
  BY DEF Determined
<1>2. candidate.limit \subseteq Nat /\ \A i, j \in candidate.limit : i = j
  BY <1>1, CallAssumption DEF Shaped, WellFormed
<1>3. limit = BoundedRows(candidate, MaxRows, Limits.absolute_max_rows)
  BY DEF Shaped
<1>4. /\ limit <= MaxRows
      /\ limit <= Limits.absolute_max_rows
      /\ \A n \in candidate.limit : limit <= n
  BY <1>1, <1>2, <1>3, LimitsAreNumbers, Bound
<1>5. Asked \in Nat /\ limit <= Asked
  BY <1>1, <1>4, LimitsAreNumbers
<1>6. Lesser(Fetched, Limits.absolute_max_rows) = Fetched
  BY <1>1, <1>4, LimitsAreNumbers DEF Fetched, Lesser
<1> QED BY <1>1, <1>2, <1>4, <1>5, <1>6, LimitsAreNumbers DEF Shaped, Fetched

\* A call has its type in every state, whatever it is answered.
THEOREM TypeCorrect == Spec => []TypeOK
<1>1. Init => TypeOK
  BY DEF Init, TypeOK, NoAnswer, NoStatement, NoResult
<1>2. Inv /\ Inv' /\ TypeOK /\ [Next]_vars => TypeOK'
  <2> SUFFICES ASSUME Inv, Inv', TypeOK, [Next]_vars PROVE TypeOK'
    OBVIOUS
  <2>1. limit' \in Nat /\ result'.found \in Nat
    BY DEF Inv, Determined
  <2>2. CASE Refuse
    BY <2>1, <2>2 DEF Refuse, TypeOK, Rejected, NoAnswer
  <2>3. CASE Generate
    BY <2>1, <2>3, CallAssumption DEF Generate, TypeOK, NoStatement, WellFormed
  <2>4. CASE Validate
    <3>1. call' = call /\ candidate' = candidate /\ step' \in {"answered", "validated"}
      BY <2>4 DEF Validate
    <3>2. answer' = Rejected \/ answer' = answer
      BY <2>4 DEF Validate
    <3>3. /\ Rejected.status = "rejected" /\ Rejected.count \in Nat
          /\ Rejected.row_count \in Nat /\ Rejected.truncated \in BOOLEAN
      BY DEF Rejected, NoAnswer
    <3> QED BY <2>1, <3>1, <3>2, <3>3 DEF TypeOK
  <2>5. CASE Execute
    BY <2>1, <2>5 DEF Execute, TypeOK
  <2>6. CASE Respond
    <3>1. answer'.status = "ok" /\ answer'.truncated \in BOOLEAN
      BY <2>6 DEF Respond, Truncated
    <3>2. answer'.count \in Nat /\ answer'.row_count \in Nat
      BY <2>1, <3>1, LimitsAreNumbers, Answered, <2>6 DEF TypeOK, Respond, Lesser, Fetched
    <3> QED BY <2>1, <2>6, <3>1, <3>2 DEF Respond, TypeOK
  <2>7. CASE UNCHANGED vars
    BY <2>7 DEF vars, TypeOK
  <2> QED BY <2>2, <2>3, <2>4, <2>5, <2>6, <2>7 DEF Next
<1> QED BY <1>1, <1>2, Invariant, PTL DEF Spec

\* No answer has more rows than the request, the statement's own LIMIT or the
\* configuration allow, whatever the LLM and the database come back with.
THEOREM RowsAreBounded == Spec => []ShownWithinBounds
<1>1. Inv => ShownWithinBounds
  <2> SUFFICES ASSUME Inv, answer.status = "ok" PROVE ShownWithinBounds
    BY DEF ShownWithinBounds
  <2> QED BY Answered DEF ShownWithinBounds, Lesser
<1> QED BY <1>1, Invariant, PTL

\* An answer that is not marked truncated lacks a row only where it has as many
\* as the LIMIT the validator wrote.
THEOREM UnmarkedAnswers == Spec => []UnmarkedIsWhole
<1>1. Inv => UnmarkedIsWhole
  <2> SUFFICES ASSUME Inv, answer.status = "ok" PROVE UnmarkedIsWhole
    BY DEF UnmarkedIsWhole
  <2>1. /\ answer.row_count > answer.count <=> answer.count < answer.row_count
        /\ ~(answer.row_count > answer.count) =>
             answer.count = result.found \/ answer.count = limit
    BY Answered DEF Lesser
  <2>2. answer.truncated = (answer.row_count > answer.count)
    BY Answered
  <2> QED BY <2>1, <2>2, Zenon DEF UnmarkedIsWhole
<1> QED BY <1>1, Invariant, PTL

------------------------------------------------------------------------------
(* The verdict of validate_sql.                                            *)

\* Some element of a set of numbers up to n is the greatest: the strict subset
\* ordering is well founded on the sets of what is above each.
LEMMA Greatest ==
  ASSUME NEW n \in Nat, NEW S, S \subseteq 1 .. n, S # {}
  PROVE  \E m \in S : \A k \in S : k <= m
<1> DEFINE D == {{k \in S : k > m} : m \in S}
<1>0. IsFiniteSet(S)
  <2>1. IsFiniteSet(1 .. n)
    <3>1. 1 \in Int /\ n \in Int
      OBVIOUS
    <3> QED BY <3>1, FS_Interval
  <2>2. S \in SUBSET (1 .. n)
    OBVIOUS
  <2> QED BY <2>1, <2>2, FS_Subset
<1>1. D \subseteq FiniteSubsetsOf(S) /\ D # {}
  <2>1. \A T \in SUBSET S : IsFiniteSet(T)
    BY <1>0, FS_Subset
  <2>2. \A m \in S : {k \in S : k > m} \in SUBSET S
    OBVIOUS
  <2> QED BY <2>1, <2>2 DEF FiniteSubsetsOf
<1>2. IsWellFoundedOn(StrictSubsetOrdering(S), FiniteSubsetsOf(S))
  BY FS_StrictSubsetOrderingWellFounded
<1>3. \E x \in D : \A y \in D : ~ (<<y, x>> \in StrictSubsetOrdering(S))
  <2> HIDE DEF D
  <2> QED BY <1>1, <1>2, WFMin
<1>4. PICK x \in D : \A y \in D : ~ (<<y, x>> \in StrictSubsetOrdering(S))
  BY <1>3
<1>5. PICK m \in S : x = {k \in S : k > m}
  BY <1>4
<1>6. ASSUME NEW l \in S, ~ (l <= m) PROVE FALSE
  <2>1. l \in x /\ {k \in S : k > l} \subseteq x /\ l \notin {k \in S : k > l}
    <3>1. l \in Nat /\ m \in Nat /\ S \subseteq Nat
      BY <1>5
    <3>2. l > m /\ \A k \in S : k > l => k > m
      BY <1>6, <3>1
    <3>3. ~(l > l)
      BY <3>1
    <3> QED BY <1>5, <3>2, <3>3
  <2>2. <<{k \in S : k > l}, x>> \in StrictSubsetOrdering(S)
    BY <1>5, <2>1 DEF StrictSubsetOrdering
  <2> QED BY <1>4, <2>2
<1> QED BY <1>5, <1>6

\* Where a statement's sources are.
LEMMA Places ==
  ASSUME NEW stmt, WellFormed(stmt)
  PROVE  /\ Len(stmt.blocks) \in Nat /\ DOMAIN stmt.blocks = 1 .. Len(stmt.blocks)
         /\ \A b \in DOMAIN stmt.blocks :
              /\ Len(stmt.blocks[b].sources) \in Nat
              /\ DOMAIN stmt.blocks[b].sources = 1 .. Len(stmt.blocks[b].sources)
         /\ \A b, i : <<b, i>> \in Positions(stmt) <=>
              b \in DOMAIN stmt.blocks /\ i \in DOMAIN stmt.blocks[b].sources
         /\ \A p \in Positions(stmt) :
              p = <<p[1], p[2]>> /\ p[1] \in DOMAIN stmt.blocks
                /\ p[2] \in DOMAIN stmt.blocks[p[1]].sources
<1>1. Len(stmt.blocks) \in Nat /\ DOMAIN stmt.blocks = 1 .. Len(stmt.blocks)
  BY DEF WellFormed
<1>2. ASSUME NEW b \in DOMAIN stmt.blocks
      PROVE  /\ Len(stmt.blocks[b].sources) \in Nat
             /\ DOMAIN stmt.blocks[b].sources = 1 .. Len(stmt.blocks[b].sources)
  <2> DEFINE sources == stmt.blocks[b].sources
  <2>1. sources \in Seq({sources[i] : i \in DOMAIN sources})
    BY <1>2 DEF WellFormed
  <2> QED BY <2>1
<1>3. \A b, i : <<b, i>> \in Positions(stmt) <=>
        b \in DOMAIN stmt.blocks /\ i \in DOMAIN stmt.blocks[b].sources
  BY DEF Positions
<1>4. \A p \in Positions(stmt) :
        p = <<p[1], p[2]>> /\ p[1] \in DOMAIN stmt.blocks
          /\ p[2] \in DOMAIN stmt.blocks[p[1]].sources
  BY DEF Positions
<1> QED BY <1>1, <1>2, <1>3, <1>4

\* Some claim of a qualifier is the last: the code's dictionary has a value.
LEMMA LastClaim ==
  ASSUME NEW stmt, WellFormed(stmt), NEW C, C \subseteq Positions(stmt), C # {}
  PROVE  \E p \in C : \A r \in C : Before(r, p)
<1> DEFINE B == {p[1] : p \in C}
<1>1. B \subseteq 1 .. Len(stmt.blocks) /\ B # {} /\ Len(stmt.blocks) \in Nat
  BY Places
<1>2. PICK b \in B : \A a \in B : a <= b
  <2> HIDE DEF B
  <2> QED BY <1>1, Greatest
<1> DEFINE I == {p[2] : p \in {r \in C : r[1] = b}}
<1>3. /\ I \subseteq 1 .. Len(stmt.blocks[b].sources) /\ I # {}
      /\ Len(stmt.blocks[b].sources) \in Nat
  BY <1>2, Places
<1>4. PICK i \in I : \A j \in I : j <= i
  <2> HIDE DEF I
  <2> QED BY <1>3, Greatest
<1>5. PICK p \in C : p[1] = b /\ p[2] = i
  BY <1>4
<1>6. ASSUME NEW r \in C PROVE Before(r, p)
  <2>1. r[1] \in B /\ b \in Nat /\ r[1] \in Nat
    <3>1. r[1] \in B
      BY <1>6
    <3>2. \A x \in 1 .. Len(stmt.blocks) : x \in Nat
      OBVIOUS
    <3>3. \A x \in B : x \in Nat
      BY <1>1, <3>2
    <3> QED BY <1>2, <3>1, <3>3
  <2>2. r[1] <= b
    BY <1>2, <2>1
  <2>3. r[1] = b => r[2] <= i
    BY <1>4
  <2> QED BY <1>5, <2>1, <2>2, <2>3 DEF Before
<1> QED BY <1>6

\* What a qualifier of physical relations is looked up in is one of them.
LEMMA RelationFound ==
  ASSUME NEW stmt, WellFormed(stmt), NEW q, Claims(stmt, q) # {}
  PROVE  \E p \in Claims(stmt, q) : RelationBy(stmt, q) = Relation(SourceAt(stmt, p))
<1> DEFINE C == Claims(stmt, q)
<1>1. C \subseteq Positions(stmt) /\ C # {}
  BY DEF Claims, Physical, Tables
<1>2. \E p \in C : \A r \in C : Before(r, p)
  <2> HIDE DEF C
  <2> QED BY <1>1, LastClaim
<1>3. PICK p \in C : p = CHOOSE m \in C : \A r \in C : Before(r, m)
  BY <1>2
<1> QED BY <1>3 DEF RelationBy

\* A column projected under a local name is projected by a block of that name.
LEMMA ProjectionFound ==
  ASSUME NEW stmt, WellFormed(stmt), NEW name,
         name \in LocalNames(stmt)
  PROVE  \E b \in Recorded(stmt, "cte") \cup Recorded(stmt, "derived") :
           stmt.blocks[b].name = name /\ Projected(stmt, name) = stmt.blocks[b].projects
<1> DEFINE derived == Named(stmt, Recorded(stmt, "derived"), name)
           ctes == Named(stmt, Recorded(stmt, "cte"), name)
           B == IF derived # {} THEN derived ELSE ctes
<1>1. B # {} /\ B \subseteq DOMAIN stmt.blocks
  BY DEF LocalNames, Named, Recorded
<1>2. Len(stmt.blocks) \in Nat /\ DOMAIN stmt.blocks = 1 .. Len(stmt.blocks)
  BY Places
<1>3. \E b \in B : \A a \in B : a <= b
  <2> HIDE DEF B
  <2> QED BY <1>1, <1>2, Greatest
<1>4. PICK b \in B : b = CHOOSE d \in B : \A a \in B : a <= d
  BY <1>3
<1>5. Projected(stmt, name) = stmt.blocks[b].projects
  BY <1>4 DEF Projected
<1>6. /\ b \in Recorded(stmt, "cte") \cup Recorded(stmt, "derived")
      /\ stmt.blocks[b].name = name
  <2>1. B \subseteq derived \cup ctes
    OBVIOUS
  <2>2. b \in derived \cup ctes
    BY <1>4, <2>1
  <2> QED BY <2>2 DEF Named
<1> QED BY <1>5, <1>6

\* A column the validator allows is listed, in a statement it accepts.
LEMMA AllowedIsListed ==
  ASSUME NEW stmt, NEW model, WellFormed(stmt), Accepted(stmt, model),
         NEW column \in Columns(stmt)
  PROVE  column.name \notin model.denied /\ Listed(stmt, model, column)
<1>1. ColumnAllowed(stmt, model, column)
  BY DEF Accepted
<1>2. ASSUME NEW p \in Physical(stmt)
      PROVE  p \in Tables(stmt) /\ Relation(SourceAt(stmt, p)) \in DOMAIN model.relations
  BY <1>2 DEF Physical, Accepted, TableAllowed
<1>3. CASE column.qualifier = Nothing
  <2>1. UnqualifiedAllowed(stmt, model, column.name)
    BY <1>1, <1>3 DEF ColumnAllowed
  <2>2. CASE \A relation \in RelationsUsed(stmt) : column.name \in model.relations[relation]
    <3>1. PICK p \in Physical(stmt) : TRUE
      BY DEF Accepted, RelationsUsed
    <3>2. column.name \in model.relations[Relation(SourceAt(stmt, p))]
      BY <2>2 DEF RelationsUsed
    <3> QED BY <1>1, <1>2, <1>3, <3>2 DEF ColumnAllowed, Listed
  <2>3. CASE ~\A relation \in RelationsUsed(stmt) : column.name \in model.relations[relation]
    <3>1. PICK local \in {SourceAt(stmt, p).name : p \in Tables(stmt) \ Physical(stmt)}
                           \cup {stmt.blocks[b].name : b \in Recorded(stmt, "derived")} :
                 column.name \in Projected(stmt, local)
      BY <2>1, <2>3 DEF UnqualifiedAllowed
    <3>2. local \in LocalNames(stmt)
      BY <3>1 DEF Physical, IsLocal, LocalNames
    <3>3. PICK b \in Recorded(stmt, "cte") \cup Recorded(stmt, "derived") :
                 Projected(stmt, local) = stmt.blocks[b].projects
      BY <3>2, ProjectionFound
    <3>4. column.name \in stmt.blocks[b].projects /\ column.qualifier \in {Nothing, stmt.blocks[b].name}
      BY <1>3, <3>1, <3>3
    <3> QED BY <1>1, <3>4 DEF ColumnAllowed, Listed
  <2> QED BY <2>2, <2>3
<1>4. CASE column.qualifier # Nothing
  <2>1. QualifiedAllowed(stmt, model, column)
    BY <1>1, <1>4 DEF ColumnAllowed
  <2>2. CASE Claims(stmt, column.qualifier) # {}
    <3>1. PICK p \in Claims(stmt, column.qualifier) :
                 RelationBy(stmt, column.qualifier) = Relation(SourceAt(stmt, p))
      BY <2>2, RelationFound
    <3>2. /\ p \in Physical(stmt)
          /\ column.qualifier \in {SourceAt(stmt, p).alias, SourceAt(stmt, p).name}
      BY <3>1 DEF Claims
    <3>3. column.name \in model.relations[Relation(SourceAt(stmt, p))]
      BY <2>1, <2>2, <3>1 DEF QualifiedAllowed
    <3> QED BY <1>1, <1>2, <3>2, <3>3 DEF ColumnAllowed, Listed
  <2>3. CASE Claims(stmt, column.qualifier) = {}
    <3>1. /\ column.qualifier \in LocalNames(stmt)
          /\ column.name \in Projected(stmt, column.qualifier)
      BY <2>1, <2>3 DEF QualifiedAllowed
    <3> QED BY <1>1, <3>1, ProjectionFound DEF ColumnAllowed, Listed
  <2> QED BY <2>2, <2>3
<1> QED BY <1>3, <1>4

\* Every statement that is executed names tables and columns the data model lists
\* or its own blocks project, and nothing that is denied, for every data model
\* and statement, whatever its names clash with.
THEOREM AcceptedAreListed == Spec => []AcceptedIsListed
<1>1. Inv => AcceptedIsListed
  <2> SUFFICES ASSUME Inv, step \in {"validated", "fetched"} \/ answer.status = "ok"
               PROVE  AcceptedIsListed
    BY DEF AcceptedIsListed
  <2> DEFINE model == call.config.model
  <2>1. /\ call \in Calls /\ candidate \in Candidates[call]
        /\ Accepted(candidate, model)
    BY DEF Inv, Determined, Shaped
  <2>2. WellFormed(candidate)
    BY <2>1, CallAssumption
  <2>3. ASSUME NEW p \in Tables(candidate), SourceAt(candidate, p).schema # Nothing
        PROVE  /\ SourceAt(candidate, p).catalog = Nothing
               /\ Relation(SourceAt(candidate, p)) \in DOMAIN model.relations
    BY <2>1, <2>3 DEF Accepted, TableAllowed, IsLocal
  <2>4. \A column \in Columns(candidate) :
          column.name \notin model.denied /\ Listed(candidate, model, column)
    BY <2>1, <2>2, AllowedIsListed
  <2>5. answer.keys \cap model.denied = {}
    <3>1. answer.status = "ok" => answer.keys = Normalized(result.keys)
      BY DEF Inv, Shaped
    <3>2. answer.status # "ok" => answer = NoAnswer
      BY DEF Inv, Determined
    <3> QED BY <3>1, <3>2 DEF Normalized, NoAnswer
  <2> QED BY <2>3, <2>4, <2>5 DEF AcceptedIsListed
<1> QED BY <1>1, Invariant, PTL
==============================================================================
