---------------------------- MODULE SqlValidator ----------------------------
(***************************************************************************)
(* validate_sql (src/app/capabilities/database/sql_validator.py): which    *)
(* SELECT statements of the LLM may be executed.                           *)
(*                                                                         *)
(* A statement is what the validator finds in sqlglot's tree: its blocks,  *)
(* the main SELECT first and the others (CTEs, derived tables, nested      *)
(* subqueries) in the order find_all meets them, each with its sources,    *)
(* its column references and the names it projects.  The validator knows   *)
(* no scopes: its tables are built over all the blocks at once.            *)
(***************************************************************************)
EXTENDS Naturals, Sequences

\* The qualifier of an unqualified name, the name of an unnamed block.
Nothing == ""

\* [ relations : name -> columns, denied : columns, functions : functions ]
\* is config.data_model, a relation being named <<schema, table>>;
\* [ constructs, functions, limit, blocks ] is a statement, constructs the
\* refused node types it has and limit its literal LIMIT, {} without one;
\* [ role, name, select, projects, columns, sources ] is a block, select
\* telling a SELECT body from a UNION;
\* [ kind, catalog, schema, name, alias ] is a source of a block.
Positions(stmt) ==
  UNION {{b} \X DOMAIN stmt.blocks[b].sources : b \in DOMAIN stmt.blocks}
SourceAt(stmt, p) == stmt.blocks[p[1]].sources[p[2]]
Tables(stmt) == {p \in Positions(stmt) : SourceAt(stmt, p).kind = "table"}
Relation(source) == <<source.schema, source.name>>
Before(p, r) == p[1] < r[1] \/ (p[1] = r[1] /\ p[2] <= r[2])

\* What SQL's grammar makes of every statement: the main SELECT comes first, a
\* catalog needs a schema, and a derived table has an alias and a block.
WellFormed(stmt) ==
  /\ DOMAIN stmt = {"constructs", "functions", "limit", "blocks"}
  /\ stmt.limit \subseteq Nat /\ \A m, n \in stmt.limit : m = n
  /\ stmt.blocks \in Seq({stmt.blocks[b] : b \in DOMAIN stmt.blocks})
  /\ stmt.blocks # <<>> => stmt.blocks[1].role = "main"
  /\ \A b \in DOMAIN stmt.blocks :
       LET sources == stmt.blocks[b].sources
       IN sources \in Seq({sources[i] : i \in DOMAIN sources})
  /\ \A p \in Positions(stmt) :
       LET source == SourceAt(stmt, p)
       IN /\ source.kind \in {"table", "derived"}
          /\ source.schema = Nothing => source.catalog = Nothing
          /\ source.kind = "derived" =>
               /\ source.schema = Nothing
               /\ \E b \in DOMAIN stmt.blocks :
                    stmt.blocks[b].role = "derived" /\ stmt.blocks[b].name = source.name

\* query_local_columns: CTEs, then derived tables, the last of a name.
Recorded(stmt, role) ==
  {b \in DOMAIN stmt.blocks : stmt.blocks[b].role = role /\ stmt.blocks[b].select}
Named(stmt, blocks, name) == {b \in blocks : stmt.blocks[b].name = name}
LocalNames(stmt) ==
  {stmt.blocks[b].name : b \in Recorded(stmt, "cte") \cup Recorded(stmt, "derived")}

Projected(stmt, name) ==
  LET derived == Named(stmt, Recorded(stmt, "derived"), name)
      ctes == Named(stmt, Recorded(stmt, "cte"), name)
      blocks == IF derived # {} THEN derived ELSE ctes
  IN stmt.blocks[CHOOSE b \in blocks : \A a \in blocks : a <= b].projects

\* Mutant: the name of a table of another schema is taken for the local one.
IsLocalByName(stmt, source) == source.name \in LocalNames(stmt)

IsLocal(stmt, source) == source.schema = Nothing /\ source.name \in LocalNames(stmt)

\* The tables that are not query-local, and what their qualifiers stand for:
\* alias and name of a later table replace those of an earlier one, whatever
\* their blocks are.
Physical(stmt) == {p \in Tables(stmt) : ~IsLocal(stmt, SourceAt(stmt, p))}
RelationsUsed(stmt) == {Relation(SourceAt(stmt, p)) : p \in Physical(stmt)}
Claims(stmt, qualifier) ==
  {p \in Physical(stmt) :
     qualifier \in {SourceAt(stmt, p).alias, SourceAt(stmt, p).name}}
RelationBy(stmt, qualifier) ==
  LET claims == Claims(stmt, qualifier)
  IN Relation(SourceAt(stmt, CHOOSE p \in claims : \A r \in claims : Before(r, p)))

TableAllowed(stmt, model, source) ==
  /\ source.catalog = Nothing
  /\ IsLocal(stmt, source) \/ Relation(source) \in DOMAIN model.relations

\* An unqualified name needs no relation of its own block: it is projected by
\* a local relation the statement refers to, or a column of every relation.
UnqualifiedAllowed(stmt, model, name) ==
  LET referenced ==
        {SourceAt(stmt, p).name : p \in Tables(stmt) \ Physical(stmt)}
          \cup {stmt.blocks[b].name : b \in Recorded(stmt, "derived")}
  IN \/ \E local \in referenced : name \in Projected(stmt, local)
     \/ \A relation \in RelationsUsed(stmt) : name \in model.relations[relation]

\* Qualifiers of physical relations come before query-local names.
QualifiedAllowed(stmt, model, column) ==
  IF Claims(stmt, column.qualifier) # {}
    THEN column.name \in model.relations[RelationBy(stmt, column.qualifier)]
    ELSE /\ column.qualifier \in LocalNames(stmt)
         /\ column.name \in Projected(stmt, column.qualifier)

ColumnAllowed(stmt, model, column) ==
  /\ column.name \notin model.denied
  /\ IF column.qualifier = Nothing
       THEN UnqualifiedAllowed(stmt, model, column.name)
       ELSE QualifiedAllowed(stmt, model, column)

Columns(stmt) == UNION {stmt.blocks[b].columns : b \in DOMAIN stmt.blocks}

\* The statement passes every check, in the code's order.
Accepted(stmt, model) ==
  /\ stmt.constructs = {}
  /\ \A p \in Tables(stmt) : TableAllowed(stmt, model, SourceAt(stmt, p))
  /\ RelationsUsed(stmt) # {}
  /\ \A column \in Columns(stmt) : ColumnAllowed(stmt, model, column)
  /\ stmt.functions \subseteq model.functions

Lesser(m, n) == IF m <= n THEN m ELSE n

\* Mutant: the bound replaces the LIMIT the statement has.
BoundedIgnoringLimit(stmt, maxRows, absoluteMaxRows) ==
  Lesser(maxRows, absoluteMaxRows)

\* The LIMIT of the statement that is executed.
BoundedRows(stmt, maxRows, absoluteMaxRows) ==
  LET bound == Lesser(maxRows, absoluteMaxRows)
  IN IF stmt.limit = {} THEN bound ELSE Lesser(bound, CHOOSE n \in stmt.limit : TRUE)
==============================================================================
