---------------------------- MODULE MCQueryAnswer ----------------------------
(* Instances of QueryAnswer for TLC. *)
EXTENDS QueryAnswer, TLC

\* Two relations, of which the second lists one column more, and one without a
\* schema.
Model ==
  [relations |-> (<<"s", "a">> :> {"x"}) @@ (<<"s", "b">> :> {"x", "y"})
                   @@ (<<Nothing, "e">> :> {"x"}),
   denied |-> {"p"}, functions |-> {"count"}]

Table(relation, alias) ==
  [kind |-> "table", catalog |-> Nothing, schema |-> "s", name |-> relation, alias |-> alias]
Cte(alias) ==
  [kind |-> "table", catalog |-> Nothing, schema |-> Nothing, name |-> "c", alias |-> alias]
Bare == [Cte("e") EXCEPT !.name = "e"]
Derived ==
  [kind |-> "derived", catalog |-> Nothing, schema |-> Nothing, name |-> "d", alias |-> "d"]

Main(sources, columns) ==
  [role |-> "main", name |-> Nothing, select |-> TRUE, projects |-> {},
   columns |-> columns, sources |-> sources]
Inner(role, select, projects, columns, source) ==
  [role |-> role, name |-> CASE role = "cte" -> "c" [] role = "derived" -> "d" [] OTHER -> Nothing,
   select |-> select, projects |-> projects, columns |-> columns, sources |-> <<source>>]
Statement(constructs, functions, bound, blocks) ==
  [constructs |-> constructs, functions |-> functions, limit |-> bound, blocks |-> blocks]
Plain(blocks) == Statement({}, {}, {}, blocks)

Column(q, n) == [qualifier |-> q, name |-> n]
OneColumn(qualifiers, names) == {{Column(q, n)} : q \in qualifiers, n \in names}

\* A table of a schema that bears the name of the CTE.
Homonym == Table("c", "u")
Physicals == {Table(r, al) : r \in {"a", "b"}, al \in {"a", "b", "u"}}
Single == {<<s>> : s \in Physicals \cup {Cte("c"), Cte("u"), Bare, Derived, Homonym}}
Pairs == {<<s, t>> : s \in Physicals, t \in Physicals \cup {Cte("c"), Cte("u"), Bare, Derived, Homonym}}
MainBlocks ==
  {Main(from, columns) : from \in Single \cup Pairs,
     columns \in OneColumn({"", "a", "b", "u", "c", "d", "e"}, {"x", "y", "t"})}
InnerBlocks ==
  {Inner(role, select, projects, columns, source) :
     role \in {"cte", "derived", "nested"}, select \in BOOLEAN,
     projects \in {{"x"}, {"t"}}, columns \in OneColumn({"", "a", "u"}, {"x", "y"}),
     source \in {Table("a", "a"), Table("b", "b"), Table("b", "u")}}

Reads(block, kind) == \E i \in DOMAIN block.sources : block.sources[i].kind = kind

\* A main SELECT alone, beside one other block, and over two.
Shapes ==
  {Plain(<<m>>) : m \in {m \in MainBlocks : ~Reads(m, "derived")}}
  \cup {Plain(<<p[1], p[2]>>) : p \in {p \in MainBlocks \X InnerBlocks :
           Reads(p[1], "derived") <=> p[2].role = "derived"}}
  \cup {Plain(<<Main(<<Cte("c"), Derived>>, {Column(q, "x")}),
                Inner("cte", TRUE, p, {}, Table("a", "a")),
                Inner("derived", TRUE, {"t"}, {Column(r, n)}, s)>>) :
          q \in {"c", "d", "u"}, p \in {{"x"}, {"t"}}, r \in {"c", "b", "u"},
          n \in {"x", "y", "t"}, s \in {Cte("c"), Cte("u"), Table("b", "b")}}
  \cup {Plain(<<Main(<<Table("a", "a"), source>>, {Column(q, "x")}),
                Inner("cte", TRUE, {"x"}, {}, Table("a", "a")),
                [Inner("cte", select, p, {}, inner) EXCEPT !.name = other]>>) :
          source \in {Cte("c"), Cte("u"), Bare}, q \in {"c", "e", "u"},
          p \in {{"x"}, {"t"}}, select \in BOOLEAN,
          inner \in {Table("b", "b"), Cte("c"), Bare}, other \in {"c", "e", "u"}}

\* The checks that are not about names, and the LIMIT.
FromA == <<Main(<<Table("a", "a")>>, {Column("a", "x")})>>
Others ==
  {Statement(k, f, l, FromA) : k \in {{}, {"forbidden"}, {"computed_limit"}}, f \in {{}, {"count"}, {"sleep"}},
     l \in {{}, {0}, {1}, {3}}}
  \cup {Plain(<<Main(<<[Table("a", "a") EXCEPT !.catalog = "k"]>>, {})>>),
        Plain(<<Main(<<Table("a", "a")>>, {Column("a", "p")})>>),
        Plain(<<Main(<<Table("z", "z")>>, {})>>),
        Plain(<<Main(<<>>, {})>>)}

Config(default, absolute, summary) ==
  [model |-> Model,
   limits |-> [default_max_rows |-> default, absolute_max_rows |-> absolute,
               max_summary_rows |-> summary,
               max_question_length |-> 2, max_context_items |-> 1]]
Request(maxRows) == [question |-> 1, in_scope |-> TRUE, context |-> 1, max_rows |-> maxRows]

\* One call for the shapes of statements, many for the limits.
ShapeCall == [config |-> Config(2, 3, 2), request |-> Request(Default)]
LimitCalls ==
  {[config |-> Config(d, ab, su), request |-> Request(m)] :
     d \in {2, 4}, ab \in {1, 3}, su \in {0, 1, 2}, m \in {Default, 1, 2, 5}}
RefusedCalls ==
  {[config |-> Config(2, 3, 2),
    request |-> [question |-> q, in_scope |-> s, context |-> k, max_rows |-> 1]] :
     q \in {0, 3}, s \in BOOLEAN, k \in {0, 2}}

MCCalls == {ShapeCall} \cup LimitCalls \cup RefusedCalls
MCCandidates == [c \in MCCalls |-> IF c = ShapeCall THEN Shapes ELSE Others]
MCResults ==
  [c \in MCCalls |-> IF c = ShapeCall THEN {[found |-> 1, keys |-> {"x"}]}
                     ELSE [found : 0 .. 4, keys : {{"x"}, {"x", "p"}}]]
==============================================================================
