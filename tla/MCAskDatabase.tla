---------------------------- MODULE MCAskDatabase ----------------------------
(* Instances of AskDatabase for TLC. *)
EXTENDS AskDatabase

CONSTANTS r1, r2, read, sql, s1, s2

Grant2 == {read, sql}

\* The usual configuration, and a later one that accepts another statement,
\* demands both grants, shows SQL by default, but names a dialect without
\* adapter or a provider the code does not know.
Usual ==
  [required |-> {read}, viewer |-> sql, allowSql |-> FALSE, allowed |-> {s1},
   provider |-> TRUE, dialect |-> TRUE]
NoAdapter ==
  [required |-> {read, sql}, viewer |-> sql, allowSql |-> TRUE, allowed |-> {s2},
   provider |-> TRUE, dialect |-> FALSE]
NoProvider == [Usual EXCEPT !.provider = FALSE]

AllConfigs == {Usual, NoAdapter, NoProvider}
==============================================================================
