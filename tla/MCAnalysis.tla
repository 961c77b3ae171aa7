---------------------------- MODULE MCAnalysis ------------------------------
EXTENDS Analysis
S == INSTANCE Samples

(* The keywords are names too.  In lower case only PUBLIC is one that the  *)
(* samples use; the others stand for themselves.                           *)
Keywords ==
  {"ADD", "ADMIN", "ALL", "ALTER", "AS", "ASC", "BY", "CASCADE", "COALESCE", "COLUMN", "CONSTRAINT",
   "COPY", "CURRENT_USER", "DATABASE", "DEFAULT", "DELETE", "DO", "DROP", "EXISTS", "FALSE",
   "FETCH", "FIRST", "FOR", "FROM", "FUNCTION", "FUNCTIONS", "GRANT", "IF", "IN", "INDEX",
   "INSERT", "INTO", "JOIN", "LIMIT", "NOT", "NULL", "ON", "ONLY", "OPTION", "ORDER",
   "PRIVILEGES", "PROGRAM", "PUBLIC", "RETURNING", "REVOKE", "ROLE", "ROWS", "SCHEMA",
   "SELECT", "SET", "STDIN", "STDOUT", "TABLE", "TABLES", "TO", "TRUE", "TRUNCATE", "UNION",
   "UPDATE", "USING", "VALUES", "WHERE", "WITH"}

MCFloats  == -8..8
MCMillion == 8

MCNames == S!Names \cup Keywords \cup {"id", "int", "now", "t", "someone", "current_user"}
MCLower == [n \in MCNames |-> CASE n \in S!Names -> S!Lower[n] [] n = "PUBLIC" -> "public"
                                [] OTHER -> n]

(* Named apart, so that TLC evaluates it once.                             *)
Sampled == S!Everything(S!Conditions)
MCExprs == Sampled
MCNesting[e \in MCExprs] ==
  IF e.args = << >> THEN 0 ELSE 1 + Max({MCNesting[e.args[i]] : i \in DOMAIN e.args})

MCNodes ==
  S!Selects \cup S!Manipulations \cup S!Copies \cup S!Definitions \cup S!Grants
    \cup {S!With(q, w) : q \in S!Plains, w \in {<<S!Cte("x", m)>> : m \in S!Writers}}

MCStyles == {"plain", "wordy"}
Terse    == {"terse"}

MCTrees   ==
  LET core == {Parse(n, "core", st) : n \in MCNodes, st \in Styles}
  IN  {TreeOf(extractStatementFromNode(n)) : n \in MCNodes}
        \cup {TreeOf(stmt) : stmt \in {x \in core : x.type # "ERROR"}}
MCReasons == UNION {UNION {ToSet(t[i].reasons) : i \in DOMAIN t} : t \in MCTrees}

Protecting(tables, schemas) ==
  [DefaultPolicy EXCEPT !.tables = tables, !.schemas = schemas]

MCPolicies ==
  {Protecting({<<"Users">>}, {}), Protecting({<<"public", "logs">>, <<"logs">>}, {<<"pii">>}),
   [Protecting({<<"users">>}, {}) EXCEPT !.rules = [delete_without_where |-> "allow"]]}

=============================================================================
