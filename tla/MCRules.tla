------------------------------ MODULE MCRules -------------------------------
(***************************************************************************)
(* Statements the parsers produce, alone and nested in common table        *)
(* expressions, under a range of policies.                                 *)
(***************************************************************************)
EXTENDS Rules

MCIdentifiers ==
  {"users", "Users", "logs", "pii", "public", "admin", "auditor", "pg_monitor"}
MCLower == [x \in MCIdentifiers |-> IF x = "Users" THEN "users" ELSE x]

MCReasons ==
  EscalatingReasons \cup {"core_mode_token_parser", "sublink_unrecognized",
                          "grant_partial_object_type"}

-----------------------------------------------------------------------------
Bare ==
  [type |-> "OTHER", relations |-> {}, table |-> << >>, schema |-> << >>,
   completeness |-> "complete", reasons |-> << >>,
   hasWhere |-> FALSE, whereTrivial |-> FALSE, hasLimit |-> FALSE, selectAll |-> FALSE,
   dropColumn |-> FALSE, dropConstraint |-> FALSE, dropNotNull |-> FALSE,
   copyToStdout |-> FALSE, copyToProgram |-> FALSE, isGrantToPublic |-> FALSE,
   isRoleMembershipGrant |-> FALSE, grantedRoles |-> {}, nested |-> << >>, last |-> 1]

Rel(schema, name, role) == [schema |-> schema, name |-> name, role |-> role]

users    == <<"users">>
piiUsers == Rel(<<"pii">>, <<"Users">>, "write")

On(type, rel) ==
  [Bare EXCEPT !.type = type, !.relations = {rel}, !.table = QualifiedName(rel),
               !.schema = rel.schema]

Deletes ==
  LET d == On("DELETE", Rel(<< >>, users, "write"))
  IN  {d, [d EXCEPT !.hasWhere = TRUE],
       [d EXCEPT !.hasWhere = TRUE, !.whereTrivial = TRUE],
       [d EXCEPT !.hasWhere = TRUE, !.completeness = "partial",
                 !.reasons = <<"predicate_classification_unknown">>],
       [d EXCEPT !.hasWhere = TRUE, !.completeness = "partial",
                 !.reasons = <<"sublink_unrecognized">>]}

Updates ==
  LET u == On("UPDATE", piiUsers)
  IN  {u, [u EXCEPT !.hasWhere = TRUE, !.whereTrivial = TRUE],
       [u EXCEPT !.hasWhere = TRUE, !.completeness = "partial",
                 !.reasons = <<"unsupported_from_item">>,
                 !.relations = @ \cup {Rel(<< >>, <<"logs">>, "read")}]}

Inserts ==
  {[On("INSERT", Rel(<< >>, <<"logs">>, "write")) EXCEPT
      !.relations = @ \cup {Rel(<<"public">>, users, "read")}]}

(* The statements that write, which are also nested in others below.       *)
Writes == Deletes \cup Updates \cup Inserts

Selects ==
  LET q == On("SELECT", Rel(<<"pii">>, <<"logs">>, "read"))
  IN  {q, [q EXCEPT !.hasLimit = TRUE, !.selectAll = TRUE], Bare,
       [q EXCEPT !.completeness = "partial", !.reasons = <<"core_mode_token_parser">>]}

Definitions ==
  LET a == On("ALTER_TABLE", piiUsers)
      core == <<"core_mode_token_parser", "unsupported_statement_in_core_mode">>
  IN  {On("DROP_TABLE", Rel(<< >>, users, "write")),
       On("TRUNCATE", Rel(<< >>, users, "write")),
       [Bare EXCEPT !.type = "DROP_SCHEMA", !.schema = <<"pii">>,
                    !.relations = {Rel(<<"pii">>, << >>, "target")}],
       [Bare EXCEPT !.type = "DROP_DATABASE"],
       [a EXCEPT !.dropNotNull = TRUE],
       [a EXCEPT !.type = "ALTER_TABLE_DROP_COLUMN", !.dropColumn = TRUE,
                 !.dropConstraint = TRUE],
       [Bare EXCEPT !.type = "ALTER_DEFAULT_PRIVILEGES", !.isGrantToPublic = TRUE],
       [Bare EXCEPT !.completeness = "unsupported", !.reasons = core],
       [Bare EXCEPT !.completeness = "unsupported",
                    !.reasons = <<"unsupported_drop_object_type">>]}

Grants ==
  LET g == [On("GRANT", Rel(<<"pii">>, <<"logs">>, "target")) EXCEPT !.isGrantToPublic = TRUE]
      m == [Bare EXCEPT !.type = "GRANT", !.isRoleMembershipGrant = TRUE]
  IN  {g, [g EXCEPT !.isGrantToPublic = FALSE],
       [Bare EXCEPT !.type = "GRANT", !.isGrantToPublic = TRUE, !.schema = <<"pii">>,
                    !.relations = {Rel(<<"pii">>, << >>, "target")}],
       [m EXCEPT !.grantedRoles = {"admin", "auditor"}],
       [m EXCEPT !.grantedRoles = {"auditor", "pg_monitor"}],
       [Bare EXCEPT !.type = "REVOKE"]}

Copies ==
  LET c == On("COPY", Rel(<<"public">>, users, "read"))
  IN  {[c EXCEPT !.copyToStdout = TRUE], [c EXCEPT !.copyToProgram = TRUE], c}

-----------------------------------------------------------------------------
(***************************************************************************)
(* Nesting.  The parent takes over the relations and the reasons of what   *)
(* is nested in it (mergeSemantic), and the positions shift.               *)
(***************************************************************************)
Shift(t, k) ==
  [i \in DOMAIN t |-> [t[i] EXCEPT !.last = @ + k,
                                   !.nested = [h \in DOMAIN @ |-> @[h] + k]]]

Merged(stmt, child) ==
  LET worse == IF child.completeness = "complete" THEN stmt.completeness ELSE child.completeness
      more  == SelectSeq(child.reasons, LAMBDA r : ~Contains(stmt.reasons, r))
  IN  [stmt EXCEPT !.relations = @ \cup child.relations, !.completeness = worse,
                   !.reasons = @ \o more]

(* A statement without a table takes its first written relation for one    *)
(* (syncConvenienceFields), here any of them.                              *)
Synced(stmt) ==
  LET written == {r \in stmt.relations : r.role = "write"}
      primary == CHOOSE r \in written : TRUE
  IN  IF stmt.table # << >> \/ written = {} THEN stmt
      ELSE [stmt EXCEPT !.table = QualifiedName(primary), !.schema = primary.schema]

With(stmt, t) ==
  <<[Synced(Merged(stmt, t[1])) EXCEPT !.nested = <<2>>, !.last = 1 + Len(t)]>>
    \o Shift(t, 1)

WithTwo(stmt, t, u) ==
  <<[Synced(Merged(Merged(stmt, t[1]), u[1])) EXCEPT
       !.nested = <<2, 2 + Len(t)>>, !.last = 1 + Len(t) + Len(u)]>>
    \o Shift(t, 1) \o Shift(u, 1 + Len(t))

(* SELECT count( * ) FROM d, for a common table expression d.              *)
Outer == [Bare EXCEPT !.type = "SELECT"]

Leaves == {<<x>> : x \in Writes \cup Selects \cup Definitions \cup Grants \cup Copies}

MCTrees ==
  LET inner == {<<x>> : x \in Writes}
      once  == {With(Outer, t) : t \in inner}
      d     == On("DELETE", Rel(<< >>, <<"logs">>, "write"))
  IN  Leaves \cup once
        \cup {With(d, t) : t \in inner}
        \cup {With(Outer, t) : t \in once}
        \cup {WithTwo(Outer, t, u) : t \in once, u \in {<<x>> : x \in Deletes}}

-----------------------------------------------------------------------------
Protecting(tables, schemas, roles) ==
  [dialect |-> "", tables |-> tables, schemas |-> schemas, roles |-> roles,
   rules |-> << >>]

MCPolicies ==
  LET all == Protecting({<<"Users">>, <<"pii", "users">>}, {<<"pii">>}, {"admin"})
  IN  {DefaultPolicy, all,
       Protecting({<<"public", "users">>}, {}, {"auditor"}),
       [all EXCEPT !.rules = [semantic_analysis_incomplete |-> "warn",
                              delete_without_where |-> "allow"]],
       [all EXCEPT !.rules = [semantic_analysis_incomplete |-> "allow",
                              writes_to_protected_tables |-> "block"]],
       [all EXCEPT !.rules = [delete_without_where |-> "Block"]],
       [all EXCEPT !.rules = [delete_without_were |-> "allow"]],
       [all EXCEPT !.dialect = "mysql"]}

=============================================================================
