----------------------------- MODULE Extraction -----------------------------
(***************************************************************************)
(* From the syntax tree of one SQL statement to the statement the rules    *)
(* review: internal/parser/ast_extract_cgo.go.                             *)
(*                                                                         *)
(* A node is a record with its kind; the syntax trees are those of         *)
(* pg_query, so that the branches for missing nodes are left out.  A list  *)
(* of the syntax is a sequence, and so is what may be absent.  rest holds  *)
(* the expressions the extraction never looks at: those of SET, RETURNING, *)
(* VALUES, GROUP BY, HAVING, ORDER BY and the like.                        *)
(***************************************************************************)
EXTENDS Predicate, Policy, Statements

addRangeVar(stmt, rv, role) == addRelation(stmt, rv.schema, rv.name, role)

addRangeVars(stmt, rvs, role) ==
  FoldLeft(LAMBDA s, rv : addRangeVar(s, rv, role), stmt, rvs)

addSchemas(stmt, names) ==
  FoldLeft(LAMBDA s, n : [addRelation(s, n.name, << >>, "target")
                            EXCEPT !.schema = n.name, !.object = n.name], stmt, names)

(* Mutants: only the relations are passed on, or only the incompleteness.  *)
mergeSemantic_Relations(dst, src) ==
  FoldLeft(LAMBDA s, r : addRelation(s, r.schema, r.name, r.role), dst, src.relations)

mergeSemantic_Reasons(dst, src) ==
  IF src.completeness = "unsupported" THEN Unsupported(dst, src.reasons[1])
  ELSE FoldLeft(Partial, dst, src.reasons)

(* A nested statement's relations and incompleteness are its parent's too, *)
(* its projection and its limit are not.                                   *)
mergeSemantic(dst, src) ==
  LET with == FoldLeft(LAMBDA s, r : addRelation(s, r.schema, r.name, r.role),
                       dst, src.relations)
  IN  CASE src.completeness = "unsupported" -> Unsupported(with, src.reasons[1])
        [] src.completeness = "partial" -> FoldLeft(Partial, with, src.reasons)
        [] OTHER -> with

-----------------------------------------------------------------------------
(***************************************************************************)
(* The walk.  It works on a statement and on cteNames, the map of the      *)
(* names of common table expressions in lower case.  A map is passed by    *)
(* reference: what an inner SELECT adds, the outer one sees; but there may *)
(* be none (nil), and then the inner SELECT that needs one makes its own.  *)
(***************************************************************************)
NoMap == [made |-> FALSE, has |-> {}]
NewMap == [made |-> TRUE, has |-> {}]

Walk(stmt, names) == [stmt |-> stmt, names |-> names]
On(w, stmt)       == [w EXCEPT !.stmt = stmt]

TmpSelect == [Blank EXCEPT !.type = "SELECT"]

(* The expressions under which walkExpressionRelations looks.              *)
WalkedUnder == LookedUnder \cup {"call", "list"}

FromItems == {"table", "join", "subquery", "function"}

IsStar(target) == target.kind = "star"
selectListHasStar(targets) == \E i \in DOMAIN targets : IsStar(targets[i])

RECURSIVE selectArmBounded(_)
selectArmBounded(q) ==
  IF q.arms = << >> THEN q.limit
  ELSE selectArmBounded(q.arms[1]) /\ selectArmBounded(q.arms[2])

(* The functions that walk call each other through walk, which dispatches  *)
(* on the kind of a node.                                                  *)
RECURSIVE walk(_, _)

walkEach(w, nodes) == FoldLeft(walk, w, nodes)

(* A SELECT in a FROM clause or an expression.                             *)
subselect(w, query) ==
  LET t == walk(Walk(TmpSelect, w.names), query)
  IN  Walk([mergeSemantic(w.stmt, t.stmt) EXCEPT !.nested = Append(@, t.stmt)], t.names)

(* Mutant: what is nested in it goes with it.                              *)
inlineSelect_Drops(stmt, query) ==
  mergeSemantic(stmt, walk(Walk(TmpSelect, NoMap), query).stmt)

(* The SELECT of an INSERT or a COPY: only what is nested in it is kept.   *)
inlineSelect(stmt, query) ==
  LET t == walk(Walk(TmpSelect, NoMap), query).stmt
  IN  [mergeSemantic(stmt, t) EXCEPT !.nested = @ \o t.nested]

walkExpressionRelations(w, e) ==
  CASE e.kind = "sublink"        -> subselect(w, e.query)
    [] e.kind \in WalkedUnder    -> walkEach(w, e.args)
    [] OTHER                     -> w

(* Mutant: the schema of a name is not looked at.                          *)
IsCte_AnySchema(names, rv) == names.made /\ lower[rv.name[1]] \in names.has

IsCte(names, rv) == names.made /\ lower[rv.name[1]] \in names.has /\ rv.schema = << >>

walkFromItem(w, item) ==
  CASE item.kind = "table" -> IF IsCte(w.names, item) THEN w
                              ELSE On(w, addRangeVar(w.stmt, item, "read"))
    [] item.kind = "join" ->
         walkEach(walk(walk(w, item.left), item.right), item.on)
    [] item.kind = "subquery" -> subselect(w, item.query)
    [] item.kind = "function" -> On(w, Partial(w.stmt, "unsupported_from_item"))

TypeOf ==
  [delete |-> "DELETE", update |-> "UPDATE", select |-> "SELECT", insert |-> "INSERT",
   truncate |-> "TRUNCATE", drop |-> "OTHER", drop_database |-> "DROP_DATABASE",
   alter_table |-> "ALTER_TABLE", default_privileges |-> "ALTER_DEFAULT_PRIVILEGES",
   grant |-> "GRANT", grant_role |-> "GRANT", copy |-> "COPY", other |-> "OTHER"]

extractStatementFromNode(node) ==
  LET s == [Blank EXCEPT !.predicate = "absent", !.type = TypeOf[node.kind]]
      e == walk(Walk(s, NoMap), node).stmt
  IN  syncConvenienceFields([e EXCEPT !.reasons = ensureReasonsBounded(@)])

(* A common table expression's own query knows none of the others' names.  *)
walkCte(w, cte) ==
  LET nested == extractStatementFromNode(cte.query)
  IN  [stmt  |-> [mergeSemantic(w.stmt, nested) EXCEPT !.nested = Append(@, nested)],
       names |-> [w.names EXCEPT !.has = @ \cup {lower[cte.name]}]]

walkWithClauseInto(w, with) == FoldLeft(walkCte, w, with)
walkWithClause(stmt, with)  == walkWithClauseInto(Walk(stmt, NewMap), with).stmt

(* Mutant: the flag of the arms is left in the parent.                     *)
boundedSetOperation_Leaks(before, after, q) == after.hasLimit \/ q.limit

boundedSetOperation(before, after, q) ==
  \/ before.hasLimit \/ q.limit
  \/ selectArmBounded(q.arms[1]) /\ selectArmBounded(q.arms[2])

setOperation(w, q) ==
  LET a == walkEach(w, q.arms)
  IN  On(a, [a.stmt EXCEPT !.hasLimit = boundedSetOperation(w.stmt, a.stmt, q),
                           !.selectAll = @ \/ selectListHasStar(q.targets)])

(* Of the clauses of a SELECT, FROM, WHERE and the targets are walked.     *)
plainSelect(w, q) ==
  LET s == [w.stmt EXCEPT !.selectAll = selectListHasStar(q.targets), !.hasLimit = q.limit]
      a == walkEach(On(w, s), q.from)
      b == On(a, [a.stmt EXCEPT !.predicate =
                    IF q.where # << >> /\ @ = "absent" THEN "non_trivial" ELSE @])
  IN  walkEach(b, q.where \o q.targets)

extractSelectBody(w, q) ==
  LET own  == IF q.with # << >> /\ ~w.names.made THEN NewMap ELSE w.names
      with == walkWithClauseInto([w EXCEPT !.names = own], q.with)
      done == IF q.arms # << >> THEN setOperation(with, q) ELSE plainSelect(with, q)
  IN  IF w.names.made THEN done ELSE [done EXCEPT !.names = NoMap]

-----------------------------------------------------------------------------
(***************************************************************************)
(* The statements.                                                         *)
(***************************************************************************)
(* DELETE and UPDATE: the WHERE clause is classified but not walked.       *)
extractMutation(stmt, node) ==
  LET written == addRangeVar(stmt, node.relation, "write")
      from    == walkEach(Walk(written, NoMap), node.from).stmt
  IN  walkWithClause(applyPredicate(from, node.where), node.with)

extractInsert(stmt, node) ==
  LET written == addRangeVar(stmt, node.relation, "write")
  IN  walkWithClause(FoldLeft(inlineSelect, written, node.query), node.with)

extractCopy(stmt, node) ==
  LET role  == IF node.isFrom THEN "write" ELSE "read"
      table == addRangeVars([stmt EXCEPT
                 !.copyToProgram = node.isProgram /\ ~node.isFrom,
                 !.copyToStdout  = ~node.isFrom /\ ~node.isProgram /\ ~node.isFile],
                 node.relation, role)
      read(s, q) == IF q.kind = "select" THEN inlineSelect(s, q)
                    ELSE Partial(s, "copy_query_unrecognized_shape")
  IN  FoldLeft(read, table, node.query)

extractDrop(stmt, node) ==
  CASE node.removes = "table"  -> addRangeVars([stmt EXCEPT !.type = "DROP_TABLE"],
                                               node.objects, "write")
    [] node.removes = "schema" -> addSchemas([stmt EXCEPT !.type = "DROP_SCHEMA"],
                                             node.objects)
    [] OTHER -> Unsupported([stmt EXCEPT !.type = "OTHER"], "unsupported_drop_object_type")

extractAlterTable(stmt, node) ==
  [addRangeVar(stmt, node.relation, "write") EXCEPT
     !.type = IF "drop column" \in node.cmds THEN "ALTER_TABLE_DROP_COLUMN" ELSE @,
     !.dropColumn     = "drop column" \in node.cmds,
     !.dropConstraint = "drop constraint" \in node.cmds,
     !.dropNotNull    = "drop not null" \in node.cmds]

(* The privileges on ALL TABLES of schemas come as those on tables, whose  *)
(* names are not range variables.                                          *)
applyGrantCommon(stmt, node) ==
  LET public  == Contains(node.grantees, "public")
      unnamed == Contains(node.grantees, "current_user")
      s == [stmt EXCEPT !.isGrantToPublic = public]
      g == IF unnamed THEN Partial(s, "grant_unrecognized_grantee") ELSE s
  IN  CASE node.on = "table" /\ node.all -> Partial(g, "grant_table_unrecognized_object")
        [] node.on = "table" /\ ~node.all -> addRangeVars(g, node.objects, "target")
        [] node.on = "schema" -> addSchemas(g, node.objects)
        [] node.on = "database" -> [g EXCEPT !.object = Last(node.objects).name]
        [] OTHER -> IF node.all THEN addSchemas(g, node.objects)
                    ELSE IF node.objects = << >> THEN g
                    ELSE Partial(g, "grant_partial_object_type")

extractRevoke(stmt, node) ==
  LET s == [stmt EXCEPT !.type = "REVOKE"]
      name == Last(node.objects).name
  IN  CASE node.on = "table" /\ node.all -> Partial(s, "revoke_table_unrecognized_object")
        [] node.on = "table" /\ ~node.all -> addRangeVars(s, node.objects, "target")
        [] node.on = "schema" -> [s EXCEPT !.schema = name, !.object = name]
        [] OTHER -> Partial(s, "revoke_partial_object_type")

extractGrant(stmt, node) ==
  IF node.isGrant THEN applyGrantCommon(stmt, node) ELSE extractRevoke(stmt, node)

extractGrantRole(stmt, node) ==
  LET g == [stmt EXCEPT !.isRoleMembershipGrant = TRUE,
                        !.grantedRoles = {lower[r] : r \in node.roles},
                        !.isGrantToPublic = Contains(node.grantees, "public")]
  IN  IF ~node.isGrant THEN [stmt EXCEPT !.type = "REVOKE"]
      ELSE IF Contains(node.grantees, "current_user")
      THEN Partial(g, "grant_role_unrecognized_grantee") ELSE g

extractStatement(s, node) ==
  CASE node.kind \in {"delete", "update"} -> extractMutation(s, node)
    [] node.kind = "insert"        -> extractInsert(s, node)
    [] node.kind = "truncate"      -> addRangeVars(s, node.relations, "write")
    [] node.kind = "drop"          -> extractDrop(s, node)
    [] node.kind = "drop_database" -> [s EXCEPT !.object = node.name]
    [] node.kind = "alter_table"   -> extractAlterTable(s, node)
    [] node.kind = "default_privileges" -> applyGrantCommon(s, node)
    [] node.kind = "grant"         -> extractGrant(s, node)
    [] node.kind = "grant_role"    -> extractGrantRole(s, node)
    [] node.kind = "copy"          -> extractCopy(s, node)
    [] node.kind = "other"         -> Unsupported(s, "unsupported_statement_type")

walk(w, node) ==
  CASE node.kind = "select" -> extractSelectBody(w, node)
    [] node.kind \in DOMAIN TypeOf \ {"select"} -> On(w, extractStatement(w.stmt, node))
    [] node.kind \in FromItems -> walkFromItem(w, node)
    [] OTHER -> walkExpressionRelations(w, node)

=============================================================================
