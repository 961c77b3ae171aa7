------------------------------ MODULE Analysis ------------------------------
(***************************************************************************)
(* A statement from its syntax tree to its findings, in either build: what *)
(* the extraction makes of the tree, or the token parser of its text, is   *)
(* what Check reviews (analyzer.Analyze calls one on the result of the     *)
(* other).                                                                 *)
(***************************************************************************)
EXTENDS Rules, Scopes, Rendering

CONSTANTS
  Nodes,     (* The syntax trees considered.                               *)
  Styles     (* The ways considered of writing them.                       *)

VARIABLES
  node,      (* The syntax tree of the statement reviewed.                 *)
  build,     (* "full", with cgo, or "core".                               *)
  style      (* How the statement is written, of which full sees nothing.  *)

(***************************************************************************)
(* A statement and what is nested in it, as a tree of Rules.               *)
(***************************************************************************)
Reviewed(stmt, nested, last) ==
  [field \in (DOMAIN Blank \cup {"last"}) \ {"object", "predicate"} |->
     CASE field = "relations" -> ToSet(stmt.relations)
       [] field = "nested" -> nested
       [] field = "last" -> last
       [] OTHER -> stmt[field]]

Moved(t, by) ==
  [i \in DOMAIN t |-> [t[i] EXCEPT !.last = @ + by, !.nested = [h \in DOMAIN @ |-> @[h] + by]]]

RECURSIVE TreeOf(_)
TreeOf(stmt) ==
  LET add(so, child) == [at   |-> Append(so.at, Len(so.tree) + 2),
                         tree |-> so.tree \o Moved(TreeOf(child), Len(so.tree) + 1)]
      all == FoldLeft(add, [at |-> << >>, tree |-> << >>], stmt.nested)
  IN  <<Reviewed(stmt, all.at, 1 + Len(all.tree))>> \o all.tree

(* What the build's parser makes of the statement.                         *)
Parse(n, b, st) ==
  IF b = "full" THEN extractStatementFromNode(n) ELSE parseStatementText(TokensOf(n, st))

(* A statement that the parser refuses is not reviewed.                    *)
AnalysisInit ==
  /\ node \in Nodes
  /\ \/ build = "full" /\ style = "plain"
     \/ build = "core" /\ style \in Styles
  /\ \E stmt \in {Parse(node, build, style)} :
       IF stmt.type = "ERROR" THEN pc = "rejected" /\ tree = << >>
       ELSE pc = "policy" /\ tree = TreeOf(stmt)
  /\ policy \in Policies
  /\ stack = << >> /\ answer = {}

AnalysisNext == Next /\ UNCHANGED <<node, build, style>>

AnalysisSpec == AnalysisInit /\ [][AnalysisNext]_<<node, build, style, vars>>

-----------------------------------------------------------------------------
(***************************************************************************)
(* Properties.                                                             *)
(***************************************************************************)
Written == {"delete", "update", "insert"}
WithoutWhere == [delete |-> "delete_without_where", update |-> "update_without_where"]

(* A query that reads plain tables only.                                   *)
Simple(q) == /\ q.kind = "select" /\ q.with = << >> /\ q.arms = << >>
             /\ \A i \in DOMAIN q.from : q.from[i].kind = "table"
Unnested(q) == Simple(q) /\ \A e \in ToSet(q.targets) : e.kind \in {"column", "star"}

First(items) == {items[i] : i \in DOMAIN items \cap {1}}

(* What the documents promise of the core build: what the statement itself *)
(* writes, the plain tables that an INSERT selects from, the first table   *)
(* of any other FROM clause.                                               *)
CoreReads ==
  CASE node.kind = "select" /\ node.arms = << >> ->
         {t \in First(node.from) : t.kind = "table"}
    [] node.kind = "insert" -> UNION {ToSet(q.from) : q \in {x \in ToSet(node.query) : Simple(x)}}
    [] node.kind = "copy"   -> ToSet(node.relation) \cup
         UNION {First(q.from) : q \in {x \in ToSet(node.query) : x.kind = "select" /\ Unnested(x)}}
    [] OTHER -> {}

CoreUses ==
  {Use("reads", Table(t), FALSE) : t \in CoreReads}
    \cup {Use(k, Table(node.relation), k # "insert" /\ node.where # << >>) :
             k \in {node.kind} \cap Written}
    \cup {u \in VisitedUses(node) : node.kind \in {"drop", "other"}}

UsesAs(kinds) ==
  {u \in IF build = "full" THEN VisitedUses(node) ELSE CoreUses : u.as \in kinds}

Reported(rule, name) == \E x \in answer : x.rule = rule /\ (name = << >> \/ x.about = name)

FullName(table) == table[1] \o table[2]

(* A DELETE or an UPDATE without a WHERE clause is reported wherever in a  *)
(* statement it stands: alone, or in WITH clauses, subqueries, INSERT or   *)
(* COPY at any depth.                                                      *)
UnboundedWritesReported ==
  pc = "done" =>
    \A u \in UsesAs({"delete", "update"}) :
      ~u.bounded => Reported(WithoutWhere[u.as], << >>)

(* A write to a protected table is reported under its name wherever in a   *)
(* statement it stands.                                                    *)
ProtectedWritesReported ==
  pc = "done" =>
    \A u \in UsesAs(Written) :
      IsProtectedTable(policy, FullName(u.table)) =>
        Reported("writes_to_protected_tables", FullName(u.table))

(* The names that common table expressions of the statement have.          *)
Defined == {normalizeName(FullName(u.table)) : u \in UsesAs({"defines"})}

(* The rule about the reads of such a statement, if there is one.          *)
ReadRule ==
  CASE node.kind = "select" /\ ~Bounded(node) -> "select_without_limit_from_protected_table"
    [] node.kind = "insert" -> "insert_select_from_protected_table"
    [] node.kind = "copy" /\ ~node.isFrom /\ (node.isProgram \/ ~node.isFile) ->
         "copy_to_stdout_or_program_from_protected_source"
    [] OTHER -> "none"

(* Reading a protected table in bulk is reported under its name, however   *)
(* deep in the SELECT, the INSERT or the COPY the table is read, unless a  *)
(* common table expression of the statement has the same name.             *)
ProtectedReadsReported ==
  pc = "done" /\ ReadRule # "none" =>
    \A u \in UsesAs({"reads"}) :
      LET name == FullName(u.table)
      IN  IsProtectedTable(policy, name) /\ normalizeName(name) \notin Defined =>
            Reported(ReadRule, name)

(* What the extraction cannot read, a function in a FROM clause or an      *)
(* unsupported statement, is never passed over in silence: wherever in the *)
(* statement it stands, a finding says that the analysis is incomplete.    *)
IncompleteReported ==
  pc = "done" /\ UsesAs({"unread"}) # {} =>
    Reported("semantic_analysis_incomplete", << >>)

(***************************************************************************)
(* The two builds.                                                         *)
(***************************************************************************)
(* A WHERE clause that core classifies as well as full: one that is not    *)
(* folded, TRUE, or 1 = 1.                                                 *)
PlainWhere(where) ==
  \A e \in ToSet(where) :
    classifyPredicate(e) \in {"always_true", "unknown"} =>
      TokensOf(e, "plain") \in {<<Word("TRUE")>>, <<Literal("1"), Sign("="), Literal("1")>>}

(* The statements that the documents say both builds handle alike.         *)
AtParity ==
  CASE node.kind \in {"delete", "update"} ->
         node.with = << >> /\ node.from = << >> /\ PlainWhere(node.where)
    [] node.kind = "insert" -> node.with = << >> /\ \A q \in ToSet(node.query) : Unnested(q)
    [] node.kind = "select" -> Unnested(node) /\ node.where = << >> /\ Len(node.from) = 1
    [] node.kind \in {"truncate", "alter_table", "drop_database", "grant_role"} -> TRUE
    [] node.kind = "drop"   -> Len(node.objects) = 1 \/ node.removes = "table"
    [] node.kind = "grant"  -> ~node.isGrant \/ (node.on \in {"table", "schema"} /\ ~node.all)
    [] node.kind = "default_privileges" -> node.isGrant
    [] OTHER -> FALSE

(* The rules that fire, and about what, that of incomplete analysis apart. *)
Evaluated(keys) == {k \in keys : k[1] # "semantic_analysis_incomplete"}

(* What the README and the capability matrix call parity: for such a       *)
(* statement the findings in core are those in full, in whatever way the   *)
(* statement is written.                                                   *)
ParityOfFindings ==
  build = "core" /\ pc \in {"done", "rejected"} /\ AtParity =>
    LET full == TreeOf(extractStatementFromNode(node))
    IN  Evaluated(Keys(answer)) =
          Evaluated(UNION {Keys(checkOne(full[k], policy)) : k \in DOMAIN full})

(* Core never takes a clause of a subquery for one of the statement: a     *)
(* DELETE or an UPDATE has a WHERE clause, and a SELECT is limited, only   *)
(* if the statement itself is.                                             *)
CoreBoundsAreOwn ==
  build = "core" /\ tree # << >> =>
    /\ node.kind \in {"delete", "update"} => (tree[1].hasWhere <=> node.where # << >>)
    /\ node.kind = "select" => (tree[1].hasLimit <=> node.limit)

=============================================================================
