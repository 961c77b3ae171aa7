------------------------------- MODULE Scopes -------------------------------
(***************************************************************************)
(* What a statement uses according to SQL, by its scoping rules, whatever  *)
(* the extraction makes of it.                                             *)
(***************************************************************************)
EXTENDS Extraction

(***************************************************************************)
(* What a syntax tree uses, in SQL.  The names of common table expressions *)
(* in scope are those of the WITH clauses around; a query of a WITH clause *)
(* sees the names before its own.  In the context, all says whether to     *)
(* look also into the expressions that the extraction does not visit.      *)
(***************************************************************************)
Use(as, table, bounded) == [as |-> as, table |-> table, bounded |-> bounded]

Defining(c, with, n) == [c EXCEPT !.scope = @ \cup {with[i].name : i \in 1..n}]

Table(rv) == <<rv.schema, rv.name>>

Queries == {"select", "insert", "delete", "update"}

RECURSIVE Uses(_, _)
Every(seq, c) == UNION {Uses(seq[i], c) : i \in DOMAIN seq}

WithUses(with, c) ==
  UNION {Uses(with[i].query, Defining(c, with, i - 1))
           \cup {Use("defines", << << >>, <<with[i].name>> >>, FALSE)} : i \in DOMAIN with}

ExprUses(e, c) ==
  (IF e.kind = "sublink" THEN Uses(e.query, c) ELSE {})
    \cup (IF c.all \/ e.kind \in WalkedUnder THEN Every(e.args, c) ELSE {})

ItemUses(item, c) ==
  CASE item.kind = "table" ->
         LET isCte == item.schema = << >> /\ item.name[1] \in c.scope
         IN  {Use(IF isCte THEN "cte" ELSE "reads", Table(item), FALSE)}
    [] item.kind = "join" -> Uses(item.left, c) \cup Uses(item.right, c)
                               \cup Every(item.on, c)
    [] item.kind = "subquery" -> Uses(item.query, c)
    [] item.kind = "function" -> {Use("unread", << >>, FALSE)}

QueryUses(node, c) ==
  LET in     == Defining(c, node.with, Len(node.with))
      hidden == IF c.all THEN Every(node.rest, in) ELSE {}
  IN  WithUses(node.with, c) \cup hidden \cup
      CASE node.kind = "select" ->
             Every(node.arms, in) \cup Every(node.from, in)
               \cup Every(node.where \o node.targets, in)
        [] node.kind = "insert" ->
             Every(node.query, in) \cup {Use("insert", Table(node.relation), FALSE)}
        [] node.kind \in {"delete", "update"} ->
             Every(node.from, in)
               \cup {Use(node.kind, Table(node.relation), node.where # << >>)}
               \cup (IF c.all THEN Every(node.where, in) ELSE {})

CopyUses(node, c) ==
  Every(SelectSeq(node.query, LAMBDA q : q.kind = "select"), c)
    \cup IF node.isFrom THEN {}
         ELSE {Use("reads", Table(node.relation[i]), FALSE) : i \in DOMAIN node.relation}

Uses(node, c) ==
  CASE node.kind \in Queries -> QueryUses(node, c)
    [] node.kind = "copy" -> CopyUses(node, c)
    [] node.kind = "other" -> {Use("unread", << >>, FALSE)}
    [] node.kind = "drop" -> {Use("unread", << >>, FALSE) :
                                x \in {node.removes} \ {"table", "schema"}}
    [] node.kind \in DOMAIN TypeOf \ (Queries \cup {"copy", "drop", "other"}) -> {}
    [] node.kind \in FromItems -> ItemUses(node, c)
    [] OTHER -> ExprUses(node, c)

VisitedUses(node) == Uses(node, [scope |-> {}, all |-> FALSE])
AllUses(node)     == Uses(node, [scope |-> {}, all |-> TRUE])

TablesOf(uses, as) == {u.table : u \in {x \in uses : x.as = as}}

(* What limits the rows of a SELECT.                                       *)
RECURSIVE Bounded(_), EveryArmLimited(_)
Bounded(q) ==
  \/ q.limit
  \/ q.arms # << >> /\ \A i \in 1..2 : Bounded(q.arms[i])

EveryArmLimited(q) == IF q.arms = << >> THEN q.limit
                      ELSE \A i \in 1..2 : EveryArmLimited(q.arms[i])

=============================================================================
