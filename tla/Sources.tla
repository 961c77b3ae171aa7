------------------------------ MODULE Sources -------------------------------
(***************************************************************************)
(* Parse of internal/parser/parse_cgo.go on the statements of a file whose *)
(* text has been parsed, and what the statements it extracts must say,     *)
(* by the scoping rules of SQL.                                            *)
(***************************************************************************)
EXTENDS Scopes

CONSTANT Files   (* Sequences of syntax trees.                             *)

VARIABLES
  file,          (* The syntax trees of the file's statements.             *)
  stmts          (* The statements extracted from them so far.             *)

vars == <<file, stmts>>

Init == file \in Files /\ stmts = << >>

ExtractNext ==
  /\ Len(stmts) < Len(file)
  /\ stmts' = Append(stmts, extractStatementFromNode(file[Len(stmts) + 1]))
  /\ UNCHANGED file

Done == Len(stmts) = Len(file) /\ UNCHANGED vars

Next == ExtractNext \/ Done

Spec == Init /\ [][Next]_vars

-----------------------------------------------------------------------------
(***************************************************************************)
(* Properties, of each statement extracted from its syntax tree.           *)
(***************************************************************************)
OfEach(P(_, _)) == \A i \in DOMAIN stmts : P(file[i], stmts[i])

RECURSIVE Within(_)
Within(stmt) == {stmt} \cup UNION {Within(stmt.nested[i]) : i \in DOMAIN stmt.nested}

Found(stmt, role) == {<<r.schema, r.name>> : r \in {x \in ToSet(stmt.relations) : x.role = role}}

lowered(t) == <<t[1], <<lower[t[2][1]]>>>>

(* The statement's relations are those it reads, however deep in joins,    *)
(* subqueries, set operations and WITH clauses.  It is wrong about a name  *)
(* only if it is one the statement gives to a common table expression.     *)
ReadsResolved ==
  OfEach(LAMBDA node, stmt :
    LET uses == VisitedUses(node)
        sql  == TablesOf(uses, "reads")
        wrong == (sql \ Found(stmt, "read")) \cup (Found(stmt, "read") \ sql)
    IN  {lowered(t) : t \in wrong} \subseteq {lowered(t) : t \in TablesOf(uses, "defines")})

(* A DELETE, UPDATE or INSERT in a WITH clause, at any depth, is among the *)
(* nested statements, with the table it writes and with or without a WHERE *)
(* clause as written.  The predicate of a DELETE or an UPDATE is that of   *)
(* its own WHERE clause, whatever is nested in its FROM and WITH clauses.  *)
MutationsKept ==
  OfEach(LAMBDA node, stmt :
    /\ \A u \in {x \in VisitedUses(node) : x.as \in {"delete", "update", "insert"}} :
         \E s \in Within(stmt) : /\ s.type = TypeOf[u.as] /\ u.table \in Found(s, "write")
                                 /\ s.hasWhere = u.bounded
    /\ node.kind \in {"delete", "update"} /\ node.where # << >> =>
         stmt.predicate = classifyPredicate(node.where[1]))

(* A SELECT is called limited only if what it returns is: by its own LIMIT *)
(* or by one in every arm of its set operations; and it is called so when  *)
(* it has a LIMIT itself or every SELECT in its set operations has one: an *)
(* arm that is itself a limited set operation does not count.              *)
LimitIsOfTheWhole ==
  OfEach(LAMBDA node, stmt :
    node.kind = "select" =>
      /\ stmt.hasLimit => Bounded(node)
      /\ node.limit \/ EveryArmLimited(node) => stmt.hasLimit)

-----------------------------------------------------------------------------
(***************************************************************************)
(* What the documents say and the code does not keep.                      *)
(***************************************************************************)
(* Common table expressions and subqueries are resolved accurately: each   *)
(* table read by a FROM clause of a statement that writes none is among    *)
(* the relations of an analysis called complete.  Names that differ from a *)
(* table expression's only in their capitals are not asked about.          *)
CteScopesKept ==
  OfEach(LAMBDA node, stmt :
    LET uses == VisitedUses(node)
        alike(t) == {d \in TablesOf(uses, "defines") : d # t /\ lowered(d) = lowered(t)}
    IN  stmt.completeness = "complete" /\ {u.as : u \in uses} \subseteq {"reads", "cte", "defines"} =>
          \A t \in TablesOf(uses, "reads") : t \in Found(stmt, "read") \/ alike(t) # {})

(* An analysis called complete has found the tables of every subquery,     *)
(* those in VALUES ((SELECT ...)) included.                                *)
CompleteMeansAll ==
  OfEach(LAMBDA node, stmt :
    stmt.completeness = "complete" =>
      TablesOf(AllUses(node), "reads") \subseteq
        Found(stmt, "read") \cup TablesOf(AllUses(node), "defines"))

=============================================================================
