----------------------------- MODULE Rendering ------------------------------
(***************************************************************************)
(* How the statement of a syntax tree is written in SQL, as the tokens of  *)
(* its text.  SQL leaves the writer a choice: optional words may be there  *)
(* (the style "wordy") or not ("plain"), and a table may have an alias and *)
(* DROP COLUMN be called DROP ("terse").                                   *)
(***************************************************************************)
EXTENDS CoreParser

W(word) == <<Word(word)>>
Ws(words) == [i \in DOMAIN words |-> Word(words[i])]
Parens(tokens) == <<Sign("(")>> \o tokens \o <<Sign(")")>>

Separated(seqs, sign) ==
  FlattenSeq([i \in DOMAIN seqs |-> IF i = 1 THEN seqs[i] ELSE <<Sign(sign)>> \o seqs[i]])
Commas(seqs) == Separated(seqs, ",")

When(condition, tokens) == IF condition THEN tokens ELSE << >>

(* A name that is not in lower case must be quoted.                        *)
NamePart(part) == IF lower[part] = part THEN W(part) ELSE <<Quoted(part)>>
Dotted(name)   == Separated([i \in DOMAIN name |-> NamePart(name[i])], ".")
ObjectName(o)  == Dotted(o.schema \o o.name)
Objects(os)    == Commas([i \in DOMAIN os |-> ObjectName(os[i])])

Grantee(g) == CASE g = "public" -> W("PUBLIC") [] g = "current_user" -> W("CURRENT_USER")
                [] OTHER -> NamePart(g)

RECURSIVE TokensOf(_, _)
ListOf(nodes, style) == Commas([i \in DOMAIN nodes |-> TokensOf(nodes[i], style)])
Clause(words, nodes, style) == When(nodes # << >>, Ws(words) \o ListOf(nodes, style))

WhereClause(node, style) ==
  LET e == ListOf(node.where, style)
  IN  When(node.where # << >>, W("WHERE") \o (IF style = "wordy" THEN Parens(e) ELSE e))

(***************************************************************************)
(* Expressions and the items of a FROM clause.                             *)
(***************************************************************************)
Constant(v) == CASE v.kind = "bool"   -> W(IF v.boolV THEN "TRUE" ELSE "FALSE")
                 [] v.kind = "null"   -> W("NULL")
                 [] v.kind = "ival"   -> <<Literal(ToString(v.ival))>>
                 [] v.kind = "string" -> <<Literal(v.strV)>>

Expression(e, style) ==
  LET arg(i) == TokensOf(e.args[i], style)
  IN  CASE e.kind = "column"   -> W("id")
        [] e.kind = "star"     -> <<Sign("*")>>
        [] e.kind = "const"    -> Constant(e.value)
        [] e.kind = "sublink"  -> Parens(TokensOf(e.query, style))
        [] e.kind = "op"       -> arg(1) \o <<Sign(e.op)>> \o arg(2)
        [] e.kind = "not"      -> W("NOT") \o Parens(arg(1))
        [] e.kind = "coalesce" -> W("COALESCE") \o Parens(ListOf(e.args, style))
        [] e.kind = "call"     -> W("now") \o Parens(ListOf(e.args, style))
        [] e.kind \in {"and", "or"} ->
             Parens(arg(1) \o W(IF e.kind = "and" THEN "AND" ELSE "OR") \o arg(2))

Item(item, style) ==
  CASE item.kind = "table" -> ObjectName(item) \o When(style = "terse", W("t"))
    [] item.kind = "join"  -> TokensOf(item.left, style) \o W("JOIN") \o TokensOf(item.right, style)
                                \o Clause(<<"ON">>, item.on, style)
    [] item.kind = "subquery" -> Parens(TokensOf(item.query, style)) \o W("t")
    [] item.kind = "function" -> W("now") \o Parens(<< >>)

(***************************************************************************)
(* Statements that manipulate data.                                        *)
(***************************************************************************)
WithClause(node, style) ==
  LET cte(c) == NamePart(c.name) \o W("AS") \o Parens(TokensOf(c.query, style))
  IN  When(node.with # << >>,
           W("WITH") \o Commas([i \in DOMAIN node.with |-> cte(node.with[i])]))

Limit(q, style) ==
  When(q.limit, IF style = "wordy" THEN Ws(<<"FETCH", "FIRST">>) \o <<Literal("1")>>
                                          \o Ws(<<"ROWS", "ONLY">>)
                ELSE W("LIMIT") \o <<Literal("1")>>)

(* An arm with a clause that would end up outside of it is put in          *)
(* parentheses.                                                            *)
Arm(q, style) == IF q.limit \/ q.with # << >> \/ q.arms # << >> THEN Parens(TokensOf(q, style))
                 ELSE TokensOf(q, style)

Select(q, style) ==
  WithClause(q, style) \o
  (CASE q.arms # << >> -> Arm(q.arms[1], style) \o W("UNION") \o Arm(q.arms[2], style)
     [] q.arms = << >> /\ q.from = << >> /\ q.rest # << >> ->
          W("VALUES") \o Parens(ListOf(q.rest, style))
     [] OTHER -> W("SELECT") \o ListOf(q.targets, style) \o Clause(<<"FROM">>, q.from, style)
                   \o WhereClause(q, style)
                   \o Clause(<<"ORDER", "BY">>, q.rest, style))
  \o Limit(q, style)

Insert(node, style) ==
  WithClause(node, style) \o Ws(<<"INSERT", "INTO">>) \o ObjectName(node.relation)
    \o When(style = "wordy", Parens(W("id")))
    \o (IF node.query = << >> THEN Ws(<<"DEFAULT", "VALUES">>) ELSE TokensOf(node.query[1], style))

Delete(node, style) ==
  WithClause(node, style) \o Ws(<<"DELETE", "FROM">>) \o When(style = "wordy", W("ONLY"))
    \o ObjectName(node.relation) \o Clause(<<"USING">>, node.from, style)
    \o WhereClause(node, style) \o Clause(<<"RETURNING">>, node.rest, style)

Update(node, style) ==
  WithClause(node, style) \o W("UPDATE") \o When(style = "wordy", W("ONLY"))
    \o ObjectName(node.relation) \o Ws(<<"SET", "id">>) \o <<Sign("=")>>
    \o (IF node.rest = << >> THEN <<Literal("1")>> ELSE TokensOf(node.rest[1], style))
    \o Clause(<<"FROM">>, node.from, style) \o WhereClause(node, style)

Copy(node, style) ==
  LET other == CASE node.isProgram -> W("PROGRAM") \o <<Literal("cat")>>
                 [] node.isFile /\ ~node.isProgram -> <<Literal("file")>>
                 [] OTHER          -> W(IF node.isFrom THEN "STDIN" ELSE "STDOUT")
  IN  W("COPY") \o (IF node.relation # << >> THEN ObjectName(node.relation[1])
                    ELSE Parens(TokensOf(node.query[1], style)))
        \o W(IF node.isFrom THEN "FROM" ELSE "TO") \o other

(***************************************************************************)
(* Statements that define data, and privileges.                            *)
(***************************************************************************)
IfExists(style) == When(style = "wordy", Ws(<<"IF", "EXISTS">>))

Drop(node, style) ==
  W("DROP") \o W(CASE node.removes = "table" -> "TABLE" [] node.removes = "schema" -> "SCHEMA"
                   [] OTHER -> "INDEX")
    \o IfExists(style) \o Objects(node.objects) \o When(style = "wordy", W("CASCADE"))

Command(cmd, style) ==
  CASE cmd = "drop column" -> W("DROP") \o When(style # "terse", W("COLUMN")) \o W("id")
    [] cmd = "drop constraint" -> Ws(<<"DROP", "CONSTRAINT", "id">>)
    [] cmd = "drop not null"   -> Ws(<<"ALTER", "id", "DROP", "NOT", "NULL">>)
    [] cmd = "other"           -> Ws(<<"ADD", "id", "int">>)

AlterTable(node, style) ==
  LET cmds == SetToSeq(node.cmds)
  IN  Ws(<<"ALTER", "TABLE">>) \o IfExists(style) \o When(style = "wordy", W("ONLY"))
        \o ObjectName(node.relation) \o Commas([i \in DOMAIN cmds |-> Command(cmds[i], style)])

GrantOf(node, what, style) ==
  Ws(IF node.isGrant THEN <<"GRANT">> ELSE <<"REVOKE">>) \o what
    \o W(IF node.isGrant THEN "TO" ELSE "FROM")
    \o Commas([i \in DOMAIN node.grantees |-> Grantee(node.grantees[i])])
    \o When(style = "wordy", IF node.isGrant THEN Ws(<<"WITH", "GRANT", "OPTION">>)
                             ELSE W("CASCADE"))

OnObjects(node, style) ==
  IF node.all
  THEN Ws(<<"ALL", IF node.on = "table" THEN "TABLES" ELSE "FUNCTIONS", "IN", "SCHEMA">>)
         \o Objects(node.objects)
  ELSE CASE node.on = "table" -> When(style = "wordy", W("TABLE")) \o Objects(node.objects)
         [] node.on = "schema"   -> W("SCHEMA") \o Objects(node.objects)
         [] node.on = "database" -> W("DATABASE") \o Objects(node.objects)
         [] OTHER -> W("FUNCTION") \o Objects(node.objects) \o Parens(<< >>)

Privileges(node, style) ==
  CASE node.kind = "grant" -> GrantOf(node, Ws(<<"SELECT", "ON">>) \o OnObjects(node, style), style)
    [] node.kind = "default_privileges" ->
         Ws(<<"ALTER", "DEFAULT", "PRIVILEGES">>) \o When(style = "wordy", Ws(<<"FOR", "ROLE", "admin">>))
           \o GrantOf(node, Ws(<<"SELECT", "ON", "TABLES">>), style)
    [] node.kind = "grant_role" ->
         LET roles == SetToSeq(node.roles)
         IN  GrantOf(node, Commas([i \in DOMAIN roles |-> NamePart(roles[i])]), style)

TokensOf(node, style) ==
  CASE node.kind = "select"   -> Select(node, style)
    [] node.kind = "insert"   -> Insert(node, style)
    [] node.kind = "delete"   -> Delete(node, style)
    [] node.kind = "update"   -> Update(node, style)
    [] node.kind = "copy"     -> Copy(node, style)
    [] node.kind = "truncate" -> W("TRUNCATE") \o When(style = "wordy", W("TABLE"))
                                   \o Objects(node.relations)
    [] node.kind = "drop"          -> Drop(node, style)
    [] node.kind = "drop_database" -> Ws(<<"DROP", "DATABASE">>) \o IfExists(style)
                                        \o Dotted(node.name)
    [] node.kind = "alter_table"   -> AlterTable(node, style)
    [] node.kind \in {"grant", "default_privileges", "grant_role"} -> Privileges(node, style)
    [] node.kind = "other"         -> W("DO") \o <<Literal("x")>>
    [] node.kind \in {"table", "join", "subquery", "function"} -> Item(node, style)
    [] OTHER -> Expression(node, style)

=============================================================================
