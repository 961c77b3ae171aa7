------------------------------ MODULE Samples -------------------------------
(***************************************************************************)
(* Syntax trees that PostgreSQL's parser produces, for model checking.     *)
(***************************************************************************)
EXTENDS SequencesExt

Names == {"users", "Users", "logs", "pii", "public", "admin", "auditor", "pg_monitor", "x", "y"}
Lower == [n \in Names |-> IF n = "Users" THEN "users" ELSE n]

Leaf(kind)     == [kind |-> kind, args |-> << >>]
Under(kind, e) == [kind |-> kind, args |-> <<e>>]
SubLink(q)     == [kind |-> "sublink", args |-> << >>, query |-> q]
Literal(b)     == [kind |-> "const", args |-> << >>, value |-> [kind |-> "bool", boolV |-> b]]
Nothing        == [kind |-> "const", args |-> << >>, value |-> [kind |-> "null"]]
Number(n)      == [kind |-> "const", args |-> << >>, value |-> [kind |-> "ival", ival |-> n]]
Equal(a, b)    == [kind |-> "op", args |-> <<a, b>>, op |-> "="]

Column == [kind |-> "column", args |-> << >>, name |-> "id"]
Star   == Leaf("star")

TableOf(schema, name) == [kind |-> "table", schema |-> schema, name |-> <<name>>]
Plain(name)           == TableOf(<< >>, name)
Subquery(q)           == [kind |-> "subquery", query |-> q]
Function              == [kind |-> "function"]
Join(a, b, on)        == [kind |-> "join", left |-> a, right |-> b, on |-> <<on>>]

SelectFrom(target, from) ==
  [kind |-> "select", with |-> << >>, arms |-> << >>, from |-> from, where |-> << >>,
   targets |-> <<target>>, limit |-> FALSE, rest |-> << >>]

Limited(q)     == [q EXCEPT !.limit = TRUE]
Union(a, b)    == [SelectFrom(Column, << >>) EXCEPT !.arms = <<a, b>>, !.targets = << >>]
With(q, ctes)  == [q EXCEPT !.with = ctes]
Cte(name, q)   == [name |-> name, query |-> q]
Where(q, e)    == [q EXCEPT !.where = <<e>>]
Rest(q, e)     == [q EXCEPT !.rest = <<e>>]

Mutation(kind, name) ==
  [kind |-> kind, relation |-> Plain(name), from |-> << >>, where |-> << >>,
   with |-> << >>, rest |-> << >>]
Insert(name, query) ==
  [kind |-> "insert", relation |-> Plain(name), query |-> query, with |-> << >>,
   rest |-> << >>]
Copy(relation, query) ==
  [kind |-> "copy", relation |-> relation, query |-> query, isFrom |-> FALSE,
   isProgram |-> FALSE, isFile |-> FALSE]

(***************************************************************************)
(* Queries of growing depth.                                               *)
(***************************************************************************)
Users == Plain("users")
Pii   == TableOf(<<"pii">>, "Users")
Logs  == Plain("logs")

Simple  == {SelectFrom(e, <<t>>) : e \in {Star, Column}, t \in {Users, Pii, Plain("x")}}
Queries == Simple \cup {Limited(q) : q \in Simple}
QUsers  == SelectFrom(Star, <<Users>>)
QLogs   == SelectFrom(Column, <<Logs>>)
QX      == SelectFrom(Star, <<Plain("x")>>)

Arms ==
  {QUsers, Limited(QUsers), QLogs, Limited(QLogs), Union(QUsers, QLogs),
   Limited(Union(QUsers, Limited(QLogs))), Union(Limited(QUsers), Limited(QLogs))}
Unions == {Union(a, b) : a, b \in Arms} \cup {Limited(Union(a, b)) : a, b \in Arms}

Writers ==
  {Mutation("delete", "users"), Where(Mutation("delete", "users"), Literal(TRUE)),
   Where(Mutation("update", "logs"), Equal(Column, Column)),
   Where(Mutation("delete", "logs"), Nothing),
   [Mutation("update", "users") EXCEPT !.from = <<Function>>],
   Insert("logs", <<QUsers>>), [kind |-> "other"]}

Wheres ==
  {Literal(FALSE), Equal(Number(1), Number(1)), Equal(Number(1), Number(2)), Under("not", Literal(FALSE)),
   [kind |-> "or", args |-> <<Equal(Column, Number(1)), Literal(TRUE)>>]}

(* The WHERE clauses of DELETE and UPDATE.  With what they are made of,    *)
(* down to four operators, no more than that is under them.                *)
Conditions == Wheres \cup {Literal(TRUE), Equal(Column, Column), Nothing, SubLink(QUsers)}

Operands(exprs)   == UNION {ToSet(e.args) : e \in exprs}
WithUnder(exprs)  == exprs \cup Operands(exprs)
Everything(exprs) == WithUnder(WithUnder(WithUnder(WithUnder(exprs))))

CteLists ==
  {<<Cte(n, q)>> : n \in {"x", "users"}, q \in {QLogs, Limited(QUsers)} \cup Writers}
    \cup {<<Cte("Users", QLogs)>>}
    \cup {<<Cte("x", a), Cte("y", b)>> : a \in Writers, b \in {QX, Union(QUsers, QX)}}

Inner ==
  {QUsers, QX, Where(QUsers, SubLink(QX)), Union(QX, QUsers)}
    \cup {With(q, w) : q \in {QUsers, QX}, w \in CteLists}

Items ==
  {Users, Pii, Plain("x"), TableOf(<<"public">>, "x"), Function}
    \cup {Subquery(q) : q \in Inner}
    \cup {Join(a, b, e) : a, b \in {Users, Plain("x")},
                          e \in {Equal(Column, Column), SubLink(QLogs)}}

Sublinks ==
  {SubLink(q) : q \in Inner} \cup {Under("not", SubLink(QUsers)), Under("call", SubLink(QX))}

Plains  == {SelectFrom(Column, <<i>>) : i \in Items}
             \cup {SelectFrom(Star, <<i, t>>) : i \in Items, t \in {Users, Plain("x")}}
             \cup {Where(QLogs, e) : e \in Sublinks} \cup {SelectFrom(e, <<Users>>) : e \in Sublinks}
Selects == Queries \cup Unions \cup Plains
Nested  == {With(q, w) : q \in Plains \cup Unions, w \in CteLists}

(* Expressions that are not visited.                                       *)
Hidden == {Rest(QLogs, SubLink(QUsers)), SelectFrom(Under("coalesce", SubLink(QUsers)), <<Logs>>),
           Where(Mutation("delete", "logs"), SubLink(QUsers)),
           Rest(Mutation("update", "logs"), SubLink(QUsers)),
           Insert("logs", <<Rest(SelectFrom(Column, << >>), SubLink(QUsers))>>)}

(***************************************************************************)
(* The other statements.                                                   *)
(***************************************************************************)
Sources == {QUsers, Limited(QX), SelectFrom(Star, <<Function>>)} \cup {With(QX, w) : w \in CteLists}

Manipulations ==
  Writers \cup Hidden
    \cup {With(m, w) : m \in Writers \ {[kind |-> "other"]}, w \in CteLists}
    \cup {[Mutation(k, "logs") EXCEPT !.from = <<i>>] : k \in {"delete", "update"}, i \in Items}
    \cup {Where(Mutation(k, "users"), e) : k \in {"delete", "update"}, e \in Wheres}
    \cup {Insert("logs", <<SelectFrom(Star, <<Logs, t>>)>>) : t \in {Users, Pii}}
    \cup {Insert("logs", <<q>>) : q \in Sources} \cup {Insert("users", << >>)}

Copies ==
  LET c == {Copy(<<Users>>, << >>)} \cup {Copy(<< >>, <<q>>) : q \in Sources}
             \cup {Copy(<< >>, <<Insert("users", <<QLogs>>)>>)}
  IN  c \cup {[x EXCEPT !.isProgram = TRUE] : x \in c} \cup {[x EXCEPT !.isFile = TRUE] : x \in c}
        \cup {[Copy(<<Users>>, << >>) EXCEPT !.isFrom = TRUE]}

Object(schema, name) == [schema |-> schema, name |-> name]
OneTable  == <<Object(<<"pii">>, <<"users">>)>>
OneSchema == <<Object(<< >>, <<"pii">>)>>

Definitions ==
  {[kind |-> "truncate", relations |-> <<Users, Pii, Users>>],
   [kind |-> "drop_database", name |-> <<"users">>], [kind |-> "other"]}
    \cup {[kind |-> "drop", removes |-> r, objects |-> OneTable \o OneTable] :
            r \in {"table", "index"}}
    \cup {[kind |-> "drop", removes |-> "schema", objects |-> OneSchema]}
    \cup {[kind |-> "alter_table", relation |-> Pii, cmds |-> c] :
            c \in SUBSET {"drop column", "drop constraint", "drop not null", "other"}}

Grantees == {<<"public">>, <<"someone">>, <<"current_user">>, <<"someone", "public">>}

Privileges(kind, on, all, objects) ==
  {[kind |-> kind, isGrant |-> g, on |-> on, all |-> all, objects |-> objects,
    grantees |-> to] : g \in BOOLEAN, to \in Grantees}

Grants ==
  Privileges("grant", "table", FALSE, OneTable) \cup Privileges("grant", "table", TRUE, OneSchema)
    \cup Privileges("grant", "schema", FALSE, OneSchema)
    \cup Privileges("grant", "database", FALSE, OneSchema)
    \cup Privileges("grant", "other", FALSE, OneTable)
    \cup Privileges("grant", "other", TRUE, OneSchema)
    \cup Privileges("default_privileges", "table", FALSE, << >>)
    \cup {[kind |-> "grant_role", isGrant |-> g, roles |-> r, grantees |-> <<to>>] :
            g \in BOOLEAN, r \in {{"admin"}, {"pg_monitor", "auditor"}},
            to \in {"someone", "current_user", "public"}}

=============================================================================
