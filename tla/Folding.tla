------------------------------ MODULE Folding -------------------------------
(***************************************************************************)
(* What becomes of the WHERE clause of a DELETE or an UPDATE: it is        *)
(* classified, and the flags that the rules read are set.  Properties      *)
(* compare it with the truth that SQL gives the clause in every row,       *)
(* whatever the folding makes of it.                                       *)
(***************************************************************************)
EXTENDS Predicate

CONSTANT Rows   (* Each gives a value to the names of all that is not      *)
                (* constant: columns, parameters, calls and subqueries.    *)

ASSUME RowsAssumption == Rows # {}

VARIABLES
  clause,        (* The WHERE clause, of one expression or absent.         *)
  classified,    (* The statement extracted.                               *)
  step           (* What is next: "extract", "sync", then "done".          *)

clauseVars == <<clause, classified, step>>

(* The statement before its clause is looked at.                           *)
Parsed == [Blank EXCEPT !.type = "DELETE", !.predicate = "absent"]

ClauseInit ==
  /\ clause \in {<< >>} \cup {<<e>> : e \in Exprs}
  /\ classified = Parsed
  /\ step = "extract"

ApplyPredicate ==
  /\ step = "extract"
  /\ classified' = applyPredicate(classified, clause)
  /\ step' = "sync"
  /\ UNCHANGED clause

SyncFields ==
  /\ step = "sync"
  /\ classified' = syncConvenienceFields([classified EXCEPT !.reasons = ensureReasonsBounded(@)])
  /\ step' = "done"
  /\ UNCHANGED clause

ClauseDone == step = "done" /\ UNCHANGED clauseVars

ClauseNext == ApplyPredicate \/ SyncFields \/ ClauseDone

ClauseSpec == ClauseInit /\ [][ClauseNext]_clauseVars

-----------------------------------------------------------------------------
(***************************************************************************)
(* What PostgreSQL makes of an expression in a row.  Truth is three-valued *)
(* and does not depend on the order of the operands.  Numbers are exact.   *)
(***************************************************************************)
Spelled == [true  |-> {"true", "t", "yes", "y", "on", "1"},
            false |-> {"false", "f", "no", "n", "off", "0"}]

(* A text that is asked for its truth is read as a bool.                   *)
Truth(v) ==
  CASE v.kind = "string" /\ v.strV \in Spelled.true  -> Bool(TRUE)
    [] v.kind = "string" /\ v.strV \in Spelled.false -> Bool(FALSE)
    [] OTHER -> v

(* A number, a bool or a text that is cast to a bool, a bool to a number.  *)
Cast(to, v) ==
  CASE to = "bool" /\ v.kind = "number" -> Bool(v.numV # 0)
    [] to = "bool" /\ v.kind = "string" -> Truth(v)
    [] to = "number" /\ v.kind = "bool" -> Number(IF v.boolV THEN 1 ELSE 0)
    [] OTHER -> v

Kleene(values, stop) ==
  LET all == {Truth(values[i]) : i \in DOMAIN values}
  IN  IF Bool(stop) \in all THEN Bool(stop)
      ELSE IF Null \in all THEN Null ELSE Bool(~stop)

Negation(v) == IF v = Null THEN Null ELSE Bool(~v.boolV)

Same(a, b) == Bool(a = b)
OrNull(a, b, v) == IF Null \in {a, b} THEN Null ELSE v

Compared(op, a, b) ==
  CASE op = "=" -> Same(a, b)  [] op \in {"<>", "!="} -> Negation(Same(a, b))
    [] op = ">" -> Bool(a.numV > b.numV)  [] op = ">=" -> Bool(a.numV >= b.numV)
    [] op = "<" -> Bool(a.numV < b.numV)  [] op = "<=" -> Bool(a.numV <= b.numV)
    [] op = "+" -> Number(a.numV + b.numV)

Tested(is, v) ==
  LET value == CASE is \in {"true", "not true"}   -> Bool(TRUE)
                 [] is \in {"false", "not false"} -> Bool(FALSE)
                 [] OTHER                         -> Null
      asked == IF is \in Truths THEN Truth(v) ELSE v
  IN  Bool((asked = value) <=> is \in {"true", "false", "unknown", "null"})

ConstantValue(c) == IF c.kind \in {"ival", "fval"} THEN Number(Counted(c)) ELSE c

(* The value of a node, when its operands have the values v.               *)
NodeValue(e, v, row) ==
  CASE e.kind = "const" -> ConstantValue(e.value)
    [] e.kind \in NonConstant -> row[e.name]
    [] e.kind = "cast" -> Cast(e.to, v[1])
    [] e.kind = "and" -> Kleene(v, FALSE)
    [] e.kind = "or" -> Kleene(v, TRUE)
    [] e.kind = "not" -> Negation(Truth(v[1]))
    [] e.kind = "op" -> IF Null \in {v[1], v[2]} THEN Null ELSE Compared(e.op, v[1], v[2])
    [] e.kind = "prefix" -> IF v[1] = Null THEN Null ELSE Number(-v[1].numV)
    [] e.kind = "not distinct" -> Same(v[1], v[2])
    [] e.kind = "distinct" -> Negation(Same(v[1], v[2]))
    [] e.kind \in {"boolean test", "null test"} -> Tested(e.is, v[1])
    [] e.kind = "coalesce" -> IF v[1] = Null THEN v[2] ELSE v[1]
    [] e.kind = "in" -> LET list == v[2].listV
                        IN  Kleene([i \in DOMAIN list |->
                                     OrNull(v[1], list[i], Same(v[1], list[i]))], TRUE)
    [] e.kind = "list" -> [kind |-> "list", listV |-> v]

SqlValue(expr, row) ==
  LET value[e \in Exprs] == NodeValue(e, [i \in DOMAIN e.args |-> value[e.args[i]]], row)
  IN  value[expr]

AlwaysHolds(e) == \A row \in Rows : Truth(SqlValue(e, row)) = Bool(TRUE)

-----------------------------------------------------------------------------
(***************************************************************************)
(* The clauses that the folding reads as SQL does.                         *)
(***************************************************************************)
parts[e \in Exprs] == {e} \cup UNION {parts[e.args[i]] : i \in DOMAIN e.args}

Numerical(exprs) == {e \in exprs : e.kind = "const" /\ e.value.kind \in {"ival", "fval"}}
Numerals(exprs)  == {e.value : e \in Numerical(exprs)}

(* Decimals that are floats, and 32-bit integers.  Those of a million and  *)
(* more are written in different ways, and must not meet.                  *)
ToldApart(numerals) ==
  /\ \A c \in numerals : c.kind = "fval" => c.written = "decimal" /\ c.fval \in Floats
  /\ \/ \E kind \in {"ival", "fval"} : \A c \in numerals : c.kind = kind
     \/ \A c \in numerals : Abs(Counted(c)) < Million

(* No constant is converted: by a cast, or from a text to a bool.          *)
KeepsKind(e) ==
  /\ e.kind = "cast" => evalExpr[e.args[1]].kind \in {"unknown", "null", e.to}
  /\ e.kind = "boolean test" => evalExpr[e.args[1]].kind # "string"

ReadAsMeant(e) ==
  /\ ToldApart(Numerals(parts[e]))
  /\ \A x \in parts[e] : KeepsKind(x)
  /\ evalExpr[e].kind # "string"

-----------------------------------------------------------------------------
(***************************************************************************)
(* Properties.                                                             *)
(***************************************************************************)
(* What a WHERE clause folds to, true, false or null, is what SQL makes of *)
(* it in every row, whatever the order of its operands and whatever the    *)
(* folding does not know of them.  So what is called trivial is true of    *)
(* every row, nulls included: a bounded DELETE or UPDATE is never reported *)
(* as one of all rows.                                                     *)
FoldingIsSound ==
  \A e \in ToSet(clause) : ReadAsMeant(e) =>
    /\ evalExpr[e].kind \in {"bool", "null"} => \A row \in Rows : SqlValue(e, row) = evalExpr[e]
    /\ classified.whereTrivial => classified.hasWhere /\ AlwaysHolds(e)

Passes ==
  /\ ~classified.whereTrivial
  /\ classified.predicate # "unknown" \/ classified.completeness = "complete"

(* A WHERE clause made of constants alone that every row satisfies does    *)
(* not pass for a real condition: it is called trivial, or else unknown,   *)
(* and then the analysis is incomplete.                                    *)
NoConstantPasses ==
  step = "done" =>
    \A e \in ToSet(clause) :
      ReadAsMeant(e) /\ ~exprHasNonConstant[e] /\ AlwaysHolds(e) => ~Passes

ComparesNumerals(e) == e.kind = "op" /\ ToSet(e.args) = Numerical(ToSet(e.args))

(* Whatever the numbers, however they are written and rounded: of two that *)
(* are compared with < or >, the clause is called trivial only if it holds,*)
(* and with <= or >=, it does not pass for a condition if it holds.        *)
OrderSurvivesRounding ==
  step = "done" =>
    \A e \in ToSet(clause) : ComparesNumerals(e) =>
      /\ e.op \in {"<", ">"} => (classified.whereTrivial => AlwaysHolds(e))
      /\ e.op \in {"<=", ">="} => (AlwaysHolds(e) => ~Passes)

(* One operand is known to be stop, and none before it is neither a bool   *)
(* nor null nor unknown.                                                   *)
Decides(e, stop) ==
  \E i \in DOMAIN e.args :
    /\ evalExpr[e.args[i]] = Bool(stop)
    /\ \A j \in 1..i : evalExpr[e.args[j]].kind \in {"unknown", "null", "bool"}

(* A disjunction with a true operand, anywhere in it, is called trivial    *)
(* whatever the others are, unless one before it is no bool; and so is the *)
(* negation of a conjunction with a false one.                             *)
AbsorbsOperands ==
  step = "done" =>
    \A e \in ToSet(clause) :
      \/ e.kind = "or" /\ Decides(e, TRUE)
      \/ e.kind = "not" /\ e.args[1].kind = "and" /\ Decides(e.args[1], FALSE)
      => classified.whereTrivial

=============================================================================
