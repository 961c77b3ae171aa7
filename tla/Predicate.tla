----------------------------- MODULE Predicate ------------------------------
(***************************************************************************)
(* The folding of WHERE clauses, internal/parser/predicate_cgo.go: which   *)
(* predicates are true of every row, decided from their constants alone.   *)
(*                                                                         *)
(* An expression is a record with its kind and the sequence args of the    *)
(* expressions under it.  A constant also has its value, an operator its   *)
(* name in op, a test of truth or of null what it tests in is, and a       *)
(* subquery its query.  A cast has the kind of values it makes in to: its  *)
(* types have neither length nor precision, which might cut a value.  An   *)
(* operator with one operand, as in -id, is of kind prefix.                *)
(***************************************************************************)
EXTENDS Integers, Sequences, FiniteSets, FiniteSetsExt, SqlValues, Statements

CONSTANTS
  Exprs,     (* The expressions of WHERE clauses, and those under them.    *)
  Nesting,   (* How deep each is nested: finitely, and those under it less.*)
  Floats,    (* The integers that are 64-bit floats.                       *)
  Million    (* From here on floats are written with an exponent.          *)

-----------------------------------------------------------------------------
(***************************************************************************)
(* The expressions that PostgreSQL's parser produces.                      *)
(***************************************************************************)
Unary  == {"cast", "not", "prefix", "boolean test", "null test"}
Binary == {"op", "not distinct", "distinct"}

ASSUME NestingAssumption ==
  /\ Nesting \in [Exprs -> Nat]
  /\ \A e \in Exprs : /\ e.args \in Seq(Exprs)
                      /\ \A i \in DOMAIN e.args : Nesting[e.args[i]] < Nesting[e]

ASSUME ExprsAssumption ==
  \A e \in Exprs :
    /\ e.kind = "const" => e.value \in Constants
    /\ e.kind \in Unary => Len(e.args) = 1
    /\ e.kind \in Binary => Len(e.args) = 2
    /\ e.kind = "boolean test" => e.is \in Truths
    /\ e.kind = "null test" => e.is \in Nulls

(***************************************************************************)
(* Numbers.  ParseFloat rounds to a nearest float; which of two that are   *)
(* as near is left open.                                                   *)
(***************************************************************************)
Abs(n) == IF n < 0 THEN -n ELSE n

Nearest(n, f) == \A g \in Floats : Abs(n - f) <= Abs(n - g)

ParseFloat(n) == CHOOSE f \in Floats : Nearest(n, f)

ASSUME FloatsAssumption ==
  /\ Floats \subseteq Int /\ Million \in Nat
  /\ \A e \in Exprs : e.kind = "const" =>
       /\ e.value.kind = "ival" => e.value.ival \in Floats
       /\ e.value.kind = "fval" => \E f \in Floats : Nearest(e.value.fval, f)
       /\ e.value.kind = "fval" /\ e.value.written = "-0.0" => e.value.fval = 0 /\ 0 \in Floats

(* A number's text: its style and the number it is the text of.            *)
Style(style, n) == [style |-> style, of |-> n]

FormatInt(n)   == Style("digits", n)
FormatFloat(f) == Style(IF Abs(f) < Million THEN "digits" ELSE "exponent", f)

normalizeNumber(c) ==
  CASE c.written = "decimal"  -> FormatFloat(ParseFloat(c.fval))
    [] c.written = "-0.0"     -> Style("-0", 0)
    [] c.written \in Refused -> Style(c.written, c.fval)

evalConst(c) ==
  CASE c.kind = "ival" -> Number(FormatInt(c.ival))
    [] c.kind = "fval" -> Number(normalizeNumber(c))
    [] OTHER           -> c

-----------------------------------------------------------------------------
(* Known or not, and of one type: a bool differs from a number.  Numbers   *)
(* are compared as texts.                                                  *)
constEqual(a, b) == IF a.kind = b.kind THEN Bool(a = b) ELSE Unknown

(* Mutant: a number is taken to be greater than itself.                    *)
constCompare_OrEqual(op, a, b) ==
  IF a.kind # "number" \/ b.kind # "number" \/ {a.numV.style, b.numV.style} \cap Refused # {}
  THEN Unknown
  ELSE LET x == ParseFloat(a.numV.of)  y == ParseFloat(b.numV.of)
       IN  Bool(IF op \in {">", ">="} THEN x >= y ELSE x <= y)

(* By order they are compared as floats, if both are.                      *)
constCompare(op, a, b) ==
  IF a.kind # "number" \/ b.kind # "number" \/ {a.numV.style, b.numV.style} \cap Refused # {}
  THEN Unknown
  ELSE LET x == ParseFloat(a.numV.of)  y == ParseFloat(b.numV.of)
       IN  Bool(CASE op = ">"  -> x > y  [] op = ">=" -> x >= y
                  [] op = "<"  -> x < y  [] op = "<=" -> x <= y)

negated(v) == IF v.kind = "bool" THEN Bool(~v.boolV) ELSE v

evalAExprOp(op, a, b) ==
  IF ~known(a) \/ ~known(b) THEN Unknown
  ELSE IF Null \in {a, b} THEN Null
  ELSE CASE op = "="                      -> constEqual(a, b)
         [] op \in {"<>", "!="}           -> negated(constEqual(a, b))
         [] op \in {">", ">=", "<", "<="} -> constCompare(op, a, b)
         [] OTHER                         -> Unknown

(* IS NOT DISTINCT FROM.                                                   *)
evalNotDistinct(a, b) ==
  IF ~known(a) \/ ~known(b) THEN Unknown
  ELSE IF Null \in {a, b} THEN Bool(a = b) ELSE constEqual(a, b)

(* Mutant: a null among the operands is passed over.                       *)
evalBoolExpr_NullPassed(values, stop) ==
  LET returns == {i \in DOMAIN values : /\ values[i].kind \notin {"unknown", "null"}
                                        /\ values[i] # Bool(~stop)}
  IN  IF returns # {}
      THEN IF values[Min(returns)].kind = "bool" THEN Bool(stop) ELSE Unknown
      ELSE IF \E i \in DOMAIN values : values[i] = Unknown THEN Unknown ELSE Bool(~stop)

(* Mutant: an operand of unknown value decides before the others do.       *)
evalBoolExpr_UnknownDecides(values, stop) ==
  LET some(v) == \E i \in DOMAIN values : values[i] = v
  IN  IF some(Unknown) THEN Unknown
      ELSE IF some(Bool(stop)) THEN Bool(stop)
      ELSE IF some(Null) THEN Null ELSE Bool(~stop)

(* The conjunction of the values when stop is FALSE, their disjunction     *)
(* when it is TRUE.  The loop returns at the first known value that is     *)
(* stop, or is neither null nor a bool.                                    *)
evalBoolExpr(values, stop) ==
  LET returns == {i \in DOMAIN values : /\ values[i].kind \notin {"unknown", "null"}
                                        /\ values[i] # Bool(~stop)}
      some(v) == \E i \in DOMAIN values : values[i] = v
  IN  IF returns # {}
      THEN IF values[Min(returns)].kind = "bool" THEN Bool(stop) ELSE Unknown
      ELSE IF some(Unknown) THEN Unknown
      ELSE IF some(Null) THEN Null ELSE Bool(~stop)

evalNot(v) == IF v.kind \in {"bool", "null"} THEN negated(v) ELSE Unknown

evalTest(is, v) ==
  IF ~known(v) THEN Unknown
  ELSE Bool(CASE is = "true"  -> v = Bool(TRUE)   [] is = "not true"  -> v # Bool(TRUE)
              [] is = "false" -> v = Bool(FALSE)  [] is = "not false" -> v # Bool(FALSE)
              [] is \in {"unknown", "null"} -> v = Null
              [] is \in {"not unknown", "not null"} -> v # Null)

(* What a node folds to, when its operands fold to v.                      *)
evalNode(e, v) ==
  CASE e.kind = "const"        -> evalConst(e.value)
    [] e.kind = "cast"         -> v[1]
    [] e.kind = "and"          -> evalBoolExpr(v, FALSE)
    [] e.kind = "or"           -> evalBoolExpr(v, TRUE)
    [] e.kind = "not"          -> evalNot(v[1])
    [] e.kind = "op"           -> evalAExprOp(e.op, v[1], v[2])
    [] e.kind = "not distinct" -> evalNotDistinct(v[1], v[2])
    [] e.kind = "distinct"     -> negated(evalNotDistinct(v[1], v[2]))
    [] e.kind \in {"boolean test", "null test"} -> evalTest(e.is, v[1])
    [] OTHER                   -> Unknown

evalExpr[e \in Exprs] == evalNode(e, [i \in DOMAIN e.args |-> evalExpr[e.args[i]]])

(***************************************************************************)
(* The kinds whose value differs from row to row, and those under which    *)
(* exprHasNonConstant looks.  Under the others, such as the list of an IN  *)
(* or COALESCE, it does not.                                               *)
(***************************************************************************)
NonConstant == {"column", "param", "call", "sublink"}
LookedUnder == {"and", "or", "not", "op", "prefix", "not distinct", "distinct", "in",
                "cast", "boolean test", "null test"}

exprHasNonConstant[e \in Exprs] ==
  \/ e.kind \in NonConstant
  \/ e.kind \in LookedUnder /\ \E i \in DOMAIN e.args : exprHasNonConstant[e.args[i]]

(* Mutant: what cannot be folded is taken for a real condition.            *)
classifyPredicate_Hopeful(where) ==
  IF evalExpr[where] = Bool(TRUE) THEN "always_true" ELSE "non_trivial"

classifyPredicate(where) ==
  LET v == evalExpr[where]
  IN  CASE v = Unknown    -> IF exprHasNonConstant[where] THEN "non_trivial" ELSE "unknown"
        [] v = Null       -> "unknown"
        [] v = Bool(TRUE) -> "always_true"
        [] OTHER          -> "non_trivial"

(* Of the WHERE clause of a DELETE or an UPDATE, which may be absent.      *)
applyPredicate(stmt, where) ==
  LET p == IF where = << >> THEN "absent" ELSE classifyPredicate(where[1])
      s == [stmt EXCEPT !.predicate = p]
  IN  IF p = "unknown" THEN Partial(s, "predicate_classification_unknown") ELSE s

=============================================================================
