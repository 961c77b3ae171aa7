--------------------------- MODULE FoldingProofs ----------------------------
(***************************************************************************)
(* Theorems about module Folding, for every set of expressions, of any     *)
(* depth, and every set of rows.                                           *)
(***************************************************************************)
EXTENDS Folding, SequenceLemmas

-----------------------------------------------------------------------------
(***************************************************************************)
(* The recursive functions are what their definitions say.  Each is had by *)
(* putting together, for each expression, the function on the expressions  *)
(* nested no deeper than it is.                                            *)
(***************************************************************************)
Below(n) == {e \in Exprs : Nesting[e] < n}

(* What is under an expression is nested less deep.                        *)
LEMMA Operands ==
  ASSUME NEW e \in Exprs
  PROVE  /\ Nesting[e] \in Nat /\ e \in Below(Nesting[e] + 1)
         /\ e.args \in Seq(Exprs) /\ Len(e.args) \in Nat
         /\ DOMAIN e.args = 1..Len(e.args)
         /\ \A i \in DOMAIN e.args :
              /\ e.args[i] \in Exprs /\ Nesting[e.args[i]] \in Nat
              /\ Nesting[e.args[i]] < Nesting[e]
<1>1. Nesting[e] \in Nat /\ \A x \in Exprs : Nesting[x] \in Nat
  BY NestingAssumption
<1>2. e.args \in Seq(Exprs) /\ \A i \in DOMAIN e.args : Nesting[e.args[i]] < Nesting[e]
  BY NestingAssumption
<1>3. Len(e.args) \in Nat /\ DOMAIN e.args = 1..Len(e.args)
         /\ \A i \in 1..Len(e.args) : e.args[i] \in Exprs
  BY <1>2, LenProperties, ElementOfSeq
<1> QED
  BY <1>1, <1>2, <1>3 DEF Below

(* One step of each recursion: of the folding, of the value in a row, of   *)
(* the parts of an expression, and of the search for what is not constant. *)
Step(r, e, v) ==
  CASE r.of = "fold"  -> evalNode(e, v)
    [] r.of = "value" -> NodeValue(e, v, r.row)
    [] r.of = "parts" -> {e} \cup UNION {v[i] : i \in DOMAIN e.args}
    [] OTHER          -> \/ e.kind \in NonConstant
                         \/ e.kind \in LookedUnder /\ \E i \in DOMAIN e.args : v[i]

UpTo(r, n, f) ==
  f = [e \in Below(n) |-> Step(r, e, [i \in DOMAIN e.args |-> f[e.args[i]]])]

(* There is such a function, up to any depth.                              *)
LEMMA UpToExists == ASSUME NEW r, NEW n \in Nat  PROVE \E f : UpTo(r, n, f)
<1> DEFINE G == {k \in Nat : \E f : UpTo(r, k, f)}
<1>1. 0 \in G
  <2>1. Below(0) = {}
    BY NestingAssumption DEF Below
  <2>2. UpTo(r, 0, [e \in {} |-> 0])
    BY <2>1 DEF UpTo
  <2> QED  BY <2>2
<1>2. ASSUME NEW k \in 1..n, k - 1 \in G  PROVE k \in G
  <2>1. PICK f : UpTo(r, k - 1, f)
    BY <1>2
  <2> DEFINE g == [e \in Below(k) |-> Step(r, e, [i \in DOMAIN e.args |-> f[e.args[i]]])]
  <2>2. ASSUME NEW e \in Below(k)  PROVE \A i \in DOMAIN e.args : g[e.args[i]] = f[e.args[i]]
    <3> TAKE i \in DOMAIN e.args
    <3>1. e \in Exprs /\ Nesting[e] < k
      BY DEF Below
    <3>2. e.args[i] \in Exprs /\ Nesting[e.args[i]] \in Nat /\ Nesting[e.args[i]] < Nesting[e]
          /\ Nesting[e] \in Nat
      BY <3>1, Operands
    <3>3. e.args[i] \in Below(k - 1) /\ e.args[i] \in Below(k)
      BY <3>1, <3>2 DEF Below
    <3> DEFINE a == e.args[i]
    <3>4. f[a] = Step(r, a, [j \in DOMAIN a.args |-> f[a.args[j]]])
      BY <2>1, <3>3 DEF UpTo
    <3>5. g[a] = Step(r, a, [j \in DOMAIN a.args |-> f[a.args[j]]])
      BY <3>3
    <3> QED  BY <3>4, <3>5
  <2>3. ASSUME NEW e \in Below(k)
        PROVE  [i \in DOMAIN e.args |-> g[e.args[i]]] = [i \in DOMAIN e.args |-> f[e.args[i]]]
    <3> HIDE DEF g
    <3> QED  BY <2>2
  <2>4. g = [e \in Below(k) |-> Step(r, e, [i \in DOMAIN e.args |-> g[e.args[i]]])]
    <3>1. \A e \in Below(k) : g[e] = Step(r, e, [i \in DOMAIN e.args |-> g[e.args[i]]])
      <4> TAKE e \in Below(k)
      <4>1. g[e] = Step(r, e, [i \in DOMAIN e.args |-> f[e.args[i]]])
        OBVIOUS
      <4> QED  BY <4>1, <2>3
    <3>2. g = [e \in Below(k) |-> g[e]]
      OBVIOUS
    <3> HIDE DEF g
    <3> QED  BY <3>1, <3>2, Zenon
  <2> HIDE DEF g
  <2>5. UpTo(r, k, g)
    BY <2>4 DEF UpTo
  <2>6. k \in Nat
    OBVIOUS
  <2> QED  BY <2>5, <2>6
<1> HIDE DEF G
<1>3. n \in G
  BY <1>1, <1>2, UpToNat
<1> QED  BY <1>3 DEF G

(* Two such functions agree where both are defined.                        *)
LEMMA UpToAgree ==
  ASSUME NEW r, NEW n \in Nat, NEW m \in Nat, NEW f, NEW g, UpTo(r, n, f), UpTo(r, m, g),
         NEW e \in Exprs, Nesting[e] < n, Nesting[e] < m
  PROVE  f[e] = g[e]
<1> DEFINE G == {k \in Nat : \A x \in Below(k) \cap Below(n) \cap Below(m) : f[x] = g[x]}
<1>1. 0 \in G
  BY NestingAssumption DEF Below
<1>2. ASSUME NEW k \in 1..n, k - 1 \in G  PROVE k \in G
  <2>1. ASSUME NEW x \in Below(k) \cap Below(n) \cap Below(m)  PROVE f[x] = g[x]
    <3>1. x \in Exprs /\ Nesting[x] < k /\ Nesting[x] < n /\ Nesting[x] < m
      BY <2>1 DEF Below
    <3>2. \A i \in DOMAIN x.args : f[x.args[i]] = g[x.args[i]]
      <4> TAKE i \in DOMAIN x.args
      <4>1. x.args[i] \in Exprs /\ Nesting[x.args[i]] \in Nat /\ Nesting[x.args[i]] < Nesting[x]
            /\ Nesting[x] \in Nat
        BY <3>1, Operands
      <4>2. x.args[i] \in Below(k - 1) \cap Below(n) \cap Below(m)
        BY <3>1, <4>1 DEF Below
      <4> QED  BY <4>2, <1>2
    <3>3. [i \in DOMAIN x.args |-> f[x.args[i]]] = [i \in DOMAIN x.args |-> g[x.args[i]]]
      BY <3>2
    <3>4. f[x] = Step(r, x, [i \in DOMAIN x.args |-> f[x.args[i]]])
      BY <2>1 DEF UpTo
    <3>5. g[x] = Step(r, x, [i \in DOMAIN x.args |-> g[x.args[i]]])
      BY <2>1 DEF UpTo
    <3> QED  BY <3>3, <3>4, <3>5
  <2>2. k \in Nat
    OBVIOUS
  <2> QED  BY <2>1, <2>2
<1>3. n \in G
  <2> HIDE DEF G
  <2> QED  BY <1>1, <1>2, UpToNat
<1>4. e \in Below(n) \cap Below(n) \cap Below(m)
  BY DEF Below
<1> QED  BY <1>3, <1>4

(* So there is one on all expressions.                                     *)
LEMMA StepsExist ==
  ASSUME NEW r
  PROVE  \E f : f = [e \in Exprs |-> Step(r, e, [i \in DOMAIN e.args |-> f[e.args[i]]])]
<1> DEFINE part(n) == CHOOSE f : UpTo(r, n, f)
           F == [e \in Exprs |-> part(Nesting[e] + 1)[e]]
<1>1. ASSUME NEW n \in Nat  PROVE UpTo(r, n, part(n))
  BY UpToExists, Zenon
<1> HIDE DEF part
<1>2. ASSUME NEW e \in Exprs  PROVE F[e] = Step(r, e, [i \in DOMAIN e.args |-> F[e.args[i]]])
  <2>1. PICK n \in Nat : n = Nesting[e] + 1 /\ e \in Below(n) /\ Nesting[e] \in Nat
    BY Operands
  <2>2. F[e] = part(n)[e]
    BY <2>1
  <2>3. UpTo(r, n, part(n))
    BY <1>1
  <2>4. part(n)[e] = Step(r, e, [i \in DOMAIN e.args |-> part(n)[e.args[i]]])
    BY <2>1, <2>3 DEF UpTo
  <2>5. \A i \in DOMAIN e.args : part(n)[e.args[i]] = F[e.args[i]]
    <3> TAKE i \in DOMAIN e.args
    <3>1. PICK a : a = e.args[i] /\ a \in Exprs /\ Nesting[a] \in Nat /\ Nesting[a] < Nesting[e]
      BY Operands
    <3>2. PICK m \in Nat : m = Nesting[a] + 1
      BY <3>1
    <3>3. UpTo(r, m, part(m)) /\ Nesting[a] < m /\ Nesting[a] < n
      BY <1>1, <2>1, <3>1, <3>2
    <3>4. part(n)[a] = part(m)[a]
      BY <2>3, <3>1, <3>3, UpToAgree
    <3>5. F[a] = part(m)[a]
      BY <3>1, <3>2
    <3> QED  BY <3>1, <3>4, <3>5
  <2> HIDE DEF F
  <2>6. [i \in DOMAIN e.args |-> part(n)[e.args[i]]] = [i \in DOMAIN e.args |-> F[e.args[i]]]
    BY <2>5
  <2> QED  BY <2>2, <2>4, <2>6
<1>3. F = [e \in Exprs |-> F[e]]
  OBVIOUS
<1> HIDE DEF F
<1>4. F = [e \in Exprs |-> Step(r, e, [i \in DOMAIN e.args |-> F[e.args[i]]])]
  BY <1>2, <1>3, Zenon
<1> QED  BY <1>4, Zenon

(* What an expression folds to.                                            *)
LEMMA EvalDef ==
  ASSUME NEW e \in Exprs
  PROVE  evalExpr[e] = evalNode(e, [i \in DOMAIN e.args |-> evalExpr[e.args[i]]])
<1> DEFINE Recursive(f) ==
             f = [x \in Exprs |-> evalNode(x, [i \in DOMAIN x.args |-> f[x.args[i]]])]
<1>1. PICK f : f = [x \in Exprs |-> Step([of |-> "fold"], x, [i \in DOMAIN x.args |-> f[x.args[i]]])]
  BY StepsExist, Zenon
<1>2. Recursive(f)
  <2>1. \A x, v : Step([of |-> "fold"], x, v) = evalNode(x, v)
    BY DEF Step
  <2> QED  BY <1>1, <2>1
<1>3. evalExpr = CHOOSE g : Recursive(g)
  BY Zenon DEF evalExpr
<1> HIDE DEF Recursive
<1>4. Recursive(evalExpr)
  BY <1>2, <1>3, Zenon
<1>5. evalExpr = [x \in Exprs |-> evalNode(x, [i \in DOMAIN x.args |-> evalExpr[x.args[i]]])]
  BY <1>4, Zenon DEF Recursive
<1> QED  BY <1>5, Zenon

(* The value of an expression in a row.                                    *)
LEMMA SqlValueDef ==
  ASSUME NEW e \in Exprs, NEW row
  PROVE  SqlValue(e, row) =
           NodeValue(e, [i \in DOMAIN e.args |-> SqlValue(e.args[i], row)], row)
<1> DEFINE Recursive(f) ==
             f = [x \in Exprs |-> NodeValue(x, [i \in DOMAIN x.args |-> f[x.args[i]]], row)]
           value == CHOOSE f : Recursive(f)
<1>1. PICK f : f = [x \in Exprs |-> Step([of |-> "value", row |-> row], x, [i \in DOMAIN x.args |-> f[x.args[i]]])]
  BY StepsExist, Zenon
<1>2. \A x, v : Step([of |-> "value", row |-> row], x, v) = NodeValue(x, v, row)
  BY DEF Step
<1>3. Recursive(f)
  BY <1>1, <1>2
<1>4. \A x : SqlValue(x, row) = value[x]
  BY Zenon DEF SqlValue
<1> HIDE DEF Recursive
<1>5. Recursive(value)
  BY <1>3, Zenon
<1>6. value = [x \in Exprs |-> NodeValue(x, [i \in DOMAIN x.args |-> value[x.args[i]]], row)]
  BY <1>5, Zenon DEF Recursive
<1> HIDE DEF value
<1>7. value[e] = NodeValue(e, [i \in DOMAIN e.args |-> value[e.args[i]]], row)
  BY <1>6, Zenon
<1>8. [i \in DOMAIN e.args |-> value[e.args[i]]] = [i \in DOMAIN e.args |-> SqlValue(e.args[i], row)]
  BY <1>4, Zenon
<1> QED  BY <1>4, <1>7, <1>8, Zenon

(* The parts of an expression.                                             *)
LEMMA PartsDef ==
  ASSUME NEW e \in Exprs
  PROVE  parts[e] = {e} \cup UNION {parts[e.args[i]] : i \in DOMAIN e.args}
<1> DEFINE Recursive(f) ==
             f = [x \in Exprs |-> {x} \cup UNION {f[x.args[i]] : i \in DOMAIN x.args}]
<1>1. PICK f : f = [x \in Exprs |-> Step([of |-> "parts"], x, [i \in DOMAIN x.args |-> f[x.args[i]]])]
  BY StepsExist, Zenon
<1>2. \A x : Step([of |-> "parts"], x, [i \in DOMAIN x.args |-> f[x.args[i]]])
             = {x} \cup UNION {f[x.args[i]] : i \in DOMAIN x.args}
  <2> TAKE x
  <2> DEFINE v == [i \in DOMAIN x.args |-> f[x.args[i]]]
  <2>1. Step([of |-> "parts"], x, v) = {x} \cup UNION {v[i] : i \in DOMAIN x.args}
    BY DEF Step
  <2>2. {v[i] : i \in DOMAIN x.args} = {f[x.args[i]] : i \in DOMAIN x.args}
    OBVIOUS
  <2> QED  BY <2>1, <2>2
<1>3. Recursive(f)
  BY <1>1, <1>2
<1>4. parts = CHOOSE g : Recursive(g)
  BY Zenon DEF parts
<1> HIDE DEF Recursive
<1>5. Recursive(parts)
  BY <1>3, <1>4, Zenon
<1>6. parts = [x \in Exprs |-> {x} \cup UNION {parts[x.args[i]] : i \in DOMAIN x.args}]
  BY <1>5, Zenon DEF Recursive
<1> QED  BY <1>6, Zenon

(* What is found of an expression that has something not constant.         *)
LEMMA NonConstantDef ==
  ASSUME NEW e \in Exprs
  PROVE  exprHasNonConstant[e] =
           (\/ e.kind \in NonConstant
            \/ e.kind \in LookedUnder /\ \E i \in DOMAIN e.args : exprHasNonConstant[e.args[i]])
<1> DEFINE under(f, x) == \/ x.kind \in NonConstant
                          \/ x.kind \in LookedUnder /\ \E i \in DOMAIN x.args : f[x.args[i]]
           Recursive(f) == f = [x \in Exprs |-> under(f, x)]
<1>1. PICK f : f = [x \in Exprs |-> Step([of |-> "search"], x, [i \in DOMAIN x.args |-> f[x.args[i]]])]
  BY StepsExist, Zenon
<1>2. \A x : Step([of |-> "search"], x, [i \in DOMAIN x.args |-> f[x.args[i]]]) = under(f, x)
  <2> TAKE x
  <2> DEFINE v == [i \in DOMAIN x.args |-> f[x.args[i]]]
  <2>1. Step([of |-> "search"], x, v) =
          (\/ x.kind \in NonConstant
           \/ x.kind \in LookedUnder /\ \E i \in DOMAIN x.args : v[i])
    BY DEF Step
  <2>2. \A i \in DOMAIN x.args : v[i] = f[x.args[i]]
    OBVIOUS
  <2> QED  BY <2>1, <2>2, Zenon
<1> HIDE DEF under
<1>3. Recursive(f)
  BY <1>1, <1>2
<1>4. exprHasNonConstant = CHOOSE g : Recursive(g)
  BY Zenon DEF exprHasNonConstant, under
<1> HIDE DEF Recursive
<1>5. Recursive(exprHasNonConstant)
  BY <1>3, <1>4, Zenon
<1>6. exprHasNonConstant = [x \in Exprs |-> under(exprHasNonConstant, x)]
  BY <1>5, Zenon DEF Recursive
<1>7. exprHasNonConstant[e] = under(exprHasNonConstant, e)
  BY <1>6, Zenon
<1> QED  BY <1>7, Zenon DEF under

-----------------------------------------------------------------------------
(***************************************************************************)
(* Numbers.                                                                *)
(***************************************************************************)
(* A number that is a float is not rounded.                                *)
LEMMA FloatKept == ASSUME NEW f \in Floats  PROVE ParseFloat(f) = f
<1> DEFINE N(g) == g \in Floats /\ Nearest(f, g)
<1>1. f \in Int /\ Floats \subseteq Int
  BY FloatsAssumption
<1>2. Nearest(f, f)
  BY <1>1 DEF Nearest, Abs
<1>3. PICK g : g = ParseFloat(f)
  OBVIOUS
<1>4. g \in Floats /\ Nearest(f, g)
  BY <1>2, <1>3, Zenon DEF ParseFloat
<1>5. Abs(f - g) <= Abs(f - f) /\ g \in Int
  BY <1>1, <1>4 DEF Nearest
<1> QED  BY <1>1, <1>3, <1>5 DEF Abs

(* Rounding keeps the order, though not the difference, of numbers.        *)
LEMMA OrderKept ==
  ASSUME NEW n \in Int, NEW m \in Int, n <= m,
         \E f \in Floats : Nearest(n, f), \E f \in Floats : Nearest(m, f)
  PROVE  /\ ParseFloat(n) \in Int /\ ParseFloat(m) \in Int
         /\ ParseFloat(n) <= ParseFloat(m)
<1>1. PICK f, g : f = ParseFloat(n) /\ g = ParseFloat(m)
  OBVIOUS
<1>2. f \in Floats /\ Nearest(n, f)
  BY <1>1, Zenon DEF ParseFloat
<1>3. g \in Floats /\ Nearest(m, g)
  BY <1>1, Zenon DEF ParseFloat
<1>4. f \in Int /\ g \in Int
  BY <1>2, <1>3, FloatsAssumption
<1>5. CASE n = m
  BY <1>1, <1>4, <1>5
<1>6. CASE n < m
  <2>1. Abs(n - f) <= Abs(n - g) /\ Abs(m - g) <= Abs(m - f)
    BY <1>2, <1>3 DEF Nearest
  <2>2. f <= g
    BY <1>4, <1>6, <2>1 DEF Abs
  <2> QED  BY <1>1, <1>4, <2>2
<1> QED  BY <1>5, <1>6

(* The numerals of WHERE clauses.                                          *)
Literal(c) == \E e \in Exprs : e.kind = "const" /\ e.value = c /\ c.kind \in {"ival", "fval"}

(* A numeral becomes the text of the nearest float.                        *)
LEMMA NumeralText ==
  ASSUME NEW c, Literal(c)
  PROVE  LET x == evalConst(c).numV
         IN  /\ evalConst(c) = Number(x)
             /\ Counted(c) \in Int /\ \E f \in Floats : Nearest(Counted(c), f)
             /\ x.of \in Int
             /\ x.style \notin Refused => x.of = ParseFloat(Counted(c)) /\ x.of \in Floats
             /\ c.kind = "ival" => x = Style("digits", Counted(c)) /\ Counted(c) \in Floats
             /\ c.kind = "fval" /\ c.written = "decimal" => x = FormatFloat(ParseFloat(Counted(c)))
<1> DEFINE x == evalConst(c).numV
           n == Counted(c)
           Told == /\ evalConst(c) = Number(x)
                   /\ n \in Int /\ \E f \in Floats : Nearest(n, f)
                   /\ x.of \in Int
                   /\ x.style \notin Refused => x.of = ParseFloat(n) /\ x.of \in Floats
                   /\ c.kind = "ival" => x = Style("digits", n) /\ n \in Floats
                   /\ c.kind = "fval" /\ c.written = "decimal" => x = FormatFloat(ParseFloat(n))
<1>1. PICK e \in Exprs : e.kind = "const" /\ e.value = c /\ c.kind \in {"ival", "fval"}
  BY DEF Literal
<1>2. c \in Constants
  BY <1>1, ExprsAssumption, Zenon
<1>3. Floats \subseteq Int
  BY FloatsAssumption
<1>4. ASSUME c.kind = "ival"  PROVE Told
  <2>1. c \in [kind : {"ival"}, ival : Int]
    BY <1>2, <1>4 DEF Constants, Null
  <2>2. c.ival \in Floats /\ c.ival \in Int
    BY <1>1, <1>3, <1>4, FloatsAssumption, Zenon
  <2>3. evalConst(c) = Number(Style("digits", c.ival))
    BY <1>4 DEF evalConst, FormatInt
  <2>4. x = Style("digits", c.ival) /\ x.of = c.ival
    BY <2>3 DEF Number, Style
  <2>5. n = c.ival
    BY <1>4 DEF Counted
  <2>6. Nearest(c.ival, c.ival)
    BY <1>3, <2>2 DEF Nearest, Abs
  <2> HIDE DEF x, n
  <2> QED  BY <1>4, <2>2, <2>3, <2>4, <2>5, <2>6, FloatKept DEF x
<1>5. ASSUME c.kind = "fval"  PROVE Told
  <2>1. c.fval \in Int /\ c.written \in Notations
    BY <1>2, <1>5 DEF Constants, Null
  <2>2. n = c.fval
    BY <1>5 DEF Counted
  <2>3. PICK f \in Floats : Nearest(c.fval, f)
    BY <1>1, <1>5, FloatsAssumption, Zenon
  <2>4. ParseFloat(c.fval) \in Floats
    BY <2>3, Zenon DEF ParseFloat
  <2>5. evalConst(c) = Number(normalizeNumber(c)) /\ x = normalizeNumber(c)
    BY <1>5 DEF evalConst, Number
  <2> HIDE DEF x, n
  <2>6. CASE c.written = "decimal"
    <3>0. c.written # "-0.0" /\ c.written \notin Refused
      BY <2>6 DEF Refused
    <3>1. x = FormatFloat(ParseFloat(c.fval))
      BY <2>5, <2>6, <3>0 DEF normalizeNumber
    <3>2. x.of = ParseFloat(c.fval)
      BY <3>1 DEF FormatFloat, Style
    <3> QED  BY <1>3, <1>5, <2>1, <2>2, <2>3, <2>4, <2>5, <3>1, <3>2 DEF x
  <2>7. CASE c.written = "-0.0"
    <3>1. c.fval = 0 /\ 0 \in Floats
      BY <1>1, <1>5, <2>7, FloatsAssumption, Zenon
    <3>0. c.written # "decimal" /\ c.written \notin Refused
      BY <2>7 DEF Refused
    <3>2. x = Style("-0", 0) /\ x.of = 0
      BY <2>5, <2>7, <3>0 DEF normalizeNumber, Style
    <3> QED  BY <1>5, <2>2, <2>3, <2>5, <2>7, <3>1, <3>2, FloatKept DEF x, Refused
  <2>8. CASE c.written \in Refused
    <3>1. x = Style(c.written, c.fval) /\ c.written # "decimal"
      BY <2>5, <2>8 DEF normalizeNumber, Refused
    <3>2. x.style \in Refused /\ x.of = c.fval
      BY <2>8, <3>1 DEF Style
    <3> QED  BY <1>5, <2>1, <2>2, <2>3, <2>5, <3>1, <3>2 DEF x
  <2> QED  BY <2>1, <2>6, <2>7, <2>8 DEF Notations
<1> QED  BY <1>1, <1>4, <1>5

(* Texts that are told apart: of floats, one of each.                      *)
Apart(T) ==
  \A x \in T : /\ x.of \in Floats /\ x.style \notin Refused
              /\ \A y \in T : x.of = y.of => x = y

TextsOf(numerals) == {evalConst(c).numV : c \in numerals}

(* Those of the numerals that ToldApart speaks of are, and their numbers   *)
(* are the numerals'.                                                      *)
LEMMA TextsApart ==
  ASSUME NEW numerals, \A c \in numerals : Literal(c), ToldApart(numerals)
  PROVE  /\ Apart(TextsOf(numerals))
         /\ \A c \in numerals : evalConst(c).numV.of = Counted(c)
<1> DEFINE x(c) == evalConst(c).numV
<1>1. ASSUME NEW c \in numerals
      PROVE  /\ x(c) = Style(x(c).style, Counted(c)) /\ x(c).of = Counted(c) /\ Counted(c) \in Floats
             /\ x(c).style \in {"digits", "exponent"}
             /\ c.kind = "ival" => x(c).style = "digits"
             /\ c.kind = "fval" => x(c).style = IF Abs(Counted(c)) < Million THEN "digits" ELSE "exponent"
             /\ c.kind \in {"ival", "fval"}
  <2>1. Literal(c) /\ c.kind \in {"ival", "fval"}
    BY DEF Literal
  <2>2. CASE c.kind = "ival"
    <3>1. x(c) = Style("digits", Counted(c)) /\ Counted(c) \in Floats
      BY <2>1, <2>2, NumeralText
    <3> QED  BY <2>2, <3>1 DEF Style
  <2>3. CASE c.kind = "fval"
    <3>1. Counted(c) \in Floats /\ c.written = "decimal"
      BY <2>3 DEF ToldApart, Counted
    <3>2. x(c) = FormatFloat(Counted(c))
      BY <2>1, <2>3, <3>1, NumeralText, FloatKept
    <3> QED  BY <2>3, <3>1, <3>2 DEF FormatFloat, Style
  <2> QED  BY <2>1, <2>2, <2>3
<1> HIDE DEF x
<1>2. ASSUME NEW c \in numerals, NEW d \in numerals, Counted(c) = Counted(d)
      PROVE  x(c).style = x(d).style
  BY <1>1, <1>2 DEF ToldApart
<1>3. ASSUME NEW c \in numerals, NEW d \in numerals, x(c).of = x(d).of
      PROVE  x(c) = x(d)
  BY <1>1, <1>2, <1>3
<1>4. TextsOf(numerals) = {x(c) : c \in numerals}
  BY DEF TextsOf, x
<1>5. Apart(TextsOf(numerals))
  BY <1>1, <1>3, <1>4 DEF Apart, Refused
<1> QED  BY <1>1, <1>5 DEF x

-----------------------------------------------------------------------------
(***************************************************************************)
(* The operators: what they return, and that it is what SQL returns for    *)
(* operands whose values are what is known of them.                        *)
(***************************************************************************)
(* What folding returns, when the numbers have the texts T.                *)
Folded(T) ==
  {Unknown, Null} \cup [kind : {"bool"}, boolV : BOOLEAN] \cup [kind : {"string"}, strV : STRING]
    \cup [kind : {"number"}, numV : T]

(* The value in SQL of what is known, and w is that of v.                  *)
Meant(v) == IF v.kind = "number" THEN Number(v.numV.of) ELSE v

Knows(v, w) == known(v) => w = Meant(v)

(* A value is told by its kind and, for a bool, its truth.                 *)
LEMMA Kinds ==
  ASSUME NEW T, NEW v \in Folded(T)
  PROVE  /\ v.kind \in {"unknown", "null", "bool", "number", "string"}
         /\ v = Unknown <=> v.kind = "unknown"
         /\ v = Null <=> v.kind = "null"
         /\ known(v) <=> v # Unknown
         /\ v.kind = "bool" => v.boolV \in BOOLEAN /\ v = Bool(v.boolV)
         /\ v.kind = "number" => v.numV \in T /\ v = Number(v.numV)
         /\ v.kind # "number" => Meant(v) = v
         /\ Meant(v).kind = v.kind /\ (Meant(v) = Null <=> v = Null)
<1>0. v.kind = "number" => Meant(v) = Number(v.numV.of) /\ Meant(v).kind = "number" /\ Meant(v) # Null
  BY DEF Meant, Number, Null
<1>00. v.kind # "number" => Meant(v) = v
  BY DEF Meant
<1>1. CASE v \in {Null, Unknown}
  BY <1>1, <1>00 DEF Null, Unknown, known
<1>2. CASE v \in [kind : {"bool"}, boolV : BOOLEAN]
  <2>1. v.kind = "bool" /\ v.boolV \in BOOLEAN
    BY <1>2
  <2>2. v = [kind |-> "bool", boolV |-> v.boolV]
    BY <1>2
  <2>3. v # Null /\ v # Unknown
    BY <2>1 DEF Null, Unknown
  <2> QED  BY <2>1, <2>2, <2>3, <1>00 DEF Bool, known
<1>3. CASE v \in [kind : {"string"}, strV : STRING]
  BY <1>3, <1>00 DEF Null, Unknown, known
<1>4. CASE v \in [kind : {"number"}, numV : T]
  <2>1. v.kind = "number" /\ v.numV \in T /\ v = [kind |-> "number", numV |-> v.numV]
    BY <1>4
  <2>2. v # Null /\ v # Unknown
    BY <2>1 DEF Null, Unknown
  <2> QED  BY <2>1, <2>2, <1>0 DEF Number, known
<1> QED
  BY <1>1, <1>2, <1>3, <1>4 DEF Folded

(* The constants that the operators return.                                *)
LEMMA Returned ==
  /\ \A T : Unknown \in Folded(T) /\ Null \in Folded(T)
  /\ \A T : \A b \in BOOLEAN : Bool(b) \in Folded(T)
  /\ \A b \in BOOLEAN : known(Bool(b)) /\ Bool(b) # Null
  /\ \A b \in BOOLEAN : Bool(b).kind = "bool" /\ Bool(b).boolV = b /\ Meant(Bool(b)) = Bool(b)
  /\ Unknown.kind = "unknown" /\ Null.kind = "null" /\ known(Null) /\ ~known(Unknown)
  /\ Meant(Null) = Null
  /\ \A b \in BOOLEAN : Bool(b) # Bool(~b)
<1>1. \A b \in BOOLEAN : Bool(b).kind = "bool" /\ Bool(b).boolV = b
  BY DEF Bool
<1>2. Unknown.kind = "unknown" /\ Null.kind = "null"
  BY DEF Unknown, Null
<1>3. \A T : \A b \in BOOLEAN : Bool(b) \in Folded(T)
  BY DEF Bool, Folded
<1>4. ASSUME NEW b \in BOOLEAN  PROVE Bool(b) # Bool(~b)
  <2>1. PICK c \in BOOLEAN : c = ~b
    OBVIOUS
  <2>2. Bool(b).boolV = b /\ Bool(c).boolV = c
    BY <1>1
  <2>3. Bool(b) # Bool(c)
    BY <2>1, <2>2
  <2> QED  BY <2>1, <2>3
<1>5. Meant(Null) = Null /\ \A b \in BOOLEAN : Meant(Bool(b)) = Bool(b)
  BY <1>1, <1>2 DEF Meant
<1>6. \A T : Unknown \in Folded(T) /\ Null \in Folded(T)
  BY DEF Folded
<1>7. known(Null) /\ ~known(Unknown) /\ \A b \in BOOLEAN : known(Bool(b)) /\ Bool(b) # Null
  BY <1>1, <1>2 DEF known
<1> QED
  BY <1>1, <1>2, <1>3, <1>4, <1>5, <1>6, <1>7, Zenon

(* What is known to be a bool or null, and what is no text, is taken as it *)
(* is.                                                                     *)
LEMMA NoText ==
  ASSUME NEW T, NEW v \in Folded(T), v.kind # "string"
  PROVE  Truth(Meant(v)) = Meant(v)
<1>1. Meant(v).kind # "string"
  BY Kinds
<1> HIDE DEF Meant
<1> QED  BY <1>1 DEF Truth

(* Equality: texts that are told apart are equal when their numbers are.   *)
LEMMA EqualSound ==
  ASSUME NEW T, Apart(T), NEW a \in Folded(T), NEW b \in Folded(T)
  PROVE  /\ constEqual(a, b) \in {Unknown, Same(Meant(a), Meant(b))}
         /\ constEqual(a, b) \in Folded(T)
<1>1. constEqual(a, b) \in {Unknown, Bool(a = b)} /\ (a = b) \in BOOLEAN
  BY DEF constEqual
<1>2. a.kind # b.kind => constEqual(a, b) = Unknown
  BY DEF constEqual
<1>3. ASSUME a.kind = b.kind  PROVE (a = b) <=> (Meant(a) = Meant(b))
  <2>1. CASE a.kind = "number"
    <3>1. a = Number(a.numV) /\ b = Number(b.numV) /\ a.numV \in T /\ b.numV \in T
      BY <1>3, <2>1, Kinds
    <3>2. Meant(a).numV = a.numV.of /\ Meant(b).numV = b.numV.of
      BY <1>3, <2>1 DEF Meant, Number
    <3>3. ASSUME Meant(a) = Meant(b)  PROVE a = b
      <4>1. a.numV.of = b.numV.of
        BY <3>2, <3>3
      <4>2. a.numV = b.numV
        BY <3>1, <4>1 DEF Apart
      <4> QED  BY <3>1, <4>2, Zenon
    <3> QED  BY <3>3
  <2>2. CASE a.kind # "number"
    BY <1>3, <2>2, Kinds
  <2> QED  BY <2>1, <2>2
<1>4. a.kind = b.kind => Bool(a = b) = Same(Meant(a), Meant(b))
  BY <1>3 DEF Same
<1> QED  BY <1>1, <1>2, <1>4, Returned

(* The negation of what is folded.                                         *)
LEMMA NegatedSound ==
  ASSUME NEW T, NEW v \in Folded(T)
  PROVE  /\ negated(v) \in Folded(T)
         /\ known(negated(v)) <=> known(v)
         /\ v.kind \in {"bool", "null"} => /\ negated(v) = Negation(v)
                                           /\ negated(v).kind = v.kind
<1>1. CASE v.kind = "bool"
  <2>1. PICK b \in BOOLEAN : v = Bool(b) /\ v.boolV = b
    BY <1>1, Kinds
  <2>2. negated(v) = Bool(~v.boolV) /\ v # Null
    BY <1>1, Returned DEF negated
  <2>3. Negation(v) = Bool(~v.boolV)
    BY <2>2, Zenon DEF Negation
  <2>4. PICK c \in BOOLEAN : c = ~b
    OBVIOUS
  <2>5. c = ~v.boolV
    BY <2>1, <2>4
  <2>6. negated(v) = Bool(c) /\ Negation(v) = Bool(c)
    BY <2>2, <2>3, <2>5, Zenon
  <2> QED  BY <2>1, <2>6, Returned
<1>2. CASE v.kind # "bool"
  <2>1. negated(v) = v
    BY <1>2 DEF negated
  <2> QED  BY <1>2, <2>1, Kinds DEF Negation
<1> QED  BY <1>1, <1>2

(* AND when stop is FALSE, OR when it is TRUE: operands of unknown value   *)
(* do not change what the known ones decide.                               *)
LEMMA BoolExprSound ==
  ASSUME NEW T, NEW n \in Nat, NEW v, NEW w, NEW stop \in BOOLEAN,
         DOMAIN v = 1..n, DOMAIN w = 1..n,
         \A i \in 1..n : v[i] \in Folded(T) /\ Knows(v[i], w[i])
  PROVE  /\ evalBoolExpr(v, stop) \in Folded(T)
         /\ Knows(evalBoolExpr(v, stop), Kleene(w, stop))
<1> DEFINE returns == {i \in DOMAIN v : /\ v[i].kind \notin {"unknown", "null"}
                                        /\ v[i] # Bool(~stop)}
           some(x) == \E i \in DOMAIN v : v[i] = x
           all == {Truth(w[i]) : i \in DOMAIN w}
<1>0. (~stop) \in BOOLEAN /\ Bool(stop) # Bool(~stop)
  BY Returned
<1>1. CASE returns # {}
  <2>0. returns \in SUBSET Nat
    OBVIOUS
  <2>1. PICK m \in returns : m = Min(returns)
    <3> HIDE DEF returns
    <3> QED  BY <1>1, <2>0, MinIsLeast
  <2>2. evalBoolExpr(v, stop) = IF v[m].kind = "bool" THEN Bool(stop) ELSE Unknown
    BY <1>1, <2>1, Zenon DEF evalBoolExpr
  <2>3. CASE v[m].kind # "bool"
    BY <2>2, <2>3, Returned DEF Knows
  <2>4. CASE v[m].kind = "bool"
    <3>1. PICK b \in BOOLEAN : v[m] = Bool(b)
      BY <2>1, <2>4, Kinds
    <3>2. v[m] = Bool(stop)
      BY <2>1, <3>1
    <3>3. w[m] = Bool(stop) /\ Truth(Bool(stop)) = Bool(stop)
      BY <2>1, <3>2, Returned, NoText DEF Knows
    <3>4. Bool(stop) \in all
      BY <2>1, <3>3
    <3>5. Kleene(w, stop) = Bool(stop)
      BY <3>4, Zenon DEF Kleene
    <3> QED  BY <2>2, <2>4, <3>5, Returned DEF Knows
  <2> QED  BY <2>3, <2>4
<1>2. CASE returns = {}
  <2>1. evalBoolExpr(v, stop) =
          IF some(Unknown) THEN Unknown ELSE IF some(Null) THEN Null ELSE Bool(~stop)
    BY <1>2, Zenon DEF evalBoolExpr
  <2>2. CASE some(Unknown)
    BY <2>1, <2>2, Returned DEF Knows
  <2>3. CASE ~some(Unknown)
    <3>1. \A i \in 1..n : Truth(w[i]) = v[i] /\ v[i] \in {Null, Bool(~stop)}
      <4> TAKE i \in 1..n
      <4>1. v[i] \in {Null, Bool(~stop)} /\ known(v[i])
        BY <1>2, <2>3, Kinds
      <4>2. Meant(v[i]) = v[i] /\ v[i].kind # "string"
        BY <1>0, <4>1, Returned
      <4>3. w[i] = v[i]
        BY <4>1, <4>2 DEF Knows
      <4> QED  BY <4>1, <4>2, <4>3, NoText
    <3>2. Bool(stop) \notin all
      BY <3>1, <1>0, Returned
    <3>3. Null \in all <=> some(Null)
      BY <3>1
    <3>4. Kleene(w, stop) = IF some(Null) THEN Null ELSE Bool(~stop)
      BY <3>2, <3>3, Zenon DEF Kleene
    <3> QED  BY <2>1, <2>3, <3>4, Returned, <1>0 DEF Knows
  <2> QED  BY <2>2, <2>3
<1> QED  BY <1>1, <1>2

(* NOT.                                                                    *)
LEMMA NotSound ==
  ASSUME NEW T, NEW v \in Folded(T), NEW w, Knows(v, w)
  PROVE  evalNot(v) \in Folded(T) /\ Knows(evalNot(v), Negation(Truth(w)))
<1>1. CASE v.kind \in {"bool", "null"}
  <2>1. known(v) /\ Meant(v) = v /\ w = v /\ Truth(v) = v
    BY <1>1, Kinds, NoText DEF known, Knows
  <2>2. evalNot(v) = negated(v)
    BY <1>1 DEF evalNot
  <2>3. negated(v) \in Folded(T) /\ negated(v) = Negation(v) /\ negated(v).kind # "number"
    BY <1>1, NegatedSound
  <2> QED  BY <2>1, <2>2, <2>3, Kinds DEF Knows
<1>2. CASE v.kind \notin {"bool", "null"}
  BY <1>2, Returned DEF evalNot, Knows
<1> QED  BY <1>1, <1>2

(* IS NOT DISTINCT FROM, a bool if anything, and IS DISTINCT FROM.         *)
LEMMA NotDistinctSound ==
  ASSUME NEW T, Apart(T), NEW a \in Folded(T), NEW b \in Folded(T), NEW x, NEW y,
         Knows(a, x), Knows(b, y)
  PROVE  /\ evalNotDistinct(a, b) \in Folded(T)
         /\ negated(evalNotDistinct(a, b)) \in Folded(T)
         /\ Knows(evalNotDistinct(a, b), Same(x, y))
         /\ Knows(negated(evalNotDistinct(a, b)), Negation(Same(x, y)))
<1> DEFINE r == evalNotDistinct(a, b)
<1>1. CASE known(a) /\ known(b)
  <2>1. x = Meant(a) /\ y = Meant(b)
    BY <1>1 DEF Knows
  <2>2. r \in {Unknown, Same(x, y)}
    <3>1. CASE Null \in {a, b}
      <4>1. (a = b) <=> (x = y)
        BY <2>1, <3>1, Kinds
      <4> QED  BY <1>1, <3>1, <4>1 DEF evalNotDistinct, Same
    <3>2. CASE Null \notin {a, b}
      <4>1. r = constEqual(a, b)
        BY <1>1, <3>2 DEF evalNotDistinct
      <4> QED  BY <2>1, <4>1, EqualSound
    <3> QED  BY <3>1, <3>2
  <2> HIDE DEF r
  <2>3. PICK t \in BOOLEAN : Same(x, y) = Bool(t)
    BY DEF Same
  <2>4. CASE r = Unknown
    <3>1. negated(r) \in Folded(T) /\ ~known(r) /\ ~known(negated(r))
      BY <2>4, NegatedSound, Returned
    <3> QED  BY <2>4, <3>1, Returned DEF Knows, r
  <2>5. CASE r = Bool(t)
    <3>1. r \in Folded(T) /\ r.kind = "bool" /\ Meant(r) = r
      BY <2>5, Returned
    <3>2. negated(r) \in Folded(T) /\ negated(r) = Negation(r) /\ negated(r).kind = "bool"
      BY <3>1, NegatedSound
    <3>3. Meant(negated(r)) = negated(r)
      BY <3>2, Kinds
    <3> QED  BY <2>3, <2>5, <3>1, <3>2, <3>3 DEF Knows, r
  <2> QED  BY <2>2, <2>3, <2>4, <2>5
<1>2. CASE ~known(a) \/ ~known(b)
  <2>1. r = Unknown
    BY <1>2 DEF evalNotDistinct
  <2>2. negated(Unknown) \in Folded(T) /\ ~known(negated(Unknown))
    BY NegatedSound, Returned
  <2> QED  BY <2>1, <2>2, Returned DEF Knows
<1> QED  BY <1>1, <1>2

(* By order: of texts that are told apart, floats are compared.            *)
LEMMA CompareSound ==
  ASSUME NEW T, Apart(T), NEW op \in {">", ">=", "<", "<="}, NEW a \in Folded(T), NEW b \in Folded(T)
  PROVE  \/ constCompare(op, a, b) = Unknown
         \/ /\ constCompare(op, a, b) = Compared(op, Meant(a), Meant(b))
            /\ constCompare(op, a, b) \in {Bool(TRUE), Bool(FALSE)}
<1> DEFINE p == a.numV.of
           q == b.numV.of
           r == constCompare(op, a, b)
<1>1. CASE a.kind # "number" \/ b.kind # "number"
  BY <1>1 DEF constCompare
<1>2. CASE a.kind = "number" /\ b.kind = "number"
  <2>1. a.numV \in T /\ b.numV \in T
    BY <1>2, Kinds
  <2>2. /\ p \in Floats /\ q \in Floats /\ p \in Int /\ q \in Int
        /\ a.numV.style \notin Refused /\ b.numV.style \notin Refused
    BY <2>1, FloatsAssumption DEF Apart
  <2>3. ParseFloat(p) = p /\ ParseFloat(q) = q
    BY <2>2, FloatKept
  <2>4. r = Bool(CASE op = ">" -> p > q [] op = ">=" -> p >= q [] op = "<" -> p < q [] op = "<=" -> p <= q)
    BY <1>2, <2>2, <2>3 DEF constCompare
  <2>5. Meant(a).numV = p /\ Meant(b).numV = q
    BY <1>2 DEF Meant, Number
  <2> HIDE DEF r, p, q
  <2>6. /\ (p > q) \in BOOLEAN /\ (p >= q) \in BOOLEAN
        /\ (p < q) \in BOOLEAN /\ (p <= q) \in BOOLEAN
    BY <2>2
  <2>7. CASE op = ">"
    <3>1. r = Bool(p > q) /\ Compared(op, Meant(a), Meant(b)) = Bool(p > q)
      BY <2>4, <2>5, <2>7 DEF Compared
    <3> QED  BY <2>6, <3>1, Zenon DEF r
  <2>8. CASE op = ">="
    <3>1. r = Bool(p >= q) /\ Compared(op, Meant(a), Meant(b)) = Bool(p >= q)
      BY <2>4, <2>5, <2>8 DEF Compared
    <3> QED  BY <2>6, <3>1, Zenon DEF r
  <2>9. CASE op = "<"
    <3>1. r = Bool(p < q) /\ Compared(op, Meant(a), Meant(b)) = Bool(p < q)
      BY <2>4, <2>5, <2>9 DEF Compared
    <3> QED  BY <2>6, <3>1, Zenon DEF r
  <2>10. CASE op = "<="
    <3>1. r = Bool(p <= q) /\ Compared(op, Meant(a), Meant(b)) = Bool(p <= q)
      BY <2>4, <2>5, <2>10 DEF Compared
    <3> QED  BY <2>6, <3>1, Zenon DEF r
  <2> QED  BY <2>7, <2>8, <2>9, <2>10
<1> QED  BY <1>1, <1>2

(* The operators with two operands.                                        *)
LEMMA OpSound ==
  ASSUME NEW T, Apart(T), NEW op, NEW a \in Folded(T), NEW b \in Folded(T), NEW x, NEW y,
         Knows(a, x), Knows(b, y)
  PROVE  /\ evalAExprOp(op, a, b) \in Folded(T)
         /\ Knows(evalAExprOp(op, a, b),
                  IF Null \in {x, y} THEN Null ELSE Compared(op, x, y))
<1> DEFINE r == evalAExprOp(op, a, b)
<1>1. CASE ~known(a) \/ ~known(b)
  BY <1>1, Returned DEF evalAExprOp, Knows
<1>2. CASE known(a) /\ known(b) /\ Null \in {a, b}
  <2>1. Null \in {x, y}
    BY <1>2, Returned DEF Knows
  <2>2. r = Null
    BY <1>2 DEF evalAExprOp
  <2> QED  BY <2>1, <2>2, Returned DEF Knows
<1>3. CASE known(a) /\ known(b) /\ Null \notin {a, b}
  <2>1. x = Meant(a) /\ y = Meant(b) /\ Null \notin {x, y}
    BY <1>3, Kinds DEF Knows
  <2>2. PICK t \in BOOLEAN : Same(x, y) = Bool(t)
    BY DEF Same
  <2>3. constEqual(a, b) \in {Unknown, Bool(t)}
    BY <2>1, <2>2, EqualSound
  <2>4. CASE op = "="
    <3>1. r = constEqual(a, b) /\ Compared(op, x, y) = Bool(t)
      BY <1>3, <2>2, <2>4 DEF evalAExprOp, Compared
    <3> HIDE DEF r
    <3> QED  BY <2>1, <2>3, <3>1, Returned DEF Knows, r
  <2>5. CASE op \in {"<>", "!="}
    <3>1. r = negated(constEqual(a, b)) /\ Compared(op, x, y) = Negation(Bool(t))
      BY <1>3, <2>2, <2>5 DEF evalAExprOp, Compared
    <3>2. negated(Unknown) \in Folded(T) /\ ~known(negated(Unknown))
      BY NegatedSound, Returned
    <3>3. Bool(t) \in Folded(T) /\ Bool(t).kind = "bool"
      BY Returned
    <3>4. /\ negated(Bool(t)) \in Folded(T) /\ negated(Bool(t)) = Negation(Bool(t))
          /\ negated(Bool(t)).kind = "bool"
      BY <3>3, NegatedSound
    <3>5. Meant(negated(Bool(t))) = negated(Bool(t))
      BY <3>4, Kinds
    <3> HIDE DEF r
    <3> QED  BY <2>1, <2>3, <3>1, <3>2, <3>4, <3>5 DEF Knows, r
  <2>6. CASE op \in {">", ">=", "<", "<="}
    <3>1. r = constCompare(op, a, b)
      BY <1>3, <2>6 DEF evalAExprOp
    <3> DEFINE c == constCompare(op, a, b)
    <3>2. c = Unknown \/ (c = Compared(op, Meant(a), Meant(b)) /\ c \in {Bool(TRUE), Bool(FALSE)})
      BY <2>6, CompareSound, Zenon
    <3> HIDE DEF c
    <3>3. r = Unknown \/ (r = Compared(op, x, y) /\ r \in {Bool(TRUE), Bool(FALSE)})
      BY <2>1, <3>1, <3>2 DEF c
    <3> HIDE DEF r
    <3> QED  BY <2>1, <3>3, Returned DEF Knows, r
  <2>7. CASE op \notin {"=", "<>", "!=", ">", ">=", "<", "<="}
    BY <1>3, <2>7, Returned DEF evalAExprOp, Knows
  <2> QED  BY <2>4, <2>5, <2>6, <2>7
<1> QED  BY <1>1, <1>2, <1>3

(* IS TRUE, IS NULL and the like: no text is asked for its truth.          *)
LEMMA TestSound ==
  ASSUME NEW T, NEW is, NEW v \in Folded(T), NEW w, Knows(v, w),
         is \in Nulls \/ (is \in Truths /\ v.kind # "string")
  PROVE  evalTest(is, v) \in Folded(T) /\ Knows(evalTest(is, v), Tested(is, w))
<1>1. CASE ~known(v)
  BY <1>1, Returned DEF evalTest, Knows
<1>2. CASE known(v)
  <2>1. w = Meant(v) /\ (w = Null <=> v = Null)
    BY <1>2, Kinds DEF Knows
  <2>2. \A b \in BOOLEAN : w = Bool(b) <=> v = Bool(b)
    BY <2>1, Kinds, Returned
  <2>3. v.kind # "string" => Truth(w) = w
    BY <2>1, NoText
  <2>4. evalTest(is, v) = Tested(is, w)
    BY <1>2, <2>1, <2>2, <2>3 DEF evalTest, Tested, Truths, Nulls
  <2>5. \E t \in BOOLEAN : Tested(is, w) = Bool(t)
    BY DEF Tested
  <2> QED  BY <2>4, <2>5, Returned DEF Knows
<1> QED  BY <1>1, <1>2

-----------------------------------------------------------------------------
(***************************************************************************)
(* The folding is sound.                                                   *)
(***************************************************************************)
(* That which has one operand has its first.                               *)
LEMMA FirstOperand ==
  ASSUME NEW e \in Exprs, e.kind \in Unary
  PROVE  1 \in DOMAIN e.args
<1>1. Len(e.args) = 1
  BY ExprsAssumption, Zenon
<1> QED  BY <1>1, Operands

(* One node: when its operands are soundly folded, so is it.               *)
LEMMA NodeSound ==
  ASSUME NEW T, Apart(T), NEW e \in Exprs, NEW v, NEW w, NEW row,
         v = [i \in DOMAIN e.args |-> evalExpr[e.args[i]]], DOMAIN w = 1..Len(e.args),
         \A i \in 1..Len(e.args) : v[i] \in Folded(T) /\ Knows(v[i], w[i]),
         KeepsKind(e),
         e \in Numerical({e}) => /\ evalConst(e.value).numV \in T
                                /\ evalConst(e.value).numV.of = Counted(e.value)
  PROVE  evalNode(e, v) \in Folded(T) /\ Knows(evalNode(e, v), NodeValue(e, w, row))
<1> DEFINE Known(i) == v[i] \in Folded(T) /\ Knows(v[i], w[i])
           Sound    == evalNode(e, v) \in Folded(T) /\ Knows(evalNode(e, v), NodeValue(e, w, row))
<1>1. ASSUME e.kind \in Unary  PROVE Known(1)
  <2>1. Len(e.args) = 1
    BY <1>1, ExprsAssumption, Zenon
  <2>2. 1 \in 1..Len(e.args)
    BY <2>1
  <2> QED  BY <2>2, Zenon
<1>2. ASSUME e.kind \in Binary  PROVE Known(1) /\ Known(2)
  <2>1. Len(e.args) = 2
    BY <1>2, ExprsAssumption, Zenon
  <2>2. 1 \in 1..Len(e.args) /\ 2 \in 1..Len(e.args)
    BY <2>1
  <2> QED  BY <2>2, Zenon
<1>0. DOMAIN v = 1..Len(e.args)
  BY Operands
<1>3. CASE e.kind = "const"
  <2>1. e.value \in Constants
    BY <1>3, ExprsAssumption, Zenon
  <2>2. evalNode(e, v) = evalConst(e.value)
    BY <1>3 DEF evalNode
  <2>3. NodeValue(e, w, row) = ConstantValue(e.value)
    BY <1>3 DEF NodeValue, NonConstant
  <2>4. CASE e.value.kind \in {"ival", "fval"}
    <3> DEFINE x == evalConst(e.value).numV
    <3>1. evalConst(e.value) = Number(x)
      <4>1. Literal(e.value)
        BY <1>3, <2>4 DEF Literal
      <4> QED  BY <4>1, NumeralText
    <3>2. e \in Numerical({e})
      BY <1>3, <2>4 DEF Numerical
    <3>3. x \in T /\ x.of = Counted(e.value)
      BY <3>2
    <3> HIDE DEF x
    <3>4. Number(x) \in Folded(T) /\ Meant(Number(x)) = Number(x.of)
      BY <3>3 DEF Folded, Number, Meant
    <3>5. ConstantValue(e.value) = Number(x.of)
      BY <2>4, <3>3 DEF ConstantValue
    <3> QED  BY <2>2, <2>3, <3>1, <3>4, <3>5 DEF Knows
  <2>5. CASE e.value.kind \notin {"ival", "fval"}
    <3>1. evalConst(e.value) = e.value /\ ConstantValue(e.value) = e.value
      BY <2>5 DEF evalConst, ConstantValue
    <3>2. e.value \in Folded(T) /\ e.value.kind # "number"
      BY <2>1, <2>5 DEF Constants, Folded, Null
    <3>3. Meant(e.value) = e.value
      BY <3>2, Kinds
    <3> QED  BY <2>2, <2>3, <3>1, <3>2, <3>3 DEF Knows
  <2> QED  BY <2>4, <2>5
<1>4. CASE e.kind = "cast"
  <2>1. evalNode(e, v) = v[1]
    BY <1>4 DEF evalNode
  <2>2. NodeValue(e, w, row) = Cast(e.to, w[1])
    BY <1>4 DEF NodeValue, NonConstant
  <2>3. Known(1) /\ v[1] = evalExpr[e.args[1]]
    BY <1>1, <1>4, FirstOperand DEF Unary
  <2>4. v[1].kind \in {"unknown", "null", e.to}
    BY <1>4, <2>3 DEF KeepsKind
  <2>5. ASSUME known(v[1])  PROVE Cast(e.to, w[1]) = Meant(v[1])
    <3>1. w[1] = Meant(v[1]) /\ w[1].kind = v[1].kind /\ v[1].kind \in {"null", e.to}
      BY <2>3, <2>4, <2>5, Kinds DEF Knows, known
    <3>2. w[1].kind \in {"null", e.to}
      BY <3>1
    <3>3. Cast(e.to, w[1]) = w[1]
      BY <3>2 DEF Cast
    <3> QED  BY <3>1, <3>3
  <2> QED  BY <2>1, <2>2, <2>3, <2>5 DEF Knows
<1>5. ASSUME NEW stop \in BOOLEAN
      PROVE  evalBoolExpr(v, stop) \in Folded(T) /\ Knows(evalBoolExpr(v, stop), Kleene(w, stop))
  BY <1>0, Operands, BoolExprSound
<1>6. CASE e.kind = "and"
  <2>1. evalNode(e, v) = evalBoolExpr(v, FALSE)
    BY <1>6 DEF evalNode
  <2>2. NodeValue(e, w, row) = Kleene(w, FALSE)
    BY <1>6 DEF NodeValue, NonConstant
  <2> QED  BY <1>5, <2>1, <2>2
<1>7. CASE e.kind = "or"
  <2>1. evalNode(e, v) = evalBoolExpr(v, TRUE)
    BY <1>7 DEF evalNode
  <2>2. NodeValue(e, w, row) = Kleene(w, TRUE)
    BY <1>7 DEF NodeValue, NonConstant
  <2> QED  BY <1>5, <2>1, <2>2
<1>8. CASE e.kind = "not"
  <2>1. evalNode(e, v) = evalNot(v[1])
    BY <1>8 DEF evalNode
  <2>2. NodeValue(e, w, row) = Negation(Truth(w[1]))
    BY <1>8 DEF NodeValue, NonConstant
  <2>3. Known(1)
    BY <1>1, <1>8 DEF Unary
  <2> QED  BY <2>1, <2>2, <2>3, NotSound
<1>9. CASE e.kind = "op"
  <2>1. evalNode(e, v) = evalAExprOp(e.op, v[1], v[2])
    BY <1>9 DEF evalNode
  <2>2. NodeValue(e, w, row) = IF Null \in {w[1], w[2]} THEN Null
                               ELSE Compared(e.op, w[1], w[2])
    BY <1>9 DEF NodeValue, NonConstant
  <2>3. Known(1) /\ Known(2)
    BY <1>2, <1>9 DEF Binary
  <2> HIDE DEF Sound
  <2> DEFINE op == e.op  a == v[1]  b == v[2]  x == w[1]  y == w[2]
  <2>4. /\ evalAExprOp(op, a, b) \in Folded(T)
        /\ Knows(evalAExprOp(op, a, b), IF Null \in {x, y} THEN Null ELSE Compared(op, x, y))
    <3>1. a \in Folded(T) /\ b \in Folded(T) /\ Knows(a, x) /\ Knows(b, y)
      BY <2>3
    <3> HIDE DEF op, a, b, x, y
    <3> QED  BY <3>1, OpSound
  <2> QED  BY <2>1, <2>2, <2>4, Zenon DEF Sound
<1>10. CASE e.kind = "not distinct"
  <2>1. evalNode(e, v) = evalNotDistinct(v[1], v[2])
    BY <1>10 DEF evalNode
  <2>2. NodeValue(e, w, row) = Same(w[1], w[2])
    BY <1>10 DEF NodeValue, NonConstant
  <2>3. Known(1) /\ Known(2)
    BY <1>2, <1>10 DEF Binary
  <2>4. /\ evalNotDistinct(v[1], v[2]) \in Folded(T)
        /\ Knows(evalNotDistinct(v[1], v[2]), Same(w[1], w[2]))
    BY <2>3, NotDistinctSound
  <2> QED  BY <2>1, <2>2, <2>4, Zenon
<1>11. CASE e.kind = "distinct"
  <2>1. evalNode(e, v) = negated(evalNotDistinct(v[1], v[2]))
    BY <1>11 DEF evalNode
  <2>2. NodeValue(e, w, row) = Negation(Same(w[1], w[2]))
    BY <1>11 DEF NodeValue, NonConstant
  <2>3. Known(1) /\ Known(2)
    BY <1>2, <1>11 DEF Binary
  <2>4. /\ negated(evalNotDistinct(v[1], v[2])) \in Folded(T)
        /\ Knows(negated(evalNotDistinct(v[1], v[2])), Negation(Same(w[1], w[2])))
    BY <2>3, NotDistinctSound
  <2> QED  BY <2>1, <2>2, <2>4, Zenon
<1>12. CASE e.kind \in {"boolean test", "null test"}
  <2>1. evalNode(e, v) = evalTest(e.is, v[1])
    BY <1>12 DEF evalNode
  <2>2. NodeValue(e, w, row) = Tested(e.is, w[1])
    BY <1>12 DEF NodeValue, NonConstant
  <2>4. Known(1) /\ v[1] = evalExpr[e.args[1]]
    BY <1>1, <1>12, FirstOperand DEF Unary
  <2>3. e.is \in Nulls \/ (e.is \in Truths /\ v[1].kind # "string")
    <3>1. CASE e.kind = "boolean test"
      BY <2>4, <3>1, ExprsAssumption DEF KeepsKind
    <3>2. CASE e.kind = "null test"
      BY <3>2, ExprsAssumption, Zenon
    <3> QED  BY <1>12, <3>1, <3>2
  <2> QED  BY <2>1, <2>2, <2>3, <2>4, TestSound, Zenon
<1>13. CASE e.kind \notin {"const", "cast", "and", "or", "not", "op", "distinct",
                           "not distinct", "boolean test", "null test"}
  BY <1>13, Returned DEF evalNode, Knows
<1> QED
  BY <1>3, <1>4, <1>6, <1>7, <1>8, <1>9, <1>10, <1>11, <1>12, <1>13

(* What is under an expression is among the expressions.                   *)
LEMMA PartsInExprs == ASSUME NEW e \in Exprs  PROVE parts[e] \subseteq Exprs
<1> DEFINE G == {k \in Nat : \A x \in Below(k) : parts[x] \subseteq Exprs}
<1>1. 0 \in G
  BY NestingAssumption DEF Below
<1>2. ASSUME NEW n \in Nat, NEW k \in 1..n, k - 1 \in G  PROVE k \in G
  <2>1. ASSUME NEW x \in Below(k)  PROVE parts[x] \subseteq Exprs
    <3>1. x \in Exprs /\ Nesting[x] < k /\ Nesting[x] \in Nat
      BY Operands DEF Below
    <3>2. \A i \in DOMAIN x.args : parts[x.args[i]] \subseteq Exprs
      <4> TAKE i \in DOMAIN x.args
      <4>1. x.args[i] \in Exprs /\ Nesting[x.args[i]] \in Nat /\ Nesting[x.args[i]] < Nesting[x]
        BY <3>1, Operands
      <4>2. x.args[i] \in Below(k - 1)
        BY <3>1, <4>1 DEF Below
      <4> QED  BY <4>2, <1>2
    <3> QED  BY <3>1, <3>2, PartsDef
  <2>2. k \in Nat
    OBVIOUS
  <2> QED  BY <2>1, <2>2
<1> HIDE DEF G
<1>3. PICK n \in Nat : n = Nesting[e] + 1 /\ e \in Below(n)
  BY Operands
<1>4. n \in G
  BY <1>1, <1>2, <1>3, UpToNat
<1> QED  BY <1>3, <1>4 DEF G

(* Every expression, by induction on how deep it is nested: it folds to a  *)
(* value or to the unknown, and to the value it has in the row, if any.    *)
LEMMA ExprSound ==
  ASSUME NEW row, NEW e \in Exprs, ReadAsMeant(e)
  PROVE  LET T == TextsOf(Numerals(parts[e]))
         IN  evalExpr[e] \in Folded(T) /\ Knows(evalExpr[e], SqlValue(e, row))
<1> DEFINE numerals == Numerals(parts[e])
           T == TextsOf(numerals)
           Sound(x) == evalExpr[x] \in Folded(T) /\ Knows(evalExpr[x], SqlValue(x, row))
           G == {k \in Nat : \A x \in Below(k) : parts[x] \subseteq parts[e] => Sound(x)}
<1>0. Apart(T) /\ \A c \in numerals : evalConst(c).numV.of = Counted(c)
  <2>1. parts[e] \subseteq Exprs
    BY PartsInExprs
  <2>2. \A c \in numerals : Literal(c)
    BY <2>1 DEF Numerals, Numerical, Literal
  <2>3. ToldApart(numerals)
    BY DEF ReadAsMeant
  <2> QED  BY <2>2, <2>3, TextsApart
<1>1. 0 \in G
  BY NestingAssumption DEF Below
<1>2. ASSUME NEW n \in Nat, NEW k \in 1..n, k - 1 \in G  PROVE k \in G
  <2>1. ASSUME NEW x \in Below(k), parts[x] \subseteq parts[e]  PROVE Sound(x)
    <3>1. x \in Exprs /\ Nesting[x] < k /\ Nesting[x] \in Nat
      BY Operands DEF Below
    <3>2. \A i \in 1..Len(x.args) : Sound(x.args[i])
      <4> TAKE i \in 1..Len(x.args)
      <4>1. x.args[i] \in Exprs /\ Nesting[x.args[i]] \in Nat /\ Nesting[x.args[i]] < Nesting[x]
        BY <3>1, Operands
      <4>2. x.args[i] \in Below(k - 1)
        BY <3>1, <4>1 DEF Below
      <4>3. parts[x.args[i]] \subseteq parts[e] /\ i \in DOMAIN x.args
        <5>1. i \in DOMAIN x.args
          BY <3>1, Operands
        <5>2. parts[x.args[i]] \in {parts[x.args[j]] : j \in DOMAIN x.args}
          BY <5>1
        <5>3. parts[x] = {x} \cup UNION {parts[x.args[j]] : j \in DOMAIN x.args}
          BY <3>1, PartsDef, Zenon
        <5>4. parts[x.args[i]] \subseteq parts[x]
          BY <5>2, <5>3, Zenon
        <5> QED  BY <2>1, <5>1, <5>4
      <4> QED  BY <4>2, <4>3, <1>2
    <3> DEFINE v == [i \in DOMAIN x.args |-> evalExpr[x.args[i]]]
               w == [i \in DOMAIN x.args |-> SqlValue(x.args[i], row)]
    <3>3. DOMAIN v = 1..Len(x.args) /\ DOMAIN w = 1..Len(x.args)
      BY <3>1, Operands
    <3>4. \A i \in 1..Len(x.args) : v[i] \in Folded(T) /\ Knows(v[i], w[i])
      BY <3>2, <3>3
    <3>5. evalExpr[x] = evalNode(x, v) /\ SqlValue(x, row) = NodeValue(x, w, row)
      BY <3>1, EvalDef, SqlValueDef, Zenon
    <3>6. x \in parts[e] /\ KeepsKind(x)
      BY <2>1, <3>1, PartsDef DEF ReadAsMeant
    <3>7. ASSUME x \in Numerical({x})
          PROVE  evalConst(x.value).numV \in T /\ evalConst(x.value).numV.of = Counted(x.value)
      <4>1. x.value \in numerals
        BY <3>6, <3>7 DEF Numerals, Numerical
      <4> QED  BY <1>0, <4>1 DEF TextsOf
    <3>8. evalNode(x, v) \in Folded(T) /\ Knows(evalNode(x, v), NodeValue(x, w, row))
      <4> HIDE DEF w, T
      <4> QED  BY <1>0, <3>1, <3>3, <3>4, <3>6, <3>7, NodeSound
    <3> QED  BY <3>5, <3>8
  <2>2. k \in Nat
    OBVIOUS
  <2> HIDE DEF Sound, T
  <2> QED  BY <2>1, <2>2
<1> HIDE DEF G
<1>3. PICK n \in Nat : n = Nesting[e] + 1 /\ e \in Below(n)
  BY Operands
<1>4. n \in G
  BY <1>1, <1>2, <1>3, UpToNat
<1> QED  BY <1>3, <1>4 DEF G

-----------------------------------------------------------------------------
(***************************************************************************)
(* The statement.                                                          *)
(***************************************************************************)
Extracted(cl) == applyPredicate(Parsed, cl)
Synced(cl)    == syncConvenienceFields([Extracted(cl) EXCEPT !.reasons = ensureReasonsBounded(@)])

(* Where the statement is from: what is done with it, in order.            *)
Inv ==
  /\ clause \in {<< >>} \cup {<<e>> : e \in Exprs}
  /\ \/ step = "extract" /\ classified = Parsed
     \/ step = "sync" /\ classified = Extracted(clause)
     \/ step = "done" /\ classified = Synced(clause)

(* The program keeps to that.                                              *)
LEMMA Classified == ClauseSpec => []Inv
<1>1. ClauseInit => Inv
  BY DEF ClauseInit, Inv, Parsed
<1>2. Inv /\ [ClauseNext]_clauseVars => Inv'
  <2> SUFFICES ASSUME Inv, [ClauseNext]_clauseVars  PROVE Inv'
    OBVIOUS
  <2>1. CASE ApplyPredicate
    BY <2>1, Zenon DEF Inv, ApplyPredicate, Extracted
  <2>2. CASE SyncFields
    BY <2>2, Zenon DEF Inv, SyncFields, Synced
  <2>3. CASE ClauseDone \/ UNCHANGED clauseVars
    BY <2>3 DEF Inv, ClauseDone, clauseVars
  <2> QED  BY <2>1, <2>2, <2>3 DEF ClauseNext
<1> QED
  BY <1>1, <1>2, PTL DEF ClauseSpec

(* What the steps set of the fields that the rules read.                   *)
LEMMA Fields ==
  ASSUME NEW e \in Exprs
  PROVE  LET p == classifyPredicate(e)
         IN  /\ Extracted(<<e>>).predicate = p /\ Synced(<<e>>).predicate = p
             /\ Extracted(<<e>>).whereTrivial = FALSE
             /\ Synced(<<e>>).hasWhere = (p # "absent")
             /\ Synced(<<e>>).whereTrivial = (p = "always_true")
             /\ p = "unknown" => Synced(<<e>>).completeness = "partial"
<1> DEFINE p == classifyPredicate(e)
           x == Extracted(<<e>>)
           y == [x EXCEPT !.reasons = ensureReasonsBounded(@)]
           z == syncPredicate(y)
<1>1. p \in {"non_trivial", "unknown", "always_true"}
  BY DEF classifyPredicate
<1>2. /\ x.predicate = p /\ x.whereTrivial = FALSE /\ x.type = "DELETE" /\ x.relations = << >>
      /\ p = "unknown" => x.completeness = "partial"
      /\ DOMAIN x = DOMAIN Blank
  <2>1. x = LET s == [Parsed EXCEPT !.predicate = p]
            IN  IF p = "unknown" THEN Partial(s, "predicate_classification_unknown") ELSE s
    BY DEF Extracted, applyPredicate
  <2> HIDE DEF p, x
  <2> QED  BY <1>1, <2>1 DEF Partial, markIncomplete, Severity, Parsed, Blank
<1> HIDE DEF x
<1>3. /\ y.predicate = p /\ y.whereTrivial = FALSE /\ y.type = "DELETE" /\ y.relations = << >>
      /\ p = "unknown" => y.completeness = "partial"
      /\ DOMAIN y = DOMAIN Blank
  BY <1>2 DEF Blank
<1> HIDE DEF y
<1>4. z = [y EXCEPT !.predicate = p, !.hasWhere = p # "absent", !.whereTrivial = p = "always_true"]
  BY <1>1, <1>3 DEF syncPredicate
<1>5. /\ z.predicate = p /\ z.hasWhere = (p # "absent") /\ z.whereTrivial = (p = "always_true")
      /\ p = "unknown" => z.completeness = "partial"
  BY <1>3, <1>4 DEF Blank
<1>6. Synced(<<e>>) = z
  <2>1. y.relations = << >> /\ y.type \notin {"DROP_SCHEMA", "DROP_DATABASE", "ALTER_DEFAULT_PRIVILEGES"}
    BY <1>3
  <2>2. syncConvenienceFields(y) = z
    BY <2>1, Zenon DEF syncConvenienceFields
  <2> QED  BY <2>2 DEF Synced, x, y
<1>7. Extracted(<<e>>) = x
  BY DEF x
<1> HIDE DEF p, z
<1>8. /\ Extracted(<<e>>).predicate = p /\ Synced(<<e>>).predicate = p
      /\ Extracted(<<e>>).whereTrivial = FALSE
      /\ Synced(<<e>>).hasWhere = (p # "absent")
      /\ Synced(<<e>>).whereTrivial = (p = "always_true")
      /\ p = "unknown" => Synced(<<e>>).completeness = "partial"
  BY <1>2, <1>5, <1>6, <1>7
<1> QED  BY <1>8 DEF p

(* The WHERE clause is one expression, if there is one.                    *)
LEMMA Clause ==
  ASSUME Inv, NEW e \in ToSet(clause)
  PROVE  e \in Exprs /\ clause = <<e>>
BY DEF Inv, ToSet

(* What a classification follows from.                                     *)
LEMMA ClassifiedAs ==
  ASSUME NEW e \in Exprs
  PROVE  /\ evalExpr[e] = Bool(TRUE) <=> classifyPredicate(e) = "always_true"
         /\ evalExpr[e] = Unknown /\ ~exprHasNonConstant[e] => classifyPredicate(e) = "unknown"
         /\ classifyPredicate(e) # "absent"
<1>1. Bool(TRUE) # Unknown /\ Bool(TRUE) # Null
  BY Returned
<1> QED  BY <1>1 DEF classifyPredicate

(* What has been done of the fields, when all is done.                     *)
LEMMA AllDone ==
  ASSUME Inv, NEW e \in ToSet(clause)
  PROVE  /\ classified.whereTrivial => step = "done" /\ classified.hasWhere /\ evalExpr[e] = Bool(TRUE)
         /\ step = "done" /\ evalExpr[e] = Bool(TRUE) => classified.whereTrivial
         /\ step = "done" /\ evalExpr[e] = Unknown /\ ~exprHasNonConstant[e] => ~Passes
<1>1. e \in Exprs /\ clause = <<e>>
  BY Clause
<1>2. Parsed.whereTrivial = FALSE /\ Extracted(<<e>>).whereTrivial = FALSE
  BY <1>1, Fields DEF Parsed, Blank
<1>3. CASE step # "done"
  BY <1>1, <1>2, <1>3 DEF Inv
<1>4. CASE step = "done"
  <2>1. classified = Synced(<<e>>)
    BY <1>1, <1>4 DEF Inv
  <2>2. /\ classified.predicate = classifyPredicate(e)
        /\ classified.hasWhere = (classifyPredicate(e) # "absent")
        /\ classified.whereTrivial = (classifyPredicate(e) = "always_true")
        /\ classifyPredicate(e) = "unknown" => classified.completeness = "partial"
    BY <1>1, <2>1, Fields
  <2> QED  BY <1>1, <1>4, <2>2, ClassifiedAs DEF Passes
<1> QED  BY <1>3, <1>4

(* What is folded is the truth, and what is called trivial is true of      *)
(* every row, when the clause is read as it is meant.                      *)
THEOREM Soundness == ClauseSpec => []FoldingIsSound
<1>1. ASSUME Inv, NEW e \in ToSet(clause), ReadAsMeant(e), evalExpr[e].kind \in {"bool", "null"},
             NEW row \in Rows
      PROVE  SqlValue(e, row) = evalExpr[e]
  <2>1. e \in Exprs
    BY <1>1, Clause
  <2>2. PICK T : evalExpr[e] \in Folded(T) /\ Knows(evalExpr[e], SqlValue(e, row))
    BY <1>1, <2>1, ExprSound
  <2>3. known(evalExpr[e]) /\ Meant(evalExpr[e]) = evalExpr[e]
    BY <1>1, <2>2, Kinds DEF known
  <2> QED  BY <2>2, <2>3 DEF Knows
<1>2. ASSUME Inv, classified.whereTrivial, NEW e \in ToSet(clause), ReadAsMeant(e)
      PROVE  classified.hasWhere /\ AlwaysHolds(e)
  <2>1. classified.hasWhere /\ evalExpr[e] = Bool(TRUE) /\ Bool(TRUE).kind = "bool"
    BY <1>2, AllDone, Returned
  <2>2. \A row \in Rows : SqlValue(e, row) = Bool(TRUE)
    BY <1>1, <1>2, <2>1
  <2>3. Truth(Bool(TRUE)) = Bool(TRUE)
    BY <2>1 DEF Truth
  <2> QED  BY <2>1, <2>2, <2>3 DEF AlwaysHolds
<1>3. Inv => FoldingIsSound
  BY <1>1, <1>2 DEF FoldingIsSound
<1> QED
  BY <1>3, Classified, PTL

(* A condition of constants that always holds is not taken for a real one, *)
(* when it is read as it is meant.                                         *)
THEOREM ConstantsCaught == ClauseSpec => []NoConstantPasses
<1>1. ASSUME Inv, step = "done", NEW e \in ToSet(clause), ReadAsMeant(e), ~exprHasNonConstant[e],
             AlwaysHolds(e)
      PROVE  ~Passes
  <2>1. e \in Exprs
    BY <1>1, Clause
  <2>2. PICK row \in Rows : Truth(SqlValue(e, row)) = Bool(TRUE)
    BY <1>1, RowsAssumption DEF AlwaysHolds
  <2>3. PICK T : evalExpr[e] \in Folded(T) /\ Knows(evalExpr[e], SqlValue(e, row))
    BY <1>1, <2>1, ExprSound
  <2>4. CASE evalExpr[e] = Unknown
    BY <1>1, <2>4, AllDone
  <2>5. CASE evalExpr[e] # Unknown
    <3>1. SqlValue(e, row) = Meant(evalExpr[e]) /\ evalExpr[e].kind # "string"
      BY <1>1, <2>3, <2>5, Kinds DEF Knows, ReadAsMeant
    <3>2. Meant(evalExpr[e]) = Bool(TRUE)
      BY <2>2, <2>3, <3>1, NoText
    <3>3. evalExpr[e].kind = "bool"
      BY <2>3, <3>2, Kinds, Returned
    <3>4. evalExpr[e] = Bool(TRUE)
      BY <2>3, <3>2, <3>3, Kinds
    <3> QED  BY <1>1, <3>4, AllDone DEF Passes
  <2> QED  BY <2>4, <2>5
<1>2. Inv => NoConstantPasses
  BY <1>1 DEF NoConstantPasses
<1> QED
  BY <1>2, Classified, PTL

(* What a comparison of two numerals by order folds to: the order of the   *)
(* nearest floats, or the unknown.                                         *)
LEMMA NumeralsCompared ==
  ASSUME NEW e \in Exprs, ComparesNumerals(e), e.op \in {">", ">=", "<", "<="}
  PROVE  \E c, d : LET n == Counted(c)  m == Counted(d)
                       x == ParseFloat(n)  y == ParseFloat(m)
                   IN  /\ Literal(c) /\ Literal(d)
                       /\ \A row : SqlValue(e, row) = Compared(e.op, Number(n), Number(m))
                       /\ \/ evalExpr[e] = Unknown /\ ~exprHasNonConstant[e]
                          \/ evalExpr[e] = Compared(e.op, Number(x), Number(y))
<1> DEFINE a == e.args[1]
           b == e.args[2]
           c == a.value
           d == b.value
<1>1. e.kind = "op" /\ ToSet(e.args) = Numerical(ToSet(e.args))
  BY DEF ComparesNumerals
<1>2. DOMAIN e.args = 1..2 /\ 1 \in DOMAIN e.args /\ 2 \in DOMAIN e.args
  <2>1. Len(e.args) = 2
    BY <1>1, ExprsAssumption, Zenon DEF Binary
  <2> QED  BY <2>1, Operands
<1>3. a \in Exprs /\ b \in Exprs
  BY <1>2, Operands
<1>4. /\ a.kind = "const" /\ c.kind \in {"ival", "fval"}
      /\ b.kind = "const" /\ d.kind \in {"ival", "fval"}
  <2>1. a \in ToSet(e.args) /\ b \in ToSet(e.args)
    BY <1>2 DEF ToSet
  <2> QED  BY <1>1, <2>1 DEF Numerical
<1>5. Literal(c) /\ Literal(d)
  BY <1>3, <1>4 DEF Literal
<1>6. ASSUME NEW row  PROVE SqlValue(e, row) = Compared(e.op, Number(Counted(c)), Number(Counted(d)))
  <2> DEFINE w == [i \in DOMAIN e.args |-> SqlValue(e.args[i], row)]
  <2>1. SqlValue(e, row) = NodeValue(e, w, row)
    BY SqlValueDef, Zenon
  <2>2. w[1] = SqlValue(a, row) /\ w[2] = SqlValue(b, row)
    BY <1>2
  <2>3. SqlValue(a, row) = ConstantValue(c) /\ SqlValue(b, row) = ConstantValue(d)
    <3>1. \A x \in Exprs : x.kind = "const" => SqlValue(x, row) = ConstantValue(x.value)
      BY SqlValueDef DEF NodeValue, NonConstant
    <3> QED  BY <1>3, <1>4, <3>1
  <2>4. w[1] = Number(Counted(c)) /\ w[2] = Number(Counted(d))
    BY <1>4, <2>2, <2>3 DEF ConstantValue
  <2> HIDE DEF w
  <2>5. Null \notin {w[1], w[2]}
    BY <2>4 DEF Number, Null
  <2>6. NodeValue(e, w, row) = Compared(e.op, w[1], w[2])
    BY <1>1, <2>5 DEF NodeValue, NonConstant
  <2> QED  BY <2>1, <2>4, <2>6
<1>7. evalExpr[e] = constCompare(e.op, evalConst(c), evalConst(d))
  <2> DEFINE v == [i \in DOMAIN e.args |-> evalExpr[e.args[i]]]
  <2>1. evalExpr[e] = evalNode(e, v)
    BY EvalDef, Zenon
  <2>2. v[1] = evalExpr[a] /\ v[2] = evalExpr[b]
    BY <1>2
  <2>3. v[1] = evalConst(c) /\ v[2] = evalConst(d)
    <3>1. \A x \in Exprs : x.kind = "const" => evalExpr[x] = evalConst(x.value)
      BY EvalDef DEF evalNode
    <3> QED  BY <1>3, <1>4, <2>2, <3>1
  <2> HIDE DEF v
  <2>4. v[1].kind = "number" /\ v[2].kind = "number"
    BY <1>5, <2>3, NumeralText DEF Number
  <2>5. known(v[1]) /\ known(v[2]) /\ Null \notin {v[1], v[2]}
    BY <2>4 DEF known, Null
  <2>6. evalNode(e, v) = constCompare(e.op, v[1], v[2])
    BY <1>1, <2>5 DEF evalNode, evalAExprOp
  <2> QED  BY <2>1, <2>3, <2>6
<1>8. ~exprHasNonConstant[e]
  <2>1. \A x \in Exprs : x.kind = "const" => ~exprHasNonConstant[x]
    BY NonConstantDef DEF NonConstant, LookedUnder
  <2>2. \A i \in DOMAIN e.args : ~exprHasNonConstant[e.args[i]]
    BY <1>2, <1>3, <1>4, <2>1
  <2> QED  BY <1>1, <2>2, NonConstantDef DEF NonConstant
<1> HIDE DEF a, b, c, d
<1> DEFINE x == evalConst(c).numV
           y == evalConst(d).numV
           p == ParseFloat(Counted(c))
           q == ParseFloat(Counted(d))
<1>9. /\ evalConst(c).kind = "number" /\ evalConst(d).kind = "number"
      /\ x.style \notin Refused => ParseFloat(x.of) = p
      /\ y.style \notin Refused => ParseFloat(y.of) = q
  BY <1>5, NumeralText, FloatKept DEF Number
<1>10. \/ evalExpr[e] = Unknown
       \/ evalExpr[e] = Compared(e.op, Number(p), Number(q))
  <2>1. CASE {x.style, y.style} \cap Refused # {}
    BY <1>7, <2>1 DEF constCompare
  <2>2. CASE {x.style, y.style} \cap Refused = {}
    <3>1. ParseFloat(x.of) = p /\ ParseFloat(y.of) = q
      BY <1>9, <2>2
    <3> HIDE DEF p, q
    <3>2. Number(p).numV = p /\ Number(q).numV = q
      BY DEF Number
    <3>3. evalExpr[e] = Bool(CASE e.op = ">" -> p > q [] e.op = ">=" -> p >= q
                              [] e.op = "<" -> p < q [] e.op = "<=" -> p <= q)
      BY <1>7, <1>9, <2>2, <3>1 DEF constCompare
    <3>4. Compared(e.op, Number(p), Number(q))
            = Bool(CASE e.op = ">" -> p > q [] e.op = ">=" -> p >= q
                     [] e.op = "<" -> p < q [] e.op = "<=" -> p <= q)
      BY <3>2 DEF Compared
    <3> QED  BY <3>3, <3>4
  <2> QED  BY <2>1, <2>2
<1> QED  BY <1>5, <1>6, <1>8, <1>10

(* A comparison of two numbers by order keeps what rounding leaves of it.  *)
THEOREM Rounding == ClauseSpec => []OrderSurvivesRounding
<1>1. ASSUME Inv, step = "done", NEW e \in ToSet(clause), ComparesNumerals(e),
             e.op \in {">", ">=", "<", "<="}
      PROVE  /\ e.op \in {"<", ">"} => (classified.whereTrivial => AlwaysHolds(e))
             /\ e.op \in {"<=", ">="} => (AlwaysHolds(e) => ~Passes)
  <2>1. e \in Exprs
    BY <1>1, Clause
  <2>2. PICK c, d :
          LET n == Counted(c)  m == Counted(d)
              x == ParseFloat(n)  y == ParseFloat(m)
          IN  /\ Literal(c) /\ Literal(d)
              /\ \A row : SqlValue(e, row) = Compared(e.op, Number(n), Number(m))
              /\ \/ evalExpr[e] = Unknown /\ ~exprHasNonConstant[e]
                 \/ evalExpr[e] = Compared(e.op, Number(x), Number(y))
    BY <1>1, <2>1, NumeralsCompared
  <2> DEFINE n == Counted(c)
             m == Counted(d)
             x == ParseFloat(n)
             y == ParseFloat(m)
             truth(p, q) == CASE e.op = ">" -> p > q [] e.op = ">=" -> p >= q
                              [] e.op = "<" -> p < q [] e.op = "<=" -> p <= q
  <2>3. /\ n \in Int /\ \E f \in Floats : Nearest(n, f)
        /\ m \in Int /\ \E f \in Floats : Nearest(m, f)
    BY <2>2, NumeralText
  <2>4. /\ x \in Int /\ y \in Int
        /\ n <= m => x <= y
        /\ m <= n => y <= x
    <3>1. n <= m \/ m <= n
      BY <2>3
    <3> QED  BY <2>3, <3>1, OrderKept
  <2>5. \A p, q \in Int : /\ truth(p, q) \in BOOLEAN
                          /\ Compared(e.op, Number(p), Number(q)) = Bool(truth(p, q))
    <3> TAKE p, q \in Int
    <3>1. Number(p).numV = p /\ Number(q).numV = q
      BY DEF Number
    <3>2. Compared(e.op, Number(p), Number(q)) = Bool(truth(p, q))
      BY <1>1, <3>1 DEF Compared
    <3>3. truth(p, q) \in BOOLEAN
      <4>1. /\ (p > q) \in BOOLEAN /\ (p >= q) \in BOOLEAN
            /\ (p < q) \in BOOLEAN /\ (p <= q) \in BOOLEAN
        OBVIOUS
      <4>2. truth(p, q) \in {p > q, p >= q, p < q, p <= q}
        BY <1>1
      <4> QED  BY <4>1, <4>2, Zenon
    <3> QED  BY <3>2, <3>3
  <2>6. \A row : SqlValue(e, row) = Bool(truth(n, m))
    BY <2>2, <2>3, <2>5
  <2>7. (evalExpr[e] = Unknown /\ ~exprHasNonConstant[e]) \/ evalExpr[e] = Bool(truth(x, y))
    BY <2>2, <2>4, <2>5
  <2>8. truth(n, m) \in BOOLEAN /\ truth(x, y) \in BOOLEAN
    BY <2>3, <2>4, <2>5
  <2>9. \A t \in BOOLEAN : (Bool(t) = Bool(TRUE) <=> t) /\ Truth(Bool(t)) = Bool(t)
    <3>1. \A t \in BOOLEAN : Bool(t).boolV = t /\ Bool(t).kind = "bool"
      BY DEF Bool
    <3> QED  BY <3>1 DEF Truth
  <2>10. AlwaysHolds(e) <=> truth(n, m)
    <3> HIDE DEF truth
    <3> QED  BY <2>6, <2>8, <2>9, RowsAssumption DEF AlwaysHolds
  <2>11. classified.whereTrivial => truth(x, y)
    <3>1. classified.whereTrivial => evalExpr[e] = Bool(TRUE)
      BY <1>1, AllDone
    <3>2. Bool(TRUE) # Unknown
      BY Returned
    <3> HIDE DEF truth
    <3> QED  BY <2>7, <2>8, <2>9, <3>1, <3>2
  <2>12. truth(x, y) => ~Passes
    <3>1. evalExpr[e] = Bool(TRUE) => ~Passes
      BY <1>1, AllDone DEF Passes
    <3>2. evalExpr[e] = Unknown /\ ~exprHasNonConstant[e] => ~Passes
      BY <1>1, AllDone
    <3> HIDE DEF truth
    <3> QED  BY <2>7, <2>8, <2>9, <3>1, <3>2
  <2>13. e.op \in {"<", ">"} => (truth(x, y) => truth(n, m))
    <3> HIDE DEF n, m, x, y
    <3>1. CASE e.op = "<"
      BY <2>3, <2>4, <3>1
    <3>2. CASE e.op = ">"
      BY <2>3, <2>4, <3>2
    <3> QED  BY <3>1, <3>2
  <2>14. e.op \in {"<=", ">="} => (truth(n, m) => truth(x, y))
    <3> HIDE DEF n, m, x, y
    <3>1. CASE e.op = "<="
      BY <2>3, <2>4, <3>1
    <3>2. CASE e.op = ">="
      BY <2>3, <2>4, <3>2
    <3> QED  BY <3>1, <3>2
  <2> HIDE DEF truth
  <2> QED  BY <2>10, <2>11, <2>12, <2>13, <2>14
<1>2. Inv => OrderSurvivesRounding
  BY <1>1 DEF OrderSurvivesRounding
<1> QED
  BY <1>2, Classified, PTL

(* An operand that decides, decides.                                       *)
LEMMA DecidesBoolExpr ==
  ASSUME NEW e \in Exprs, NEW stop \in BOOLEAN, Decides(e, stop)
  PROVE  evalBoolExpr([j \in DOMAIN e.args |-> evalExpr[e.args[j]]], stop) = Bool(stop)
<1> DEFINE v == [j \in DOMAIN e.args |-> evalExpr[e.args[j]]]
           returns == {j \in DOMAIN v : /\ v[j].kind \notin {"unknown", "null"}
                                        /\ v[j] # Bool(~stop)}
<1>1. PICK i \in DOMAIN e.args :
        /\ evalExpr[e.args[i]] = Bool(stop)
        /\ \A j \in 1..i : evalExpr[e.args[j]].kind \in {"unknown", "null", "bool"}
  BY DEF Decides
<1>2. Len(e.args) \in Nat /\ DOMAIN e.args = 1..Len(e.args) /\ i \in 1..Len(e.args)
  BY Operands
<1>3. DOMAIN v = 1..Len(e.args) /\ \A j \in 1..Len(e.args) : v[j] = evalExpr[e.args[j]]
  BY <1>2
<1> HIDE DEF v
<1>4. i \in returns
  BY <1>1, <1>2, <1>3, Returned
<1>5. returns \subseteq Nat
  <2>1. DOMAIN v \subseteq Nat
    BY <1>2, <1>3
  <2> QED  BY <2>1
<1>6. PICK m \in returns : m = Min(returns) /\ m <= i
  BY <1>4, <1>5, MinIsLeast
<1>7. m \in 1..i
  BY <1>2, <1>3, <1>6
<1>8. v[m].kind = "bool"
  BY <1>1, <1>2, <1>3, <1>6, <1>7
<1>9. returns # {} /\ v[Min(returns)].kind = "bool"
  BY <1>4, <1>6, <1>8
<1>10. evalBoolExpr(v, stop) = Bool(stop)
  BY <1>9, Zenon DEF evalBoolExpr
<1> QED  BY <1>10 DEF v

(* OR TRUE makes a clause trivial, whatever else is in it, and so does NOT *)
(* of AND FALSE.                                                           *)
THEOREM Absorption == ClauseSpec => []AbsorbsOperands
<1>1. ASSUME Inv, step = "done", NEW e \in ToSet(clause), e.kind = "or", Decides(e, TRUE)
      PROVE  classified.whereTrivial
  <2> DEFINE v == [j \in DOMAIN e.args |-> evalExpr[e.args[j]]]
  <2>1. e \in Exprs
    BY <1>1, Clause
  <2>2. evalExpr[e] = evalNode(e, v)
    BY <2>1, EvalDef, Zenon
  <2>3. evalBoolExpr(v, TRUE) = Bool(TRUE)
    BY <1>1, <2>1, DecidesBoolExpr
  <2> HIDE DEF v
  <2>4. evalExpr[e] = Bool(TRUE)
    BY <1>1, <2>2, <2>3 DEF evalNode
  <2> QED  BY <1>1, <2>4, AllDone
<1>2. ASSUME Inv, step = "done", NEW e \in ToSet(clause), e.kind = "not", e.args[1].kind = "and",
             Decides(e.args[1], FALSE)
      PROVE  classified.whereTrivial
  <2> DEFINE v == [j \in DOMAIN e.args |-> evalExpr[e.args[j]]]
             a == e.args[1]
             w == [j \in DOMAIN a.args |-> evalExpr[a.args[j]]]
  <2>1. e \in Exprs
    BY <1>2, Clause
  <2>2. 1 \in DOMAIN e.args /\ a \in Exprs
    BY <1>2, <2>1, FirstOperand, Operands DEF Unary
  <2>3. evalExpr[e] = evalNode(e, v) /\ evalExpr[a] = evalNode(a, w)
    BY <2>1, <2>2, EvalDef, Zenon
  <2>4. evalBoolExpr(w, FALSE) = Bool(FALSE)
    BY <1>2, <2>2, DecidesBoolExpr
  <2>5. v[1] = evalExpr[a]
    BY <2>2
  <2> HIDE DEF v, w
  <2>6. evalExpr[a] = Bool(FALSE)
    BY <1>2, <2>3, <2>4 DEF evalNode
  <2>7. evalExpr[e] = evalNot(Bool(FALSE))
    BY <1>2, <2>3, <2>5, <2>6 DEF evalNode
  <2>8. evalNot(Bool(FALSE)) = Bool(TRUE)
    BY DEF evalNot, negated, Bool
  <2> QED  BY <1>2, <2>7, <2>8, AllDone
<1>3. Inv => AbsorbsOperands
  BY <1>1, <1>2 DEF AbsorbsOperands
<1> QED
  BY <1>3, Classified, PTL

=============================================================================
