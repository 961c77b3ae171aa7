------------------------- MODULE SamplePredicates ---------------------------
(***************************************************************************)
(* Predicates over a bool column and a number column, that is over any two *)
(* bools and numbers or null, two operators deep.  Floats have four bits   *)
(* here, not 53, and a million is eight.                                   *)
(***************************************************************************)
EXTENDS SqlValues

SampleFloats  == -16..16 \cup {2 * n : n \in -16..16}
SampleMillion == 8

SampleRows ==
  [flag : {Bool(TRUE), Bool(FALSE), Null}, id : {Number(1), Number(2), Null},
   now : {Number(1), Number(2)}]

Constant(v)       == [kind |-> "const", args |-> << >>, value |-> v]
Named(kind, name) == [kind |-> kind, args |-> << >>, name |-> name]
Of(kind, args)    == [kind |-> kind, args |-> args]
Op(op, a, b)      == [kind |-> "op", args |-> <<a, b>>, op |-> op]
CastTo(to, a)     == [kind |-> "cast", args |-> <<a>>, to |-> to]
Test(is, a)       == [kind |-> "boolean test", args |-> <<a>>, is |-> is]
NullTest(is, a)   == [kind |-> "null test", args |-> <<a>>, is |-> is]

One  == Constant(Ival(1))
Zero == Constant(Ival(0))
None == Constant(Null)

Bools   == {Constant(Bool(TRUE)), Constant(Bool(FALSE)), None, Named("column", "flag")}
Numbers == {One, Constant(Ival(2)), None, Named("column", "id"), Named("call", "now")}
Texts   == {Constant(Text("a")), Constant(Text("true")), None}

(* Numbers at the limits of what is told apart.                            *)
Literals ==
  {Constant(Ival(n)) : n \in {-8, 0, 1, 8}}
    \cup {Constant(Fval(n, "decimal")) : n \in {-8, 0, 1, 8, 16, 17, 18}}
    \cup {Constant(Fval(0, "-0.0")), Constant(Fval(8, "0x")), Constant(Fval(8, "0X"))}

Comparisons ==
  {Op(op, a, b) : op \in {"=", "<>", ">", "<="}, a, b \in Numbers}
    \cup {Of(k, <<a, b>>) : k \in {"distinct", "not distinct"}, a, b \in Numbers}
    \cup {Op(op, a, b) : op \in {"=", "<>"}, a, b \in Texts}

Measures ==
  {Op(op, a, b) : op \in {"=", "<", ">", "<=", ">="}, a, b \in Literals}
    \cup {Of("not distinct", <<a, b>>) : a, b \in Literals}

Others ==
  {Of("in", <<a, Of("list", <<b, c>>)>>) : a, b, c \in Numbers}
    \cup {Of("coalesce", <<a, b>>) : a, b \in Bools}
    \cup {Op("=", Op("+", One, a), b) : a, b \in Numbers}
    \cup {Op(">", One, Of("prefix", <<a>>)) : a \in {None, Named("column", "id")}}
    \cup {CastTo("bool", a) : a \in Bools \cup Texts \cup {One, Zero}}
    \cup {Op("=", CastTo("number", a), One) : a \in Bools \cup Numbers}
    \cup Texts

Tests  == {Test(is, a) : is \in Truths, a \in Bools \cup Texts}
            \cup {NullTest(is, a) : is \in Nulls, a \in Numbers}

Few == Bools \cup {Op("=", One, One), Op(">", One, Named("column", "id")),
                   Op("=", One, None), Of("coalesce", <<None, Constant(Bool(TRUE))>>)}

Combinations ==
  {Of(k, <<a, b>>) : k \in {"and", "or"}, a, b \in Few}
    \cup {Of(k, <<a, b, c>>) : k \in {"and", "or"}, a, b, c \in Bools}
    \cup {Of("not", <<a>>) : a \in Few}

Predicates ==
  LET simple == Bools \cup Comparisons \cup Measures \cup Others \cup Tests \cup Combinations
  IN  simple \cup {Of("not", <<a>>) : a \in Comparisons \cup Measures \cup Combinations}
             \cup {Of(k, <<a, b>>) : k \in {"and", "or"}, a \in Combinations, b \in Few}
             \cup {Test(is, a) : is \in Truths, a \in Comparisons \cup Combinations}

=============================================================================
