----------------------------- MODULE SqlValues ------------------------------
(***************************************************************************)
(* The constants of SQL expressions, as the syntax tree has them, the      *)
(* values that SQL gives them, and what internal/parser/predicate_cgo.go   *)
(* keeps of them.                                                          *)
(*                                                                         *)
(* Numbers are integers, of any size.  Fractions are left out: they are    *)
(* rounded alike when they become floats, but also by casts.               *)
(***************************************************************************)
EXTENDS Integers

(***************************************************************************)
(* Values.  A number is an integer in SQL, and in the code the text that   *)
(* it has been brought to.                                                 *)
(***************************************************************************)
Unknown   == [kind |-> "unknown"]
Null      == [kind |-> "null"]
Bool(b)   == [kind |-> "bool", boolV |-> b]
Number(n) == [kind |-> "number", numV |-> n]
Text(s)   == [kind |-> "string", strV |-> s]

known(v) == v.kind # "unknown"

(***************************************************************************)
(* Numerals: a 32-bit integer comes as an Ival, and whatever else as an    *)
(* Fval, with its text.  Of that text what matters is whether it is a      *)
(* decimal, a zero with a minus sign, or one that strconv.ParseFloat       *)
(* refuses: beyond its range or, as here, in hexadecimal, in capitals or   *)
(* not.                                                                    *)
(***************************************************************************)
Refused == {"0x", "0X"}
Notations == {"decimal", "-0.0"} \cup Refused

Ival(n)          == [kind |-> "ival", ival |-> n]
Fval(n, written) == [kind |-> "fval", fval |-> n, written |-> written]

Constants == {Null} \cup [kind : {"bool"}, boolV : BOOLEAN] \cup [kind : {"string"}, strV : STRING]
               \cup [kind : {"ival"}, ival : Int]
               \cup [kind : {"fval"}, fval : Int, written : Notations]

(* The number of a numeral.                                                *)
Counted(c) == IF c.kind = "ival" THEN c.ival ELSE c.fval

(* What a test of truth, and one of null, may test: IS NOT TRUE and so on. *)
Truths == {"true", "not true", "false", "not false", "unknown", "not unknown"}
Nulls  == {"null", "not null"}

=============================================================================
