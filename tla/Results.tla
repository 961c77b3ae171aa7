------------------------------ MODULE Results -------------------------------
(***************************************************************************)
(* The vocabulary of a review: findings, statement results, and the        *)
(* command line that asks for the review together with what its inputs     *)
(* turn out to be.                                                         *)
(***************************************************************************)
EXTENDS Verdicts, Sequences

CONSTANTS
  Paths,     (* The paths of SQL files.                                    *)
  NoPath,    (* "": no path, the source of inline SQL.                     *)
  Commands   (* The command lines considered; elements of Command.         *)

(***************************************************************************)
(* A statement of an input: the line it starts at and what rules.Check     *)
(* answers for it under the policy in force, as a sequence of findings.    *)
(* (Module Rules says how that answer is found.)                           *)
(***************************************************************************)
RuleFinding == [decision : Decisions, severity : Severities]
Statement   == [line : Nat \ {0}, findings : Seq(RuleFinding)]

(***************************************************************************)
(* A command line, with what the file system and the SQL parser answer for *)
(* each input.  Inline SQL (review-sql) is a command of kind "sql": one    *)
(* input, which needs no file.                                             *)
(***************************************************************************)
Formats == {"human", "json", "sarif"}
Input   == [path : Paths \cup {NoPath}, readable : BOOLEAN, parses : BOOLEAN,
            stmts : Seq(Statement)]
Command == [kind   : {"sql", "files"},
            format : Formats \cup {"other"},
            policy : {"default", "valid", "invalid"},
            inputs : Seq(Input)]

ASSUME PathsAssumption == NoPath \notin Paths

(* Files have paths; inline SQL is a single input that needs no reading.   *)
InputsOf(kind, inputs) ==
  /\ kind = "sql" => Len(inputs) = 1 /\ inputs[1].readable
  /\ \A i \in DOMAIN inputs : inputs[i].path = NoPath <=> kind = "sql"

ASSUME CommandsAssumption ==
  \A c \in Commands : c \in Command /\ InputsOf(c.kind, c.inputs)

(***************************************************************************)
(* What a result holds.                                                    *)
(***************************************************************************)
Finding == [decision : Decisions, severity : Severities, statementIndex : Nat]
StatementResult ==
  [index : Nat, path : Paths \cup {NoPath}, line : Nat, findings : Seq(Finding)]
Summary == [statements : Nat, findings : Nat, blocks : Nat, warnings : Nat]
Report  == [decision : Decisions, severity : Severities, summary : Summary,
            statements : Seq(StatementResult), sourcePath : Paths \cup {NoPath}]
ZeroSummary == [statements |-> 0, findings |-> 0, blocks |-> 0, warnings |-> 0]

=============================================================================
