------------------------------- MODULE Answers ------------------------------
(***************************************************************************)
(* What there is to answer to a command: its statements in order, the      *)
(* findings on them, what these amount to, and the report of it all.       *)
(***************************************************************************)
EXTENDS Results, SequencesExt

(* Nothing in the command's format, policy or inputs makes a review fail.  *)
Reviewable(c) ==
  /\ c.format \in Formats
  /\ c.policy # "invalid"
  /\ \A i \in DOMAIN c.inputs : c.inputs[i].readable /\ c.inputs[i].parses

(***************************************************************************)
(* All statements of a command, in order, and all findings on them, found  *)
(* by the place <<statement, finding>> they are at.                        *)
(***************************************************************************)
StatementsOf(file) ==
  [s \in DOMAIN file.stmts |->
     [path |-> file.path, line |-> file.stmts[s].line, findings |-> file.stmts[s].findings]]

AllStatements(c) == FlattenSeq([i \in DOMAIN c.inputs |-> StatementsOf(c.inputs[i])])

Places(stmts) ==
  UNION { {s} \X DOMAIN stmts[s].findings : s \in DOMAIN stmts }

FindingAt(stmts, place) == stmts[place[1]].findings[place[2]]

Values(stmts, attribute) ==
  { FindingAt(stmts, p)[attribute] : p \in Places(stmts) }

Count(stmts, decision) ==
  Cardinality({ p \in Places(stmts) : FindingAt(stmts, p).decision = decision })

(* The greatest of the values V, or least when there are none.             *)
Greatest(V, rank, least) ==
  CHOOSE v \in V \cup {least} : \A w \in V \cup {least} : rank[w] <= rank[v]

StrictestDecision(stmts) ==
  Greatest(Values(stmts, "decision"), decisionStrictness, "allow")

GreatestSeverity(stmts) ==
  Greatest(Values(stmts, "severity"), severityLevel, "low")

(***************************************************************************)
(* The report of a command: its statements numbered 1, 2, ... across all   *)
(* inputs, each finding pointing back at its statement, the strictest      *)
(* decision, the greatest severity, and the counts.  The report as a whole *)
(* has a source only when there is a single file.                          *)
(***************************************************************************)
ReportOf(c) ==
  LET stmts == AllStatements(c)
  IN  [statements |->
         [k \in DOMAIN stmts |->
            [index |-> k, path |-> stmts[k].path, line |-> stmts[k].line,
             findings |-> [j \in DOMAIN stmts[k].findings |->
                             [decision |-> stmts[k].findings[j].decision,
                              severity |-> stmts[k].findings[j].severity,
                              statementIndex |-> k]]]],
       decision |-> StrictestDecision(stmts),
       severity |-> GreatestSeverity(stmts),
       summary  |-> [statements |-> Len(stmts),
                     findings   |-> Cardinality(Places(stmts)),
                     blocks     |-> Count(stmts, "block"),
                     warnings   |-> Count(stmts, "warn")],
       sourcePath |-> IF Len(c.inputs) = 1 THEN c.inputs[1].path ELSE NoPath]

=============================================================================
