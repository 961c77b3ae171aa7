------------------------------ MODULE Reports -------------------------------
(***************************************************************************)
(* The structured reports, internal/report: what SARIF and JSON make of a  *)
(* result.  Titles, messages and other texts are left out.                 *)
(***************************************************************************)
EXTENDS Results, SequencesExt

(* Mutant: what is not a block is a note.                                  *)
sarifLevel_BlocksOnly == [d \in Decisions |-> IF d = "block" THEN "error" ELSE "note"]

sarifLevel == [d \in Decisions |-> CASE d = "block" -> "error" [] d = "warn" -> "warning"
                                     [] OTHER -> "note"]

(* Where a statement is, if a path is known: its own, or that of the whole *)
(* report; a line is at least 1.                                           *)
Locations(report, st) ==
  LET path == IF st.path # NoPath THEN st.path ELSE report.sourcePath
  IN  IF path = NoPath THEN << >> ELSE <<[path |-> path, line |-> Max({st.line, 1})]>>

(* One result per finding, in the order of the statements.                 *)
SARIF(report) ==
  FlattenSeq([k \in DOMAIN report.statements |->
    LET st == report.statements[k]
    IN  [q \in DOMAIN st.findings |->
           [level     |-> sarifLevel[st.findings[q].decision],
            locations |-> Locations(report, st)]]])

(* A statement has a location only if its file is known.                   *)
JSON(report) ==
  [decision   |-> report.decision,
   severity   |-> report.severity,
   summary    |-> report.summary,
   statements |-> [k \in DOMAIN report.statements |->
     LET st == report.statements[k]
     IN  [index    |-> st.index, startLine |-> st.line, findings |-> st.findings,
          location |-> IF st.path = NoPath THEN << >>
                       ELSE <<[path |-> st.path, line |-> st.line]>>]]]

=============================================================================
