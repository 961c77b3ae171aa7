----------------------------- MODULE ReviewGate -----------------------------
(***************************************************************************)
(* The program implements the gate: under the mapping that forgets the     *)
(* loops, reading, parsing, analyzing and aggregating are stuttering steps *)
(* and only the step that ends the process is a step of Gate.              *)
(***************************************************************************)
EXTENDS Review, Reports, Answers

G == INSTANCE Gate

(* dbguard keeps the gate's promise, which includes that what it prints is *)
(* the report of all inputs: statements in order and numbered, each with   *)
(* its file and line, the strictest decision, the greatest severity, exact *)
(* counts.                                                                 *)
ImplementsGate == G!Spec

(* Code scanning shows what the gate decides: the SARIF form of a report   *)
(* has as many results as the report counts findings, of errors as many as *)
(* it counts blocks, so that there is one exactly when the exit code is 3, *)
(* and of warnings as many as it counts warnings.  Results of files are    *)
(* all at a place in one of them, at the line where a statement begins     *)
(* that holds a finding.                                                   *)
SarifAgrees ==
  \A r \in ToSet(stdout) :
    LET results   == SARIF(r)
        At(level) == Cardinality({i \in DOMAIN results : results[i].level = level})
    IN  /\ Len(results) = r.summary.findings
        /\ At("error") = r.summary.blocks /\ (At("error") > 0 <=> exit = 3)
        /\ At("warning") = r.summary.warnings
        /\ \A x \in ToSet(results) : \A at \in ToSet(x.locations) :
             \E k \in DOMAIN cmd.inputs : \E st \in ToSet(cmd.inputs[k].stmts) :
               at = [path |-> cmd.inputs[k].path, line |-> st.line] /\ st.findings # << >>
        /\ cmd.kind = "files" => \A x \in ToSet(results) : x.locations # << >>

=============================================================================
