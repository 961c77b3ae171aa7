-------------------------------- MODULE Gate --------------------------------
(***************************************************************************)
(* What one invocation of dbguard promises, without how it gets there: it  *)
(* takes a command and answers once.  Either it fails (exit code 1 and no  *)
(* report), or it reports on every statement of every input, in order, and *)
(* exits with the code of the strictest decision of all their findings.    *)
(* Module Review is the program; it implements this specification.         *)
(***************************************************************************)
EXTENDS Answers

VARIABLES
  cmd,      (* The command line and its inputs.                            *)
  stdout,   (* The reports printed.                                        *)
  exit      (* The exit code, NoExit until the process ends.               *)

gateVars == <<cmd, stdout, exit>>

Init ==
  /\ cmd \in Commands
  /\ stdout = << >>
  /\ exit = NoExit

(* A failure needs a cause: a bad command or input, or a structured report *)
(* that cannot be rendered.                                                *)
Fail ==
  /\ exit = NoExit
  /\ Reviewable(cmd) => cmd.format \in {"json", "sarif"}
  /\ exit' = ExitError
  /\ UNCHANGED <<cmd, stdout>>

(* Standard output may not take the report; the exit code is the decision's *)
(* either way.                                                             *)
Answer ==
  /\ exit = NoExit
  /\ Reviewable(cmd)
  /\ exit' = decisionToExit[StrictestDecision(AllStatements(cmd))]
  /\ stdout' \in {stdout, <<ReportOf(cmd)>>}
  /\ UNCHANGED cmd

Next == Fail \/ Answer

Spec == Init /\ [][Next]_gateVars /\ WF_gateVars(Next)

=============================================================================
