------------------------------ MODULE Verdicts ------------------------------
(***************************************************************************)
(* Decisions and severities, their orders, and the exit codes.             *)
(***************************************************************************)
EXTENDS Integers

Decisions  == {"allow", "warn", "block"}
Severities == {"low", "medium", "high", "critical"}

(* Go's zero value "" of a decision or a severity is "none".               *)
decisionStrictness ==
  [d \in Decisions \cup {"none"} |->
     CASE d = "block" -> 3 [] d = "warn" -> 2 [] d = "allow" -> 1 [] OTHER -> 0]

severityLevel ==
  [s \in Severities \cup {"none"} |->
     CASE s = "critical" -> 4 [] s = "high" -> 3 [] s = "medium" -> 2
       [] s = "low" -> 1 [] OTHER -> 0]

decisionToExit ==
  [d \in Decisions |-> CASE d = "block" -> 3 [] d = "warn" -> 2 [] OTHER -> 0]

ExitError == 1
NoExit    == -1   (* Not an exit code: the process is still running.       *)

=============================================================================
