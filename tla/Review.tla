------------------------------- MODULE Review -------------------------------
(***************************************************************************)
(* One invocation of dbguard, review-sql, review-file or review-files,     *)
(* from the command line to the exit code: internal/cli/review.go calling  *)
(* internal/analyzer/analyzer.go.  Each loop of the code takes one step    *)
(* per iteration, so an invariant of the module is an invariant of the     *)
(* loop.                                                                   *)
(***************************************************************************)
EXTENDS Results

VARIABLES
  cmd,         (* The command line and what its inputs turn out to be.      *)
  pc,          (* Where the process is.                                     *)
  f,           (* How many of the inputs have been taken.                   *)
  res,         (* res.Statements: Analyze's results for the current input.  *)
  n,           (* How many of them have been appended to statements.        *)
  statements,  (* aggregated.Statements.                                    *)
  s, j,        (* Aggregate's place: finding j of statement s.              *)
  acc,         (* Aggregate's maxDecision, maxSev and summary.              *)
  stdout,      (* The reports printed.                                      *)
  exit         (* The exit code, NoExit until the process ends.             *)

vars == <<cmd, pc, f, res, n, statements, s, j, acc, stdout, exit>>

input == cmd.inputs[f]

Go(from, to) == pc = from /\ pc' = to

Exit(from, code) == Go(from, "done") /\ exit' = code

NoResult == [decision |-> "none", severity |-> "none", summary |-> ZeroSummary]

Init ==
  /\ cmd \in Commands
  /\ pc = "format"
  /\ f = 0
  /\ res = << >>
  /\ n = 0
  /\ statements = << >>
  /\ s = 1 /\ j = 1
  /\ acc = NoResult
  /\ stdout = << >>
  /\ exit = NoExit

-----------------------------------------------------------------------------
(***************************************************************************)
(* Before the first input: the --format flag, then the policy.             *)
(***************************************************************************)
validateFormat ==
  /\ \/ cmd.format \in Formats /\ Go("format", "policy") /\ UNCHANGED exit
     \/ cmd.format \notin Formats /\ Exit("format", ExitError)
  /\ UNCHANGED <<cmd, f, res, n, statements, s, j, acc, stdout>>

loadPolicy ==
  /\ \/ cmd.policy # "invalid" /\ Go("policy", "read") /\ UNCHANGED exit
     \/ cmd.policy = "invalid" /\ Exit("policy", ExitError)
  /\ UNCHANGED <<cmd, f, res, n, statements, s, j, acc, stdout>>

(* No paths at all: the result keeps its initial values.                   *)
NoPaths ==
  /\ Go("read", "print")
  /\ cmd.inputs = << >>
  /\ acc' = [NoResult EXCEPT !.decision = "allow", !.severity = "low"]
  /\ UNCHANGED <<cmd, f, res, n, statements, s, j, stdout, exit>>

(***************************************************************************)
(* The loop over the inputs.                                               *)
(***************************************************************************)
(* Mutant: a file that cannot be read is tried again.                      *)
ReadFile_Retries ==
  /\ f < Len(cmd.inputs)
  /\ \/ Go("read", "parse") /\ cmd.inputs[f + 1].readable /\ f' = f + 1
     \/ pc = "read" /\ ~cmd.inputs[f + 1].readable /\ UNCHANGED <<pc, f>>
  /\ UNCHANGED <<cmd, res, n, statements, s, j, acc, stdout, exit>>

ReadFile ==
  /\ f < Len(cmd.inputs)
  /\ f' = f + 1
  /\ \/ Go("read", "parse") /\ cmd.inputs[f + 1].readable /\ UNCHANGED exit
     \/ Exit("read", ExitError) /\ ~cmd.inputs[f + 1].readable
  /\ UNCHANGED <<cmd, res, n, statements, s, j, acc, stdout>>

(* Mutant: a file that does not parse is passed over.                      *)
Parse_PassesOver ==
  /\ \/ Go("parse", "analyze") /\ input.parses
     \/ Go("parse", "read") /\ ~input.parses /\ cmd.kind = "files"
  /\ UNCHANGED <<cmd, f, res, n, statements, s, j, acc, stdout, exit>>

Parse ==
  /\ \/ Go("parse", "analyze") /\ input.parses /\ UNCHANGED exit
     \/ Exit("parse", ExitError) /\ ~input.parses
  /\ UNCHANGED <<cmd, f, res, n, statements, s, j, acc, stdout>>

convertFindings(statementIndex, fs) ==
  [i \in DOMAIN fs |->
     [decision |-> fs[i].decision, severity |-> fs[i].severity,
      statementIndex |-> statementIndex]]

(* One iteration of Analyze: the statement gets its number in the input.   *)
(* What Analyze then aggregates of a single file is not used by ReviewFiles. *)
Analyze ==
  /\ pc = "analyze" /\ Len(res) < Len(input.stmts)
  /\ LET i == Len(res) + 1
     IN  res' = Append(res,
           [index |-> i, path |-> NoPath, line |-> input.stmts[i].line,
            findings |-> convertFindings(i, input.stmts[i].findings)])
  /\ UNCHANGED <<cmd, pc, f, n, statements, s, j, acc, stdout, exit>>

AnalyzeDone ==
  /\ Go("analyze", "append")
  /\ cmd.kind = "files" /\ Len(res) = Len(input.stmts)
  /\ UNCHANGED <<cmd, f, res, n, statements, s, j, acc, stdout, exit>>

(* Mutant: the findings keep their number in the file.                     *)
renumber_Forgotten(index, fs) == fs

renumber(index, fs) ==
  [i \in DOMAIN fs |-> [fs[i] EXCEPT !.statementIndex = index]]

(* One iteration of the inner loop of ReviewFiles: the statement gets the  *)
(* file's path and its number in the review, and so do its findings.       *)
AppendStatement ==
  /\ pc = "append" /\ n < Len(res)
  /\ LET st    == res[n + 1]
         index == Len(statements) + 1
     IN  statements' = Append(statements,
           [index |-> index, path |-> input.path, line |-> st.line,
            findings |-> renumber(index, st.findings)])
  /\ n' = n + 1
  /\ UNCHANGED <<cmd, pc, f, res, s, j, acc, stdout, exit>>

NextFile ==
  /\ Go("append", "read")
  /\ n = Len(res)
  /\ res' = << >>
  /\ n' = 0
  /\ UNCHANGED <<cmd, f, statements, s, j, acc, stdout, exit>>

-----------------------------------------------------------------------------
(***************************************************************************)
(* Aggregate, over all files for ReviewFiles and over the one input for    *)
(* ReviewSQL.                                                              *)
(***************************************************************************)
(* Mutant: the statements are not counted.                                 *)
StartAggregate_Uncounted(srs) ==
  /\ statements' = srs
  /\ acc' = NoResult
  /\ UNCHANGED <<cmd, f, res, n, s, j, stdout, exit>>

StartAggregate(srs) ==
  /\ statements' = srs
  /\ acc' = [NoResult EXCEPT !.summary.statements = Len(srs)]
  /\ UNCHANGED <<cmd, f, res, n, s, j, stdout, exit>>

(* Mutant: the loop over the files may be left early.                      *)
AggregateFiles_Early ==
  /\ Go("read", "aggregate")
  /\ cmd.inputs # << >> /\ f > 0
  /\ StartAggregate(statements)

AggregateFiles ==
  /\ Go("read", "aggregate")
  /\ cmd.inputs # << >> /\ f = Len(cmd.inputs)
  /\ StartAggregate(statements)

AggregateSQL ==
  /\ Go("analyze", "aggregate")
  /\ cmd.kind = "sql" /\ Len(res) = Len(input.stmts)
  /\ StartAggregate(res)

One(condition) == IF condition THEN 1 ELSE 0

(* Mutant: the last one wins.                                              *)
Stricter_LastWins(rank, x, y) == x

Stricter(rank, x, y) == IF rank[x] > rank[y] THEN x ELSE y

AggregateFinding ==
  /\ pc = "aggregate"
  /\ s <= Len(statements) /\ j <= Len(statements[s].findings)
  /\ LET fd == statements[s].findings[j]
         sm == acc.summary
     IN  acc' =
           [decision |-> Stricter(decisionStrictness, fd.decision, acc.decision),
            severity |-> Stricter(severityLevel, fd.severity, acc.severity),
            summary  |-> [statements |-> sm.statements,
                          findings |-> sm.findings + 1,
                          blocks   |-> sm.blocks + One(fd.decision = "block"),
                          warnings |-> sm.warnings + One(fd.decision = "warn")]]
  /\ j' = j + 1
  /\ UNCHANGED <<cmd, pc, f, res, n, statements, s, stdout, exit>>

AggregateStatement ==
  /\ pc = "aggregate"
  /\ s <= Len(statements) /\ j > Len(statements[s].findings)
  /\ s' = s + 1
  /\ j' = 1
  /\ UNCHANGED <<cmd, pc, f, res, n, statements, acc, stdout, exit>>

(* Mutant: no findings, no decision.                                       *)
AggregateDone_NoDefault ==
  /\ Go("aggregate", "print")
  /\ s > Len(statements)
  /\ UNCHANGED <<cmd, f, res, n, statements, s, j, acc, stdout, exit>>

AggregateDone ==
  /\ Go("aggregate", "print")
  /\ s > Len(statements)
  /\ acc' = [acc EXCEPT
       !.decision = IF acc.decision = "none" THEN "allow" ELSE acc.decision,
       !.severity = IF acc.severity = "none" THEN "low" ELSE acc.severity]
  /\ UNCHANGED <<cmd, f, res, n, statements, s, j, stdout, exit>>

-----------------------------------------------------------------------------
(* Mutant: the path of a single file is left out.                          *)
report_NoSource ==
  [decision |-> acc.decision, severity |-> acc.severity, summary |-> acc.summary,
   statements |-> statements, sourcePath |-> NoPath]

report ==
  [decision |-> acc.decision, severity |-> acc.severity, summary |-> acc.summary,
   statements |-> statements,
   sourcePath |-> IF cmd.kind = "files" /\ Len(cmd.inputs) = 1
                  THEN cmd.inputs[1].path ELSE NoPath]

(* Rendering can fail in the structured formats.  Println's own error is   *)
(* dropped, so the exit code does not tell whether the report got out.     *)
printAndExit ==
  /\ \/ /\ Exit("print", decisionToExit[acc.decision])
        /\ stdout' \in {stdout, Append(stdout, report)}
     \/ /\ cmd.format \in {"json", "sarif"}
        /\ Exit("print", ExitError)
        /\ UNCHANGED stdout
  /\ UNCHANGED <<cmd, f, res, n, statements, s, j, acc>>

Done == pc = "done" /\ UNCHANGED vars

Next ==
  \/ validateFormat \/ loadPolicy \/ NoPaths
  \/ ReadFile \/ Parse \/ Analyze \/ AnalyzeDone \/ AppendStatement \/ NextFile
  \/ AggregateFiles \/ AggregateSQL
  \/ AggregateFinding \/ AggregateStatement \/ AggregateDone
  \/ printAndExit \/ Done

Spec == Init /\ [][Next]_vars /\ WF_vars(Next)

-----------------------------------------------------------------------------
(***************************************************************************)
(* Properties.                                                             *)
(***************************************************************************)
PCs == {"format", "policy", "read", "parse", "analyze", "append",
        "aggregate", "print", "done"}

(* Every variable has its type, and the counters of the loops stay within  *)
(* the sequences they run over (so no step indexes out of range).          *)
TypeOK ==
  /\ cmd \in Command /\ InputsOf(cmd.kind, cmd.inputs)
  /\ pc \in PCs
  /\ f \in 0..Len(cmd.inputs)
  /\ pc \in {"parse", "analyze", "append"} => f > 0
  /\ res \in Seq(StatementResult)
  /\ n \in 0..Len(res)
  /\ statements \in Seq(StatementResult)
  /\ s \in Nat /\ j \in Nat /\ s >= 1 /\ j >= 1
  /\ acc \in [decision : Decisions \cup {"none"}, severity : Severities \cup {"none"},
              summary : Summary]
  /\ pc = "print" => acc.decision \in Decisions /\ acc.severity \in Severities
  /\ stdout \in Seq(Report)
  /\ exit \in {NoExit, 0, ExitError, 2, 3}

(* A finding with decision d on some statement of some input.              *)
Found(d) ==
  \E i \in DOMAIN cmd.inputs : \E k \in DOMAIN cmd.inputs[i].stmts :
    \E q \in DOMAIN cmd.inputs[i].stmts[k].findings :
      cmd.inputs[i].stmts[k].findings[q].decision = d

(* Strictest wins, end to end: whatever the number of inputs and wherever  *)
(* the finding is, a review that succeeds exits 3 exactly when some        *)
(* statement of some input has a block finding, and 2 exactly when some    *)
(* have a warn finding and none a block one.                               *)
StrictestWins ==
  exit \in {0, 2, 3} =>
    /\ exit = 3 <=> Found("block")
    /\ exit = 2 <=> Found("warn") /\ ~Found("block")

(* All or nothing: a failure leaves nothing on standard output, whatever   *)
(* inputs were reviewed before it, and a report means that the policy was  *)
(* accepted and that every input was read and parsed, also those after the *)
(* first block finding.                                                    *)
AllOrNothing ==
  /\ exit = ExitError => stdout = << >>
  /\ stdout # << >> =>
       /\ cmd.policy # "invalid"
       /\ \A i \in DOMAIN cmd.inputs : cmd.inputs[i].readable /\ cmd.inputs[i].parses

(* The statements gathered so far are numbered 1, 2, ... across the inputs *)
(* and every finding points back at the statement that holds it, though    *)
(* Analyze numbered both within one input.                                 *)
FindingsPointBack ==
  \A k \in DOMAIN statements :
    /\ statements[k].index = k
    /\ \A q \in DOMAIN statements[k].findings :
         statements[k].findings[q].statementIndex = k

(* What the report says of itself agrees: it counts its statements, and    *)
(* its decision is block exactly when it counts a block, and warn exactly  *)
(* when it counts warnings only.                                           *)
SummaryAgrees ==
  \A r \in {stdout[i] : i \in DOMAIN stdout} :
    /\ r.summary.statements = Len(r.statements)
    /\ r.summary.blocks + r.summary.warnings <= r.summary.findings
    /\ r.decision = "block" <=> r.summary.blocks > 0
    /\ r.decision = "warn" <=> r.summary.blocks = 0 /\ r.summary.warnings > 0
    /\ exit = decisionToExit[r.decision]

-----------------------------------------------------------------------------
(***************************************************************************)
(* Loop invariants: what makes the properties above hold, loop by loop.    *)
(***************************************************************************)
SameFindings(found, fs) ==
  /\ Len(found) = Len(fs)
  /\ \A q \in DOMAIN fs : /\ found[q].decision = fs[q].decision
                          /\ found[q].severity = fs[q].severity

(* Everything that could have failed so far has not.                       *)
GoodSoFar ==
  pc # "done" =>
    /\ pc \notin {"format", "policy"} => cmd.policy # "invalid"
    /\ \A i \in 1..f : /\ cmd.inputs[i].readable
                       /\ (i < f \/ pc # "parse") => cmd.inputs[i].parses
    /\ stdout = << >> /\ exit = NoExit

(* Where the loop over the inputs stands.                                  *)
InputLoop ==
  /\ pc \in {"format", "policy"} => f = 0
  /\ pc \in {"aggregate", "print"} => f = Len(cmd.inputs)
  /\ pc \in {"read", "append"} /\ f > 0 => cmd.kind = "files"
  /\ cmd.kind = "sql" /\ pc \in {"format", "policy", "read", "parse", "analyze"}
       => statements = << >>
  /\ pc \in {"format", "policy", "read", "parse"} => res = << >>
  /\ pc # "append" => n = 0

(* The results of the current input follow its statements.                 *)
AnalyzeLoop ==
  pc \in {"analyze", "append"} =>
    /\ Len(res) <= Len(input.stmts)
    /\ pc = "append" => Len(res) = Len(input.stmts)
    /\ \A k \in DOMAIN res : /\ SameFindings(res[k].findings, input.stmts[k].findings)
                             /\ res[k].index = k
                             /\ \A q \in DOMAIN res[k].findings :
                                  res[k].findings[q].statementIndex = k

(* No statement is invented: each one gathered is one of an input taken.   *)
NoneInvented ==
  pc # "done" =>
    \A k \in DOMAIN statements : \E i \in 1..f : \E t \in DOMAIN cmd.inputs[i].stmts :
      SameFindings(statements[k].findings, cmd.inputs[i].stmts[t].findings)

(* No statement is lost: those of the inputs taken before the current one, *)
(* and of the current one up to where the loop is, have all been gathered. *)
NoneLost ==
  pc # "done" =>
    \A i \in 1..f : \A t \in DOMAIN cmd.inputs[i].stmts :
      (i < f \/ pc \in {"read", "aggregate", "print"} \/ (pc = "append" /\ t <= n)) =>
        \E k \in DOMAIN statements :
          SameFindings(statements[k].findings, cmd.inputs[i].stmts[t].findings)

(* A finding with decision d before Aggregate's place.                     *)
Seen(d) ==
  \E k \in DOMAIN statements : \E q \in DOMAIN statements[k].findings :
    /\ k < s \/ (k = s /\ q < j)
    /\ statements[k].findings[q].decision = d

(* Aggregate has the strictest decision of what it has seen, and counts it. *)
AggregateLoop ==
  /\ pc \notin {"aggregate", "print", "done"} => s = 1 /\ j = 1
  /\ pc = "aggregate" /\ s <= Len(statements) => j <= Len(statements[s].findings) + 1
  /\ pc \in {"aggregate", "print"} =>
       /\ s <= Len(statements) + 1
       /\ acc.decision = "block" <=> Seen("block")
       /\ acc.decision = "warn" <=> Seen("warn") /\ ~Seen("block")
       /\ acc.summary.statements = Len(statements)
       /\ acc.summary.blocks + acc.summary.warnings <= acc.summary.findings
       /\ acc.decision = "block" <=> acc.summary.blocks > 0
       /\ acc.decision = "warn" <=> acc.summary.blocks = 0 /\ acc.summary.warnings > 0
  /\ pc = "print" => s = Len(statements) + 1

(* The strengthening that makes the properties inductive, loop by loop:    *)
(* inputs taken without failure, their statements all gathered and no      *)
(* other, and the accumulator exact for the findings passed.               *)
LoopInvariants ==
  /\ GoodSoFar /\ InputLoop /\ AnalyzeLoop
  /\ NoneInvented /\ NoneLost /\ AggregateLoop

(* Every invocation ends, with an exit code.                               *)
Terminates == <>(pc = "done" /\ exit # NoExit)

=============================================================================
