---------------------------- MODULE ReviewProofs ----------------------------
(***************************************************************************)
(* Theorems about module Review, for every set of paths and of commands:   *)
(* its invariants, and that it implements Gate.  The initial states of     *)
(* Review are initial states of Gate, and every step of Review is a step   *)
(* of Gate or leaves what Gate speaks of alone.                            *)
(***************************************************************************)
EXTENDS ReviewGate, SequenceTheorems, AnswerLemmas

USE PathsAssumption

-----------------------------------------------------------------------------
(* Numbering findings keeps them findings, as many as there were.          *)
LEMMA ConvertFindings ==
  ASSUME NEW fs \in Seq(RuleFinding), NEW i \in Nat
  PROVE  /\ convertFindings(i, fs) \in Seq(Finding)
         /\ Len(convertFindings(i, fs)) = Len(fs)
         /\ DOMAIN convertFindings(i, fs) = DOMAIN fs
<1>1. fs \in [1..Len(fs) -> RuleFinding] /\ Len(fs) \in Nat /\ DOMAIN fs = 1..Len(fs)
  BY LenProperties
<1>2. convertFindings(i, fs) \in [1..Len(fs) -> Finding]
  BY <1>1 DEF convertFindings, RuleFinding, Finding
<1> QED
  BY <1>1, <1>2, SeqDef DEF convertFindings

(* Renumbering the findings of a statement changes nothing else of them.   *)
LEMMA Renumber ==
  ASSUME NEW fs \in Seq(Finding), NEW i \in Nat
  PROVE  /\ renumber(i, fs) \in Seq(Finding)
         /\ Len(renumber(i, fs)) = Len(fs)
         /\ DOMAIN renumber(i, fs) = DOMAIN fs
<1>1. fs \in [1..Len(fs) -> Finding] /\ Len(fs) \in Nat /\ DOMAIN fs = 1..Len(fs)
  BY LenProperties
<1>2. renumber(i, fs) \in [1..Len(fs) -> Finding]
  BY <1>1 DEF renumber, Finding
<1> QED
  BY <1>1, <1>2, SeqDef DEF renumber

-----------------------------------------------------------------------------
(* What there is to know of a sequence of statement results.               *)
LEMMA StatementFacts ==
  ASSUME NEW srs \in Seq(StatementResult)
  PROVE  /\ Len(srs) \in Nat
         /\ DOMAIN srs = 1..Len(srs)
         /\ \A k \in 1..Len(srs) :
              /\ srs[k].findings \in Seq(Finding)
              /\ Len(srs[k].findings) \in Nat
              /\ DOMAIN srs[k].findings = 1..Len(srs[k].findings)
              /\ \A q \in 1..Len(srs[k].findings) :
                   /\ srs[k].findings[q] \in Finding
                   /\ srs[k].findings[q].decision \in Decisions
<1>1. Len(srs) \in Nat /\ DOMAIN srs = 1..Len(srs)
  BY LenProperties
<1>2. ASSUME NEW k \in 1..Len(srs)
      PROVE  /\ srs[k].findings \in Seq(Finding)
             /\ Len(srs[k].findings) \in Nat
             /\ DOMAIN srs[k].findings = 1..Len(srs[k].findings)
             /\ \A q \in 1..Len(srs[k].findings) :
                  /\ srs[k].findings[q] \in Finding
                  /\ srs[k].findings[q].decision \in Decisions
  <2>1. srs[k] \in StatementResult
    BY ElementOfSeq
  <2>2. srs[k].findings \in Seq(Finding)
    BY <2>1 DEF StatementResult
  <2>3. \A q \in 1..Len(srs[k].findings) : srs[k].findings[q] \in Finding
    BY <2>2, ElementOfSeq
  <2> QED
    BY <2>2, <2>3, LenProperties DEF Finding
<1> QED
  BY <1>1, <1>2

(* What TypeOK says of the inputs, one by one.                             *)
LEMMA InputFacts ==
  ASSUME TypeOK, NEW i \in 1..Len(cmd.inputs)
  PROVE  /\ Len(cmd.inputs) \in Nat /\ DOMAIN cmd.inputs = 1..Len(cmd.inputs)
         /\ cmd.inputs[i] \in Input
         /\ cmd.inputs[i].path \in Paths \cup {NoPath}
         /\ cmd.inputs[i].stmts \in Seq(Statement)
         /\ Len(cmd.inputs[i].stmts) \in Nat
         /\ DOMAIN cmd.inputs[i].stmts = 1..Len(cmd.inputs[i].stmts)
         /\ \A k \in 1..Len(cmd.inputs[i].stmts) :
              /\ cmd.inputs[i].stmts[k].line \in Nat
              /\ cmd.inputs[i].stmts[k].findings \in Seq(RuleFinding)
<1>1. cmd.inputs \in Seq(Input)
  BY DEF TypeOK, Command
<1>2. cmd.inputs[i] \in Input
  BY <1>1, ElementOfSeq
<1>3. cmd.inputs[i].stmts \in Seq(Statement) /\ cmd.inputs[i].path \in Paths \cup {NoPath}
  BY <1>2 DEF Input
<1>4. \A k \in 1..Len(cmd.inputs[i].stmts) : cmd.inputs[i].stmts[k] \in Statement
  BY <1>3, ElementOfSeq
<1> QED
  BY <1>1, <1>2, <1>3, <1>4, LenProperties DEF Statement

(* No step leaves the types.                                               *)
LEMMA TypeStep ==
  ASSUME TypeOK, [Next]_vars
  PROVE  TypeOK'
<1>0. Len(cmd.inputs) \in Nat
  BY LenProperties DEF TypeOK, Command
<1>1. CASE validateFormat
  BY <1>1 DEF TypeOK, validateFormat, PCs, Go, Exit, ExitError
<1>2. CASE loadPolicy
  BY <1>2 DEF TypeOK, loadPolicy, PCs, Go, Exit, ExitError
<1>3. CASE NoPaths
  BY <1>3 DEF TypeOK, NoPaths, PCs, Go, NoResult, ZeroSummary, Summary, Decisions, Severities
<1>4. CASE ReadFile
  BY <1>0, <1>4 DEF TypeOK, ReadFile, PCs, Go, Exit, ExitError
<1>5. CASE Parse
  BY <1>5 DEF TypeOK, Parse, PCs, Go, Exit, ExitError
<1>6. CASE Analyze
  <2> DEFINE i == Len(res) + 1
  <2>1. /\ f \in 1..Len(cmd.inputs) /\ i \in Nat /\ i \in 1..Len(input.stmts)
    BY <1>0, <1>6, InputFacts, LenProperties DEF TypeOK, Analyze, input
  <2>2. [index |-> i, path |-> NoPath, line |-> input.stmts[i].line,
         findings |-> convertFindings(i, input.stmts[i].findings)] \in StatementResult
    BY <2>1, InputFacts, ConvertFindings DEF StatementResult, input
  <2>3. res' \in Seq(StatementResult) /\ Len(res') = Len(res) + 1
    BY <1>6, <2>2, AppendProperties DEF Analyze, TypeOK
  <2> QED
    BY <1>6, <2>3, LenProperties DEF TypeOK, Analyze
<1>7. CASE AnalyzeDone
  BY <1>7 DEF TypeOK, AnalyzeDone, PCs, Go
<1>8. CASE AppendStatement
  <2> DEFINE st    == res[n + 1]
             index == Len(statements) + 1
  <2>1. n + 1 \in 1..Len(res) /\ index \in Nat
    BY <1>8, LenProperties DEF TypeOK, AppendStatement
  <2>2. st \in StatementResult
    BY <2>1, ElementOfSeq DEF TypeOK
  <2>3. [index |-> index, path |-> input.path, line |-> st.line,
         findings |-> renumber(index, st.findings)] \in StatementResult
    <3>1. f \in 1..Len(cmd.inputs)
      BY <1>0, <1>8 DEF TypeOK, AppendStatement
    <3> QED
      BY <2>1, <2>2, <3>1, InputFacts, Renumber DEF StatementResult, input
  <2>4. statements' \in Seq(StatementResult)
    BY <1>8, <2>3, AppendProperties DEF AppendStatement, TypeOK
  <2> QED
    BY <1>8, <2>1, <2>4 DEF TypeOK, AppendStatement
<1>9. CASE NextFile
  BY <1>9, EmptySeq DEF TypeOK, NextFile, PCs, Go
<1>10. CASE AggregateFiles
  BY <1>10, LenProperties DEF TypeOK, AggregateFiles, StartAggregate, PCs, Go, NoResult,
     ZeroSummary, Summary
<1>11. CASE AggregateSQL
  BY <1>11, LenProperties DEF TypeOK, AggregateSQL, StartAggregate, PCs, Go, NoResult,
     ZeroSummary, Summary
<1>12. CASE AggregateFinding
  <2>1. statements[s] \in StatementResult
    BY <1>12, ElementOfSeq, LenProperties DEF TypeOK, AggregateFinding
  <2>2. statements[s].findings[j] \in Finding
    BY <1>12, <2>1, ElementOfSeq, LenProperties
       DEF TypeOK, AggregateFinding, StatementResult
  <2>3. acc' \in [decision : Decisions \cup {"none"}, severity : Severities \cup {"none"},
                  summary : Summary]
    <3> DEFINE fd == statements[s].findings[j]
               sm == acc.summary
    <3>1. /\ Stricter(decisionStrictness, fd.decision, acc.decision)
               \in Decisions \cup {"none"}
          /\ Stricter(severityLevel, fd.severity, acc.severity)
               \in Severities \cup {"none"}
      BY <2>2 DEF TypeOK, Finding, Stricter
    <3>2. [statements |-> sm.statements, findings |-> sm.findings + 1,
           blocks |-> sm.blocks + One(fd.decision = "block"),
           warnings |-> sm.warnings + One(fd.decision = "warn")] \in Summary
      <4>1. sm \in Summary
        BY DEF TypeOK
      <4>2. One(fd.decision = "block") \in Nat /\ One(fd.decision = "warn") \in Nat
        BY DEF One
      <4> QED
        BY <4>1, <4>2 DEF Summary
    <3> QED
      BY <1>12, <3>1, <3>2 DEF AggregateFinding
  <2> QED
    BY <1>12, <2>3 DEF TypeOK, AggregateFinding
<1>13. CASE AggregateStatement
  BY <1>13 DEF TypeOK, AggregateStatement
<1>14. CASE AggregateDone
  BY <1>14 DEF TypeOK, AggregateDone, PCs, Go, Decisions, Severities
<1>15. CASE printAndExit
  <2>1. decisionToExit[acc.decision] \in {0, 2, 3}
    BY <1>15 DEF TypeOK, printAndExit, decisionToExit, Decisions, Exit, Go
  <2>2. Len(cmd.inputs) = 1 => cmd.inputs[1].path \in Paths \cup {NoPath}
    BY InputFacts
  <2>3. report \in Report
    BY <1>15, <2>2 DEF TypeOK, printAndExit, Exit, Go, report, Report
  <2>4. stdout' \in Seq(Report)
    <3>1. stdout \in Seq(Report) /\ Append(stdout, report) \in Seq(Report)
      BY <2>3, AppendProperties DEF TypeOK
    <3>2. stdout' \in {stdout, Append(stdout, report)}
      BY <1>15 DEF printAndExit
    <3> QED
      BY <3>1, <3>2
  <2> QED
    BY <1>15, <2>1, <2>4 DEF TypeOK, printAndExit, Exit, Go, PCs, ExitError
<1>16. CASE UNCHANGED vars
  BY <1>16 DEF TypeOK, vars, input
<1> QED
  BY <1>1, <1>2, <1>3, <1>4, <1>5, <1>6, <1>7, <1>8, <1>9, <1>10, <1>11, <1>12, <1>13,
     <1>14, <1>15, <1>16 DEF Next, Done

(* Type correctness: no step of any loop leaves the types or indexes a     *)
(* sequence beyond its end.                                                *)
THEOREM TypeCorrect == Spec => []TypeOK
<1>1. Init => TypeOK
  BY CommandsAssumption, EmptySeq DEF Init, TypeOK, PCs, NoResult, ZeroSummary, Summary,
     NoExit, ExitError, Command
<1> QED
  BY <1>1, TypeStep, PTL DEF Spec

-----------------------------------------------------------------------------
(* The loop invariants, one by one.  No step forgets a failure: what could *)
(* have failed so far has not.                                             *)
LEMMA GoodSoFarStep ==
  ASSUME TypeOK, GoodSoFar, InputLoop, [Next]_vars
  PROVE  GoodSoFar'
<1> USE DEF GoodSoFar, Go, Exit
<1>0. Len(cmd.inputs) \in Nat
  BY LenProperties DEF TypeOK, Command
<1>1. CASE validateFormat
  BY <1>1 DEF validateFormat, InputLoop
<1>2. CASE loadPolicy
  BY <1>2 DEF loadPolicy, InputLoop
<1>3. CASE NoPaths
  BY <1>3 DEF NoPaths
<1>4. CASE ReadFile
  BY <1>0, <1>4 DEF ReadFile, TypeOK
<1>5. CASE Parse
  BY <1>0, <1>5 DEF Parse, TypeOK, input
<1>6. CASE Analyze \/ AnalyzeDone \/ AppendStatement \/ NextFile
  BY <1>6 DEF Analyze, AnalyzeDone, AppendStatement, NextFile
<1>7. CASE AggregateFiles \/ AggregateSQL
  BY <1>7 DEF AggregateFiles, AggregateSQL, StartAggregate
<1>8. CASE AggregateFinding \/ AggregateStatement \/ AggregateDone
  BY <1>8 DEF AggregateFinding, AggregateStatement, AggregateDone
<1>9. CASE printAndExit \/ UNCHANGED vars
  BY <1>9 DEF printAndExit, vars
<1> QED
  BY <1>1, <1>2, <1>3, <1>4, <1>5, <1>6, <1>7, <1>8, <1>9 DEF Next, Done

(* The loop over the inputs keeps its place: nothing is gathered before it *)
(* starts, and Aggregate starts once it has taken them all.                *)
LEMMA InputLoopStep ==
  ASSUME TypeOK, InputLoop, [Next]_vars
  PROVE  InputLoop'
<1> USE DEF InputLoop, Go, Exit
<1>0. /\ Len(cmd.inputs) \in Nat
      /\ cmd.kind = "sql" => Len(cmd.inputs) = 1
      /\ cmd.kind \in {"sql", "files"}
      /\ cmd.inputs = << >> => Len(cmd.inputs) = 0
  BY LenProperties, EmptySeq DEF TypeOK, Command, InputsOf
<1>1. CASE validateFormat \/ loadPolicy
  BY <1>1 DEF validateFormat, loadPolicy
<1>2. CASE NoPaths
  BY <1>0, <1>2 DEF NoPaths, TypeOK
<1>3. CASE ReadFile
  BY <1>0, <1>3 DEF ReadFile, TypeOK
<1>4. CASE Parse
  BY <1>4 DEF Parse
<1>5. CASE Analyze \/ AnalyzeDone
  BY <1>5 DEF Analyze, AnalyzeDone
<1>6. CASE AppendStatement \/ NextFile
  BY <1>0, <1>6 DEF AppendStatement, NextFile, TypeOK
<1>7. CASE AggregateFiles
  BY <1>7 DEF AggregateFiles, StartAggregate
<1>8. CASE AggregateSQL
  <2>1. pc = "analyze" /\ cmd.kind = "sql"
    BY <1>8 DEF AggregateSQL
  <2>2. f \in 0..Len(cmd.inputs) /\ f > 0 /\ Len(cmd.inputs) = 1
    BY <1>0, <2>1 DEF TypeOK
  <2>3. f = Len(cmd.inputs)
    BY <2>2
  <2> QED
    BY <1>8, <2>3 DEF AggregateSQL, StartAggregate
<1>9. CASE AggregateFinding \/ AggregateStatement \/ AggregateDone
  BY <1>9 DEF AggregateFinding, AggregateStatement, AggregateDone
<1>10. CASE printAndExit \/ UNCHANGED vars
  BY <1>10 DEF printAndExit, vars
<1> QED
  BY <1>1, <1>2, <1>3, <1>4, <1>5, <1>6, <1>7, <1>8, <1>9, <1>10 DEF Next, Done

(* Numbered findings are the same findings.                                *)
LEMMA SameFindingsConvert ==
  ASSUME NEW fs \in Seq(RuleFinding), NEW i \in Nat
  PROVE  /\ SameFindings(convertFindings(i, fs), fs)
         /\ \A q \in DOMAIN convertFindings(i, fs) :
              convertFindings(i, fs)[q].statementIndex = i
BY ConvertFindings DEF SameFindings, convertFindings

(* Renumbered findings are still the same findings.                        *)
LEMMA SameFindingsRenumber ==
  ASSUME NEW gs \in Seq(Finding), NEW i \in Nat
  PROVE  /\ \A fs \in Seq(RuleFinding) :
              SameFindings(gs, fs) => SameFindings(renumber(i, gs), fs)
         /\ \A q \in DOMAIN renumber(i, gs) : renumber(i, gs)[q].statementIndex = i
<1>1. \A q \in DOMAIN gs : gs[q] \in Finding
  BY ElementOfSeq, LenProperties
<1>2. \A q \in DOMAIN gs : /\ renumber(i, gs)[q].statementIndex = i
                           /\ renumber(i, gs)[q].decision = gs[q].decision
                           /\ renumber(i, gs)[q].severity = gs[q].severity
  BY <1>1 DEF renumber, Finding
<1>3. \A fs \in Seq(RuleFinding) : SameFindings(gs, fs) => DOMAIN gs = DOMAIN fs
  BY LenProperties DEF SameFindings
<1> QED
  BY <1>2, <1>3, Renumber DEF SameFindings

(* The results of the current input follow its statements, one by one.     *)
LEMMA AnalyzeLoopStep ==
  ASSUME TypeOK, AnalyzeLoop, InputLoop, [Next]_vars
  PROVE  AnalyzeLoop'
<1> USE DEF AnalyzeLoop, Go, Exit, input
<1>0. Len(cmd.inputs) \in Nat
  BY LenProperties DEF TypeOK, Command
<1>1. CASE validateFormat \/ loadPolicy \/ NoPaths \/ ReadFile
  BY <1>1 DEF validateFormat, loadPolicy, NoPaths, ReadFile
<1>2. CASE Parse
  <2>1. f \in 1..Len(cmd.inputs)
    BY <1>0, <1>2 DEF Parse, TypeOK
  <2>2. Len(input.stmts) \in Nat /\ Len(res) = 0 /\ DOMAIN res = {}
    BY <1>2, <2>1, InputFacts, EmptySeq DEF Parse, InputLoop
  <2> QED
    BY <1>2, <2>2 DEF Parse
<1>3. CASE Analyze
  <2> DEFINE i == Len(res) + 1
             fs == input.stmts[i].findings
             sr == [index |-> i, path |-> NoPath, line |-> input.stmts[i].line,
                    findings |-> convertFindings(i, fs)]
  <2>1. f \in 1..Len(cmd.inputs) /\ i \in Nat /\ Len(res) \in Nat
        /\ res \in Seq(StatementResult)
    BY <1>0, <1>3, LenProperties DEF Analyze, TypeOK
  <2>2. i \in 1..Len(input.stmts) /\ fs \in Seq(RuleFinding)
        /\ input.stmts[i].line \in Nat
    BY <1>3, <2>1, InputFacts DEF Analyze
  <2>3. sr \in StatementResult
    BY <2>1, <2>2, ConvertFindings DEF StatementResult
  <2>4. SameFindings(sr.findings, fs) /\ sr.index = i
        /\ \A q \in DOMAIN sr.findings : sr.findings[q].statementIndex = i
    BY <2>1, <2>2, SameFindingsConvert
  <2>5. /\ res' = Append(res, sr) /\ Len(res') = i /\ DOMAIN res' = 1..i
        /\ \A k \in 1..Len(res) : res'[k] = res[k]
        /\ res'[i] = sr
    BY <1>3, <2>1, <2>3, AppendProperties DEF Analyze
  <2>6. \A k \in DOMAIN res' : /\ SameFindings(res'[k].findings, input.stmts[k].findings)
                               /\ res'[k].index = k
                               /\ \A q \in DOMAIN res'[k].findings :
                                    res'[k].findings[q].statementIndex = k
    <3> SUFFICES ASSUME NEW k \in 1..i
                 PROVE  /\ SameFindings(res'[k].findings, input.stmts[k].findings)
                        /\ res'[k].index = k
                        /\ \A q \in DOMAIN res'[k].findings :
                             res'[k].findings[q].statementIndex = k
      BY <2>5
    <3>1. CASE k = i
      <4>1. res'[k] = sr /\ input.stmts[k].findings = fs
        BY <2>5, <3>1
      <4>2. sr.index = k /\ \A q \in DOMAIN sr.findings : sr.findings[q].statementIndex = k
        BY <2>4, <3>1
      <4> HIDE DEF sr, fs, i
      <4> QED
        BY <2>4, <4>1, <4>2
    <3>2. CASE k \in 1..Len(res)
      <4>1. k \in DOMAIN res /\ res'[k] = res[k]
        BY <2>1, <2>5, <3>2, LenProperties
      <4>2. pc = "analyze"
        BY <1>3 DEF Analyze
      <4> HIDE DEF sr, fs, i, input
      <4> QED
        BY <4>1, <4>2
    <3> QED
      BY <2>1, <3>1, <3>2
  <2>7. Len(res') <= Len(input.stmts)
    BY <2>2, <2>5
  <2> QED
    BY <1>3, <2>6, <2>7 DEF Analyze
<1>4. CASE AnalyzeDone
  BY <1>4 DEF AnalyzeDone
<1>5. CASE AppendStatement \/ NextFile
  BY <1>5 DEF AppendStatement, NextFile
<1>6. CASE AggregateFiles \/ AggregateSQL
  BY <1>6 DEF AggregateFiles, AggregateSQL, StartAggregate
<1>7. CASE AggregateFinding \/ AggregateStatement \/ AggregateDone \/ printAndExit
  BY <1>7 DEF AggregateFinding, AggregateStatement, AggregateDone, printAndExit
<1>8. CASE UNCHANGED vars
  BY <1>8 DEF vars
<1> QED
  BY <1>1, <1>2, <1>3, <1>4, <1>5, <1>6, <1>7, <1>8 DEF Next, Done

(* What the inner loop of ReviewFiles appends.                             *)
LEMMA AppendStatementFacts ==
  ASSUME TypeOK, AnalyzeLoop, AppendStatement
  PROVE  LET last == Len(statements) + 1
         IN  /\ f \in 1..Len(cmd.inputs)
             /\ n + 1 \in 1..Len(input.stmts)
             /\ last \in Nat
             /\ DOMAIN statements = 1..Len(statements)
             /\ DOMAIN statements' = 1..last
             /\ \A k \in 1..Len(statements) : statements'[k] = statements[k]
             /\ SameFindings(statements'[last].findings, input.stmts[n + 1].findings)
             /\ statements'[last].index = last
             /\ \A q \in DOMAIN statements'[last].findings :
                  statements'[last].findings[q].statementIndex = last
<1> DEFINE last == Len(statements) + 1
           st == res[n + 1]
           sr == [index |-> last, path |-> input.path, line |-> st.line,
                  findings |-> renumber(last, st.findings)]
<1>1. /\ Len(cmd.inputs) \in Nat
      /\ Len(statements) \in Nat
      /\ Len(res) \in Nat
      /\ DOMAIN statements = 1..Len(statements)
      /\ DOMAIN res = 1..Len(res)
  BY LenProperties DEF TypeOK, Command
<1>2. /\ f \in 1..Len(cmd.inputs)
      /\ n + 1 \in 1..Len(res)
      /\ Len(res) = Len(input.stmts)
      /\ n + 1 \in 1..Len(input.stmts)
      /\ last \in Nat
  BY <1>1 DEF AppendStatement, TypeOK, AnalyzeLoop
<1>3. st \in StatementResult
  BY <1>2, ElementOfSeq DEF TypeOK
<1>4. SameFindings(st.findings, input.stmts[n + 1].findings)
  BY <1>1, <1>2 DEF AppendStatement, AnalyzeLoop
<1>5. /\ input.stmts[n + 1].findings \in Seq(RuleFinding)
      /\ input.path \in Paths \cup {NoPath}
  BY <1>2, InputFacts DEF input
<1>6. /\ st.findings \in Seq(Finding)
      /\ st.line \in Nat
  BY <1>3 DEF StatementResult
<1>7. sr \in StatementResult
  BY <1>2, <1>5, <1>6, Renumber DEF StatementResult
<1>8. /\ SameFindings(sr.findings, input.stmts[n + 1].findings)
      /\ sr.index = last
      /\ \A q \in DOMAIN sr.findings : sr.findings[q].statementIndex = last
  BY <1>2, <1>4, <1>5, <1>6, SameFindingsRenumber
<1>9. /\ statements' = Append(statements, sr)
      /\ statements \in Seq(StatementResult)
  BY DEF AppendStatement, TypeOK
<1>10. /\ DOMAIN statements' = 1..last
       /\ \A k \in 1..Len(statements) : statements'[k] = statements[k]
       /\ statements'[last] = sr
  BY <1>1, <1>7, <1>9, AppendProperties, LenProperties
<1> QED
  BY <1>1, <1>2, <1>8, <1>10

(* No statement is invented by any step.                                   *)
LEMMA NoneInventedStep ==
  ASSUME TypeOK, InputLoop, AnalyzeLoop, NoneInvented, [Next]_vars
  PROVE  NoneInvented'
<1> USE DEF NoneInvented, Go, Exit
<1>0. Len(cmd.inputs) \in Nat
  BY LenProperties DEF TypeOK, Command
<1>1. CASE validateFormat \/ loadPolicy \/ NoPaths \/ Parse
  BY <1>1 DEF validateFormat, loadPolicy, NoPaths, Parse
<1>2. CASE ReadFile
  <2>1. 1..f \subseteq 1..f'
    BY <1>0, <1>2 DEF ReadFile, TypeOK
  <2>2. pc # "done" /\ cmd' = cmd /\ statements' = statements
    BY <1>2 DEF ReadFile
  <2> QED
    BY <2>1, <2>2
<1>3. CASE Analyze \/ AnalyzeDone \/ NextFile
  BY <1>3 DEF Analyze, AnalyzeDone, NextFile
<1>4. CASE AppendStatement
  <2> DEFINE last == Len(statements) + 1
  <2>1. /\ f' = f /\ cmd' = cmd /\ pc # "done" /\ f \in 1..f
        /\ DOMAIN cmd.inputs[f].stmts = 1..Len(cmd.inputs[f].stmts)
    BY <1>0, <1>4, AppendStatementFacts, InputFacts DEF AppendStatement, TypeOK
  <2>2. ASSUME NEW k \in DOMAIN statements'
        PROVE  \E i \in 1..f : \E t \in DOMAIN cmd.inputs[i].stmts :
                 SameFindings(statements'[k].findings, cmd.inputs[i].stmts[t].findings)
    <3>1. CASE k = last
      <4>1. /\ n + 1 \in DOMAIN cmd.inputs[f].stmts
            /\ SameFindings(statements'[k].findings, cmd.inputs[f].stmts[n + 1].findings)
        BY <1>4, <2>1, <3>1, AppendStatementFacts DEF input
      <4> QED
        BY <2>1, <4>1
    <3>2. CASE k # last
      <4>1. k \in DOMAIN statements /\ statements'[k] = statements[k]
        BY <1>4, <2>2, <3>2, AppendStatementFacts
      <4> QED
        BY <2>1, <4>1
    <3> QED
      BY <3>1, <3>2
  <2> QED
    BY <2>1, <2>2
<1>5. CASE AggregateFiles
  BY <1>5 DEF AggregateFiles, StartAggregate
<1>6. CASE AggregateSQL
  <2>1. /\ f \in 1..f
        /\ f \in 1..Len(cmd.inputs)
        /\ pc = "analyze"
        /\ Len(res) = Len(cmd.inputs[f].stmts)
        /\ statements' = res
        /\ f' = f /\ cmd' = cmd
    BY <1>0, <1>6 DEF AggregateSQL, StartAggregate, TypeOK, input
  <2>2. /\ DOMAIN res = 1..Len(res)
        /\ DOMAIN cmd.inputs[f].stmts = 1..Len(cmd.inputs[f].stmts)
    BY <2>1, InputFacts, LenProperties DEF TypeOK
  <2>3. \A k \in DOMAIN res : SameFindings(res[k].findings, cmd.inputs[f].stmts[k].findings)
    BY <2>1 DEF AnalyzeLoop, input
  <2> QED
    BY <2>1, <2>2, <2>3
<1>7. CASE AggregateFinding \/ AggregateStatement \/ AggregateDone
  BY <1>7 DEF AggregateFinding, AggregateStatement, AggregateDone
<1>8. CASE printAndExit \/ UNCHANGED vars
  BY <1>8 DEF printAndExit, vars
<1> QED
  BY <1>1, <1>2, <1>3, <1>4, <1>5, <1>6, <1>7, <1>8 DEF Next, Done

(* No statement is lost by any step.                                       *)
LEMMA NoneLostStep ==
  ASSUME TypeOK, InputLoop, AnalyzeLoop, NoneLost, [Next]_vars
  PROVE  NoneLost'
<1> USE DEF NoneLost, Go, Exit
<1>0. Len(cmd.inputs) \in Nat
  BY LenProperties DEF TypeOK, Command
<1>1. CASE validateFormat \/ loadPolicy
  <2>1. f' = 0
    BY <1>1 DEF validateFormat, loadPolicy, InputLoop
  <2> QED
    BY <2>1
<1>2. CASE ReadFile
  <2>1. /\ \A i \in 1..f' : i < f' => i \in 1..f
        /\ f \in Nat /\ f' \in Nat
    BY <1>0, <1>2 DEF ReadFile, TypeOK
  <2>2. pc = "read" /\ pc' \in {"parse", "done"} /\ cmd' = cmd /\ statements' = statements
    BY <1>2 DEF ReadFile
  <2> QED
    BY <2>1, <2>2
<1>3. CASE Analyze \/ AnalyzeDone
  <2>1. n = 0 /\ n' = 0 /\ pc = "analyze" /\ f' = f /\ cmd' = cmd
        /\ statements' = statements /\ pc' \in {"analyze", "append"}
    BY <1>3 DEF Analyze, AnalyzeDone, InputLoop
  <2>2. \A i \in 1..f : \A t \in DOMAIN cmd.inputs[i].stmts : ~(t <= 0)
    <3>1. \A i \in 1..f : i \in 1..Len(cmd.inputs)
      BY <1>0 DEF TypeOK
    <3>2. \A i \in 1..Len(cmd.inputs) :
            /\ Len(cmd.inputs[i].stmts) \in Nat
            /\ DOMAIN cmd.inputs[i].stmts = 1..Len(cmd.inputs[i].stmts)
      BY InputFacts
    <3>3. \A i \in 1..Len(cmd.inputs) : \A t \in DOMAIN cmd.inputs[i].stmts : ~(t <= 0)
      BY <3>2
    <3>4. QED  BY <3>1, <3>3, Zenon
  <2> QED
    BY <2>1, <2>2
<1>4. CASE NextFile
  <2>1. /\ pc = "append" /\ n = Len(input.stmts) /\ f' = f /\ cmd' = cmd
        /\ statements' = statements /\ f \in 1..Len(cmd.inputs)
    BY <1>0, <1>4 DEF NextFile, AnalyzeLoop, TypeOK
  <2>2. \A t \in DOMAIN input.stmts : t <= n
    BY <2>1, InputFacts DEF input
  <2>3. \A i \in 1..f : i < f \/ i = f
    BY <2>1, <1>0
  <2> QED
    BY <2>1, <2>2, <2>3 DEF input
<1>5. CASE AppendStatement
  <2> DEFINE last == Len(statements) + 1
  <2>1. /\ f' = f /\ cmd' = cmd /\ pc = "append" /\ pc' = "append" /\ n' = n + 1
        /\ n \in Nat
        /\ DOMAIN statements' = 1..last
        /\ DOMAIN statements = 1..Len(statements)
        /\ last \in DOMAIN statements'
        /\ \A k \in DOMAIN statements : k \in DOMAIN statements' /\ statements'[k] = statements[k]
        /\ SameFindings(statements'[last].findings, cmd.inputs[f].stmts[n + 1].findings)
    BY <1>5, AppendStatementFacts, LenProperties DEF AppendStatement, TypeOK, input
  <2>2. \A i \in 1..f : \A t \in DOMAIN cmd.inputs[i].stmts :
          i < f \/ t <= n + 1 => i < f \/ t <= n \/ (i = f /\ t = n + 1)
    <3>1. f \in 1..Len(cmd.inputs)
      BY <1>5, AppendStatementFacts
    <3>2. \A i \in 1..f : (i < f \/ i = f) /\ i \in 1..Len(cmd.inputs)
      BY <1>0, <3>1
    <3>3. \A i \in 1..Len(cmd.inputs) : \A t \in DOMAIN cmd.inputs[i].stmts : t \in Nat
      <4>1. \A i \in 1..Len(cmd.inputs) :
              /\ Len(cmd.inputs[i].stmts) \in Nat
              /\ DOMAIN cmd.inputs[i].stmts = 1..Len(cmd.inputs[i].stmts)
        BY InputFacts
      <4>2. QED  BY <4>1
    <3>4. \A t \in Nat : t <= n + 1 => t <= n \/ t = n + 1
      BY <2>1
    <3> QED
      BY <3>2, <3>3, <3>4
  <2> QED
    BY <2>1, <2>2
<1>6. CASE AggregateFiles
  BY <1>6 DEF AggregateFiles, StartAggregate
<1>7. CASE AggregateSQL
  <2>1. /\ f = 1
        /\ f \in 1..Len(cmd.inputs)
        /\ pc = "analyze"
        /\ Len(res) = Len(cmd.inputs[f].stmts)
        /\ statements' = res
        /\ f' = f /\ cmd' = cmd
    <3>1. Len(cmd.inputs) = 1
      BY <1>7 DEF AggregateSQL, TypeOK, InputsOf
    <3> QED
      BY <1>7, <3>1 DEF AggregateSQL, StartAggregate, TypeOK, input
  <2>2. /\ DOMAIN res = 1..Len(res)
        /\ DOMAIN cmd.inputs[f].stmts = 1..Len(cmd.inputs[f].stmts)
    BY <2>1, InputFacts, LenProperties DEF TypeOK
  <2>3. \A k \in DOMAIN res : SameFindings(res[k].findings, cmd.inputs[f].stmts[k].findings)
    BY <2>1 DEF AnalyzeLoop, input
  <2> QED
    BY <2>1, <2>2, <2>3
<1>8. CASE AggregateFinding \/ AggregateStatement \/ AggregateDone
  BY <1>8 DEF AggregateFinding, AggregateStatement, AggregateDone
<1>9. CASE printAndExit \/ UNCHANGED vars
  BY <1>9 DEF printAndExit, vars
<1>10. CASE NoPaths \/ Parse
  BY <1>10 DEF NoPaths, Parse
<1> QED
  BY <1>1, <1>2, <1>3, <1>4, <1>5, <1>6, <1>7, <1>8, <1>9, <1>10 DEF Next, Done

(* Every statement gathered carries its number across all inputs.          *)
LEMMA FindingsPointBackStep ==
  ASSUME TypeOK, AnalyzeLoop, FindingsPointBack, [Next]_vars
  PROVE  FindingsPointBack'
<1> USE DEF FindingsPointBack, Go, Exit
<1>1. CASE validateFormat \/ loadPolicy \/ NoPaths \/ ReadFile \/ Parse
  BY <1>1 DEF validateFormat, loadPolicy, NoPaths, ReadFile, Parse
<1>2. CASE Analyze \/ AnalyzeDone \/ NextFile
  BY <1>2 DEF Analyze, AnalyzeDone, NextFile
<1>3. CASE AppendStatement
  <2> SUFFICES ASSUME NEW k \in DOMAIN statements'
               PROVE  /\ statements'[k].index = k
                      /\ \A q \in DOMAIN statements'[k].findings :
                           statements'[k].findings[q].statementIndex = k
    OBVIOUS
  <2>1. CASE k = Len(statements) + 1
    BY <1>3, <2>1, AppendStatementFacts
  <2>2. CASE k # Len(statements) + 1
    <3>1. k \in DOMAIN statements /\ statements'[k] = statements[k]
      BY <1>3, <2>2, AppendStatementFacts
    <3> QED
      BY <3>1
  <2> QED
    BY <2>1, <2>2
<1>4. CASE AggregateFiles
  BY <1>4 DEF AggregateFiles, StartAggregate
<1>5. CASE AggregateSQL
  BY <1>5 DEF AggregateSQL, StartAggregate, AnalyzeLoop
<1>6. CASE AggregateFinding \/ AggregateStatement \/ AggregateDone
  BY <1>6 DEF AggregateFinding, AggregateStatement, AggregateDone
<1>7. CASE printAndExit \/ UNCHANGED vars
  BY <1>7 DEF printAndExit, vars
<1> QED
  BY <1>1, <1>2, <1>3, <1>4, <1>5, <1>6, <1>7 DEF Next, Done

(* Before the first step of Aggregate nothing is seen.                     *)
LEMMA NothingSeen ==
  ASSUME TypeOK, s = 1, j = 1, NEW d
  PROVE  ~Seen(d)
<1>1. DOMAIN statements = 1..Len(statements) /\ Len(statements) \in Nat
  BY LenProperties DEF TypeOK
<1>2. \A k \in DOMAIN statements :
        DOMAIN statements[k].findings = 1..Len(statements[k].findings)
  BY <1>1, StatementFacts DEF TypeOK
<1> QED
  BY <1>1, <1>2 DEF Seen

(* What one iteration of Aggregate's inner loop adds to what it has seen.  *)
LEMMA SeenFinding ==
  ASSUME TypeOK, AggregateFinding, NEW d
  PROVE  Seen(d)' <=> Seen(d) \/ statements[s].findings[j].decision = d
<1>1. /\ DOMAIN statements = 1..Len(statements)
      /\ Len(statements) \in Nat
      /\ s \in Nat /\ j \in Nat
      /\ s \in DOMAIN statements
      /\ s' = s /\ j' = j + 1 /\ statements' = statements
  BY LenProperties DEF TypeOK, AggregateFinding
<1>2. \A k \in DOMAIN statements :
        /\ Len(statements[k].findings) \in Nat
        /\ DOMAIN statements[k].findings = 1..Len(statements[k].findings)
  BY <1>1, StatementFacts DEF TypeOK
<1>3. j \in DOMAIN statements[s].findings
  BY <1>1, <1>2 DEF AggregateFinding, TypeOK
<1>4. \A k \in DOMAIN statements : \A q \in DOMAIN statements[k].findings :
        (k < s' \/ (k = s' /\ q < j')) <=> (k < s \/ (k = s /\ q < j)) \/ (k = s /\ q = j)
  BY <1>1, <1>2
<1> QED
  BY <1>1, <1>3, <1>4 DEF Seen

(* Moving on to the next statement sees nothing new and forgets nothing.   *)
LEMMA SeenStatement ==
  ASSUME TypeOK, AggregateStatement, NEW d
  PROVE  Seen(d)' <=> Seen(d)
<1>1. /\ DOMAIN statements = 1..Len(statements)
      /\ Len(statements) \in Nat
      /\ s \in Nat /\ j \in Nat
      /\ s' = s + 1 /\ j' = 1 /\ statements' = statements
      /\ j > Len(statements[s].findings)
  BY LenProperties DEF TypeOK, AggregateStatement
<1>2. \A k \in DOMAIN statements :
        /\ Len(statements[k].findings) \in Nat
        /\ DOMAIN statements[k].findings = 1..Len(statements[k].findings)
  BY <1>1, StatementFacts DEF TypeOK
<1>3. \A k \in DOMAIN statements : \A q \in DOMAIN statements[k].findings :
        (k < s' \/ (k = s' /\ q < j')) <=> (k < s \/ (k = s /\ q < j))
  BY <1>1, <1>2
<1> QED
  BY <1>1, <1>3 DEF Seen

(* Aggregate stays exact about what it has passed, for each finding, for   *)
(* each statement and when it fills in the defaults.                       *)
LEMMA AggregateLoopStep ==
  ASSUME TypeOK, InputLoop, NoneInvented, AggregateLoop, [Next]_vars
  PROVE  AggregateLoop'
<1> USE DEF AggregateLoop, Go, Exit
<1>0. Len(statements) \in Nat /\ DOMAIN statements = 1..Len(statements)
  BY LenProperties DEF TypeOK
<1>1. CASE validateFormat \/ loadPolicy \/ ReadFile \/ Parse
  BY <1>1 DEF validateFormat, loadPolicy, ReadFile, Parse
<1>2. CASE NoPaths
  <2>1. pc = "read" /\ pc' = "print" /\ s = 1 /\ j = 1 /\ s' = s /\ j' = j
        /\ statements' = statements
    BY <1>2 DEF NoPaths
  <2>2. f = 0
    BY <1>2, EmptySeq DEF NoPaths, TypeOK
  <2>3. Len(statements) = 0
    BY <1>0, <2>1, <2>2 DEF NoneInvented
  <2>4. ~Seen("block")' /\ ~Seen("warn")'
    BY <2>1, NothingSeen DEF Seen
  <2>5. /\ acc'.decision = "allow"
        /\ acc'.summary = ZeroSummary
    BY <1>2 DEF NoPaths, NoResult
  <2> QED
    BY <1>0, <2>1, <2>3, <2>4, <2>5 DEF ZeroSummary
<1>3. CASE Analyze \/ AnalyzeDone \/ AppendStatement \/ NextFile
  BY <1>3 DEF Analyze, AnalyzeDone, AppendStatement, NextFile
<1>4. CASE AggregateFiles \/ AggregateSQL
  <2>1. /\ pc' = "aggregate"
        /\ s = 1 /\ j = 1 /\ s' = 1 /\ j' = 1
        /\ acc'.decision = "none"
        /\ acc'.summary.statements = Len(statements')
        /\ acc'.summary.findings = 0
        /\ acc'.summary.blocks = 0
        /\ acc'.summary.warnings = 0
    BY <1>4 DEF AggregateFiles, AggregateSQL, StartAggregate, NoResult, ZeroSummary
  <2>2. TypeOK'
    BY TypeStep
  <2>3. ~Seen("block")' /\ ~Seen("warn")'
    <3>1. \A k \in DOMAIN statements' : \A q \in DOMAIN statements'[k].findings :
            ~(k < 1 \/ (k = 1 /\ q < 1))
      <4>1. statements' \in Seq(StatementResult)
        BY <2>2 DEF TypeOK
      <4>2. /\ DOMAIN statements' = 1..Len(statements')
            /\ Len(statements') \in Nat
            /\ \A k \in 1..Len(statements') :
                 DOMAIN statements'[k].findings = 1..Len(statements'[k].findings)
        BY <4>1, StatementFacts
      <4> QED
        BY <4>2, SMT
    <3> QED
      BY <2>1, <3>1 DEF Seen
  <2>4. /\ Len(statements') \in Nat
        /\ 1 <= Len(statements') => Len(statements'[1].findings) \in Nat
    BY <2>2, StatementFacts DEF TypeOK
  <2> QED
    BY <2>1, <2>3, <2>4
<1>5. CASE AggregateFinding
  <2> DEFINE fd == statements[s].findings[j]
  <2>1. /\ fd.decision \in Decisions
        /\ acc.decision \in Decisions \cup {"none"}
        /\ acc.summary \in Summary
    <3>1. s \in 1..Len(statements) /\ j \in 1..Len(statements[s].findings)
      BY <1>0, <1>5, StatementFacts DEF AggregateFinding, TypeOK
    <3>2. fd.decision \in Decisions
      BY <3>1, StatementFacts DEF TypeOK
    <3> QED
      BY <3>2 DEF TypeOK
  <2>2. /\ pc = "aggregate" /\ pc' = "aggregate" /\ s' = s /\ j' = j + 1
        /\ statements' = statements
        /\ s <= Len(statements) /\ j <= Len(statements[s].findings)
    BY <1>5 DEF AggregateFinding
  <2>3. /\ acc'.decision = Stricter(decisionStrictness, fd.decision, acc.decision)
        /\ acc'.summary.statements = acc.summary.statements
        /\ acc'.summary.findings = acc.summary.findings + 1
        /\ acc'.summary.blocks = acc.summary.blocks + One(fd.decision = "block")
        /\ acc'.summary.warnings = acc.summary.warnings + One(fd.decision = "warn")
    BY <1>5 DEF AggregateFinding
  <2>4. /\ acc'.decision = "block" <=> acc.decision = "block" \/ fd.decision = "block"
        /\ acc'.decision = "warn" <=> \/ acc.decision = "warn" /\ fd.decision # "block"
                                      \/ fd.decision = "warn" /\ acc.decision # "block"
    <3> HIDE DEF fd
    <3> QED
      BY <2>1, <2>3 DEF Stricter, decisionStrictness, Decisions
  <2>5. /\ Seen("block")' <=> Seen("block") \/ fd.decision = "block"
        /\ Seen("warn")' <=> Seen("warn") \/ fd.decision = "warn"
    BY <1>5, SeenFinding
  <2>6. /\ acc.summary.findings \in Nat
        /\ acc.summary.blocks \in Nat
        /\ acc.summary.warnings \in Nat
    BY <2>1 DEF Summary
  <2>7. /\ acc'.summary.blocks + acc'.summary.warnings <= acc'.summary.findings
        /\ acc'.summary.blocks > 0 <=> acc.summary.blocks > 0 \/ fd.decision = "block"
        /\ acc'.summary.warnings > 0 <=> acc.summary.warnings > 0 \/ fd.decision = "warn"
        /\ acc'.summary.blocks \in Nat
    <3>1. acc.summary.blocks + acc.summary.warnings <= acc.summary.findings
      BY <2>2
    <3>2. /\ One(fd.decision = "block") = IF fd.decision = "block" THEN 1 ELSE 0
          /\ One(fd.decision = "warn") = IF fd.decision = "warn" THEN 1 ELSE 0
      BY DEF One
    <3>3. /\ One(fd.decision = "block") \in {0, 1}
          /\ One(fd.decision = "warn") \in {0, 1}
          /\ One(fd.decision = "block") + One(fd.decision = "warn") <= 1
          /\ One(fd.decision = "block") = 1 <=> fd.decision = "block"
          /\ One(fd.decision = "warn") = 1 <=> fd.decision = "warn"
      BY <3>2
    <3> QED
      BY <2>3, <2>6, <3>1, <3>3
  <2>8. j' <= Len(statements[s].findings) + 1
    BY <1>0, <2>2, ElementOfSeq, LenProperties DEF TypeOK, StatementResult
  <2> HIDE DEF fd
  <2> QED
    BY <2>2, <2>3, <2>4, <2>5, <2>6, <2>7, <2>8
<1>6. CASE AggregateStatement
  <2>1. /\ pc = "aggregate" /\ pc' = "aggregate" /\ s' = s + 1 /\ j' = 1
        /\ statements' = statements /\ acc' = acc
        /\ s <= Len(statements) /\ s \in Nat
    BY <1>6 DEF AggregateStatement, TypeOK
  <2>2. (Seen("block")' <=> Seen("block")) /\ (Seen("warn")' <=> Seen("warn"))
    BY <1>6, SeenStatement
  <2>3. s' <= Len(statements) => Len(statements[s'].findings) \in Nat
    BY <1>0, <2>1, ElementOfSeq, LenProperties DEF TypeOK, StatementResult
  <2> QED
    BY <1>0, <2>1, <2>2, <2>3
<1>7. CASE AggregateDone
  <2>1. /\ pc = "aggregate" /\ pc' = "print" /\ s' = s /\ j' = j
        /\ statements' = statements
        /\ s > Len(statements) /\ s \in Nat
        /\ acc.decision \in Decisions \cup {"none"}
    BY <1>7 DEF AggregateDone, TypeOK
  <2>2. /\ acc'.decision = IF acc.decision = "none" THEN "allow" ELSE acc.decision
        /\ acc'.summary = acc.summary
    BY <1>7 DEF AggregateDone, TypeOK
  <2>3. (Seen("block")' <=> Seen("block")) /\ (Seen("warn")' <=> Seen("warn"))
    BY <2>1 DEF Seen
  <2> QED
    BY <1>0, <2>1, <2>2, <2>3
<1>8. CASE printAndExit
  BY <1>8 DEF printAndExit
<1>9. CASE UNCHANGED vars
  BY <1>9 DEF vars, Seen
<1> QED
  BY <1>1, <1>2, <1>3, <1>4, <1>5, <1>6, <1>7, <1>8, <1>9 DEF Next, Done

-----------------------------------------------------------------------------
(* The inductive invariant: types, numbering and the loop invariants.      *)
IInv == TypeOK /\ FindingsPointBack /\ LoopInvariants

(* The inductive invariant holds initially and no step breaks it.          *)
THEOREM Inductive == Spec => []IInv
<1>1. Init => IInv
  <2> SUFFICES ASSUME Init PROVE IInv
    OBVIOUS
  <2>1. TypeOK
    BY CommandsAssumption, EmptySeq DEF Init, TypeOK, PCs, NoResult, ZeroSummary, Summary,
       NoExit, ExitError, Command
  <2>2. DOMAIN statements = {} /\ Len(statements) = 0
    BY EmptySeq DEF Init
  <2> QED
    BY <2>1, <2>2 DEF Init, IInv, FindingsPointBack, LoopInvariants, GoodSoFar, InputLoop,
       AnalyzeLoop, NoneInvented, NoneLost, AggregateLoop
<1>2. IInv /\ [Next]_vars => IInv'
  BY TypeStep, FindingsPointBackStep, GoodSoFarStep, InputLoopStep, AnalyzeLoopStep,
     NoneInventedStep, NoneLostStep, AggregateLoopStep DEF IInv, LoopInvariants
<1> QED
  BY <1>1, <1>2, PTL DEF Spec

(* Every loop of the review keeps its invariant: inputs are taken without  *)
(* failure, their statements are all gathered and no other, and Aggregate  *)
(* is exact about the findings it has passed.                              *)
THEOREM LoopsCorrect == Spec => []LoopInvariants
<1>1. IInv => LoopInvariants
  BY DEF IInv
<1> QED
  BY <1>1, Inductive, PTL

(* Numbering: statement k of the review is numbered k, whatever inputs it  *)
(* comes from, and its findings say so.                                    *)
THEOREM PointBack == Spec => []FindingsPointBack
<1>1. IInv => FindingsPointBack
  BY DEF IInv
<1> QED
  BY <1>1, Inductive, PTL

-----------------------------------------------------------------------------
(* When the report is printed, Aggregate has seen a decision exactly when  *)
(* some statement of some input has a finding with it.                     *)
LEMMA AllSeen ==
  ASSUME IInv, pc = "print", NEW d
  PROVE  Seen(d) <=> Found(d)
<1>0. /\ TypeOK
      /\ s = Len(statements) + 1
      /\ f = Len(cmd.inputs)
  BY DEF IInv, LoopInvariants, AggregateLoop, InputLoop
<1>1. /\ statements \in Seq(StatementResult)
      /\ cmd.inputs \in Seq(Input)
  BY <1>0 DEF TypeOK, Command
<1>2. /\ Len(statements) \in Nat
      /\ DOMAIN statements = 1..Len(statements)
      /\ DOMAIN cmd.inputs = 1..f
  BY <1>0, <1>1, LenProperties
<1>3. ASSUME NEW k \in DOMAIN statements, NEW i \in 1..f, NEW t \in DOMAIN cmd.inputs[i].stmts,
             SameFindings(statements[k].findings, cmd.inputs[i].stmts[t].findings)
      PROVE  /\ DOMAIN statements[k].findings = DOMAIN cmd.inputs[i].stmts[t].findings
             /\ \A q \in DOMAIN statements[k].findings :
                  statements[k].findings[q].decision
                    = cmd.inputs[i].stmts[t].findings[q].decision
  <2>1. statements[k].findings \in Seq(Finding)
    BY <1>1, <1>2, StatementFacts
  <2>2. cmd.inputs[i].stmts[t].findings \in Seq(RuleFinding)
    BY <1>0, InputFacts
  <2> DEFINE found == statements[k].findings
             fs    == cmd.inputs[i].stmts[t].findings
  <2>3. SameFindings(found, fs)
    BY <1>3
  <2>4. found \in Seq(Finding) /\ fs \in Seq(RuleFinding)
    BY <2>1, <2>2
  <2> HIDE DEF found, fs
  <2>5. DOMAIN found = DOMAIN fs
    BY <2>3, <2>4, LenProperties DEF SameFindings
  <2>6. \A q \in DOMAIN found : found[q].decision = fs[q].decision
    BY <2>3, <2>5 DEF SameFindings
  <2> QED
    BY <2>5, <2>6 DEF found, fs
<1>4. ASSUME Seen(d) PROVE Found(d)
  <2>1. PICK k \in DOMAIN statements : \E q \in DOMAIN statements[k].findings :
               statements[k].findings[q].decision = d
    BY <1>4 DEF Seen
  <2>2. PICK i \in 1..f : \E t \in DOMAIN cmd.inputs[i].stmts :
               SameFindings(statements[k].findings, cmd.inputs[i].stmts[t].findings)
    <3>1. NoneInvented
      BY DEF IInv, LoopInvariants
    <3> QED
      BY <2>1, <3>1 DEF NoneInvented
  <2>3. PICK t \in DOMAIN cmd.inputs[i].stmts :
               SameFindings(statements[k].findings, cmd.inputs[i].stmts[t].findings)
    BY <2>2
  <2>4. PICK q \in DOMAIN statements[k].findings : statements[k].findings[q].decision = d
    BY <2>1
  <2>5. /\ q \in DOMAIN cmd.inputs[i].stmts[t].findings
        /\ cmd.inputs[i].stmts[t].findings[q].decision = d
    BY <1>3, <2>3, <2>4
  <2>6. i \in DOMAIN cmd.inputs
    BY <1>2
  <2> QED
    BY <2>5, <2>6 DEF Found
<1>5. ASSUME Found(d) PROVE Seen(d)
  <2>1. PICK i \in 1..f : \E t \in DOMAIN cmd.inputs[i].stmts :
               \E q \in DOMAIN cmd.inputs[i].stmts[t].findings :
                 cmd.inputs[i].stmts[t].findings[q].decision = d
    BY <1>2, <1>5 DEF Found
  <2>2. PICK t \in DOMAIN cmd.inputs[i].stmts :
               \E q \in DOMAIN cmd.inputs[i].stmts[t].findings :
                 cmd.inputs[i].stmts[t].findings[q].decision = d
    BY <2>1
  <2>3. PICK k \in DOMAIN statements :
               SameFindings(statements[k].findings, cmd.inputs[i].stmts[t].findings)
    BY DEF IInv, LoopInvariants, NoneLost
  <2>4. k < s
    BY <1>0, <1>2
  <2>5. PICK q \in DOMAIN cmd.inputs[i].stmts[t].findings :
               cmd.inputs[i].stmts[t].findings[q].decision = d
    BY <2>2
  <2>6. q \in DOMAIN statements[k].findings /\ statements[k].findings[q].decision = d
    BY <1>3, <2>3, <2>5
  <2> QED
    BY <2>4, <2>6 DEF Seen
<1> QED
  BY <1>4, <1>5

(* A step that is not the last one changes neither the exit code nor the   *)
(* output, unless it fails; no step changes the command.                   *)
LEMMA OnlyPrintAnswers ==
  ASSUME [Next]_vars, ~printAndExit
  PROVE  /\ cmd' = cmd
         /\ stdout' = stdout
         /\ exit' = exit \/ (pc # "done" /\ exit' = ExitError)
BY DEF Next, vars, validateFormat, loadPolicy, NoPaths, ReadFile, Parse, Analyze,
   AnalyzeDone, AppendStatement, NextFile, AggregateFiles, AggregateSQL, StartAggregate,
   AggregateFinding, AggregateStatement, AggregateDone, Done, Go, Exit

(* Strictest wins: for every command, a review that succeeds exits 3       *)
(* exactly when some statement of some input has a block finding, and 2    *)
(* exactly when there are warn findings and no block.                      *)
THEOREM Strictest == Spec => []StrictestWins
<1>1. Init => StrictestWins
  BY DEF Init, StrictestWins, NoExit
<1>2. IInv /\ StrictestWins /\ [Next]_vars => StrictestWins'
  <2> SUFFICES ASSUME IInv, StrictestWins, [Next]_vars PROVE StrictestWins'
    OBVIOUS
  <2>1. CASE ~printAndExit
    <3>1. cmd' = cmd /\ (exit' = exit \/ exit' = 1)
      BY <2>1, OnlyPrintAnswers DEF ExitError
    <3>2. (Found("block")' <=> Found("block")) /\ (Found("warn")' <=> Found("warn"))
      BY <3>1 DEF Found
    <3> QED
      BY <3>1, <3>2 DEF StrictestWins
  <2>2. CASE printAndExit
    <3>1. pc = "print" /\ cmd' = cmd
      BY <2>2 DEF printAndExit, Exit, Go
    <3>2. \/ exit' = decisionToExit[acc.decision]
          \/ exit' = 1
      BY <2>2 DEF printAndExit, Exit, ExitError
    <3>3. /\ acc.decision = "block" <=> Found("block")
          /\ acc.decision = "warn" <=> Found("warn") /\ ~Found("block")
          /\ acc.decision \in Decisions
      BY <3>1, AllSeen DEF IInv, LoopInvariants, AggregateLoop, TypeOK
    <3>4. /\ decisionToExit[acc.decision] = 3 <=> acc.decision = "block"
          /\ decisionToExit[acc.decision] = 2 <=> acc.decision = "warn"
      BY <3>3 DEF decisionToExit, Decisions
    <3>5. (Found("block")' <=> Found("block")) /\ (Found("warn")' <=> Found("warn"))
      BY <3>1 DEF Found
    <3> QED
      BY <3>2, <3>3, <3>4, <3>5 DEF StrictestWins
  <2> QED
    BY <2>1, <2>2
<1> QED
  BY <1>1, <1>2, Inductive, PTL DEF Spec

(* All or nothing: for every command, a failure prints nothing, and a      *)
(* report means that every input was read and parsed.                      *)
THEOREM NothingOnError == Spec => []AllOrNothing
<1>1. Init => AllOrNothing
  BY DEF Init, AllOrNothing
<1>2. IInv /\ AllOrNothing /\ [Next]_vars => AllOrNothing'
  <2> SUFFICES ASSUME IInv, AllOrNothing, [Next]_vars PROVE AllOrNothing'
    OBVIOUS
  <2>1. CASE ~printAndExit
    <3>1. pc # "done" => stdout = << >>
      BY DEF IInv, LoopInvariants, GoodSoFar
    <3> QED
      BY <2>1, <3>1, OnlyPrintAnswers DEF AllOrNothing
  <2>2. CASE printAndExit
    <3>1. pc = "print" /\ cmd' = cmd /\ stdout = << >>
      BY <2>2 DEF printAndExit, Exit, Go, IInv, LoopInvariants, GoodSoFar
    <3>2. /\ DOMAIN cmd.inputs = 1..f
          /\ cmd.policy # "invalid"
      BY <3>1, LenProperties DEF IInv, LoopInvariants, GoodSoFar, InputLoop, TypeOK, Command
    <3>3. \A i \in DOMAIN cmd.inputs : cmd.inputs[i].readable /\ cmd.inputs[i].parses
      <4>1. GoodSoFar
        BY DEF IInv, LoopInvariants
      <4>2. ASSUME NEW i \in 1..f
            PROVE  cmd.inputs[i].readable /\ cmd.inputs[i].parses
        <5>1. pc # "done" /\ pc # "parse"
          BY <3>1
        <5> QED
          BY <4>1, <5>1 DEF GoodSoFar
      <4> QED
        BY <3>2, <4>2
    <3>4. exit' = ExitError => stdout' = << >>
      <4>1. decisionToExit[acc.decision] \in {0, 2, 3}
        BY <3>1 DEF IInv, TypeOK, decisionToExit, Decisions
      <4> QED
        BY <2>2, <3>1, <4>1 DEF printAndExit, Exit, ExitError
    <3> QED
      BY <3>1, <3>2, <3>3, <3>4 DEF AllOrNothing
  <2> QED
    BY <2>1, <2>2
<1> QED
  BY <1>1, <1>2, Inductive, PTL DEF Spec

(* The report agrees with itself: its decision is the one its counts call  *)
(* for, and the exit code is that decision's.                              *)
THEOREM CountsAgree == Spec => []SummaryAgrees
<1>1. Init => SummaryAgrees
  BY EmptySeq DEF Init, SummaryAgrees
<1>2. IInv /\ SummaryAgrees /\ [Next]_vars => SummaryAgrees'
  <2> SUFFICES ASSUME IInv, SummaryAgrees, [Next]_vars PROVE SummaryAgrees'
    OBVIOUS
  <2>1. CASE ~printAndExit
    <3>1. pc # "done" => DOMAIN stdout = {}
      BY EmptySeq DEF IInv, LoopInvariants, GoodSoFar
    <3>2. stdout' = stdout /\ (exit' = exit \/ pc # "done")
      BY <2>1, OnlyPrintAnswers
    <3> QED
      BY <3>1, <3>2 DEF SummaryAgrees
  <2>2. CASE printAndExit
    <3>1. pc = "print" /\ stdout = << >>
      BY <2>2 DEF printAndExit, Exit, Go, IInv, LoopInvariants, GoodSoFar
    <3>2. \/ stdout' = << >>
          \/ /\ stdout' = << report >>
             /\ exit' = decisionToExit[acc.decision]
      BY <2>2, <3>1 DEF printAndExit, Exit
    <3>3. /\ report.summary.statements = Len(report.statements)
          /\ report.summary.blocks + report.summary.warnings <= report.summary.findings
          /\ report.decision = "block" <=> report.summary.blocks > 0
          /\ report.decision = "warn" <=>
               report.summary.blocks = 0 /\ report.summary.warnings > 0
          /\ report.decision = acc.decision
      BY <3>1 DEF IInv, LoopInvariants, AggregateLoop, report
    <3>4. CASE stdout' = << >>
      BY <3>4 DEF SummaryAgrees
    <3>5. CASE stdout' = << report >> /\ exit' = decisionToExit[acc.decision]
      <4>1. \A r \in {stdout'[i] : i \in DOMAIN stdout'} : r = report
        BY <3>5
      <4> HIDE DEF report
      <4> QED
        BY <3>3, <3>5, <4>1 DEF SummaryAgrees
    <3> QED
      BY <3>2, <3>4, <3>5
  <2> QED
    BY <2>1, <2>2
<1> QED
  BY <1>1, <1>2, Inductive, PTL DEF Spec

-----------------------------------------------------------------------------
(***************************************************************************)
(* The statements of a report, and the findings of each.                   *)
(***************************************************************************)
(* Statement k of a report, made of the bare statement a.                  *)
Numbered(k, a) ==
  [index |-> k, path |-> a.path, line |-> a.line, findings |-> convertFindings(k, a.findings)]

(* Renumbering converted findings is converting them with the new number.  *)
LEMMA RenumberConverted ==
  ASSUME NEW fs, NEW a, NEW b
  PROVE  renumber(b, convertFindings(a, fs)) = convertFindings(b, fs)
<1> DEFINE x == [q \in DOMAIN fs |-> [decision |-> fs[q].decision, severity |-> fs[q].severity,
                                      statementIndex |-> a]]
<1>1. convertFindings(a, fs) = x
  BY Zenon DEF convertFindings
<1>2. renumber(b, x) = [q \in DOMAIN fs |-> [x[q] EXCEPT !.statementIndex = b]]
  BY DEF renumber
<1>3. \A q \in DOMAIN fs : [x[q] EXCEPT !.statementIndex = b] =
        [decision |-> fs[q].decision, severity |-> fs[q].severity, statementIndex |-> b]
  OBVIOUS
<1>4. QED  BY <1>1, <1>2, <1>3 DEF convertFindings

-----------------------------------------------------------------------------
(***************************************************************************)
(* What has been gathered: the statements of the inputs taken, each with   *)
(* its number, and of the current input those up to where the loop is.     *)
(***************************************************************************)
Taken ==
  IF pc \in {"parse", "analyze", "append"} THEN Len(Before(cmd, f - 1)) + n
  ELSE Len(Before(cmd, f))

InOrder ==
  /\ Len(statements) = Taken
  /\ \A k \in 1..Len(statements) : statements[k] = Numbered(k, Before(cmd, f)[k])

ResultOf(k, st) ==
  [index |-> k, path |-> NoPath, line |-> st.line, findings |-> convertFindings(k, st.findings)]

Gathered ==
  pc # "done" =>
    /\ cmd.kind = "files" \/ pc \in {"aggregate", "print"} => InOrder
    /\ pc \in {"analyze", "append"} =>
         \A k \in 1..Len(res) : res[k] = ResultOf(k, input.stmts[k])

(* What the invariant says of the command and the loops.                   *)
LEMMA GateFacts ==
  ASSUME IInv
  PROVE  /\ cmd \in Command /\ InputsOf(cmd.kind, cmd.inputs) /\ Len(cmd.inputs) \in Nat
         /\ f \in 0..Len(cmd.inputs) /\ n \in Nat
         /\ Len(statements) \in Nat /\ Len(res) \in Nat
         /\ pc \in {"parse", "analyze", "append"} => f \in 1..Len(cmd.inputs)
         /\ pc # "append" => n = 0
         /\ pc \in {"read", "append"} /\ f > 0 => cmd.kind = "files"
         /\ pc \in {"format", "policy"} => f = 0
         /\ cmd.kind = "files" \/ cmd.kind = "sql"
<1>1. /\ cmd \in Command /\ InputsOf(cmd.kind, cmd.inputs)
      /\ f \in 0..Len(cmd.inputs) /\ n \in 0..Len(res)
      /\ statements \in Seq(StatementResult) /\ res \in Seq(StatementResult)
      /\ pc \in {"parse", "analyze", "append"} => f > 0
  BY Zenon DEF IInv, TypeOK
<1>2. Len(cmd.inputs) \in Nat /\ Len(statements) \in Nat /\ Len(res) \in Nat
  BY <1>1, LenProperties DEF Command
<1>3. /\ pc # "append" => n = 0
      /\ pc \in {"read", "append"} /\ f > 0 => cmd.kind = "files"
      /\ pc \in {"format", "policy"} => f = 0
  BY Zenon DEF IInv, LoopInvariants, InputLoop
<1>4. cmd.kind = "files" \/ cmd.kind = "sql"
  BY <1>1 DEF Command
<1>5. n \in Nat /\ (pc \in {"parse", "analyze", "append"} => f \in 1..Len(cmd.inputs))
  BY <1>1, <1>2
<1>6. QED  BY <1>1, <1>2, <1>3, <1>4, <1>5, Zenon

(* Nothing is gathered of no input.                                        *)
LEMMA GatheredInit == Init => Gathered
<1> SUFFICES ASSUME Init  PROVE Gathered
  OBVIOUS
<1>1. /\ pc = "format" /\ f = 0 /\ statements = << >> /\ cmd \in Commands
  BY DEF Init
<1>2. cmd \in Command
  BY <1>1, CommandsAssumption
<1>3. Before(cmd, 0) = << >>
  BY <1>2, BeforeFacts
<1>4. Taken = 0 /\ Len(statements) = 0
  BY <1>1, <1>3 DEF Taken
<1>5. InOrder
  BY <1>4 DEF InOrder
<1>6. QED  BY <1>1, <1>5 DEF Gathered

(* Steps that end the process, or leave the statements and the results as  *)
(* they are and do not go between inputs.                                  *)
LEMMA GatheredKept ==
  ASSUME IInv, Gathered,
         UNCHANGED <<cmd, f, n, res, statements>>, pc # "done",
         pc' \in {"parse", "analyze", "append"} => pc \in {"parse", "analyze", "append"},
         pc \in {"parse", "analyze", "append"} => pc' \in {"parse", "analyze", "append"},
         pc' \in {"aggregate", "print"} => cmd.kind = "files" \/ pc \in {"aggregate", "print"},
         pc' \in {"analyze", "append"} => pc \in {"analyze", "append"} \/ res = << >>
  PROVE  Gathered'
<1>1. Taken' = Taken
  BY DEF Taken
<1>2. InOrder => InOrder'
  BY <1>1 DEF InOrder
<1>3. cmd.kind = "files" \/ pc' \in {"aggregate", "print"} => InOrder'
  BY <1>2 DEF Gathered
<1>4. ASSUME pc' \in {"analyze", "append"}, NEW k \in 1..Len(res)
      PROVE  res[k] = ResultOf(k, input.stmts[k])
  <2>1. CASE pc \in {"analyze", "append"}
    BY <1>4, <2>1 DEF Gathered
  <2>2. CASE res = << >>
    BY <1>4, <2>2, EmptySeq
  <2>3. QED  BY <1>4, <2>1, <2>2
<1>5. res' = res /\ input' = input
  BY DEF input
<1>6. pc' \in {"analyze", "append"} =>
        \A k \in 1..Len(res') : res'[k] = ResultOf(k, input'.stmts[k])
  BY <1>4, <1>5
<1>7. QED  BY <1>3, <1>6 DEF Gathered

(* A file just read adds nothing yet.                                      *)
LEMMA ReadFileGathers == ASSUME IInv, Gathered, ReadFile, pc' = "parse"  PROVE Gathered'
<1>1. /\ cmd' = cmd /\ f' = f + 1 /\ n' = n /\ statements' = statements /\ pc = "read"
      /\ f < Len(cmd.inputs)
  BY DEF ReadFile, Go, Exit
<1>2. /\ cmd \in Command /\ f' \in 1..Len(cmd.inputs) /\ f' - 1 = f /\ n = 0
      /\ Len(statements) \in Nat
  <2>1. /\ cmd \in Command /\ f \in 0..Len(cmd.inputs) /\ Len(cmd.inputs) \in Nat /\ n = 0
        /\ Len(statements) \in Nat
    BY <1>1, GateFacts
  <2>2. QED  BY <1>1, <2>1
<1>3. ASSUME cmd.kind = "files"  PROVE InOrder'
  <2>1. /\ Len(statements) = Len(Before(cmd, f))
        /\ \A k \in 1..Len(statements) : statements[k] = Numbered(k, Before(cmd, f)[k])
    BY <1>1, <1>3 DEF Gathered, InOrder, Taken
  <2>2. PICK g : g = f'
    OBVIOUS
  <2>3. /\ Len(Before(cmd, g - 1)) \in Nat
        /\ \A k \in 1..Len(Before(cmd, g - 1)) : Before(cmd, g)[k] = Before(cmd, g - 1)[k]
    BY <1>2, <2>2, BeforeStep
  <2>4. \A k \in 1..Len(statements) : statements[k] = Numbered(k, Before(cmd, g)[k])
    BY <1>2, <2>1, <2>2, <2>3
  <2>5. Len(statements) = Len(Before(cmd, g - 1)) + n
    BY <1>2, <2>1, <2>2
  <2>6. Taken' = Len(Before(cmd, g - 1)) + n
    BY <1>1, <2>2 DEF Taken
  <2>7. QED  BY <1>1, <2>2, <2>4, <2>5, <2>6 DEF InOrder
<1>4. QED  BY <1>1, <1>3 DEF Gathered

(* Analyze: the results grow by the input's next statement.                *)
LEMMA AnalyzeGathers == ASSUME IInv, Gathered, Analyze  PROVE Gathered'
<1>1. /\ UNCHANGED <<cmd, f, n, statements, pc>> /\ pc = "analyze"
  BY DEF Analyze
<1>2. InOrder => InOrder'
  BY <1>1 DEF InOrder, Taken
<1>3. res' = Append(res, ResultOf(Len(res) + 1, input.stmts[Len(res) + 1]))
  BY DEF Analyze, ResultOf
<1>4. res \in Seq(StatementResult)
  BY DEF IInv, TypeOK
<1>5. PICK r : r = ResultOf(Len(res) + 1, input.stmts[Len(res) + 1])
  OBVIOUS
<1>6. res' = Append(res, r)
  BY <1>3, <1>5
<1>7. /\ Len(res') = Len(res) + 1 /\ Len(res) \in Nat
      /\ \A k \in 1..Len(res) : res'[k] = res[k]
      /\ res'[Len(res) + 1] = r
  BY <1>4, <1>6
<1>8. \A k \in 1..Len(res) : res[k] = ResultOf(k, input.stmts[k])
  BY <1>1 DEF Gathered
<1>9. \A k \in 1..Len(res') : res'[k] = ResultOf(k, input.stmts[k])
  <2> TAKE k \in 1..Len(res')
  <2>1. k \in 1..Len(res) \/ k = Len(res) + 1
    BY <1>7
  <2>2. QED  BY <1>5, <1>7, <1>8, <2>1
<1>10. input' = input
  BY <1>1 DEF input
<1>11. QED  BY <1>1, <1>2, <1>9, <1>10 DEF Gathered

(* One iteration of the inner loop of ReviewFiles: the statements grow by  *)
(* the next result, which is the input's next statement.                   *)
LEMMA AppendStatementGathers == ASSUME IInv, Gathered, AppendStatement  PROVE Gathered'
<1> DEFINE b  == Len(Before(cmd, f - 1))
           st == input.stmts[n + 1]
<1>1. /\ UNCHANGED <<cmd, f, res, pc>> /\ pc = "append" /\ n < Len(res) /\ n' = n + 1
      /\ statements' = Append(statements,
           [index |-> Len(statements) + 1, path |-> input.path, line |-> res[n + 1].line,
            findings |-> renumber(Len(statements) + 1, res[n + 1].findings)])
  BY DEF AppendStatement
<1>2. /\ cmd \in Command /\ f \in 1..Len(cmd.inputs) /\ n \in Nat /\ Len(res) \in Nat
      /\ cmd.kind = "files"
  <2>1. /\ cmd \in Command /\ f \in 1..Len(cmd.inputs) /\ n \in Nat /\ Len(res) \in Nat
        /\ Len(cmd.inputs) \in Nat /\ (f > 0 => cmd.kind = "files")
    BY <1>1, GateFacts
  <2>2. QED  BY <2>1
<1>3. InOrder /\ \A k \in 1..Len(res) : res[k] = ResultOf(k, input.stmts[k])
  BY <1>1, <1>2 DEF Gathered
<1>4. n + 1 \in 1..Len(res) /\ n + 1 \in 1..Len(input.stmts)
  <2>1. Len(res) = Len(input.stmts)
    BY <1>1 DEF IInv, LoopInvariants, AnalyzeLoop
  <2>2. QED  BY <1>1, <1>2, <2>1
<1>5. res[n + 1].line = st.line /\ res[n + 1].findings = convertFindings(n + 1, st.findings)
  <2>1. res[n + 1] = ResultOf(n + 1, st)
    BY <1>3, <1>4, Zenon
  <2> HIDE DEF st
  <2>2. QED  BY <2>1 DEF ResultOf
<1>6. /\ b \in Nat
      /\ Before(cmd, f)[b + (n + 1)] =
           [path |-> input.path, line |-> st.line, findings |-> st.findings]
  BY <1>2, <1>4, BeforeStep DEF input
<1>7. Len(statements) = b + n
  BY <1>1, <1>3 DEF InOrder, Taken
<1> DEFINE a == [path |-> input.path, line |-> st.line, findings |-> st.findings]
<1> HIDE DEF b
<1>8. statements' = Append(statements, Numbered(Len(statements) + 1, a))
  <2>1. renumber(Len(statements) + 1, res[n + 1].findings)
          = convertFindings(Len(statements) + 1, st.findings)
    BY <1>5, RenumberConverted, Zenon
  <2>2. Numbered(Len(statements) + 1, a) =
          [index |-> Len(statements) + 1, path |-> input.path, line |-> st.line,
           findings |-> convertFindings(Len(statements) + 1, st.findings)]
    BY DEF Numbered
  <2> HIDE DEF a, st
  <2>3. QED  BY <1>1, <1>5, <2>1, <2>2, Zenon
<1> HIDE DEF a, st
<1>9. statements \in Seq(StatementResult)
  BY Zenon DEF IInv, TypeOK
<1>10. PICK r : r = Numbered(Len(statements) + 1, a)
  OBVIOUS
<1>11. statements' = Append(statements, r)
  BY <1>8, <1>10
<1>12. /\ Len(statements') = Len(statements) + 1 /\ Len(statements) \in Nat
       /\ \A k \in 1..Len(statements) : statements'[k] = statements[k]
       /\ statements'[Len(statements) + 1] = r
  BY <1>9, <1>11
<1>13. Before(cmd, f)[Len(statements) + 1] = a
  <2>1. b + (n + 1) = Len(statements) + 1
    BY <1>2, <1>6, <1>7
  <2>2. QED  BY <1>6, <2>1, Zenon DEF a
<1>14. \A k \in 1..Len(statements) : statements[k] = Numbered(k, Before(cmd, f)[k])
  BY <1>3 DEF InOrder
<1>15. \A k \in 1..Len(statements') : statements'[k] = Numbered(k, Before(cmd, f)[k])
  <2> TAKE k \in 1..Len(statements')
  <2>1. k \in 1..Len(statements) \/ k = Len(statements) + 1
    BY <1>12
  <2>2. QED  BY <1>10, <1>12, <1>13, <1>14, <2>1, Zenon
<1>16. Taken' = Len(statements')
  <2>1. Taken' = b + (n + 1)
    BY <1>1 DEF Taken, b
  <2>2. QED  BY <1>2, <1>6, <1>7, <1>12, <2>1
<1>17. InOrder'
  BY <1>1, <1>15, <1>16 DEF InOrder
<1>18. input' = input
  BY <1>1 DEF input
<1>19. QED  BY <1>1, <1>3, <1>17, <1>18 DEF Gathered

(* With all results appended the input's statements are all gathered.      *)
LEMMA NextFileGathers == ASSUME IInv, Gathered, NextFile  PROVE Gathered'
<1>1. /\ UNCHANGED <<cmd, f, statements>> /\ pc = "append" /\ pc' = "read" /\ n = Len(res)
  BY DEF NextFile, Go
<1>2. cmd \in Command /\ f \in 1..Len(cmd.inputs) /\ n \in Nat
  BY <1>1, GateFacts
<1>3. Len(res) = Len(cmd.inputs[f].stmts)
  BY <1>1 DEF IInv, LoopInvariants, AnalyzeLoop, input
<1>4. Taken' = Taken
  <2>1. Taken = Len(Before(cmd, f - 1)) + n /\ Taken' = Len(Before(cmd, f))
    BY <1>1 DEF Taken
  <2>2. Len(Before(cmd, f)) = Len(Before(cmd, f - 1)) + Len(cmd.inputs[f].stmts)
    BY <1>2, BeforeStep
  <2>3. QED  BY <1>1, <1>3, <2>1, <2>2
<1>5. InOrder => InOrder'
  BY <1>1, <1>4 DEF InOrder
<1>6. QED  BY <1>1, <1>5 DEF Gathered

(* Inline SQL is gathered at once: the results become the statements.      *)
LEMMA AggregateSQLGathers == ASSUME IInv, Gathered, AggregateSQL  PROVE Gathered'
<1>1. /\ UNCHANGED <<cmd, f, n>> /\ pc = "analyze" /\ pc' = "aggregate" /\ statements' = res
      /\ cmd.kind = "sql" /\ Len(res) = Len(input.stmts)
  BY DEF AggregateSQL, StartAggregate, Go
<1>2. /\ cmd \in Command /\ f = 1 /\ Len(cmd.inputs) = 1 /\ cmd.inputs[1].path = NoPath
  <2>1. /\ cmd \in Command /\ InputsOf(cmd.kind, cmd.inputs) /\ f \in 1..Len(cmd.inputs)
        /\ cmd.inputs \in Seq(Input)
    BY <1>1, GateFacts DEF Command
  <2>2. Len(cmd.inputs) = 1 /\ DOMAIN cmd.inputs = 1..Len(cmd.inputs)
    BY <1>1, <2>1, LenProperties DEF InputsOf
  <2>3. cmd.inputs[1].path = NoPath
    BY <1>1, <2>1, <2>2 DEF InputsOf
  <2>4. QED  BY <2>1, <2>2, <2>3
<1>3. /\ Len(Before(cmd, 1)) = Len(input.stmts)
      /\ \A k \in 1..Len(input.stmts) : Before(cmd, 1)[k] =
           [path |-> NoPath, line |-> input.stmts[k].line, findings |-> input.stmts[k].findings]
  <2>1. Before(cmd, 0) = << >> /\ Len(<< >>) = 0
    BY <1>2, BeforeFacts, EmptySeq
  <2>2. 1 \in 1..Len(cmd.inputs) /\ 1 - 1 = 0 /\ input = cmd.inputs[1]
    BY <1>2 DEF input
  <2>3. /\ Len(Before(cmd, 1)) = Len(Before(cmd, 1 - 1)) + Len(cmd.inputs[1].stmts)
        /\ \A t \in 1..Len(cmd.inputs[1].stmts) :
             Before(cmd, 1)[Len(Before(cmd, 1 - 1)) + t] =
               [path     |-> cmd.inputs[1].path, line |-> cmd.inputs[1].stmts[t].line,
                findings |-> cmd.inputs[1].stmts[t].findings]
    BY <1>2, <2>2, BeforeStep, Zenon
  <2>4. Len(res) \in Nat
    BY GateFacts
  <2>5. \A t \in 1..Len(input.stmts) : 0 + t = t
    OBVIOUS
  <2>6. Len(Before(cmd, 1)) = Len(input.stmts)
    BY <1>1, <2>1, <2>2, <2>3, <2>4
  <2>7. \A t \in 1..Len(input.stmts) : Before(cmd, 1)[t] =
           [path |-> NoPath, line |-> input.stmts[t].line, findings |-> input.stmts[t].findings]
    <3> TAKE t \in 1..Len(input.stmts)
    <3>1. Before(cmd, 1)[Len(Before(cmd, 1 - 1)) + t] =
            [path     |-> cmd.inputs[1].path, line |-> cmd.inputs[1].stmts[t].line,
             findings |-> cmd.inputs[1].stmts[t].findings]
      BY <2>2, <2>3, Zenon
    <3>2. Len(Before(cmd, 1 - 1)) = 0 /\ 0 + t = t
      BY <2>1, <2>2, <2>5, Zenon
    <3>3. Before(cmd, 1)[t] =
            [path     |-> cmd.inputs[1].path, line |-> cmd.inputs[1].stmts[t].line,
             findings |-> cmd.inputs[1].stmts[t].findings]
      BY <3>1, <3>2, Zenon
    <3>4. QED  BY <1>2, <2>2, <3>3, Zenon
  <2>8. QED  BY <2>6, <2>7
<1>4. \A k \in 1..Len(res) : res[k] = ResultOf(k, input.stmts[k])
  BY <1>1 DEF Gathered
<1>5. \A k \in 1..Len(res) : res[k] = Numbered(k, Before(cmd, 1)[k])
  <2> TAKE k \in 1..Len(res)
  <2>1. res[k] = ResultOf(k, input.stmts[k])
    BY <1>4, Zenon
  <2>2. Before(cmd, 1)[k] =
          [path |-> NoPath, line |-> input.stmts[k].line, findings |-> input.stmts[k].findings]
    BY <1>1, <1>3, Zenon
  <2>3. QED  BY <2>1, <2>2 DEF ResultOf, Numbered
<1>6. Taken' = Len(res)
  BY <1>1, <1>2, <1>3 DEF Taken
<1>7. InOrder'
  BY <1>1, <1>2, <1>5, <1>6 DEF InOrder
<1>8. QED  BY <1>1, <1>7 DEF Gathered

(* Every step keeps what is gathered.                                      *)
LEMMA GatheredStep == ASSUME IInv, Gathered, [Next]_vars  PROVE Gathered'
<1>1. CASE UNCHANGED vars
  <2>1. UNCHANGED <<cmd, pc, f, n, res, statements>>
    BY <1>1 DEF vars
  <2>2. QED  BY <2>1 DEF Gathered, InOrder, Taken, input
<1>2. CASE pc' = "done"
  BY <1>2 DEF Gathered
<1>3. CASE Next /\ pc' # "done"
  <2>1. CASE ReadFile
    BY <1>3, <2>1, ReadFileGathers DEF ReadFile, Go, Exit
  <2>2. CASE validateFormat
    BY <1>3, <2>2, GatheredKept DEF validateFormat, Go, Exit
  <2>3. CASE loadPolicy
    BY <1>3, <2>3, GatheredKept DEF loadPolicy, Go, Exit
  <2>4. CASE NoPaths
    <3>1. cmd.kind = "files"
      <4>1. InputsOf(cmd.kind, cmd.inputs) /\ (cmd.kind = "files" \/ cmd.kind = "sql")
        BY GateFacts
      <4>2. cmd.inputs = << >>
        BY <2>4 DEF NoPaths
      <4>3. QED  BY <4>1, <4>2, EmptySeq DEF InputsOf
    <3>2. QED  BY <2>4, <3>1, GatheredKept DEF NoPaths, Go
  <2>5. CASE Parse
    <3>1. res = << >>
      BY <2>5 DEF Parse, Go, Exit, IInv, LoopInvariants, InputLoop
    <3>2. QED  BY <1>3, <2>5, <3>1, GatheredKept DEF Parse, Go, Exit
  <2>6. CASE AnalyzeDone
    BY <2>6, GatheredKept DEF AnalyzeDone, Go
  <2>7. CASE AggregateFiles
    <3>1. /\ UNCHANGED <<cmd, f, n, res, statements>> /\ pc = "read" /\ pc' = "aggregate"
          /\ cmd.kind = "files"
      <4>1. /\ UNCHANGED <<cmd, f, n, res, statements>> /\ pc = "read" /\ pc' = "aggregate"
            /\ cmd.inputs # << >> /\ f = Len(cmd.inputs)
        BY <2>7 DEF AggregateFiles, StartAggregate, Go
      <4>2. f > 0
        BY <4>1, GateFacts, EmptySeq DEF Command
      <4>3. QED  BY <4>1, <4>2, GateFacts
    <3>2. QED  BY <3>1, GatheredKept
  <2>8. CASE AggregateFinding \/ AggregateStatement \/ AggregateDone
    BY <2>8, GatheredKept DEF AggregateFinding, AggregateStatement, AggregateDone, Go
  <2>9. CASE printAndExit
    BY <1>3, <2>9 DEF printAndExit, Exit, Go
  <2>10. CASE Done
    BY <1>3, <2>10 DEF Done, vars
  <2>11. QED
    BY <1>3, <2>1, <2>2, <2>3, <2>4, <2>5, <2>6, <2>7, <2>8, <2>9, <2>10, AnalyzeGathers,
       AppendStatementGathers, NextFileGathers, AggregateSQLGathers, Zenon DEF Next
<1>4. QED  BY <1>1, <1>2, <1>3

-----------------------------------------------------------------------------
(***************************************************************************)
(* What Aggregate has seen, and what it makes of it.                       *)
(***************************************************************************)
(* The places of findings, before the place <<s, j>>.                      *)
PlacesSeen ==
  {p \in Places(statements) : p[1] < s \/ (p[1] = s /\ p[2] < j)}

SeenWith(d) == {p \in PlacesSeen : FindingAt(statements, p).decision = d}

DecisionsSeen  == {FindingAt(statements, p).decision : p \in PlacesSeen}
SeveritiesSeen == {FindingAt(statements, p).severity : p \in PlacesSeen}

Aggregated ==
  pc \in {"aggregate", "print"} =>
    /\ IsFiniteSet(PlacesSeen)
    /\ acc.summary = [statements |-> Len(statements), findings |-> Cardinality(PlacesSeen),
                      blocks     |-> Cardinality(SeenWith("block")),
                      warnings   |-> Cardinality(SeenWith("warn"))]
    /\ IsGreatest(acc.decision, DecisionsSeen, decisionStrictness,
                  IF pc = "print" THEN "allow" ELSE "none")
    /\ IsGreatest(acc.severity, SeveritiesSeen, severityLevel,
                  IF pc = "print" THEN "low" ELSE "none")

(* The stricter of the greatest so far and one more value is the greatest. *)
LEMMA GreatestWithOneMore ==
  ASSUME NEW V, NEW rank, NEW v, NEW x, NEW least,
         \A w \in V \cup {least, x} : rank[w] \in Int,
         IsGreatest(v, V, rank, least)
  PROVE  IsGreatest(Stricter(rank, x, v), V \cup {x}, rank, least)
<1>1. v \in V \cup {least} /\ \A w \in V \cup {least} : rank[w] <= rank[v]
  BY Zenon DEF IsGreatest
<1>2. rank[v] \in Int /\ rank[x] \in Int
  BY <1>1, Zenon
<1> DEFINE u == Stricter(rank, x, v)
<1>3. CASE rank[x] > rank[v]
  <2>1. u = x
    BY <1>3, Zenon DEF Stricter
  <2>2. \A w \in V \cup {least} : rank[w] <= rank[x]
    <3> TAKE w \in V \cup {least}
    <3>1. rank[w] \in Int /\ rank[w] <= rank[v]
      BY <1>1, Zenon
    <3>2. QED  BY <1>2, <1>3, <3>1
  <2>3. rank[x] <= rank[x]
    BY <1>2
  <2>4. QED  BY <2>1, <2>2, <2>3, Zenon DEF IsGreatest
<1>4. CASE ~(rank[x] > rank[v])
  <2>1. u = v
    BY <1>4, Zenon DEF Stricter
  <2>2. rank[x] <= rank[v]
    BY <1>2, <1>4
  <2>3. QED  BY <1>1, <2>1, <2>2, Zenon DEF IsGreatest
<1>5. QED  BY <1>3, <1>4

(* The places of the statements gathered, one by one.                      *)
LEMMA PlaceFacts ==
  ASSUME IInv
  PROVE  /\ \A p \in Places(statements) :
              /\ p[1] \in 1..Len(statements)
              /\ p[2] \in 1..Len(statements[p[1]].findings)
              /\ p = <<p[1], p[2]>>
              /\ FindingAt(statements, p).decision \in Decisions
              /\ FindingAt(statements, p).severity \in Severities
         /\ \A k \in 1..Len(statements) : \A q \in 1..Len(statements[k].findings) :
              <<k, q>> \in Places(statements)
         /\ Len(statements) \in Nat
         /\ \A k \in 1..Len(statements) : Len(statements[k].findings) \in Nat
<1>1. statements \in Seq(StatementResult)
  BY Zenon DEF IInv, TypeOK
<1>2. /\ Len(statements) \in Nat /\ DOMAIN statements = 1..Len(statements)
      /\ \A k \in 1..Len(statements) :
           /\ Len(statements[k].findings) \in Nat
           /\ DOMAIN statements[k].findings = 1..Len(statements[k].findings)
           /\ \A q \in 1..Len(statements[k].findings) : statements[k].findings[q] \in Finding
  BY <1>1, StatementFacts, Zenon
<1> DEFINE Q == {p \in (DOMAIN statements)
                    \X (UNION {DOMAIN statements[k].findings : k \in DOMAIN statements}) :
                   p[2] \in DOMAIN statements[p[1]].findings}
<1>3. Places(statements) = Q
  BY PlacesAre, Zenon
<1>4. ASSUME NEW p \in Q
      PROVE  /\ p[1] \in 1..Len(statements)
             /\ p[2] \in 1..Len(statements[p[1]].findings)
             /\ p = <<p[1], p[2]>>
             /\ FindingAt(statements, p).decision \in Decisions
             /\ FindingAt(statements, p).severity \in Severities
  <2>1. p = <<p[1], p[2]>> /\ p[1] \in DOMAIN statements
        /\ p[2] \in DOMAIN statements[p[1]].findings
    OBVIOUS
  <2>2. p[1] \in 1..Len(statements) /\ p[2] \in 1..Len(statements[p[1]].findings)
    BY <1>2, <2>1, Zenon
  <2>3. statements[p[1]].findings[p[2]] \in Finding
    BY <1>2, <2>2, Zenon
  <2>4. FindingAt(statements, p) \in Finding
    BY <2>3, Zenon DEF FindingAt
  <2>5. /\ FindingAt(statements, p).decision \in Decisions
        /\ FindingAt(statements, p).severity \in Severities
    BY <2>4 DEF Finding
  <2>6. QED  BY <2>1, <2>2, <2>5, Zenon
<1>5. ASSUME NEW k \in 1..Len(statements), NEW q \in 1..Len(statements[k].findings)
      PROVE  <<k, q>> \in Q
  <2>1. k \in DOMAIN statements /\ q \in DOMAIN statements[k].findings
    BY <1>2, Zenon
  <2>2. QED  BY <2>1
<1>6. QED  BY <1>2, <1>3, <1>4, <1>5, Zenon

(* Nothing is aggregated before Aggregate.                                 *)
LEMMA AggregatedInit == Init => Aggregated
BY DEF Init, Aggregated

(* Nothing is before the first finding of the first statement.             *)
LEMMA NoPlaceSeen ==
  ASSUME statements' \in Seq(StatementResult), s' = 1, j' = 1
  PROVE  /\ PlacesSeen' = {} /\ SeenWith("block")' = {} /\ SeenWith("warn")' = {}
         /\ DecisionsSeen' = {} /\ SeveritiesSeen' = {}
<1>0. PICK srs \in Seq(StatementResult) : srs = statements'
  OBVIOUS
<1>1. \A p \in Places(statements') : p[1] \in Nat /\ p[1] >= 1 /\ p[2] \in Nat /\ p[2] >= 1
  <2>1. /\ Len(srs) \in Nat /\ DOMAIN srs = 1..Len(srs)
        /\ \A k \in 1..Len(srs) : /\ Len(srs[k].findings) \in Nat
                                  /\ DOMAIN srs[k].findings = 1..Len(srs[k].findings)
    BY StatementFacts, Zenon
  <2>2. Places(srs) =
          {p \in (DOMAIN srs) \X (UNION {DOMAIN srs[k].findings : k \in DOMAIN srs}) :
             p[2] \in DOMAIN srs[p[1]].findings}
    BY PlacesAre, Zenon
  <2>3. \A p \in Places(srs) : p[1] \in DOMAIN srs /\ p[2] \in DOMAIN srs[p[1]].findings
    BY <2>2
  <2>4. \A p \in Places(srs) :
          p[1] \in 1..Len(srs) /\ p[2] \in 1..Len(srs[p[1]].findings)
            /\ Len(srs[p[1]].findings) \in Nat
    BY <2>1, <2>3, Zenon
  <2>5. QED  BY <1>0, <2>1, <2>4
<1>2. \A p \in Places(statements') : ~(p[1] < 1 \/ (p[1] = 1 /\ p[2] < 1))
  BY <1>1
<1>3. PlacesSeen' = {}
  BY <1>2 DEF PlacesSeen
<1>4. QED  BY <1>3, Zenon DEF SeenWith, DecisionsSeen, SeveritiesSeen

(* One iteration of the inner loop of Aggregate: one place more is seen.   *)
LEMMA AggregateFindingStep ==
  ASSUME IInv, Aggregated, AggregateFinding
  PROVE  Aggregated'
<1> DEFINE here == <<s, j>>
           fd   == statements[s].findings[j]
<1>1. /\ pc = "aggregate" /\ pc' = pc /\ statements' = statements /\ s' = s /\ j' = j + 1
      /\ s <= Len(statements) /\ j <= Len(statements[s].findings)
      /\ acc' = [decision |-> Stricter(decisionStrictness, fd.decision, acc.decision),
                 severity |-> Stricter(severityLevel, fd.severity, acc.severity),
                 summary  |-> [statements |-> acc.summary.statements,
                               findings |-> acc.summary.findings + 1,
                               blocks   |-> acc.summary.blocks + One(fd.decision = "block"),
                               warnings |-> acc.summary.warnings + One(fd.decision = "warn")]]
  BY DEF AggregateFinding
<1>2. s \in Nat /\ j \in Nat /\ s >= 1 /\ j >= 1
  BY Zenon DEF IInv, TypeOK
<1>3. s \in 1..Len(statements) /\ j \in 1..Len(statements[s].findings)
  <2>1. Len(statements) \in Nat
    BY PlaceFacts
  <2>2. s \in 1..Len(statements)
    BY <1>1, <1>2, <2>1
  <2>3. Len(statements[s].findings) \in Nat
    BY <2>2, PlaceFacts, Zenon
  <2>4. QED  BY <1>1, <1>2, <2>2, <2>3
<1>4. here \in Places(statements) /\ FindingAt(statements, here) = fd
  BY <1>3, PlaceFacts DEF FindingAt
<1>5. fd.decision \in Decisions /\ fd.severity \in Severities
  <2>1. /\ FindingAt(statements, here).decision \in Decisions
        /\ FindingAt(statements, here).severity \in Severities
    BY <1>4, PlaceFacts, Zenon
  <2>2. QED  BY <1>4, <2>1, Zenon
<1>6. here \notin PlacesSeen /\ here[1] = s /\ here[2] = j
  BY <1>2 DEF PlacesSeen
<1>7. PlacesSeen' = PlacesSeen \cup {here}
  <2>1. \A p \in Places(statements) :
          /\ p[1] \in Nat /\ p[2] \in Nat /\ p = <<p[1], p[2]>>
    BY PlaceFacts
  <2>2. \A p \in Places(statements) :
          (p[1] < s \/ (p[1] = s /\ p[2] < j + 1)) <=>
            ((p[1] < s \/ (p[1] = s /\ p[2] < j)) \/ p = here)
    BY <1>2, <1>6, <2>1
  <2>3. PlacesSeen' = {p \in Places(statements) : p[1] < s \/ (p[1] = s /\ p[2] < j + 1)}
    BY <1>1, Zenon DEF PlacesSeen
  <2> HIDE DEF here
  <2>4. QED  BY <1>4, <2>2, <2>3, Zenon DEF PlacesSeen
<1> HIDE DEF here, fd
<1>8. /\ IsFiniteSet(PlacesSeen)
      /\ acc.summary = [statements |-> Len(statements), findings |-> Cardinality(PlacesSeen),
                        blocks     |-> Cardinality(SeenWith("block")),
                        warnings   |-> Cardinality(SeenWith("warn"))]
      /\ IsGreatest(acc.decision, DecisionsSeen, decisionStrictness, "none")
      /\ IsGreatest(acc.severity, SeveritiesSeen, severityLevel, "none")
  BY <1>1 DEF Aggregated
<1>9. ASSUME NEW d
      PROVE  /\ SeenWith(d)' = IF fd.decision = d THEN SeenWith(d) \cup {here} ELSE SeenWith(d)
             /\ IsFiniteSet(SeenWith(d)) /\ here \notin SeenWith(d)
  <2>1. SeenWith(d)' = {p \in PlacesSeen' : FindingAt(statements, p).decision = d}
    BY <1>1, Zenon DEF SeenWith
  <2>2. SeenWith(d) \subseteq PlacesSeen
    BY Zenon DEF SeenWith
  <2>3. QED  BY <1>4, <1>6, <1>7, <1>8, <2>1, <2>2, FS_Subset DEF SeenWith
<1>10. ASSUME NEW d
       PROVE  Cardinality(SeenWith(d)') = Cardinality(SeenWith(d)) + One(fd.decision = d)
  <2>1. Cardinality(SeenWith(d)) \in Nat
    BY <1>9, FS_CardinalityType
  <2>2. CASE fd.decision = d
    <3>1. Cardinality(SeenWith(d) \cup {here}) = Cardinality(SeenWith(d)) + 1
      BY <1>9, FS_AddElement
    <3>2. QED  BY <1>9, <2>2, <3>1 DEF One
  <2>3. CASE fd.decision # d
    BY <1>9, <2>1, <2>3 DEF One
  <2>4. QED  BY <2>2, <2>3
<1>11. /\ IsFiniteSet(PlacesSeen') /\ Cardinality(PlacesSeen') = Cardinality(PlacesSeen) + 1
  BY <1>6, <1>7, <1>8, FS_AddElement
<1>12. acc'.summary = [statements |-> Len(statements'), findings |-> Cardinality(PlacesSeen'),
                       blocks     |-> Cardinality(SeenWith("block")'),
                       warnings   |-> Cardinality(SeenWith("warn")')]
  <2>1. /\ acc.summary.statements = Len(statements)
        /\ acc.summary.findings = Cardinality(PlacesSeen)
        /\ acc.summary.blocks = Cardinality(SeenWith("block"))
        /\ acc.summary.warnings = Cardinality(SeenWith("warn"))
    BY <1>8
  <2>2. acc'.summary =
          [statements |-> acc.summary.statements, findings |-> acc.summary.findings + 1,
           blocks   |-> acc.summary.blocks + One(fd.decision = "block"),
           warnings |-> acc.summary.warnings + One(fd.decision = "warn")]
    BY <1>1
  <2>3. /\ Cardinality(SeenWith("block")')
             = Cardinality(SeenWith("block")) + One(fd.decision = "block")
        /\ Cardinality(SeenWith("warn")')
             = Cardinality(SeenWith("warn")) + One(fd.decision = "warn")
    BY <1>10
  <2>4. Len(statements') = Len(statements)
    BY <1>1
  <2>5. QED  BY <1>11, <2>1, <2>2, <2>3, <2>4
<1>13. DecisionsSeen' = DecisionsSeen \cup {fd.decision}
  <2>1. DecisionsSeen' = {FindingAt(statements, p).decision : p \in PlacesSeen'}
    BY <1>1, Zenon DEF DecisionsSeen
  <2>2. QED  BY <1>4, <1>7, <2>1, Zenon DEF DecisionsSeen
<1>14. SeveritiesSeen' = SeveritiesSeen \cup {fd.severity}
  <2>1. SeveritiesSeen' = {FindingAt(statements, p).severity : p \in PlacesSeen'}
    BY <1>1, Zenon DEF SeveritiesSeen
  <2>2. QED  BY <1>4, <1>7, <2>1, Zenon DEF SeveritiesSeen
<1>15. DecisionsSeen \subseteq Decisions /\ SeveritiesSeen \subseteq Severities
  BY PlaceFacts, Zenon DEF DecisionsSeen, SeveritiesSeen, PlacesSeen
<1>16. \A d \in Decisions \cup {"none"} : decisionStrictness[d] \in Int
  BY DEF decisionStrictness, Decisions
<1>17. \A d \in Severities \cup {"none"} : severityLevel[d] \in Int
  BY DEF severityLevel, Severities
<1>18. IsGreatest(acc'.decision, DecisionsSeen', decisionStrictness, "none")
  <2>1. \A d \in DecisionsSeen \cup {"none", fd.decision} : decisionStrictness[d] \in Int
    BY <1>5, <1>15, <1>16, Zenon
  <2>2. IsGreatest(Stricter(decisionStrictness, fd.decision, acc.decision),
                   DecisionsSeen \cup {fd.decision}, decisionStrictness, "none")
    BY <1>8, <2>1, GreatestWithOneMore
  <2>3. acc'.decision = Stricter(decisionStrictness, fd.decision, acc.decision)
    BY <1>1
  <2>4. QED  BY <1>13, <2>2, <2>3, Zenon
<1>19. IsGreatest(acc'.severity, SeveritiesSeen', severityLevel, "none")
  <2>1. \A d \in SeveritiesSeen \cup {"none", fd.severity} : severityLevel[d] \in Int
    BY <1>5, <1>15, <1>17, Zenon
  <2>2. IsGreatest(Stricter(severityLevel, fd.severity, acc.severity),
                   SeveritiesSeen \cup {fd.severity}, severityLevel, "none")
    BY <1>8, <2>1, GreatestWithOneMore
  <2>3. acc'.severity = Stricter(severityLevel, fd.severity, acc.severity)
    BY <1>1
  <2>4. QED  BY <1>14, <2>2, <2>3, Zenon
<1>20. pc' # "print"
  BY <1>1
<1>21. QED  BY <1>11, <1>12, <1>18, <1>19, <1>20, Zenon DEF Aggregated

(* Aggregate starts from nothing.                                          *)
LEMMA NothingAggregated ==
  ASSUME statements' \in Seq(StatementResult), s' = 1, j' = 1,
         acc'.summary = [ZeroSummary EXCEPT !.statements = Len(statements')],
         acc'.decision = IF pc' = "print" THEN "allow" ELSE "none",
         acc'.severity = IF pc' = "print" THEN "low" ELSE "none"
  PROVE  Aggregated'
<1>1. /\ PlacesSeen' = {} /\ SeenWith("block")' = {} /\ SeenWith("warn")' = {}
      /\ DecisionsSeen' = {} /\ SeveritiesSeen' = {}
  BY NoPlaceSeen
<1>2. IsFiniteSet({}) /\ Cardinality({}) = 0
  BY FS_EmptySet
<1>3. acc'.summary = [statements |-> Len(statements'), findings |-> 0,
                      blocks     |-> 0, warnings |-> 0]
  BY DEF ZeroSummary
<1>4. /\ decisionStrictness["allow"] <= decisionStrictness["allow"]
      /\ decisionStrictness["none"] <= decisionStrictness["none"]
      /\ severityLevel["low"] <= severityLevel["low"]
      /\ severityLevel["none"] <= severityLevel["none"]
  BY DEF decisionStrictness, severityLevel, Decisions, Severities
<1>5. /\ IsGreatest(acc'.decision, {}, decisionStrictness,
                    IF pc' = "print" THEN "allow" ELSE "none")
      /\ IsGreatest(acc'.severity, {}, severityLevel, IF pc' = "print" THEN "low" ELSE "none")
  <2>1. CASE pc' = "print"
    BY <1>4, <2>1, Zenon DEF IsGreatest
  <2>2. CASE pc' # "print"
    BY <1>4, <2>2, Zenon DEF IsGreatest
  <2>3. QED  BY <2>1, <2>2
<1>6. /\ IsFiniteSet(PlacesSeen')
      /\ acc'.summary = [statements |-> Len(statements'), findings |-> Cardinality(PlacesSeen'),
                         blocks     |-> Cardinality(SeenWith("block")'),
                         warnings   |-> Cardinality(SeenWith("warn")')]
  BY <1>1, <1>2, <1>3, Zenon
<1>7. /\ IsGreatest(acc'.decision, DecisionsSeen', decisionStrictness,
                    IF pc' = "print" THEN "allow" ELSE "none")
      /\ IsGreatest(acc'.severity, SeveritiesSeen', severityLevel,
                    IF pc' = "print" THEN "low" ELSE "none")
  BY <1>1, <1>5, Zenon
<1>8. QED  BY <1>6, <1>7, Zenon DEF Aggregated

(* Behind the last finding of a statement, the next statement is next.     *)
LEMMA AggregateStatementStep ==
  ASSUME IInv, Aggregated, AggregateStatement
  PROVE  Aggregated'
<1>1. /\ pc = "aggregate" /\ UNCHANGED <<pc, statements, acc>> /\ s' = s + 1 /\ j' = 1
      /\ j > Len(statements[s].findings)
  BY DEF AggregateStatement
<1>2. s \in Nat /\ j \in Nat
  BY Zenon DEF IInv, TypeOK
<1>3. \A p \in Places(statements) :
        (p[1] < s + 1 \/ (p[1] = s + 1 /\ p[2] < 1)) <=> (p[1] < s \/ (p[1] = s /\ p[2] < j))
  <2> TAKE p \in Places(statements)
  <2>1. /\ p[1] \in 1..Len(statements) /\ p[2] \in 1..Len(statements[p[1]].findings)
        /\ Len(statements) \in Nat /\ Len(statements[p[1]].findings) \in Nat
    BY PlaceFacts
  <2>2. p[1] = s => p[2] < j
    BY <1>1, <1>2, <2>1
  <2>3. QED  BY <1>2, <2>1, <2>2
<1>4. PlacesSeen' = PlacesSeen
  <2>1. PlacesSeen' = {p \in Places(statements) : p[1] < s + 1 \/ (p[1] = s + 1 /\ p[2] < 1)}
    BY <1>1, Zenon DEF PlacesSeen
  <2>2. QED  BY <1>3, <2>1, Zenon DEF PlacesSeen
<1>5. /\ SeenWith("block")' = SeenWith("block") /\ SeenWith("warn")' = SeenWith("warn")
      /\ DecisionsSeen' = DecisionsSeen /\ SeveritiesSeen' = SeveritiesSeen
  BY <1>1, <1>4, Zenon DEF SeenWith, DecisionsSeen, SeveritiesSeen
<1>6. QED  BY <1>1, <1>4, <1>5, Zenon DEF Aggregated

(* No findings, or none but allowed ones: the decision is allow.           *)
LEMMA AggregateDoneStep ==
  ASSUME IInv, Aggregated, AggregateDone
  PROVE  Aggregated'
<1>1. /\ pc = "aggregate" /\ pc' = "print" /\ UNCHANGED <<statements, s, j>>
      /\ acc'.summary = acc.summary
      /\ acc'.decision = IF acc.decision = "none" THEN "allow" ELSE acc.decision
      /\ acc'.severity = IF acc.severity = "none" THEN "low" ELSE acc.severity
  <2>1. acc \in [decision : Decisions \cup {"none"}, severity : Severities \cup {"none"},
                 summary : Summary]
    BY Zenon DEF IInv, TypeOK
  <2>2. QED  BY <2>1 DEF AggregateDone, Go
<1>2. /\ PlacesSeen' = PlacesSeen
      /\ SeenWith("block")' = SeenWith("block") /\ SeenWith("warn")' = SeenWith("warn")
      /\ DecisionsSeen' = DecisionsSeen /\ SeveritiesSeen' = SeveritiesSeen
  BY <1>1, Zenon DEF PlacesSeen, SeenWith, DecisionsSeen, SeveritiesSeen
<1>3. /\ acc.decision \in DecisionsSeen \cup {"none"}
      /\ \A d \in DecisionsSeen : decisionStrictness[d] <= decisionStrictness[acc.decision]
      /\ acc.severity \in SeveritiesSeen \cup {"none"}
      /\ \A d \in SeveritiesSeen : severityLevel[d] <= severityLevel[acc.severity]
  BY <1>1 DEF Aggregated, IsGreatest
<1>4. DecisionsSeen \subseteq Decisions /\ SeveritiesSeen \subseteq Severities
  BY PlaceFacts, Zenon DEF DecisionsSeen, SeveritiesSeen, PlacesSeen
<1>5. IsGreatest(acc'.decision, DecisionsSeen, decisionStrictness, "allow")
  <2>1. \A d \in Decisions : /\ ~(decisionStrictness[d] <= decisionStrictness["none"])
                             /\ decisionStrictness["allow"] <= decisionStrictness[d]
    BY DEF decisionStrictness, Decisions
  <2>2. "none" \notin Decisions /\ "allow" \in Decisions
    BY DEF Decisions
  <2>3. CASE acc.decision = "none"
    <3>1. DecisionsSeen = {} /\ acc'.decision = "allow"
      BY <1>1, <1>3, <1>4, <2>1, <2>3, Zenon
    <3>2. QED  BY <2>1, <2>2, <3>1, Zenon DEF IsGreatest
  <2>4. CASE acc.decision # "none"
    <3>1. acc.decision \in DecisionsSeen /\ acc'.decision = acc.decision
      BY <1>1, <1>3, <2>4
    <3>2. QED  BY <1>3, <1>4, <2>1, <3>1, Zenon DEF IsGreatest
  <2>5. QED  BY <2>3, <2>4
<1>6. IsGreatest(acc'.severity, SeveritiesSeen, severityLevel, "low")
  <2>1. \A d \in Severities : /\ ~(severityLevel[d] <= severityLevel["none"])
                              /\ severityLevel["low"] <= severityLevel[d]
    BY DEF severityLevel, Severities
  <2>2. "none" \notin Severities /\ "low" \in Severities
    BY DEF Severities
  <2>3. CASE acc.severity = "none"
    <3>1. SeveritiesSeen = {} /\ acc'.severity = "low"
      BY <1>1, <1>3, <1>4, <2>1, <2>3, Zenon
    <3>2. QED  BY <2>1, <2>2, <3>1, Zenon DEF IsGreatest
  <2>4. CASE acc.severity # "none"
    <3>1. acc.severity \in SeveritiesSeen /\ acc'.severity = acc.severity
      BY <1>1, <1>3, <2>4
    <3>2. QED  BY <1>3, <1>4, <2>1, <3>1, Zenon DEF IsGreatest
  <2>5. QED  BY <2>3, <2>4
<1>7. /\ IsFiniteSet(PlacesSeen)
      /\ acc.summary = [statements |-> Len(statements), findings |-> Cardinality(PlacesSeen),
                        blocks     |-> Cardinality(SeenWith("block")),
                        warnings   |-> Cardinality(SeenWith("warn"))]
  BY <1>1 DEF Aggregated
<1>8. Len(statements') = Len(statements)
  BY <1>1
<1>9. QED  BY <1>1, <1>2, <1>5, <1>6, <1>7, <1>8, Zenon DEF Aggregated

(* Every step keeps the aggregate exact for what has been seen.            *)
LEMMA AggregatedStep ==
  ASSUME IInv, IInv', Gathered, Aggregated, [Next]_vars
  PROVE  Aggregated'
<1>0. statements \in Seq(StatementResult) /\ statements' \in Seq(StatementResult)
  BY Zenon DEF IInv, TypeOK
<1>1. CASE UNCHANGED vars
  <2>1. UNCHANGED <<pc, statements, s, j, acc>>
    BY <1>1 DEF vars
  <2>2. QED
    BY <2>1, Zenon DEF Aggregated, PlacesSeen, SeenWith, DecisionsSeen, SeveritiesSeen
<1>2. CASE pc' \notin {"aggregate", "print"}
  BY <1>2, Zenon DEF Aggregated
<1>3. CASE AggregateFiles \/ AggregateSQL
  <2>1. /\ pc \notin {"aggregate", "print", "done"} /\ pc' = "aggregate"
        /\ acc' = [NoResult EXCEPT !.summary.statements = Len(statements')]
        /\ UNCHANGED <<s, j>>
    BY <1>3 DEF AggregateFiles, AggregateSQL, StartAggregate, Go
  <2>2. s = 1 /\ j = 1
    BY <2>1 DEF IInv, LoopInvariants, AggregateLoop
  <2>3. /\ acc'.summary = [ZeroSummary EXCEPT !.statements = Len(statements')]
        /\ acc'.decision = "none" /\ acc'.severity = "none"
    BY <2>1 DEF NoResult, ZeroSummary
  <2>4. QED  BY <1>0, <2>1, <2>2, <2>3, NothingAggregated
<1>4. CASE NoPaths
  <2>1. /\ pc = "read" /\ pc' = "print" /\ UNCHANGED <<statements, s, j>>
        /\ cmd.inputs = << >>
        /\ acc' = [NoResult EXCEPT !.decision = "allow", !.severity = "low"]
    BY <1>4 DEF NoPaths, Go
  <2>2. s = 1 /\ j = 1
    BY <2>1 DEF IInv, LoopInvariants, AggregateLoop
  <2>3. Len(statements) = 0
    <3>1. /\ InputsOf(cmd.kind, cmd.inputs) /\ (cmd.kind = "files" \/ cmd.kind = "sql")
          /\ f \in 0..Len(cmd.inputs) /\ cmd \in Command
      BY GateFacts, Zenon
    <3>2. Len(cmd.inputs) = 0
      BY <2>1, EmptySeq
    <3>3. cmd.kind = "files" /\ f = 0
      BY <3>1, <3>2 DEF InputsOf
    <3>4. Len(statements) = Len(Before(cmd, 0))
      BY <2>1, <3>3 DEF Gathered, InOrder, Taken
    <3>5. QED  BY <3>1, <3>4, BeforeFacts, EmptySeq
  <2>4. /\ acc'.summary = [ZeroSummary EXCEPT !.statements = Len(statements')]
        /\ acc'.decision = "allow" /\ acc'.severity = "low"
    BY <2>1, <2>3 DEF NoResult, ZeroSummary
  <2>5. QED  BY <1>0, <2>1, <2>2, <2>4, NothingAggregated
<1>5. CASE Next /\ pc' \in {"aggregate", "print"}
  <2>1. ~validateFormat /\ ~loadPolicy /\ ~ReadFile /\ ~Parse /\ ~AnalyzeDone /\ ~NextFile
        /\ ~printAndExit
    BY <1>5 DEF validateFormat, loadPolicy, ReadFile, Parse, AnalyzeDone, NextFile,
               printAndExit, Go, Exit
  <2>2. ~Analyze /\ ~AppendStatement /\ ~Done
    BY <1>5 DEF Analyze, AppendStatement, Done, vars
  <2>3. QED
    BY <1>3, <1>4, <1>5, <2>1, <2>2, AggregateFindingStep, AggregateStatementStep,
       AggregateDoneStep, Zenon DEF Next
<1>6. QED  BY <1>1, <1>2, <1>5

-----------------------------------------------------------------------------
(***************************************************************************)
(* The inductive invariant of the refinement.                              *)
(***************************************************************************)
FormatChecked == pc \notin {"format", "done"} => cmd.format \in Formats

GateInv == IInv /\ Gathered /\ Aggregated /\ FormatChecked

(* Past validateFormat the format is one of the three.                     *)
LEMMA FormatStep == ASSUME FormatChecked, [Next]_vars  PROVE FormatChecked'
<1>1. CASE validateFormat
  BY <1>1 DEF FormatChecked, validateFormat, Go, Exit
<1>2. CASE UNCHANGED <<cmd, pc>>
  BY <1>2 DEF FormatChecked
<1>3. CASE cmd' = cmd /\ pc \notin {"format", "done"}
  BY <1>3 DEF FormatChecked
<1>4. CASE Next
  BY <1>1, <1>2, <1>3, <1>4
     DEF Next, loadPolicy, NoPaths, ReadFile, Parse, Analyze, AnalyzeDone, AppendStatement,
         NextFile, AggregateFiles, AggregateSQL, StartAggregate, AggregateFinding,
         AggregateStatement, AggregateDone, printAndExit, Done, vars, Go, Exit
<1>5. QED  BY <1>2, <1>4 DEF vars

(* Every state of every review: what is gathered and aggregated so far is  *)
(* what the gate would say of the inputs taken so far.                     *)
THEOREM GateInvariance == Spec => []GateInv
<1>1. Init => Gathered /\ Aggregated /\ FormatChecked
  BY GatheredInit, AggregatedInit DEF Init, FormatChecked
<1>2. IInv /\ IInv' /\ Gathered /\ Aggregated /\ FormatChecked /\ [Next]_vars
        => Gathered' /\ Aggregated' /\ FormatChecked'
  BY GatheredStep, AggregatedStep, FormatStep
<1>3. QED  BY <1>1, <1>2, Inductive, PTL DEF Spec, GateInv

-----------------------------------------------------------------------------
(***************************************************************************)
(* The refinement.                                                         *)
(***************************************************************************)
(* The gate's words for an answer are those of Answers: Gate is            *)
(* instantiated, and with it all that it extends.                          *)
LEMMA SameAnswer ==
  ASSUME NEW c
  PROVE  /\ G!Reviewable(c) <=> Reviewable(c)
         /\ G!ReportOf(c) = ReportOf(c)
         /\ G!decisionToExit[G!StrictestDecision(G!AllStatements(c))]
              = decisionToExit[StrictestDecision(AllStatements(c))]
<1>1. G!Reviewable(c) <=> Reviewable(c)
  BY Zenon DEF G!Reviewable, Reviewable, G!Formats, Formats
<1>2. G!AllStatements(c) = AllStatements(c)
  BY Zenon DEF G!AllStatements, AllStatements, G!StatementsOf, StatementsOf,
               G!FlattenSeq, FlattenSeq
<1>3. \A S : /\ G!Places(S) = Places(S)
             /\ \A p : G!FindingAt(S, p) = FindingAt(S, p)
  BY Zenon DEF G!Places, Places, G!FindingAt, FindingAt
<1>4. \A S : /\ \A a : G!Values(S, a) = Values(S, a)
             /\ \A d : G!Count(S, d) = Count(S, d)
             /\ G!Cardinality(G!Places(S)) = Cardinality(Places(S))
  BY <1>3, Zenon DEF G!Values, Values, G!Count, Count, G!Cardinality, Cardinality
<1>5. \A S : /\ G!StrictestDecision(S) = StrictestDecision(S)
             /\ G!GreatestSeverity(S) = GreatestSeverity(S)
  BY <1>4, Zenon
     DEF G!StrictestDecision, StrictestDecision, G!GreatestSeverity, GreatestSeverity,
         G!Greatest, Greatest, G!decisionStrictness, decisionStrictness,
         G!severityLevel, severityLevel, G!Decisions, Decisions, G!Severities, Severities
<1>6. G!ReportOf(c) = ReportOf(c)
  BY <1>2, <1>4, <1>5, Zenon DEF G!ReportOf, ReportOf
<1>7. G!decisionToExit = decisionToExit
  BY Zenon DEF G!decisionToExit, decisionToExit, G!Decisions, Decisions
<1>8. QED  BY <1>1, <1>2, <1>5, <1>6, <1>7, Zenon

(* What is reported of the inputs is the gate's report.                    *)
LEMMA ReportIsTheGates ==
  ASSUME GateInv, pc = "print"
  PROVE  /\ report = ReportOf(cmd)
         /\ acc.decision = StrictestDecision(AllStatements(cmd))
<1> DEFINE as == AllStatements(cmd)
<1>1. /\ cmd \in Command /\ InputsOf(cmd.kind, cmd.inputs) /\ Len(cmd.inputs) \in Nat
      /\ statements \in Seq(StatementResult)
      /\ acc \in [decision : Decisions \cup {"none"}, severity : Severities \cup {"none"},
                  summary : Summary]
      /\ acc.decision \in Decisions /\ acc.severity \in Severities
  BY GateFacts, Zenon DEF GateInv, IInv, TypeOK
<1>2. f = Len(cmd.inputs) /\ s = Len(statements) + 1
  BY DEF GateInv, IInv, LoopInvariants, InputLoop, AggregateLoop
<1>3. as = Before(cmd, Len(cmd.inputs)) /\ as \in Seq(Bare)
  BY <1>1, BeforeFacts
<1>4. /\ Len(statements) = Len(as)
      /\ \A k \in 1..Len(statements) : statements[k] = Numbered(k, as[k])
  BY <1>2, <1>3 DEF GateInv, Gathered, InOrder, Taken
<1> HIDE DEF as
<1>5. /\ Len(as) \in Nat /\ DOMAIN as = 1..Len(as) /\ DOMAIN statements = 1..Len(as)
      /\ \A k \in 1..Len(as) : as[k] \in Bare
  BY <1>1, <1>3, <1>4, LenProperties, ElementOfSeq
<1>6. \A k \in 1..Len(as) :
        /\ DOMAIN statements[k].findings = DOMAIN as[k].findings
        /\ \A q \in DOMAIN as[k].findings :
             /\ statements[k].findings[q].decision = as[k].findings[q].decision
             /\ statements[k].findings[q].severity = as[k].findings[q].severity
  <2> TAKE k \in 1..Len(as)
  <2>1. statements[k] = Numbered(k, as[k])
    BY <1>4, <1>5, Zenon
  <2>2. PICK fs : fs = as[k].findings
    OBVIOUS
  <2>3. statements[k].findings = convertFindings(k, fs)
    BY <2>1, <2>2 DEF Numbered
  <2>4. statements[k].findings =
          [q \in DOMAIN fs |-> [decision |-> fs[q].decision, severity |-> fs[q].severity,
                                statementIndex |-> k]]
    BY <2>3, Zenon DEF convertFindings
  <2> DEFINE numberedFindings ==
          [q \in DOMAIN fs |-> [decision |-> fs[q].decision, severity |-> fs[q].severity,
                                statementIndex |-> k]]
  <2>5. /\ DOMAIN numberedFindings = DOMAIN fs
        /\ \A q \in DOMAIN fs : /\ numberedFindings[q].decision = fs[q].decision
                                /\ numberedFindings[q].severity = fs[q].severity
    OBVIOUS
  <2>6. statements[k].findings = numberedFindings
    BY <2>4
  <2> HIDE DEF numberedFindings
  <2>7. QED  BY <2>2, <2>5, <2>6, Zenon
<1>7. Places(as) = Places(statements)
  <2>1. \A k \in 1..Len(as) :
          {k} \X DOMAIN as[k].findings = {k} \X DOMAIN statements[k].findings
    BY <1>6, Zenon
  <2>2. { {k} \X DOMAIN as[k].findings : k \in DOMAIN as }
          = { {k} \X DOMAIN statements[k].findings : k \in DOMAIN statements }
    BY <1>5, <2>1
  <2>3. QED  BY <2>2, Zenon DEF Places
<1>8. \A p \in Places(as) :
        /\ FindingAt(as, p).decision = FindingAt(statements, p).decision
        /\ FindingAt(as, p).severity = FindingAt(statements, p).severity
  <2> TAKE p \in Places(as)
  <2>1. p[1] \in DOMAIN as /\ p[2] \in DOMAIN as[p[1]].findings
    BY PlacesAre
  <2>2. QED  BY <1>5, <1>6, <2>1, Zenon DEF FindingAt
<1>9. PlacesSeen = Places(as)
  <2>1. \A p \in Places(statements) : p[1] < s
    <3>1. \A p \in Places(statements) : p[1] \in 1..Len(statements) /\ Len(statements) \in Nat
      BY PlaceFacts, Zenon DEF GateInv
    <3>2. QED  BY <1>2, <3>1
  <2>2. QED  BY <1>7, <2>1, Zenon DEF PlacesSeen
<1>10. /\ Values(as, "decision") = DecisionsSeen /\ DecisionsSeen \subseteq Decisions
       /\ Values(as, "severity") = SeveritiesSeen /\ SeveritiesSeen \subseteq Severities
  <2>1. Values(as, "decision") = {FindingAt(as, p).decision : p \in Places(as)}
    BY Zenon DEF Values
  <2>2. Values(as, "severity") = {FindingAt(as, p).severity : p \in Places(as)}
    BY Zenon DEF Values
  <2>3. Values(as, "decision") = DecisionsSeen
    BY <1>8, <1>9, <2>1 DEF DecisionsSeen
  <2>4. Values(as, "severity") = SeveritiesSeen
    BY <1>8, <1>9, <2>2 DEF SeveritiesSeen
  <2>5. DecisionsSeen \subseteq Decisions /\ SeveritiesSeen \subseteq Severities
    BY PlaceFacts, Zenon DEF DecisionsSeen, SeveritiesSeen, PlacesSeen, GateInv
  <2>6. QED  BY <2>3, <2>4, <2>5, Zenon
<1>11. \A d : Count(as, d) = Cardinality(SeenWith(d))
  <2> TAKE d
  <2>1. {p \in Places(as) : FindingAt(as, p).decision = d} = SeenWith(d)
    BY <1>8, <1>9, Zenon DEF SeenWith
  <2>2. QED  BY <2>1, Zenon DEF Count
<1>12. /\ acc.summary = [statements |-> Len(statements), findings |-> Cardinality(PlacesSeen),
                         blocks     |-> Cardinality(SeenWith("block")),
                         warnings   |-> Cardinality(SeenWith("warn"))]
       /\ IsGreatest(acc.decision, DecisionsSeen, decisionStrictness, "allow")
       /\ IsGreatest(acc.severity, SeveritiesSeen, severityLevel, "low")
  BY DEF GateInv, Aggregated
<1>13. StrictestDecision(as) = acc.decision /\ GreatestSeverity(as) = acc.severity
  BY <1>10, <1>12, DecisionIs, SeverityIs, Zenon
     DEF StrictestDecision, GreatestSeverity
<1>14. acc.summary = [statements |-> Len(as), findings |-> Cardinality(Places(as)),
                      blocks |-> Count(as, "block"), warnings |-> Count(as, "warn")]
  <2>1. Count(as, "block") = Cardinality(SeenWith("block"))
    BY <1>11, Zenon
  <2>2. Count(as, "warn") = Cardinality(SeenWith("warn"))
    BY <1>11, Zenon
  <2>3. QED  BY <1>4, <1>9, <1>12, <2>1, <2>2
<1> DEFINE numbered == [k \in DOMAIN as |->
             [index |-> k, path |-> as[k].path, line |-> as[k].line,
              findings |-> [q \in DOMAIN as[k].findings |->
                              [decision |-> as[k].findings[q].decision,
                               severity |-> as[k].findings[q].severity,
                               statementIndex |-> k]]]]
           source == IF cmd.kind = "files" /\ Len(cmd.inputs) = 1
                     THEN cmd.inputs[1].path ELSE NoPath
<1>15. statements = numbered
  <2>1. \A k \in 1..Len(as) : numbered[k] = Numbered(k, as[k])
    BY <1>5, Zenon DEF Numbered, convertFindings
  <2>2. \A k \in 1..Len(as) : statements[k] = numbered[k]
    BY <1>4, <2>1, Zenon
  <2>3. statements = [k \in 1..Len(as) |-> statements[k]]
    BY <1>1, <1>4, <1>5
  <2>4. numbered = [k \in 1..Len(as) |-> numbered[k]]
    BY <1>5
  <2> HIDE DEF numbered
  <2>5. QED  BY <2>2, <2>3, <2>4, Zenon
<1>16. source = IF Len(cmd.inputs) = 1 THEN cmd.inputs[1].path ELSE NoPath
  <2>1. CASE cmd.kind = "files"
    BY <2>1
  <2>2. CASE cmd.kind # "files" /\ Len(cmd.inputs) = 1
    <3>1. cmd.kind = "sql" /\ cmd.inputs \in Seq(Input)
      BY <1>1, <2>2 DEF Command
    <3>2. 1 \in DOMAIN cmd.inputs
      BY <2>2, <3>1, LenProperties
    <3>3. cmd.inputs[1].path = NoPath
      BY <1>1, <3>1, <3>2 DEF InputsOf
    <3>4. QED  BY <2>2, <3>3
  <2>3. QED  BY <2>1, <2>2
<1>17. report = [decision |-> acc.decision, severity |-> acc.severity, summary |-> acc.summary,
                 statements |-> statements, sourcePath |-> source]
  BY Zenon DEF report
<1>18. ReportOf(cmd) =
         [statements |-> numbered, decision |-> StrictestDecision(as),
          severity   |-> GreatestSeverity(as),
          summary    |-> [statements |-> Len(as), findings |-> Cardinality(Places(as)),
                          blocks |-> Count(as, "block"), warnings |-> Count(as, "warn")],
          sourcePath |-> IF Len(cmd.inputs) = 1 THEN cmd.inputs[1].path ELSE NoPath]
  BY Zenon DEF ReportOf, as
<1> HIDE DEF numbered, source
<1>19. report = ReportOf(cmd)
  BY <1>13, <1>14, <1>15, <1>16, <1>17, <1>18
<1>20. QED  BY <1>13, <1>19, Zenon DEF as

(* The gate starts where the program does.                                 *)
LEMMA InitRefines == Init => G!Init
BY Zenon DEF Init, G!Init, G!NoExit, NoExit

(* A step that leaves the command, the output and the exit code alone is a *)
(* stuttering step of the gate.                                            *)
Unseen == UNCHANGED <<cmd, stdout, exit>>

(* A step that ends the process with exit code 1 and prints nothing.       *)
Fails == exit' = ExitError /\ UNCHANGED <<cmd, stdout>>

(* Before the process has ended it has no exit code, and so the gate may   *)
(* still fail or answer.                                                   *)
LEMMA NotYet == ASSUME GateInv, pc # "done"  PROVE exit = NoExit /\ stdout = << >>
BY DEF GateInv, IInv, LoopInvariants, GoodSoFar

(* The process fails where the gate may: for a cause in the command or its *)
(* inputs, or with a structured format.                                    *)
LEMMA FailureRefines ==
  ASSUME GateInv, pc # "done", Fails, ~Reviewable(cmd) \/ cmd.format \in {"json", "sarif"}
  PROVE  G!Next
<1>1. exit = NoExit
  BY NotYet
<1>2. G!Fail
  BY <1>1, SameAnswer, Zenon DEF G!Fail, Fails, G!NoExit, NoExit, G!ExitError, ExitError
<1>3. QED  BY <1>2, Zenon DEF G!Next

(* When the report is printed nothing was wrong with the command.          *)
LEMMA PrintsReviewable == ASSUME GateInv, pc = "print"  PROVE Reviewable(cmd)
<1>1. cmd.format \in Formats
  BY DEF GateInv, FormatChecked
<1>2. /\ f = Len(cmd.inputs) /\ cmd.policy # "invalid"
      /\ \A i \in 1..f : cmd.inputs[i].readable /\ cmd.inputs[i].parses
  BY DEF GateInv, IInv, LoopInvariants, InputLoop, GoodSoFar
<1>3. DOMAIN cmd.inputs = 1..Len(cmd.inputs)
  BY LenProperties DEF GateInv, IInv, TypeOK, Command
<1>4. QED  BY <1>1, <1>2, <1>3, Zenon DEF Reviewable

(* The step that ends a review is the gate's answer, or its failure when   *)
(* the report cannot be rendered.                                          *)
LEMMA PrintRefines == ASSUME GateInv, printAndExit  PROVE G!Next
<1>1. pc = "print" /\ cmd' = cmd
  BY DEF printAndExit, Exit, Go
<1>2. exit = NoExit /\ stdout = << >>
  BY <1>1, NotYet
<1>3. CASE /\ exit' = decisionToExit[acc.decision]
           /\ stdout' \in {stdout, Append(stdout, report)}
  <2>1. PICK r : r = report
    OBVIOUS
  <2>2. Append(<< >>, r) = <<r>>
    OBVIOUS
  <2>3. stdout' \in {stdout, <<report>>}
    BY <1>2, <1>3, <2>1, <2>2, Zenon
  <2>4. /\ report = ReportOf(cmd)
        /\ acc.decision = StrictestDecision(AllStatements(cmd))
    BY <1>1, ReportIsTheGates, Zenon
  <2>5. G!Answer
    BY <1>1, <1>2, <1>3, <2>3, <2>4, PrintsReviewable, SameAnswer, Zenon DEF G!Answer, G!NoExit, NoExit
  <2>6. QED  BY <2>5, Zenon DEF G!Next
<1>4. CASE cmd.format \in {"json", "sarif"} /\ exit' = ExitError /\ UNCHANGED stdout
  BY <1>1, <1>4, FailureRefines DEF Fails
<1>5. QED  BY <1>3, <1>4 DEF printAndExit, Exit

(* Every step of the program is a step of the gate, or stutters.           *)
LEMMA StepRefines ==
  ASSUME GateInv, [Next]_vars
  PROVE  [G!Next]_<<cmd, stdout, exit>>
<1>1. CASE validateFormat
  <2>1. CASE cmd.format \notin Formats /\ Fails
    <3>1. ~Reviewable(cmd) /\ pc # "done"
      BY <1>1, <2>1 DEF Reviewable, validateFormat, Go, Exit
    <3>2. QED  BY <2>1, <3>1, FailureRefines
  <2>2. CASE Unseen
    BY <2>2 DEF Unseen
  <2>3. QED  BY <1>1, <2>1, <2>2 DEF validateFormat, Exit, Go, Fails, Unseen
<1>2. CASE loadPolicy
  <2>1. CASE cmd.policy = "invalid" /\ Fails
    <3>1. ~Reviewable(cmd) /\ pc # "done"
      BY <1>2, <2>1 DEF Reviewable, loadPolicy, Go, Exit
    <3>2. QED  BY <2>1, <3>1, FailureRefines
  <2>2. CASE Unseen
    BY <2>2 DEF Unseen
  <2>3. QED  BY <1>2, <2>1, <2>2 DEF loadPolicy, Exit, Go, Fails, Unseen
<1>3. /\ DOMAIN cmd.inputs = 1..Len(cmd.inputs) /\ Len(cmd.inputs) \in Nat
      /\ f \in 0..Len(cmd.inputs)
  BY LenProperties DEF GateInv, IInv, TypeOK, Command
<1>4. CASE ReadFile
  <2>1. CASE ~cmd.inputs[f + 1].readable /\ Fails
    <3>1. f + 1 \in DOMAIN cmd.inputs /\ pc # "done"
      BY <1>3, <1>4 DEF ReadFile, Go, Exit
    <3>2. ~Reviewable(cmd)
      BY <2>1, <3>1, Zenon DEF Reviewable
    <3>3. QED  BY <2>1, <3>1, <3>2, FailureRefines
  <2>2. CASE Unseen
    BY <2>2 DEF Unseen
  <2>3. QED  BY <1>4, <2>1, <2>2 DEF ReadFile, Exit, Go, Fails, Unseen
<1>5. CASE Parse
  <2>1. CASE ~input.parses /\ Fails
    <3>1. pc = "parse"
      BY <1>5 DEF Parse, Go, Exit
    <3>2. f > 0
      BY <3>1 DEF GateInv, IInv, TypeOK
    <3>3. f \in DOMAIN cmd.inputs
      BY <1>3, <3>2
    <3>4. ~Reviewable(cmd)
      BY <2>1, <3>3, Zenon DEF Reviewable, input
    <3>5. QED  BY <2>1, <3>1, <3>4, FailureRefines
  <2>2. CASE Unseen
    BY <2>2 DEF Unseen
  <2>3. QED  BY <1>5, <2>1, <2>2 DEF Parse, Exit, Go, Fails, Unseen
<1>6. CASE printAndExit
  BY <1>6, PrintRefines
<1>7. CASE Unseen
  BY <1>7 DEF Unseen
<1>8. Unseen \/ validateFormat \/ loadPolicy \/ ReadFile \/ Parse \/ printAndExit
  BY DEF Next, vars, Unseen, NoPaths, Analyze, AnalyzeDone, AppendStatement, NextFile,
         AggregateFiles, AggregateSQL, StartAggregate, AggregateFinding, AggregateStatement,
         AggregateDone, Done
<1>9. QED  BY <1>1, <1>2, <1>4, <1>5, <1>6, <1>7, <1>8

(* The program implements the gate: whatever the files, the policy and the *)
(* format, it fails for a cause and prints nothing, or exits with the code *)
(* of the strictest decision of all statements of all inputs, and what it  *)
(* prints is the report of exactly these.  This is ImplementsGate without  *)
(* its fairness; that the process ends is left to TLC.                     *)
THEOREM Refines == Spec => G!Init /\ [][G!Next]_<<cmd, stdout, exit>>
<1>1. GateInv /\ [Next]_vars => [G!Next]_<<cmd, stdout, exit>>
  BY StepRefines
<1>2. QED  BY <1>1, InitRefines, GateInvariance, PTL DEF Spec

-----------------------------------------------------------------------------
(***************************************************************************)
(* What a report that has been printed is, as the gate keeps it, and the   *)
(* SARIF form of it.                                                       *)
(***************************************************************************)
Answered ==
  /\ cmd \in Commands
  /\ exit = NoExit => stdout = << >>
  /\ stdout # << >> => /\ stdout = <<ReportOf(cmd)>>
                       /\ exit = decisionToExit[StrictestDecision(AllStatements(cmd))]

(* Nothing is printed at first.                                            *)
LEMMA AnsweredInit == G!Init => Answered
BY Zenon DEF G!Init, Answered

(* A failure prints nothing, and an answer is printed with its exit code.  *)
LEMMA AnsweredStep ==
  ASSUME Answered, [G!Next]_<<cmd, stdout, exit>>
  PROVE  Answered'
<1>1. CASE G!Fail
  <2>1. exit = NoExit /\ exit' = ExitError /\ cmd' = cmd /\ stdout' = stdout
    BY <1>1, Zenon DEF G!Fail, G!NoExit, NoExit, G!ExitError, ExitError
  <2>2. stdout' = << >>
    BY <2>1, Zenon DEF Answered
  <2>3. QED  BY <2>1, <2>2 DEF Answered
<1>2. CASE G!Answer
  <2>1. /\ exit = NoExit /\ cmd' = cmd
        /\ exit' = decisionToExit[StrictestDecision(AllStatements(cmd))]
        /\ stdout' \in {stdout, <<ReportOf(cmd)>>}
    BY <1>2, SameAnswer, Zenon DEF G!Answer, G!NoExit, NoExit
  <2>2. stdout' = << >> \/ stdout' = <<ReportOf(cmd)>>
    BY <2>1, Zenon DEF Answered
  <2>3. exit' # NoExit
    <3>1. cmd \in Command
      BY CommandsAssumption DEF Answered
    <3>2. StrictestDecision(AllStatements(cmd)) \in Decisions
      BY <3>1, DecisionOf, Zenon
    <3>3. \A d \in Decisions : decisionToExit[d] # NoExit
      BY DEF decisionToExit, Decisions, NoExit
    <3>4. QED  BY <2>1, <3>2, <3>3, Zenon
  <2>4. cmd' \in Commands
    BY <2>1 DEF Answered
  <2>5. stdout' # << >> =>
          /\ stdout' = <<ReportOf(cmd')>>
          /\ exit' = decisionToExit[StrictestDecision(AllStatements(cmd'))]
    BY <2>1, <2>2, Zenon
  <2>6. QED  BY <2>3, <2>4, <2>5, Zenon DEF Answered
<1>3. CASE UNCHANGED <<cmd, stdout, exit>>
  <2>1. cmd' = cmd /\ stdout' = stdout /\ exit' = exit
    BY <1>3
  <2>2. QED  BY <2>1, Zenon DEF Answered
<1>4. QED  BY <1>1, <1>2, <1>3, Zenon DEF G!Next

(* What has been printed is shown by its SARIF form.                       *)
LEMMA AnsweredShows == ASSUME Answered  PROVE SarifAgrees
<1>1. cmd \in Command /\ InputsOf(cmd.kind, cmd.inputs)
  BY CommandsAssumption, Zenon DEF Answered
<1>2. ASSUME NEW r \in ToSet(stdout)  PROVE Shows(cmd, SARIF(r), r, exit)
  <2>1. stdout # << >>
    BY <1>2 DEF ToSet
  <2>2. PICK v : v = ReportOf(cmd)
    OBVIOUS
  <2>3. stdout = <<v>>
    BY <2>1, <2>2, Zenon DEF Answered
  <2>4. r = v
    BY <1>2, <2>3 DEF ToSet
  <2>5. exit = decisionToExit[StrictestDecision(AllStatements(cmd))]
    BY <2>1, Zenon DEF Answered
  <2>6. QED  BY <1>1, <2>2, <2>4, <2>5, SarifShows, Zenon
<1>3. QED  BY <1>2, Zenon DEF SarifAgrees, Shows, AtLevel

(* Code scanning shows what the gate decides: in every state of the        *)
(* program, the SARIF form of a report that was printed has as many        *)
(* results as the report counts findings, errors as blocks and warnings as *)
(* warnings, an error exactly when the exit code is 3, and every result of *)
(* a file at a line of it where a statement with a finding begins.         *)
THEOREM ShownAsDecided == Spec => []SarifAgrees
<1>1. G!Init => Answered
  BY AnsweredInit
<1>2. Answered /\ [G!Next]_<<cmd, stdout, exit>> => Answered'
  BY AnsweredStep
<1>3. Answered => SarifAgrees
  BY AnsweredShows
<1>4. QED  BY <1>1, <1>2, <1>3, Refines, PTL

=============================================================================
