---------------------------- MODULE ActionProofs ----------------------------
(***************************************************************************)
(* What the Action concludes is what dbguard came to, and while nothing    *)
(* changes its outputs and its SARIF are those of the files: for all jobs, *)
(* files and changes.                                                      *)
(***************************************************************************)
EXTENDS ReviewAction, AnswerLemmas

-----------------------------------------------------------------------------
(***************************************************************************)
(* The inductive invariant.                                                *)
(***************************************************************************)
(* The gate's promise about the run under way.                             *)
Process ==
  /\ exit \in {NoExit, ExitError} => stdout = << >>
  /\ exit \notin {NoExit, ExitError} =>
       /\ exit = decisionToExit[StrictestDecision(AllStatements(cmd))]
       /\ stdout \in {<< >>, <<ReportOf(cmd)>>}

Running == {"sarif", "json", "human"}

(* The release is the one that was published, in the mode that is needed.  *)
Trusted == Verified(job.release) /\ job.release.mode = "full"

(* What there is at each step.                                             *)
Stage ==
  /\ step = "paths" => args = << >>
  /\ step = "download" => args # << >>
  /\ step \in Running => args # << >>
  /\ step = "sarif" => job.writable
  /\ step \in {"paths", "download", "review"} =>
       sarif = << >> /\ code = NoExit /\ answered = {}
  /\ step \notin {"human", "done"} => json = << >> /\ jcode = NoExit
  /\ step # "done" => output = << >>
  /\ step \notin {"paths", "done"} => args = resolved(job.lines)
  /\ step \notin {"paths", "download", "done"} /\ args # << >> => Trusted
  /\ answered # {} => Trusted

(* An exit code that is kept was decided by a run that was heard.          *)
Backed(c) ==
  /\ c = 3 => "block" \in answered
  /\ c = 2 => "warn" \in answered
  /\ c = 0 => "allow" \in answered

Truth == Backed(code) /\ Backed(jcode) /\ OutcomeWasTrue

(* What the files are worth as they are now, and the exit code due.        *)
Verdict == StrictestDecision(AllStatements(common("json")))
Due     == decisionToExit[Verdict]

(* How the job ends when nothing has changed.                              *)
Ended ==
  /\ \/ args = resolved(job.lines)
     \/ /\ args = << >> /\ output = << >> /\ sarif = << >> /\ conclusion = 1 /\ jcode = NoExit
        /\ \E p \in ToSet(resolved(job.lines)) : p \in Paths /\ ~tree[p].exists
  /\ \A o \in ToSet(output) :
       o.decision = Verdict /\ (o.exitCode = Due \/ (o.exitCode = 1 /\ Due = 0))
  /\ conclusion = 3 => Due = 3
  /\ conclusion = 2 => Due = 2
  /\ conclusion = 0 => Due \in {0, 2}
  /\ resolved(job.lines) = << >> /\ job.writable => conclusion = 0 /\ sarif = <<<< >>>>
  /\ conclusion = 1 /\ jcode = NoExit =>
       \/ \E p \in ToSet(resolved(job.lines)) : p \in Paths /\ ~tree[p].exists
       \/ resolved(job.lines) # << >> /\ ~Trusted
       \/ ~job.writable

(* While nothing changes every run is on the same files, so that what the  *)
(* runs leave is the same answer, or a failure.                            *)
Steady ==
  changes = 0 =>
    /\ step \in Running => cmd = common(step)
    /\ code # NoExit => code \in {1, Due}
    /\ jcode # NoExit => jcode \in {1, Due}
    /\ json # << >> => json[1].decision = Verdict /\ jcode = Due
    /\ sarif \in {<< >>, IF args = << >> THEN <<<< >>>> ELSE <<SARIF(ReportOf(common("sarif")))>>}
    /\ step = "done" => Ended

IInv == TypeOK /\ Process /\ Stage /\ Truth /\ Steady

-----------------------------------------------------------------------------
(***************************************************************************)
(* The parts that the steps are made of.                                   *)
(***************************************************************************)
(* What the gate makes of a command, said by this module.                  *)
LEMMA SameAnswer ==
  ASSUME NEW c
  PROVE  /\ G!ReportOf(c) = ReportOf(c)
         /\ G!decisionToExit[G!StrictestDecision(G!AllStatements(c))]
              = decisionToExit[StrictestDecision(AllStatements(c))]
<1>2. G!AllStatements(c) = AllStatements(c)
  BY Zenon DEF G!AllStatements, AllStatements, G!StatementsOf, StatementsOf,
               G!FlattenSeq, FlattenSeq
<1>3. \A S : /\ G!Places(S) = Places(S)
             /\ \A p : G!FindingAt(S, p) = FindingAt(S, p)
  BY Zenon DEF G!Places, Places, G!FindingAt, FindingAt
<1>4. \A S : /\ \A a : G!Values(S, a) = Values(S, a)
             /\ \A d : G!Count(S, d) = Count(S, d)
             /\ G!Cardinality(G!Places(S)) = Cardinality(Places(S))
  BY <1>3, Zenon DEF G!Values, Values, G!Count, Count, G!Cardinality, Cardinality
<1>5. \A S : /\ G!StrictestDecision(S) = StrictestDecision(S)
             /\ G!GreatestSeverity(S) = GreatestSeverity(S)
  BY <1>4, Zenon
     DEF G!StrictestDecision, StrictestDecision, G!GreatestSeverity, GreatestSeverity,
         G!Greatest, Greatest, G!decisionStrictness, decisionStrictness,
         G!severityLevel, severityLevel, G!Decisions, Decisions, G!Severities, Severities
<1>6. G!ReportOf(c) = ReportOf(c)
  BY <1>2, <1>4, <1>5, Zenon DEF G!ReportOf, ReportOf
<1>7. G!decisionToExit = decisionToExit
  BY Zenon DEF G!decisionToExit, decisionToExit, G!Decisions, Decisions
<1>8. QED  BY <1>2, <1>5, <1>6, <1>7, Zenon

(* The paths of the lines are those named, each of them a path.            *)
LEMMA ResolvedAre ==
  ASSUME NEW lines \in Seq(Line)
  PROVE  /\ resolved(lines) \in Seq(Paths)
         /\ ToSet(resolved(lines)) = {l.path : l \in ToSet(lines)} \ {NoPath}
<1> DEFINE s == [k \in DOMAIN lines |->
                   IF lines[k].path = NoPath THEN << >> ELSE <<lines[k].path>>]
<1>1. PICK u : u = resolved(lines)
  OBVIOUS
<1>2. u = FlattenSeq(s)
  BY <1>1, Zenon DEF resolved
<1>3. PICK n \in Nat : n = Len(lines) /\ DOMAIN lines = 1..n
  BY LenProperties
<1>4. \A k \in 1..n : lines[k] \in Line
  BY <1>3, ElementOfSeq
<1>5. \A k \in 1..n : s[k] = IF lines[k].path = NoPath THEN << >> ELSE <<lines[k].path>>
  BY <1>3
<1>6. s = [k \in 1..n |-> s[k]] /\ DOMAIN s = 1..n
  BY <1>3
<1> HIDE DEF s
<1>7. ASSUME NEW k \in 1..n  PROVE s[k] \in Seq(Paths)
  <2>1. PICK p : p = lines[k].path
    OBVIOUS
  <2>2. p \in Paths \cup {NoPath}
    BY <1>4, <2>1 DEF Line
  <2>3. s[k] = IF p = NoPath THEN << >> ELSE <<p>>
    BY <1>5, <2>1
  <2>4. QED  BY <2>2, <2>3, EmptySeq
<1>8. s \in Seq(Seq(Paths))
  BY <1>6, <1>7, IsASeq
<1>9. u \in Seq(Paths) /\ SameElements(u, s)
  BY <1>2, <1>8, FlattenSpots, Zenon
<1>10. ASSUME NEW p \in ToSet(u)  PROVE p # NoPath /\ \E l \in ToSet(lines) : p = l.path
  <2>1. PICK i \in DOMAIN u : p = u[i]
    BY DEF ToSet
  <2>2. PICK k \in DOMAIN s : \E q \in DOMAIN s[k] : u[i] = s[k][q]
    BY <1>9, Zenon DEF SameElements
  <2>3. PICK q \in DOMAIN s[k] : u[i] = s[k][q]
    BY <2>2
  <2>4. PICK x : x = lines[k].path
    OBVIOUS
  <2>5. s[k] = IF x = NoPath THEN << >> ELSE <<x>>
    BY <1>5, <1>6, <2>4
  <2>6. p = x /\ x # NoPath
    BY <2>1, <2>3, <2>5
  <2>7. lines[k] \in ToSet(lines)
    BY <1>3, <1>6 DEF ToSet
  <2>8. QED  BY <2>4, <2>6, <2>7
<1>11. ASSUME NEW l \in ToSet(lines), l.path # NoPath  PROVE l.path \in ToSet(u)
  <2>1. PICK k \in DOMAIN lines : l = lines[k]
    BY DEF ToSet
  <2>2. PICK x : x = l.path
    OBVIOUS
  <2>3. s[k] = <<x>>
    BY <1>3, <1>5, <1>11, <2>1, <2>2
  <2>4. 1 \in DOMAIN s[k] /\ s[k][1] = x
    BY <2>3
  <2>5. k \in DOMAIN s
    BY <1>3, <1>6
  <2>6. PICK i \in DOMAIN u : u[i] = s[k][1]
    BY <1>9, <2>4, <2>5, Zenon DEF SameElements
  <2>7. QED  BY <2>2, <2>4, <2>6 DEF ToSet
<1>12. ToSet(u) = {l.path : l \in ToSet(lines)} \ {NoPath}
  BY <1>10, <1>11
<1>13. QED  BY <1>1, <1>9, <1>12

(* What holds at most one element.                                         *)
LEMMA AtMostOne ==
  ASSUME NEW S, NEW x \in S, NEW s, s = << >> \/ s = <<x>>
  PROVE  s \in Seq(S) /\ Len(s) <= 1
<1>1. CASE s = << >>
  BY <1>1, EmptySeq
<1>2. CASE s = <<x>>
  <2>1. <<x>> \in Seq(S) /\ Len(<<x>>) = 1
    OBVIOUS
  <2>2. QED  BY <1>2, <2>1
<1>3. QED  BY <1>1, <1>2

(* A path and what it holds are an input.                                  *)
LEMMA InputIs ==
  ASSUME NEW p \in Paths, NEW content \in Content
  PROVE  InputAt(p, content) \in Input /\ InputAt(p, content).path = p
BY DEF InputAt, Content, Input

(* The command line of a run, on the files as they are.                    *)
LEMMA CommonIs ==
  ASSUME job \in Jobs, tree \in [Paths -> Contents], args \in Seq(Paths), NEW format \in Formats
  PROVE  /\ common(format) \in Command /\ common(format).kind = "files"
         /\ InputsOf(common(format).kind, common(format).inputs)
         /\ DOMAIN common(format).inputs = DOMAIN args
         /\ \A k \in DOMAIN args : common(format).inputs[k] = InputAt(args[k], tree[args[k]])
         /\ common(format).inputs = common("json").inputs
<1>1. PICK n \in Nat : n = Len(args) /\ DOMAIN args = 1..n
  BY LenProperties
<1>2. \A k \in 1..n : args[k] \in Paths /\ tree[args[k]] \in Content
  BY <1>1, ElementOfSeq, JobsAssumption
<1> DEFINE xs == [k \in DOMAIN args |-> InputAt(args[k], tree[args[k]])]
<1>3. ASSUME NEW f  PROVE common(f) = [kind |-> "files", format |-> f, policy |-> job.policy,
                                       inputs |-> xs]
  BY Zenon DEF common
<1>4. DOMAIN xs = 1..n /\ xs = [k \in 1..n |-> xs[k]]
  BY <1>1
<1>5. \A k \in 1..n : xs[k] = InputAt(args[k], tree[args[k]])
  BY <1>1
<1> HIDE DEF xs
<1>6. \A k \in 1..n : xs[k] \in Input /\ xs[k].path = args[k]
  BY <1>2, <1>5, InputIs
<1>7. xs \in Seq(Input)
  BY <1>4, <1>6, IsASeq
<1>8. job.policy \in {"default", "valid", "invalid"}
  BY JobsAssumption DEF Job
<1>9. PICK c : c = common(format)
  OBVIOUS
<1>10. c \in Command /\ c.kind = "files" /\ c.inputs = xs
  BY <1>3, <1>7, <1>8, <1>9 DEF Command
<1>11. common("json").inputs = xs
  BY <1>3
<1>12. InputsOf("files", xs)
  <2>1. \A k \in DOMAIN xs : xs[k].path # NoPath
    BY <1>2, <1>4, <1>6, PathsAssumption
  <2>2. QED  BY <2>1 DEF InputsOf
<1>13. QED  BY <1>1, <1>4, <1>5, <1>9, <1>10, <1>11, <1>12

(* The exit code of a decision.                                            *)
LEMMA ExitOf ==
  ASSUME NEW d \in Decisions
  PROVE  /\ decisionToExit[d] \in {0, 2, 3}
         /\ decisionToExit[d] = 3 <=> d = "block"
         /\ decisionToExit[d] = 2 <=> d = "warn"
         /\ decisionToExit[d] = 0 <=> d = "allow"
BY DEF decisionToExit, Decisions

(* The run under way fails, or answers.                                    *)
LEMMA GateSteps ==
  ASSUME cmd \in Command, Process, Dbguard
  PROVE  /\ UNCHANGED <<job, tree, changes, step, args, sarif, json, code, jcode, output,
                        conclusion, answered, cmd>>
         /\ exit = NoExit /\ stdout = << >> /\ step \in Running
         /\ Process'
         /\ exit' \in Codes
         /\ stdout' = << >> \/ stdout' = <<ReportOf(cmd)>>
<1>1. /\ UNCHANGED <<job, tree, changes, step, args, sarif, json, code, jcode, output,
                     conclusion, answered>>
      /\ step \in Running /\ G!Next
  BY DEF Dbguard, files, Running
<1>2. CASE G!Fail
  <2>1. exit = NoExit /\ exit' = ExitError /\ cmd' = cmd /\ stdout' = stdout
    BY <1>2, Zenon DEF G!Fail, G!NoExit, NoExit, G!ExitError, ExitError
  <2>2. stdout = << >>
    BY <2>1 DEF Process
  <2>3. Process'
    BY <2>1, <2>2 DEF Process
  <2>4. QED  BY <1>1, <2>1, <2>2, <2>3 DEF Codes, ExitError
<1>3. CASE G!Answer
  <2>1. /\ exit = NoExit /\ cmd' = cmd
        /\ exit' = decisionToExit[StrictestDecision(AllStatements(cmd))]
        /\ stdout' \in {stdout, <<ReportOf(cmd)>>}
    BY <1>3, SameAnswer, Zenon DEF G!Answer, G!NoExit, NoExit
  <2>2. stdout = << >>
    BY <2>1, Zenon DEF Process
  <2>3. StrictestDecision(AllStatements(cmd)) \in Decisions
    BY DecisionOf, Zenon
  <2>4. exit' \in {0, 2, 3}
    BY <2>1, <2>3, ExitOf, Zenon
  <2>5. exit' \in Codes /\ exit' \notin {NoExit, ExitError}
    BY <2>4 DEF Codes, NoExit, ExitError
  <2>6. stdout' \in {<< >>, <<ReportOf(cmd)>>}
    BY <2>1, <2>2, Zenon
  <2>7. Process'
    BY <2>1, <2>5, <2>6, Zenon DEF Process
  <2>8. QED  BY <1>1, <2>1, <2>2, <2>5, <2>6, <2>7, Zenon
<1>4. QED  BY <1>1, <1>2, <1>3, Zenon DEF G!Next

(* A file changes: the run under way sees it only where it has not read.   *)
LEMMA ChangeIs ==
  ASSUME TypeOK, Change
  PROVE  /\ UNCHANGED <<job, step, args, stdout, exit, sarif, json, code, jcode, output,
                        conclusion, answered>>
         /\ step # "done" /\ changes' = changes + 1 /\ changes' \in 0..MaxChanges
         /\ tree' \in [Paths -> Contents]
         /\ cmd' \in Command /\ InputsOf(cmd'.kind, cmd'.inputs)
         /\ exit # NoExit => cmd' = cmd
<1>1. /\ UNCHANGED <<job, step, args, stdout, exit, sarif, json, code, jcode, output,
                     conclusion, answered>>
      /\ step # "done" /\ changes' = changes + 1 /\ changes < MaxChanges
  BY DEF Change, files
<1>2. PICK p \in Paths, content \in Contents :
        LET unread == {k \in DOMAIN cmd.inputs : exit = NoExit /\ cmd.inputs[k].path = p}
        IN  /\ tree' = [tree EXCEPT ![p] = content]
            /\ \E seen \in SUBSET unread :
                 cmd' = [cmd EXCEPT !.inputs =
                   [k \in DOMAIN @ |-> IF k \in seen THEN InputAt(p, content) ELSE @[k]]]
  BY Zenon DEF Change
<1>3. PICK seen : /\ \A k \in seen : k \in DOMAIN cmd.inputs /\ exit = NoExit
                                       /\ cmd.inputs[k].path = p
                  /\ cmd' = [cmd EXCEPT !.inputs =
                       [k \in DOMAIN @ |-> IF k \in seen THEN InputAt(p, content) ELSE @[k]]]
  BY <1>2
<1>4. changes' \in 0..MaxChanges
  BY <1>1, JobsAssumption DEF TypeOK
<1>5. tree' \in [Paths -> Contents]
  BY <1>2 DEF TypeOK
<1>6. cmd \in Command /\ InputsOf(cmd.kind, cmd.inputs)
  BY DEF TypeOK
<1>7. PICK xs \in Seq(Input) : xs = cmd.inputs
  BY <1>6 DEF Command
<1>8. PICK n \in Nat : n = Len(xs) /\ DOMAIN xs = 1..n /\ xs = [k \in 1..n |-> xs[k]]
  BY LenProperties
<1>9. \A k \in 1..n : xs[k] \in Input
  BY <1>8, ElementOfSeq
<1> DEFINE ys == [k \in 1..n |-> IF k \in seen THEN InputAt(p, content) ELSE xs[k]]
<1>10. cmd' = [cmd EXCEPT !.inputs = ys]
  BY <1>3, <1>7, <1>8
<1>11. InputAt(p, content) \in Input /\ InputAt(p, content).path = p
  BY InputIs, JobsAssumption
<1>12. \A k \in 1..n : ys[k] = IF k \in seen THEN InputAt(p, content) ELSE xs[k]
  OBVIOUS
<1>13. ys = [k \in 1..n |-> ys[k]] /\ DOMAIN ys = 1..n
  OBVIOUS
<1> HIDE DEF ys
<1>14. ys \in Seq(Input)
  <2>1. \A k \in 1..n : ys[k] \in Input
    BY <1>9, <1>11, <1>12
  <2>2. QED  BY <1>13, <2>1, IsASeq
<1>15. cmd' \in Command /\ cmd'.kind = cmd.kind /\ cmd'.inputs = ys
  BY <1>6, <1>10, <1>14 DEF Command
<1>16. \A k \in 1..n : ys[k].path = xs[k].path
  BY <1>3, <1>7, <1>11, <1>12
<1>17. InputsOf(cmd'.kind, cmd'.inputs)
  <2>1. Len(ys) = n
    BY <1>13, <1>14, LenProperties
  <2>2. ASSUME cmd.kind = "sql"  PROVE Len(ys) = 1 /\ ys[1].readable
    <3>1. n = 1 /\ xs[1].readable
      BY <1>6, <1>7, <1>8, <2>2 DEF InputsOf
    <3>2. xs[1].path = NoPath
      BY <1>6, <1>7, <1>8, <2>2, <3>1 DEF InputsOf
    <3>3. 1 \notin seen
      BY <1>3, <1>7, <3>2, PathsAssumption
    <3>4. QED  BY <1>12, <2>1, <3>1, <3>3
  <2>3. \A k \in DOMAIN ys : ys[k].path = NoPath <=> cmd.kind = "sql"
    BY <1>6, <1>7, <1>8, <1>13, <1>16 DEF InputsOf
  <2>4. QED  BY <1>15, <2>2, <2>3 DEF InputsOf
<1>18. ASSUME exit # NoExit  PROVE cmd' = cmd
  <2>1. seen = {}
    BY <1>3, <1>18
  <2>2. \A k \in 1..n : ys[k] = xs[k]
    BY <1>12, <2>1
  <2>3. ys = xs
    BY <1>8, <1>13, <2>2
  <2>4. QED  BY <1>6, <1>7, <1>10, <2>3 DEF Command
<1>19. QED  BY <1>1, <1>4, <1>5, <1>15, <1>17, <1>18

(* A run starts on the files as they are, and has not answered.            *)
LEMMA StartIs ==
  ASSUME TypeOK, NEW format \in Formats, Start(format)
  PROVE  /\ cmd' = common(format) /\ cmd' \in Command /\ InputsOf(cmd'.kind, cmd'.inputs)
         /\ stdout' = << >> /\ exit' = NoExit /\ Process'
<1>1. cmd' = common(format) /\ stdout' = << >> /\ exit' = NoExit
  BY DEF Start
<1>2. job \in Jobs /\ tree \in [Paths -> Contents] /\ args \in Seq(Paths)
  BY DEF TypeOK
<1>3. /\ common(format) \in Command
      /\ InputsOf(common(format).kind, common(format).inputs)
  BY <1>2, CommonIs, Zenon
<1>4. Process'
  BY <1>1 DEF Process, NoExit, ExitError
<1>5. QED  BY <1>1, <1>3, <1>4, Zenon

(* Where the job, the files and the arguments are the same, so is what     *)
(* they are worth.                                                         *)
LEMMA SameWorth ==
  ASSUME UNCHANGED <<job, tree, args>>
  PROVE  /\ \A f : common(f)' = common(f)
         /\ Verdict' = Verdict /\ Due' = Due /\ Trusted' = Trusted
<1>1. job' = job /\ tree' = tree /\ args' = args
  OBVIOUS
<1>2. \A f : common(f)' = common(f)
  BY <1>1, Zenon DEF common
<1>3. common("json")' = common("json")
  BY <1>2
<1>4. Verdict' = Verdict
  BY <1>3, Zenon DEF Verdict
<1>5. Due' = Due /\ Trusted' = Trusted
  BY <1>1, <1>4, Zenon DEF Due, Trusted
<1>6. QED  BY <1>2, <1>4, <1>5

(* What the files are worth is a decision with an exit code.               *)
LEMMA WorthIs ==
  ASSUME TypeOK
  PROVE  /\ Verdict \in Decisions /\ Due = decisionToExit[Verdict]
         /\ \A f \in Formats : StrictestDecision(AllStatements(common(f))) = Verdict
<1>1. job \in Jobs /\ tree \in [Paths -> Contents] /\ args \in Seq(Paths)
  BY DEF TypeOK
<1>2. common("json") \in Command
  BY <1>1, CommonIs DEF Formats
<1>3. Verdict \in Decisions
  BY <1>2, DecisionOf, Zenon DEF Verdict
<1>4. ASSUME NEW f \in Formats
      PROVE  StrictestDecision(AllStatements(common(f))) = Verdict
  <2>1. common(f).inputs = common("json").inputs
    BY <1>1, CommonIs, Zenon
  <2>2. AllStatements(common(f)) = AllStatements(common("json"))
    BY <2>1, Zenon DEF AllStatements
  <2>3. QED  BY <2>2, Zenon DEF Verdict
<1>5. QED  BY <1>3, <1>4, Zenon DEF Due

(* What a run that has ended leaves: at most one report, of its command.   *)
LEMMA RunLeaves ==
  ASSUME TypeOK, Process, exit # NoExit
  PROVE  /\ exit \in Codes
         /\ stdout = << >> \/ stdout = <<ReportOf(cmd)>>
         /\ StrictestDecision(AllStatements(cmd)) \in Decisions
         /\ stdout # << >> => exit = decisionToExit[StrictestDecision(AllStatements(cmd))]
         /\ exit # 1 => exit = decisionToExit[StrictestDecision(AllStatements(cmd))]
         /\ exit # 1 => Heard = answered \cup {StrictestDecision(AllStatements(cmd))}
         /\ answered \subseteq Heard /\ Heard \subseteq Decisions
<1>1. exit \in Codes /\ cmd \in Command /\ answered \subseteq Decisions
  BY DEF TypeOK
<1>2. StrictestDecision(AllStatements(cmd)) \in Decisions
  BY <1>1, DecisionOf, Zenon
<1>3. PICK d \in Decisions : d = StrictestDecision(AllStatements(cmd))
  BY <1>2
<1>4. PICK r : r = <<ReportOf(cmd)>>
  OBVIOUS
<1>5. /\ exit \in {NoExit, ExitError} => stdout = << >>
      /\ exit \notin {NoExit, ExitError} => exit = decisionToExit[d] /\ stdout \in {<< >>, r}
  BY <1>3, <1>4, Zenon DEF Process
<1>6. Heard = IF exit = ExitError THEN answered ELSE answered \cup {d}
  BY <1>3, Zenon DEF Heard
<1>7. /\ stdout = << >> \/ stdout = r
      /\ stdout # << >> => exit = decisionToExit[d]
      /\ exit # 1 => exit = decisionToExit[d]
      /\ exit # 1 => Heard = answered \cup {d}
      /\ answered \subseteq Heard /\ Heard \subseteq Decisions
  BY <1>1, <1>5, <1>6 DEF ExitError
<1>8. QED  BY <1>1, <1>2, <1>3, <1>4, <1>7, Zenon

-----------------------------------------------------------------------------
(***************************************************************************)
(* The initial states, and each step, keep the invariant.                  *)
(***************************************************************************)
(* Nothing is decided at first.                                            *)
LEMMA InitHolds == Init => IInv
<1> SUFFICES ASSUME Init  PROVE IInv
  OBVIOUS
<1>1. /\ job \in Jobs /\ tree \in [Paths -> Contents] /\ changes = 0 /\ step = "paths"
      /\ args = << >> /\ stdout = << >> /\ exit = NoExit /\ sarif = << >> /\ json = << >>
      /\ code = NoExit /\ jcode = NoExit /\ output = << >> /\ conclusion = NoExit
      /\ answered = {}
      /\ cmd = [kind |-> "files", format |-> "human", policy |-> "default", inputs |-> << >>]
  BY DEF Init
<1>2. cmd \in Command /\ cmd.kind = "files" /\ cmd.inputs = << >>
  <2>1. << >> \in Seq(Input)
    BY EmptySeq
  <2>2. QED  BY <1>1, <2>1 DEF Command, Formats
<1>3. InputsOf(cmd.kind, cmd.inputs)
  BY <1>2 DEF InputsOf
<1>4. TypeOK
  BY <1>1, <1>2, <1>3, JobsAssumption, EmptySeq DEF TypeOK, Codes
<1>5. Process
  BY <1>1 DEF Process, NoExit, ExitError
<1>6. Stage
  BY <1>1 DEF Stage, Running
<1>7. Truth
  BY <1>1 DEF Truth, Backed, OutcomeWasTrue, NoExit
<1>8. Steady
  BY <1>1 DEF Steady, Running
<1>9. QED  BY <1>4, <1>5, <1>6, <1>7, <1>8 DEF IInv

(* What the invariant says of a step that has not concluded.               *)
LEMMA NotConcluded ==
  ASSUME IInv, step # "done"
  PROVE  conclusion = NoExit /\ output = << >>
BY DEF IInv, TypeOK, Stage

(* The promise about the run is kept while it is left alone.               *)
LEMMA ProcessKept ==
  ASSUME Process, UNCHANGED <<cmd, stdout, exit>>
  PROVE  Process'
BY Zenon DEF Process

(* The paths are resolved, or one of them does not exist.                  *)
LEMMA ResolvePathsHolds == ASSUME IInv, ResolvePaths  PROVE IInv'
<1>1. /\ UNCHANGED <<job, tree, changes, cmd, stdout, exit, sarif, json, code, jcode, output,
                     answered>>
      /\ step = "paths"
  BY DEF ResolvePaths, process, files, Go, Conclude
<1>2. /\ TypeOK /\ Process /\ Stage /\ Truth /\ Steady
  BY DEF IInv
<1>3. /\ args = << >> /\ sarif = << >> /\ json = << >> /\ code = NoExit /\ jcode = NoExit
      /\ output = << >> /\ conclusion = NoExit /\ answered = {}
  BY <1>1, <1>2, NotConcluded DEF Stage
<1>4. PICK paths : paths = resolved(job.lines)
  OBVIOUS
<1>5. paths \in Seq(Paths) /\ \A p \in ToSet(paths) : p \in Paths
  <2>1. job.lines \in Seq(Line)
    BY <1>2, JobsAssumption DEF TypeOK, Job
  <2>2. paths \in Seq(Paths)
    BY <1>4, <2>1, ResolvedAre
  <2>3. QED  BY <2>2, ElementOfSeq, LenProperties DEF ToSet
<1>6. Process'
  BY <1>1, <1>2, ProcessKept
<1>7. ASSUME \E p \in ToSet(paths) : ~tree[p].exists,
             step' = "done", conclusion' = 1, args' = args
      PROVE  IInv'
  <2>1. TypeOK'
    BY <1>1, <1>2, <1>7 DEF TypeOK, Codes, NoExit
  <2>2. Stage'
    BY <1>1, <1>2, <1>3, <1>7 DEF Stage, Running
  <2>3. Truth'
    BY <1>1, <1>3, <1>7 DEF Truth, Backed, OutcomeWasTrue, NoExit
  <2>4. Ended'
    <3>1. resolved(job.lines)' = paths
      BY <1>1, <1>4
    <3>2. PICK p \in ToSet(paths) : p \in Paths /\ ~tree[p].exists
      BY <1>5, <1>7
    <3>3. paths # << >>
      BY <3>2 DEF ToSet
    <3>4. ToSet(output') = {}
      BY <1>1, <1>3 DEF ToSet
    <3>5. QED  BY <1>1, <1>3, <1>7, <3>1, <3>2, <3>3, <3>4 DEF Ended
  <2>5. Steady'
    BY <1>1, <1>3, <1>7, <2>4 DEF Steady, Running
  <2>6. QED  BY <1>6, <2>1, <2>2, <2>3, <2>5 DEF IInv
<1>8. ASSUME step' = (IF paths = << >> THEN "review" ELSE "download"), args' = paths,
             conclusion' = conclusion
      PROVE  IInv'
  <2>1. step' \in {"review", "download"}
    BY <1>8
  <2>2. TypeOK'
    BY <1>1, <1>2, <1>3, <1>5, <1>8, <2>1 DEF TypeOK
  <2>3. Stage'
    BY <1>1, <1>2, <1>3, <1>4, <1>8, <2>1 DEF Stage, Running
  <2>4. Truth'
    BY <1>1, <1>3, <1>8 DEF Truth, Backed, OutcomeWasTrue, NoExit
  <2>5. Steady'
    BY <1>1, <1>3, <2>1 DEF Steady, Running
  <2>6. QED  BY <1>6, <2>2, <2>3, <2>4, <2>5 DEF IInv
<1>9. QED
  <2>1. CASE \E p \in ToSet(paths) : p \notin Paths \/ ~tree[p].exists
    <3>1. \E p \in ToSet(paths) : ~tree[p].exists
      BY <1>5, <2>1
    <3>2. step' = "done" /\ conclusion' = 1 /\ args' = args
      BY <1>4, <2>1, Zenon DEF ResolvePaths, Conclude, Go
    <3>3. QED  BY <1>7, <3>1, <3>2
  <2>2. CASE ~ \E p \in ToSet(paths) : p \notin Paths \/ ~tree[p].exists
    <3>1. /\ step' = (IF paths = << >> THEN "review" ELSE "download") /\ args' = paths
          /\ conclusion' = conclusion
      BY <1>4, <2>2, Zenon DEF ResolvePaths, Go
    <3>2. QED  BY <1>8, <3>1
  <2>3. QED  BY <2>1, <2>2

(* The release is got and trusted, or the job fails.                       *)
LEMMA DownloadHolds == ASSUME IInv, Download  PROVE IInv'
<1>1. /\ UNCHANGED <<job, tree, changes, args, cmd, stdout, exit, sarif, json, code, jcode,
                     output, answered>>
      /\ step = "download"
      /\ \/ Trusted /\ step' = "review" /\ conclusion' = conclusion
         \/ ~Trusted /\ step' = "done" /\ conclusion' = 1
  BY DEF Download, process, files, Go, Conclude, Trusted
<1>2. /\ TypeOK /\ Process /\ Stage /\ Truth /\ Steady
  BY DEF IInv
<1>3. /\ args # << >> /\ args = resolved(job.lines)
      /\ sarif = << >> /\ json = << >> /\ code = NoExit /\ jcode = NoExit
      /\ output = << >> /\ conclusion = NoExit /\ answered = {}
  BY <1>1, <1>2, NotConcluded DEF Stage
<1>4. Process'
  BY <1>1, <1>2, ProcessKept
<1>5. Verdict' = Verdict /\ Due' = Due /\ Trusted' = Trusted
  BY <1>1, SameWorth
<1>6. TypeOK'
  BY <1>1, <1>2, <1>3 DEF TypeOK, Codes, NoExit
<1>7. Stage'
  BY <1>1, <1>2, <1>3, <1>5 DEF Stage, Running
<1>8. Truth'
  BY <1>1, <1>3 DEF Truth, Backed, OutcomeWasTrue, NoExit
<1>9. ASSUME step' = "done"  PROVE Ended'
  <2>1. resolved(job.lines)' = resolved(job.lines) /\ ToSet(output') = {}
    BY <1>1, <1>3 DEF ToSet
  <2>2. conclusion' = 1 /\ ~Trusted'
    BY <1>1, <1>5, <1>9
  <2>3. QED  BY <1>1, <1>3, <2>1, <2>2 DEF Ended
<1>10. Steady'
  BY <1>1, <1>3, <1>9 DEF Steady, Running
<1>11. QED  BY <1>4, <1>6, <1>7, <1>8, <1>10 DEF IInv

(* With no file there is nothing to review.                                *)
LEMMA NoFilesHolds == ASSUME IInv, NoFiles  PROVE IInv'
<1>1. /\ UNCHANGED <<job, tree, changes, args, cmd, stdout, exit, json, code, jcode, answered>>
      /\ step = "review" /\ args = << >> /\ step' = "done"
      /\ \/ /\ job.writable /\ conclusion' = 0 /\ sarif' = <<<< >>>>
            /\ output' = <<[decision |-> "allow", exitCode |-> 0]>>
         \/ ~job.writable /\ conclusion' = 1 /\ UNCHANGED <<sarif, output>>
  BY DEF NoFiles, process, Go, Conclude
<1>2. /\ TypeOK /\ Process /\ Stage /\ Truth /\ Steady
  BY DEF IInv
<1>3. /\ args = resolved(job.lines)
      /\ sarif = << >> /\ json = << >> /\ code = NoExit /\ jcode = NoExit
      /\ output = << >> /\ conclusion = NoExit /\ answered = {}
  BY <1>1, <1>2, NotConcluded DEF Stage
<1>4. Process'
  BY <1>1, <1>2, ProcessKept
<1>5. Verdict' = Verdict /\ Due' = Due /\ Trusted' = Trusted
  BY <1>1, SameWorth
<1>6. TypeOK'
  <2>1. PICK e : e = << >>
    OBVIOUS
  <2>2. sarif' = << >> \/ sarif' = <<e>>
    BY <1>1, <1>3, <2>1, Zenon
  <2>3. Len(sarif') <= 1
    <3>1. e \in {e}
      OBVIOUS
    <3>2. QED  BY <2>2, <3>1, AtMostOne, Zenon
  <2>4. QED  BY <1>1, <1>2, <1>3, <2>3 DEF TypeOK, Codes, NoExit
<1>7. Stage'
  BY <1>1, <1>2, <1>3, <1>5 DEF Stage, Running
<1>8. Truth'
  BY <1>1, <1>3 DEF Truth, Backed, OutcomeWasTrue, NoExit
<1>9. Verdict = "allow" /\ Due = 0
  <2>1. job \in Jobs /\ tree \in [Paths -> Contents] /\ args \in Seq(Paths)
    BY <1>2 DEF TypeOK
  <2>2. PICK c \in Command : c = common("json")
    BY <2>1, CommonIs DEF Formats
  <2>3. DOMAIN c.inputs = {}
    BY <1>1, <2>1, <2>2, CommonIs DEF Formats
  <2>4. \A d : ~FoundIn(c, d)
    BY <2>3 DEF FoundIn
  <2>5. StrictestDecision(AllStatements(c)) = "allow"
    BY <2>4, FoundDecides, Zenon
  <2>6. Verdict = "allow"
    BY <2>2, <2>5, Zenon DEF Verdict
  <2>7. QED  BY <1>2, <2>6, WorthIs, ExitOf
<1>10. Ended'
  <2>1. resolved(job.lines)' = resolved(job.lines)
    BY <1>1
  <2>2. \A o \in ToSet(output') : o.decision = "allow" /\ o.exitCode = 0
    BY <1>1, <1>3 DEF ToSet
  <2>3. QED  BY <1>1, <1>3, <1>5, <1>9, <2>1, <2>2 DEF Ended
<1>11. Steady'
  BY <1>1, <1>3, <1>10 DEF Steady, Running
<1>12. QED  BY <1>4, <1>6, <1>7, <1>8, <1>11 DEF IInv

(* The SARIF run starts, or counts as failed.                              *)
LEMMA RunSarifHolds == ASSUME IInv, RunSarif  PROVE IInv'
<1>1. /\ UNCHANGED <<job, tree, changes, args, sarif, json, jcode, output, conclusion, answered>>
      /\ step = "review" /\ args # << >>
      /\ \/ job.writable /\ step' = "sarif" /\ Start("sarif") /\ code' = code
         \/ ~job.writable /\ step' = "json" /\ Start("json") /\ code' = 1
  BY DEF RunSarif, files, Go
<1>2. /\ TypeOK /\ Process /\ Stage /\ Truth /\ Steady
  BY DEF IInv
<1>3. /\ args = resolved(job.lines) /\ Trusted
      /\ sarif = << >> /\ json = << >> /\ code = NoExit /\ jcode = NoExit
      /\ output = << >> /\ conclusion = NoExit /\ answered = {}
  BY <1>1, <1>2, NotConcluded DEF Stage
<1>4. /\ cmd' = common(step') /\ cmd' \in Command /\ InputsOf(cmd'.kind, cmd'.inputs)
      /\ stdout' = << >> /\ exit' = NoExit /\ Process'
  <2>1. CASE step' = "sarif" /\ Start("sarif")
    BY <1>2, <2>1, StartIs DEF Formats
  <2>2. CASE step' = "json" /\ Start("json")
    BY <1>2, <2>2, StartIs DEF Formats
  <2>3. QED  BY <1>1, <2>1, <2>2
<1>5. (\A f : common(f)' = common(f)) /\ Verdict' = Verdict /\ Due' = Due /\ Trusted' = Trusted
  BY <1>1, SameWorth
<1>6. TypeOK'
  BY <1>1, <1>2, <1>3, <1>4, EmptySeq DEF TypeOK, Codes, NoExit
<1>7. Stage'
  BY <1>1, <1>2, <1>3, <1>5 DEF Stage, Running
<1>8. Truth'
  BY <1>1, <1>3 DEF Truth, Backed, OutcomeWasTrue, NoExit
<1>9. Steady'
  <2>1. cmd' = common(step)'
    BY <1>4, <1>5
  <2>2. /\ code' \in {NoExit, 1} /\ jcode' = NoExit /\ json' = << >> /\ sarif' = << >>
        /\ step' # "done"
    BY <1>1, <1>3
  <2>3. QED  BY <2>1, <2>2, Zenon DEF Steady
<1>10. QED  BY <1>4, <1>6, <1>7, <1>8, <1>9 DEF IInv

(* A run ends, and changes nothing else.                                   *)
LEMMA DbguardHolds == ASSUME IInv, Dbguard  PROVE IInv'
<1>1. /\ TypeOK /\ Process /\ Stage /\ Truth /\ Steady /\ cmd \in Command
  BY DEF IInv, TypeOK
<1>2. /\ UNCHANGED <<job, tree, changes, step, args, sarif, json, code, jcode, output,
                     conclusion, answered, cmd>>
      /\ step \in Running /\ Process' /\ exit' \in Codes
      /\ stdout' = << >> \/ stdout' = <<ReportOf(cmd)>>
  BY <1>1, GateSteps
<1>3. stdout' \in Seq(Report)
  <2>1. PICK r \in Report : r = ReportOf(cmd)
    BY <1>1, ReportType
  <2>2. stdout' = << >> \/ stdout' = <<r>>
    BY <1>2, <2>1, Zenon
  <2>3. QED  BY <2>2, AtMostOne, Zenon
<1>4. (\A f : common(f)' = common(f)) /\ Verdict' = Verdict /\ Due' = Due /\ Trusted' = Trusted
  BY <1>2, SameWorth
<1>5. TypeOK'
  BY <1>1, <1>2, <1>3 DEF TypeOK
<1>6. Stage'
  BY <1>1, <1>2, <1>4 DEF Stage
<1>7. Truth'
  BY <1>1, <1>2, <1>4 DEF Truth, Backed, OutcomeWasTrue, Trusted
<1>8. Steady'
  <2>1. step # "done" /\ step' # "done"
    BY <1>2 DEF Running
  <2>2. ASSUME changes' = 0  PROVE
          /\ step' \in Running => cmd' = common(step)'
          /\ code' # NoExit => code' \in {1, Due'}
          /\ jcode' # NoExit => jcode' \in {1, Due'}
          /\ json' # << >> => json'[1].decision = Verdict' /\ jcode' = Due'
    <3>1. changes = 0
      BY <1>2, <2>2
    <3>2. QED  BY <1>1, <1>2, <1>4, <3>1 DEF Steady
  <2>3. ASSUME changes' = 0
        PROVE  sarif' \in {<< >>, IF args' = << >> THEN <<<< >>>>
                                  ELSE <<SARIF(ReportOf(common("sarif")'))>>}
    <3>1. changes = 0 /\ sarif' = sarif /\ args' = args /\ common("sarif")' = common("sarif")
      BY <1>2, <1>4, <2>3
    <3>2. sarif \in {<< >>, IF args = << >> THEN <<<< >>>>
                            ELSE <<SARIF(ReportOf(common("sarif")))>>}
      BY <1>1, <3>1, Zenon DEF Steady
    <3>3. QED  BY <3>1, <3>2, Zenon
  <2>4. QED  BY <2>1, <2>2, <2>3, Zenon DEF Steady
<1>9. QED  BY <1>2, <1>5, <1>6, <1>7, <1>8 DEF IInv

(* What is kept of a run: the SARIF or JSON form of what it printed.       *)
LEMMA KeptForms ==
  ASSUME NEW x, NEW s, s = << >> \/ s = <<x>>
  PROVE  /\ [k \in DOMAIN s |-> SARIF(s[k])] \in {<< >>, <<SARIF(x)>>}
         /\ [k \in DOMAIN s |-> JSON(s[k])] \in {<< >>, <<JSON(x)>>}
         /\ s = << >> => [k \in DOMAIN s |-> JSON(s[k])] = << >>
<1>1. CASE s = << >>
  BY <1>1
<1>2. CASE s = <<x>>
  <2>1. DOMAIN s = 1..1 /\ s[1] = x /\ s # << >>
    BY <1>2
  <2>2. PICK a, b : a = SARIF(x) /\ b = JSON(x)
    OBVIOUS
  <2>3. \A k \in 1..1 : SARIF(s[k]) = a /\ JSON(s[k]) = b
    <3>1. \A k \in 1..1 : s[k] = x
      BY <2>1
    <3>2. QED  BY <2>2, <3>1, Zenon
  <2>4. [k \in DOMAIN s |-> SARIF(s[k])] = [k \in 1..1 |-> a]
    BY <2>1, <2>3
  <2>5. [k \in DOMAIN s |-> JSON(s[k])] = [k \in 1..1 |-> b]
    BY <2>1, <2>3
  <2>6. [k \in 1..1 |-> a] = <<a>> /\ [k \in 1..1 |-> b] = <<b>>
    OBVIOUS
  <2>7. QED  BY <2>1, <2>2, <2>4, <2>5, <2>6, Zenon
<1>3. QED  BY <1>1, <1>2

(* The exit code of a run that ends is backed by what was heard of it.     *)
LEMMA HeardBacks ==
  ASSUME TypeOK, Process, exit # NoExit
  PROVE  /\ exit = 3 => "block" \in Heard
         /\ exit = 2 => "warn" \in Heard
         /\ exit = 0 => "allow" \in Heard
<1>1. PICK d \in Decisions : d = StrictestDecision(AllStatements(cmd))
  BY RunLeaves
<1>2. exit # 1 => exit = decisionToExit[d] /\ Heard = answered \cup {d}
  BY <1>1, RunLeaves, Zenon
<1>3. QED  BY <1>2, ExitOf

(* While nothing changes, a run that has ended has answered what the files *)
(* are worth, or failed.                                                   *)
LEMMA SteadyRun ==
  ASSUME IInv, changes = 0, step \in Running, exit # NoExit
  PROVE  /\ cmd = common(step)
         /\ exit \in {1, Due}
         /\ stdout # << >> => exit = Due
         /\ stdout = << >> \/ stdout = <<ReportOf(cmd)>>
         /\ ReportOf(cmd).decision = Verdict
         /\ Due \in {0, 2, 3}
<1>1. TypeOK /\ Process /\ Steady /\ step \in Formats
  BY DEF IInv, Running, Formats
<1>2. cmd = common(step)
  BY <1>1 DEF Steady
<1>3. StrictestDecision(AllStatements(cmd)) = Verdict
  BY <1>1, <1>2, WorthIs, Zenon
<1>4. Due = decisionToExit[StrictestDecision(AllStatements(cmd))]
  BY <1>1, <1>3, WorthIs, Zenon
<1>5. exit \in {1, Due} /\ (stdout # << >> => exit = Due)
  BY <1>1, <1>4, RunLeaves, Zenon
<1>6. stdout = << >> \/ stdout = <<ReportOf(cmd)>>
  BY <1>1, RunLeaves, Zenon
<1>7. ReportOf(cmd).decision = Verdict
  BY <1>3, ReportIs, Zenon
<1>8. Due \in {0, 2, 3}
  BY <1>1, WorthIs, ExitOf, Zenon
<1>9. QED  BY <1>2, <1>5, <1>6, <1>7, <1>8, Zenon

(* The SARIF run has ended, and the JSON run starts.                       *)
LEMMA RunJsonHolds == ASSUME IInv, RunJson  PROVE IInv'
<1>1. /\ UNCHANGED <<job, tree, changes, args, json, jcode, output, conclusion>>
      /\ step = "sarif" /\ step' = "json" /\ exit # NoExit /\ code' = exit
      /\ answered' = Heard /\ Start("json")
  BY DEF RunJson, Go
<1>2. sarif' = [k \in DOMAIN stdout |-> SARIF(stdout[k])]
  BY DEF RunJson
<1>3. /\ TypeOK /\ Process /\ Stage /\ Truth /\ Steady
  BY DEF IInv
<1>4. /\ args # << >> /\ args = resolved(job.lines) /\ Trusted /\ job.writable
      /\ json = << >> /\ jcode = NoExit /\ output = << >> /\ conclusion = NoExit
  BY <1>1, <1>3, NotConcluded DEF Stage, Running
<1>5. /\ cmd' = common("json") /\ cmd' \in Command /\ InputsOf(cmd'.kind, cmd'.inputs)
      /\ stdout' = << >> /\ exit' = NoExit /\ Process'
  BY <1>1, <1>3, StartIs DEF Formats
<1>6. (\A f : common(f)' = common(f)) /\ Verdict' = Verdict /\ Due' = Due /\ Trusted' = Trusted
  BY <1>1, SameWorth
<1>7. exit \in Codes /\ answered \subseteq Heard /\ Heard \subseteq Decisions
  BY <1>1, <1>3, RunLeaves, Zenon
<1>8. stdout = << >> \/ stdout = <<ReportOf(cmd)>>
  BY <1>1, <1>3, RunLeaves, Zenon
<1>9. sarif' \in {<< >>, <<SARIF(ReportOf(cmd))>>}
  BY <1>2, <1>8, KeptForms, Zenon
<1>10. Len(sarif') <= 1
  <2>1. PICK u : u = SARIF(ReportOf(cmd))
    OBVIOUS
  <2>2. u \in {u} /\ (sarif' = << >> \/ sarif' = <<u>>)
    BY <1>9, <2>1, Zenon
  <2>3. QED  BY <2>2, AtMostOne, Zenon
<1>11. TypeOK'
  BY <1>1, <1>3, <1>4, <1>5, <1>7, <1>10, EmptySeq DEF TypeOK, Codes, NoExit
<1>12. Stage'
  BY <1>1, <1>4, <1>6 DEF Stage, Running
<1>13. Truth'
  <2>1. /\ exit = 3 => "block" \in Heard
        /\ exit = 2 => "warn" \in Heard
        /\ exit = 0 => "allow" \in Heard
    BY <1>1, <1>3, HeardBacks
  <2>2. Backed(code)'
    BY <1>1, <2>1 DEF Backed
  <2>3. Backed(jcode)'
    BY <1>1, <1>4 DEF Backed, NoExit
  <2>4. OutcomeWasTrue'
    BY <1>1, <1>4, <1>6 DEF OutcomeWasTrue, NoExit, Trusted
  <2>5. QED  BY <2>2, <2>3, <2>4 DEF Truth
<1>14. Steady'
  <2>1. cmd' = common(step)'
    BY <1>1, <1>5, <1>6
  <2>2. jcode' = NoExit /\ json' = << >> /\ step' # "done" /\ args' # << >>
    BY <1>1, <1>4
  <2>3. ASSUME changes' = 0
        PROVE  /\ code' \in {1, Due'}
               /\ sarif' \in {<< >>, <<SARIF(ReportOf(common("sarif")'))>>}
    <3>1. changes = 0 /\ step \in Running
      BY <1>1, <2>3 DEF Running
    <3>2. cmd = common(step) /\ exit \in {1, Due}
      BY <1>1, <3>1, SteadyRun, Zenon
    <3>3. cmd = common("sarif")'
      BY <1>1, <1>6, <3>2
    <3>4. QED  BY <1>1, <1>6, <1>9, <3>2, <3>3, Zenon
  <2>4. QED  BY <2>1, <2>2, <2>3, Zenon DEF Steady
<1>15. QED  BY <1>5, <1>11, <1>12, <1>13, <1>14 DEF IInv

(* The JSON run has ended, and the human run starts.                       *)
LEMMA RunHumanHolds == ASSUME IInv, RunHuman  PROVE IInv'
<1>1. /\ UNCHANGED <<job, tree, changes, args, sarif, code, output, conclusion>>
      /\ step = "json" /\ step' = "human" /\ exit # NoExit /\ jcode' = exit
      /\ answered' = Heard /\ Start("human")
  BY DEF RunHuman, Go
<1>2. json' = [k \in DOMAIN stdout |-> JSON(stdout[k])]
  BY DEF RunHuman
<1>3. /\ TypeOK /\ Process /\ Stage /\ Truth /\ Steady
  BY DEF IInv
<1>4. /\ args # << >> /\ args = resolved(job.lines) /\ Trusted
      /\ output = << >> /\ conclusion = NoExit
  BY <1>1, <1>3, NotConcluded DEF Stage, Running
<1>5. /\ cmd' = common("human") /\ cmd' \in Command /\ InputsOf(cmd'.kind, cmd'.inputs)
      /\ stdout' = << >> /\ exit' = NoExit /\ Process'
  BY <1>1, <1>3, StartIs DEF Formats
<1>6. (\A f : common(f)' = common(f)) /\ Verdict' = Verdict /\ Due' = Due /\ Trusted' = Trusted
  BY <1>1, SameWorth
<1>7. exit \in Codes /\ answered \subseteq Heard /\ Heard \subseteq Decisions
  BY <1>1, <1>3, RunLeaves, Zenon
<1>8. stdout = << >> \/ stdout = <<ReportOf(cmd)>>
  BY <1>1, <1>3, RunLeaves, Zenon
<1>9. json' \in {<< >>, <<JSON(ReportOf(cmd))>>} /\ (json' # << >> => stdout # << >>)
  BY <1>2, <1>8, KeptForms, Zenon
<1>10. Len(json') <= 1
  <2>1. PICK u : u = JSON(ReportOf(cmd))
    OBVIOUS
  <2>2. u \in {u} /\ (json' = << >> \/ json' = <<u>>)
    BY <1>9, <2>1, Zenon
  <2>3. QED  BY <2>2, AtMostOne, Zenon
<1>11. TypeOK'
  BY <1>1, <1>3, <1>4, <1>5, <1>7, <1>10, EmptySeq DEF TypeOK, Codes, NoExit
<1>12. Stage'
  BY <1>1, <1>3, <1>4, <1>6 DEF Stage, Running
<1>13. Truth'
  <2>1. /\ exit = 3 => "block" \in Heard
        /\ exit = 2 => "warn" \in Heard
        /\ exit = 0 => "allow" \in Heard
    BY <1>1, <1>3, HeardBacks
  <2>2. Backed(jcode)'
    BY <1>1, <2>1 DEF Backed
  <2>3. Backed(code)'
    BY <1>1, <1>3, <1>7 DEF Truth, Backed
  <2>4. OutcomeWasTrue'
    BY <1>1, <1>4, <1>6 DEF OutcomeWasTrue, NoExit, Trusted
  <2>5. QED  BY <2>2, <2>3, <2>4 DEF Truth
<1>14. Steady'
  <2>1. cmd' = common(step)'
    BY <1>1, <1>5, <1>6
  <2>2. step' # "done" /\ args' = args /\ args # << >>
    BY <1>1, <1>4
  <2>3. ASSUME changes' = 0
        PROVE  /\ code' # NoExit => code' \in {1, Due'}
               /\ jcode' \in {1, Due'}
               /\ json' # << >> => json'[1].decision = Verdict' /\ jcode' = Due'
    <3>1. changes = 0 /\ step \in Running
      BY <1>1, <2>3 DEF Running
    <3>2. exit \in {1, Due} /\ (stdout # << >> => exit = Due)
      BY <1>1, <3>1, SteadyRun, Zenon
    <3>3. code # NoExit => code \in {1, Due}
      BY <1>3, <3>1, Zenon DEF Steady
    <3>4. ASSUME json' # << >>  PROVE json'[1].decision = Verdict
      <4>1. PICK u : u = JSON(ReportOf(cmd))
        OBVIOUS
      <4>2. json' = <<u>>
        BY <1>9, <3>4, <4>1, Zenon
      <4>3. u.decision = ReportOf(cmd).decision
        BY <4>1 DEF JSON
      <4>4. ReportOf(cmd).decision = Verdict
        BY <1>1, <3>1, SteadyRun, Zenon
      <4>5. json'[1] = u
        BY <4>2
      <4>6. QED  BY <4>3, <4>4, <4>5
    <3>5. QED  BY <1>1, <1>6, <1>9, <3>2, <3>3, <3>4, Zenon
  <2>4. ASSUME changes' = 0
        PROVE  sarif' \in {<< >>, <<SARIF(ReportOf(common("sarif")'))>>}
    <3>1. changes = 0 /\ sarif' = sarif /\ common("sarif")' = common("sarif")
      BY <1>1, <1>6, <2>4
    <3>2. sarif \in {<< >>, IF args = << >> THEN <<<< >>>>
                            ELSE <<SARIF(ReportOf(common("sarif")))>>}
      BY <1>3, <3>1, Zenon DEF Steady
    <3>3. QED  BY <2>2, <3>1, <3>2, Zenon
  <2>5. QED  BY <2>1, <2>2, <2>3, <2>4, Zenon DEF Steady
<1>15. QED  BY <1>5, <1>11, <1>12, <1>13, <1>14 DEF IInv

(* The human run has ended, and the Action concludes from the others.      *)
LEMMA OutcomeHolds == ASSUME IInv, Outcome  PROVE IInv'
<1>1. /\ UNCHANGED <<job, tree, changes, args, cmd, stdout, exit, sarif, json, jcode, answered>>
      /\ step = "human" /\ step' = "done" /\ code' = Reconciled
      /\ \/ json = << >> /\ conclusion' = 1 /\ output' = output
         \/ /\ json # << >>
            /\ conclusion' = (IF Failing(Reconciled) THEN Reconciled ELSE 0)
            /\ output' = <<[decision |-> json[1].decision, exitCode |-> Reconciled]>>
  BY DEF Outcome, process, files, Go, Conclude
<1>2. /\ TypeOK /\ Process /\ Stage /\ Truth /\ Steady
  BY DEF IInv
<1>3. /\ args # << >> /\ args = resolved(job.lines) /\ Trusted
      /\ output = << >> /\ conclusion = NoExit
      /\ code \in Codes /\ jcode \in Codes
  BY <1>1, <1>2, NotConcluded DEF Stage, Running, TypeOK
<1>4. Process'
  BY <1>1, <1>2, ProcessKept
<1>5. Verdict' = Verdict /\ Due' = Due /\ Trusted' = Trusted
  BY <1>1, SameWorth
<1>6. /\ Reconciled \in {code, jcode} /\ Reconciled \in Codes
      /\ conclusion' \in {0, 1, Reconciled}
      /\ conclusion' = 0 => ~Failing(Reconciled)
      /\ conclusion' = 2 => Failing(2)
  BY <1>1, <1>3 DEF Reconciled, Failing, Codes
<1>7. TypeOK'
  BY <1>1, <1>2, <1>6 DEF TypeOK, Codes, NoExit
<1>8. Stage'
  BY <1>1, <1>2, <1>3, <1>5 DEF Stage, Running
<1>9. Backed(Reconciled)
  BY <1>2, <1>6, Zenon DEF Truth
<1>10. Truth'
  <2>1. Backed(code)' /\ Backed(jcode)'
    BY <1>1, <1>2, <1>9 DEF Truth, Backed
  <2>2. ASSUME conclusion' = 3  PROVE "block" \in answered
    BY <1>1, <1>6, <1>9, <2>2 DEF Backed
  <2>3. ASSUME conclusion' = 2  PROVE "warn" \in answered /\ job.failOnWarn
    BY <1>1, <1>6, <1>9, <2>3 DEF Backed, Failing
  <2>4. ASSUME conclusion' = 0
        PROVE  "allow" \in answered \/ ("warn" \in answered /\ ~job.failOnWarn)
    BY <1>1, <1>6, <1>9, <2>4 DEF Backed, Failing
  <2>5. OutcomeWasTrue'
    BY <1>1, <1>3, <2>2, <2>3, <2>4 DEF OutcomeWasTrue, Trusted
  <2>6. QED  BY <2>1, <2>5 DEF Truth
<1>11. ASSUME changes = 0
       PROVE  /\ code \in {1, Due} /\ jcode \in {1, Due} /\ Due \in {0, 2, 3}
              /\ json # << >> => json[1].decision = Verdict /\ jcode = Due
  <2>1. Due \in {0, 2, 3}
    BY <1>2, WorthIs, ExitOf, Zenon
  <2>2. QED  BY <1>2, <1>3, <1>11, <2>1 DEF Steady, Codes, NoExit
<1>12. ASSUME changes = 0  PROVE Ended'
  <2>1. /\ args' = resolved(job.lines)' /\ resolved(job.lines)' = resolved(job.lines)
        /\ resolved(job.lines) # << >>
    BY <1>1, <1>3
  <2>2. Reconciled \in {1, Due} /\ (jcode = Due => Reconciled = Due \/ (Reconciled = 1 /\ Due = 0))
    BY <1>11, <1>12, <1>6 DEF Reconciled
  <2>3. ASSUME NEW o \in ToSet(output')
        PROVE  o.decision = Verdict /\ (o.exitCode = Due \/ (o.exitCode = 1 /\ Due = 0))
    <3>1. CASE json = << >>
      BY <1>1, <1>3, <2>3, <3>1 DEF ToSet
    <3>2. CASE json # << >>
      <4>1. PICK x : x = [decision |-> json[1].decision, exitCode |-> Reconciled]
        OBVIOUS
      <4>2. output' = <<x>>
        BY <1>1, <3>2, <4>1
      <4>3. o = x
        BY <2>3, <4>2 DEF ToSet
      <4>4. x.decision = Verdict /\ x.exitCode = Reconciled
        BY <1>11, <1>12, <3>2, <4>1
      <4>5. QED  BY <1>11, <1>12, <2>2, <3>2, <4>3, <4>4
    <3>3. QED  BY <3>1, <3>2
  <2>4. /\ conclusion' = 3 => Due = 3
        /\ conclusion' = 2 => Due = 2
    BY <1>6, <1>11, <1>12, <2>2
  <2>5. ASSUME conclusion' = 0  PROVE Due \in {0, 2}
    BY <1>6, <1>11, <1>12, <2>2, <2>5 DEF Failing
  <2>6. jcode' # NoExit
    BY <1>1, <1>3 DEF Codes, NoExit
  <2>7. QED  BY <1>5, <2>1, <2>3, <2>4, <2>5, <2>6, Zenon DEF Ended
<1>13. Steady'
  <2>1. step' = "done" /\ step' \notin Running
    BY <1>1 DEF Running
  <2>2. ASSUME changes' = 0
        PROVE  /\ code' # NoExit => code' \in {1, Due'}
               /\ jcode' # NoExit => jcode' \in {1, Due'}
               /\ json' # << >> => json'[1].decision = Verdict' /\ jcode' = Due'
               /\ Ended'
    <3>1. changes = 0
      BY <1>1, <2>2
    <3>2. code' \in {code, jcode}
      BY <1>1, <1>6
    <3>3. QED  BY <1>1, <1>5, <1>11, <1>12, <3>1, <3>2
  <2>3. ASSUME changes' = 0
        PROVE  sarif' \in {<< >>, IF args' = << >> THEN <<<< >>>>
                                  ELSE <<SARIF(ReportOf(common("sarif")'))>>}
    <3>1. /\ changes = 0 /\ sarif' = sarif /\ args' = args
          /\ common("sarif")' = common("sarif")
      BY <1>1, <2>3, SameWorth
    <3>2. sarif \in {<< >>, IF args = << >> THEN <<<< >>>>
                            ELSE <<SARIF(ReportOf(common("sarif")))>>}
      BY <1>2, <3>1, Zenon DEF Steady
    <3>3. QED  BY <3>1, <3>2, Zenon
  <2>4. QED  BY <2>1, <2>2, <2>3, Zenon DEF Steady
<1>14. QED  BY <1>4, <1>7, <1>8, <1>10, <1>13 DEF IInv

(* A file changes, and from then on nothing is steady.                     *)
LEMMA ChangeHolds == ASSUME IInv, Change  PROVE IInv'
<1>1. /\ TypeOK /\ Process /\ Stage /\ Truth
  BY DEF IInv
<1>2. /\ UNCHANGED <<job, step, args, stdout, exit, sarif, json, code, jcode, output,
                     conclusion, answered>>
      /\ step # "done" /\ changes' = changes + 1 /\ changes' \in 0..MaxChanges
      /\ tree' \in [Paths -> Contents]
      /\ cmd' \in Command /\ InputsOf(cmd'.kind, cmd'.inputs)
      /\ exit # NoExit => cmd' = cmd
  BY <1>1, ChangeIs
<1>3. TypeOK'
  BY <1>1, <1>2 DEF TypeOK
<1>4. Process'
  <2>1. CASE exit = NoExit
    BY <1>1, <1>2, <2>1 DEF Process
  <2>2. CASE exit # NoExit
    BY <1>1, <1>2, <2>2, ProcessKept
  <2>3. QED  BY <2>1, <2>2
<1>5. Trusted' = Trusted
  BY <1>2, Zenon DEF Trusted
<1>6. Stage'
  BY <1>1, <1>2, <1>5 DEF Stage
<1>7. Truth'
  BY <1>1, <1>2 DEF Truth, Backed, OutcomeWasTrue
<1>8. Steady'
  <2>1. changes' # 0
    BY <1>1, <1>2 DEF TypeOK
  <2>2. QED  BY <2>1 DEF Steady
<1>9. QED  BY <1>3, <1>4, <1>6, <1>7, <1>8 DEF IInv

(* Nothing happens.                                                        *)
LEMMA StutterHolds == ASSUME IInv, UNCHANGED vars  PROVE IInv'
<1>1. /\ UNCHANGED <<job, tree, changes, step, args, cmd, stdout, exit, sarif, json, code,
                     jcode, output, conclusion, answered>>
  BY DEF vars, process, files
<1>2. /\ TypeOK /\ Process /\ Stage /\ Truth /\ Steady
  BY DEF IInv
<1>3. (\A f : common(f)' = common(f)) /\ Verdict' = Verdict /\ Due' = Due /\ Trusted' = Trusted
  BY <1>1, SameWorth
<1>4. TypeOK'
  BY <1>1, <1>2 DEF TypeOK
<1>5. Process'
  BY <1>1, <1>2, ProcessKept
<1>6. Stage'
  BY <1>1, <1>2, <1>3 DEF Stage
<1>7. Truth'
  BY <1>1, <1>2 DEF Truth, Backed, OutcomeWasTrue
<1>8. Ended' = Ended
  BY <1>1, <1>3, Zenon DEF Ended
<1>9. common(step)' = common(step)
  BY <1>1, <1>3, Zenon
<1>10. common("sarif")' = common("sarif")
  BY <1>3
<1>11. Steady'
  BY <1>1, <1>2, <1>3, <1>8, <1>9, <1>10, Zenon DEF Steady
<1>12. QED  BY <1>4, <1>5, <1>6, <1>7, <1>11 DEF IInv

(* Every step keeps the invariant.                                         *)
LEMMA NextHolds == ASSUME IInv, [Next]_vars  PROVE IInv'
<1>1. CASE ResolvePaths
  BY <1>1, ResolvePathsHolds
<1>2. CASE Download
  BY <1>2, DownloadHolds
<1>3. CASE NoFiles
  BY <1>3, NoFilesHolds
<1>4. CASE RunSarif
  BY <1>4, RunSarifHolds
<1>5. CASE Dbguard
  BY <1>5, DbguardHolds
<1>6. CASE RunJson
  BY <1>6, RunJsonHolds
<1>7. CASE RunHuman
  BY <1>7, RunHumanHolds
<1>8. CASE Outcome
  BY <1>8, OutcomeHolds
<1>9. CASE Change
  BY <1>9, ChangeHolds
<1>10. CASE UNCHANGED vars
  BY <1>10, StutterHolds
<1>11. QED
  BY <1>1, <1>2, <1>3, <1>4, <1>5, <1>6, <1>7, <1>8, <1>9, <1>10, Zenon DEF Next, Work, Done

(* The inductive invariant holds in every state the Action reaches.        *)
THEOREM Inductive == Spec => []IInv
<1>1. Init => IInv
  BY InitHolds
<1>2. IInv /\ [Next]_vars => IInv'
  BY NextHolds
<1>3. QED  BY <1>1, <1>2, PTL DEF Spec

-----------------------------------------------------------------------------
(***************************************************************************)
(* What the invariant says of the Action as a whole.                       *)
(***************************************************************************)
(* The decisions found at the paths P.                                     *)
FoundAt(P) ==
  { x.decision : x \in UNION { ToSet(st.findings) :
                                 st \in UNION { ToSet(tree[p].stmts) : p \in P } } }

(* The files are worth what is found in those that are named.              *)
LEMMA WorthOfFiles ==
  ASSUME TypeOK
  PROVE  Verdict = IF "block" \in FoundAt(ToSet(args)) THEN "block"
                   ELSE IF "warn" \in FoundAt(ToSet(args)) THEN "warn" ELSE "allow"
<1>1. job \in Jobs /\ tree \in [Paths -> Contents] /\ args \in Seq(Paths)
  BY DEF TypeOK
<1>2. PICK c : c = common("json")
  OBVIOUS
<1>3. /\ c \in Command /\ DOMAIN c.inputs = DOMAIN args
      /\ \A k \in DOMAIN args : c.inputs[k] = InputAt(args[k], tree[args[k]])
  BY <1>1, <1>2, CommonIs DEF Formats
<1>4. \A k \in DOMAIN args : c.inputs[k].stmts = tree[args[k]].stmts
  <2>1. \A p, content : InputAt(p, content).stmts = content.stmts
    BY DEF InputAt
  <2>2. QED  BY <1>3, <2>1, Zenon
<1>5. ASSUME NEW d  PROVE FoundIn(c, d) <=> d \in FoundAt(ToSet(args))
  <2>1. ASSUME FoundIn(c, d)  PROVE d \in FoundAt(ToSet(args))
    <3>1. PICK h \in DOMAIN c.inputs :
            \E st \in ToSet(c.inputs[h].stmts) : \E x \in ToSet(st.findings) : x.decision = d
      BY <2>1, Zenon DEF FoundIn
    <3>2. PICK p : p = args[h]
      OBVIOUS
    <3>3. p \in ToSet(args) /\ c.inputs[h].stmts = tree[p].stmts
      BY <1>3, <1>4, <3>2, Zenon DEF ToSet
    <3>4. PICK st \in ToSet(tree[p].stmts) : \E x \in ToSet(st.findings) : x.decision = d
      BY <3>1, <3>3, Zenon
    <3>5. st \in UNION { ToSet(tree[q].stmts) : q \in ToSet(args) }
      BY <3>3, <3>4, Zenon
    <3>6. PICK x \in ToSet(st.findings) : x.decision = d
      BY <3>4
    <3>7. x \in UNION { ToSet(t.findings) :
                          t \in UNION { ToSet(tree[q].stmts) : q \in ToSet(args) } }
      BY <3>5, <3>6, Zenon
    <3>8. QED  BY <3>6, <3>7, Zenon DEF FoundAt
  <2>2. ASSUME d \in FoundAt(ToSet(args))  PROVE FoundIn(c, d)
    <3>1. PICK x \in UNION { ToSet(t.findings) :
                               t \in UNION { ToSet(tree[q].stmts) : q \in ToSet(args) } } :
            x.decision = d
      BY <2>2, Zenon DEF FoundAt
    <3>2. PICK st \in UNION { ToSet(tree[q].stmts) : q \in ToSet(args) } :
            x \in ToSet(st.findings)
      BY <3>1, Zenon
    <3>3. PICK p \in ToSet(args) : st \in ToSet(tree[p].stmts)
      BY <3>2, Zenon
    <3>4. PICK h \in DOMAIN args : p = args[h]
      BY <3>3, Zenon DEF ToSet
    <3>5. h \in DOMAIN c.inputs /\ st \in ToSet(c.inputs[h].stmts)
      BY <1>3, <1>4, <3>3, <3>4, Zenon
    <3>6. QED  BY <3>1, <3>2, <3>5, Zenon DEF FoundIn
  <2>3. QED  BY <2>1, <2>2
<1>6. StrictestDecision(AllStatements(c)) =
        IF FoundIn(c, "block") THEN "block"
        ELSE IF FoundIn(c, "warn") THEN "warn" ELSE "allow"
  BY <1>3, FoundDecides, Zenon
<1>7. Verdict = StrictestDecision(AllStatements(c))
  BY <1>2, Zenon DEF Verdict
<1>8. QED  BY <1>5, <1>6, <1>7, Zenon

(* The outputs of a job that has ended agree with the files.               *)
LEMMA EndedAgrees == IInv => OutputsAgree
<1> SUFFICES ASSUME IInv, changes = 0, step = "done"  PROVE OutputsAgree
  BY DEF OutputsAgree
<1> DEFINE named     == { l.path : l \in ToSet(job.lines) } \ {NoPath}
           found     == FoundAt(named)
           strictest == IF "block" \in found THEN "block"
                        ELSE IF "warn" \in found THEN "warn" ELSE "allow"
<1>1. TypeOK /\ Ended
  BY DEF IInv, Steady
<1>2. job \in Job /\ job.release.mode \in {"full", "core"}
  BY <1>1, JobsAssumption DEF TypeOK, Job
<1>3. resolved(job.lines) \in Seq(Paths) /\ ToSet(resolved(job.lines)) = named
  BY <1>2, ResolvedAre DEF Job
<1>4. resolved(job.lines) = << >> <=> named = {}
  <2>1. PICK u \in Seq(Paths) : u = resolved(job.lines)
    BY <1>3
  <2>2. u = << >> <=> ToSet(u) = {}
    <3>1. u # << >> => 1 \in DOMAIN u
      BY EmptySeq, LenProperties
    <3>2. QED  BY <3>1 DEF ToSet
  <2>3. QED  BY <1>3, <2>1, <2>2
<1> HIDE DEF named
<1>5. ASSUME NEW o \in ToSet(output)
      PROVE  /\ o.decision = strictest
             /\ o.exitCode = decisionToExit[strictest] \/ (o.exitCode = 1 /\ strictest = "allow")
  <2>1. output # << >>
    BY <1>5 DEF ToSet
  <2>2. args = resolved(job.lines)
    BY <1>1, <2>1 DEF Ended
  <2>3. Verdict = strictest
    BY <1>1, <1>3, <2>2, WorthOfFiles, Zenon
  <2>4. o.decision = Verdict /\ (o.exitCode = Due \/ (o.exitCode = 1 /\ Due = 0))
    BY <1>1, <1>5 DEF Ended
  <2>5. Due = decisionToExit[Verdict] /\ (Due = 0 <=> Verdict = "allow")
    BY <1>1, WorthIs, ExitOf
  <2>6. QED  BY <2>3, <2>4, <2>5
<1>6. ASSUME named = {}, job.writable  PROVE conclusion = 0 /\ sarif = <<<< >>>>
  BY <1>1, <1>4, <1>6 DEF Ended
<1>7. ASSUME conclusion = 1, jcode = NoExit
      PROVE  \/ \E p \in named : ~tree[p].exists
             \/ named # {} /\ ~Verified(job.release)
             \/ job.release.mode = "core"
             \/ ~job.writable
  BY <1>1, <1>2, <1>3, <1>4, <1>7 DEF Ended, Trusted
<1>8. QED  BY <1>5, <1>6, <1>7, Zenon DEF OutputsAgree, named, FoundAt

(* A level is among those of the results if there is one of it.            *)
LEMMA LevelAmong ==
  ASSUME NEW u, NEW n \in Nat, DOMAIN u = 1..n, NEW lev
  PROVE  AtLevel(u, lev) > 0 <=> lev \in { x.level : x \in ToSet(u) }
<1> DEFINE I == {i \in 1..n : u[i].level = lev}
<1>1. AtLevel(u, lev) = Cardinality(I)
  BY DEF AtLevel
<1>2. IsFiniteSet(I)
  <2>1. IsFiniteSet(1..n)
    BY FS_Interval
  <2>2. QED  BY <2>1, FS_Subset
<1>3. Cardinality(I) > 0 <=> I # {}
  <2>1. Cardinality(I) \in Nat /\ (Cardinality(I) = 0 <=> I = {})
    BY <1>2, FS_CardinalityType, FS_EmptySet
  <2>2. QED  BY <2>1
<1>4. I # {} <=> lev \in { x.level : x \in ToSet(u) }
  BY DEF ToSet
<1>5. QED  BY <1>1, <1>3, <1>4

(* The SARIF of files shows an error just when a block is due, a warning   *)
(* when one is, and each of its results at one of the files.               *)
LEMMA SarifOfFiles ==
  ASSUME TypeOK, NEW u, u = SARIF(ReportOf(common("sarif")))
  PROVE  /\ "error" \in { x.level : x \in ToSet(u) } <=> Due = 3
         /\ Due = 2 => "warning" \in { x.level : x \in ToSet(u) }
         /\ \A x \in ToSet(u) : x.locations # << >> /\ x.locations[1].path \in ToSet(args)
<1>1. job \in Jobs /\ tree \in [Paths -> Contents] /\ args \in Seq(Paths)
  BY DEF TypeOK
<1>2. PICK c : c = common("sarif")
  OBVIOUS
<1>3. PICK as : as = AllStatements(c)
  OBVIOUS
<1>4. PICK r : r = ReportOf(c)
  OBVIOUS
<1>5. u = SARIF(r)
  BY <1>2, <1>4
<1>6. /\ c \in Command /\ c.kind = "files" /\ InputsOf(c.kind, c.inputs)
      /\ DOMAIN c.inputs = DOMAIN args
      /\ \A k \in DOMAIN args : c.inputs[k] = InputAt(args[k], tree[args[k]])
  BY <1>1, <1>2, CommonIs DEF Formats
<1>7. /\ AtLevel(u, "error") = Count(as, "block") /\ AtLevel(u, "warning") = Count(as, "warn")
      /\ Count(as, "block") > 0 <=> \E p \in Places(as) : FindingAt(as, p).decision = "block"
      /\ Count(as, "warn") > 0 <=> \E p \in Places(as) : FindingAt(as, p).decision = "warn"
  <2>1. AtLevel(u, "error") = Count(as, "block") /\ AtLevel(u, "warning") = Count(as, "warn")
    BY <1>3, <1>4, <1>5, <1>6, LevelsAre, Zenon
  <2>2. Count(as, "block") > 0 <=> \E p \in Places(as) : FindingAt(as, p).decision = "block"
    BY <1>3, <1>4, <1>5, <1>6, LevelsAre, Zenon
  <2>3. Count(as, "warn") > 0 <=> \E p \in Places(as) : FindingAt(as, p).decision = "warn"
    BY <1>3, <1>4, <1>5, <1>6, LevelsAre, Zenon
  <2>4. QED  BY <2>1, <2>2, <2>3
<1>8. PICK n \in Nat : DOMAIN u = 1..n /\ ResultsAre(as, r, u)
  <2>1. DOMAIN u = 1..Len(u) /\ Len(u) \in Nat /\ ResultsAre(as, r, u)
    BY <1>3, <1>4, <1>5, <1>6, SarifIs, Zenon
  <2>2. QED  BY <2>1
<1>9. PICK d \in Decisions : d = Verdict /\ Due = decisionToExit[d]
  BY WorthIs
<1>10. d = StrictestDecision(as)
  BY <1>2, <1>3, <1>9, WorthIs DEF Formats
<1>11. d = IF \E p \in Places(as) : FindingAt(as, p).decision = "block" THEN "block"
           ELSE IF \E p \in Places(as) : FindingAt(as, p).decision = "warn" THEN "warn"
           ELSE "allow"
  BY <1>3, <1>6, <1>10, DecisionOf, Zenon
<1>12. /\ AtLevel(u, "error") > 0 <=> d = "block"
       /\ d = "warn" => AtLevel(u, "warning") > 0
  BY <1>7, <1>11
<1>13. ASSUME NEW x \in ToSet(u)
       PROVE  x.locations # << >> /\ x.locations[1].path \in ToSet(args)
  <2>1. PICK i \in DOMAIN u : x = u[i]
    BY DEF ToSet
  <2>2. PICK p \in Places(as) : x = ResultAt(as, r, p)
    BY <1>8, <2>1, Zenon DEF ResultsAre
  <2>3. PICK k \in DOMAIN as : k = p[1]
    BY PlacesAre
  <2>4. x.locations = Locations(r, r.statements[k])
    BY <2>2, <2>3 DEF ResultAt
  <2>5. Locations(r, r.statements[k]) =
          IF c.kind = "sql" THEN << >> ELSE <<[path |-> as[k].path, line |-> as[k].line]>>
    BY <1>3, <1>4, <1>6, LocationsAre, Zenon
  <2>6. PICK at : at = [path |-> as[k].path, line |-> as[k].line]
    OBVIOUS
  <2>7. x.locations = <<at>> /\ at.path = as[k].path
    BY <1>6, <2>4, <2>5, <2>6
  <2>8. WrittenIn(c, as[k])
    BY <1>3, <1>6, AllStatementsAre, Zenon
  <2>9. PICK h \in DOMAIN c.inputs : \E t \in DOMAIN c.inputs[h].stmts :
                                       as[k] = Written(c.inputs[h], t)
    BY <2>8, Zenon DEF WrittenIn
  <2>10. as[k].path = c.inputs[h].path
    BY <2>9 DEF Written
  <2>11. c.inputs[h].path = args[h] /\ args[h] \in ToSet(args)
    <3>1. \A p2, content : InputAt(p2, content).path = p2
      BY DEF InputAt
    <3>2. c.inputs[h] = InputAt(args[h], tree[args[h]])
      BY <1>6
    <3>3. QED  BY <1>6, <3>1, <3>2, Zenon DEF ToSet
  <2>12. QED  BY <2>7, <2>10, <2>11
<1>14. /\ AtLevel(u, "error") > 0 <=> "error" \in { x.level : x \in ToSet(u) }
       /\ AtLevel(u, "warning") > 0 <=> "warning" \in { x.level : x \in ToSet(u) }
  BY <1>8, LevelAmong, Zenon
<1>15. (Due = 3 <=> d = "block") /\ (Due = 2 <=> d = "warn")
  BY <1>9, ExitOf
<1>16. QED  BY <1>12, <1>13, <1>14, <1>15, Zenon

(* The SARIF of a job that has ended backs what it concludes.              *)
LEMMA EndedBacked == IInv => SarifBacksTheOutcome
<1> SUFFICES ASSUME IInv, changes = 0, step = "done", NEW results \in ToSet(sarif)
             PROVE  LET levels == { r.level : r \in ToSet(results) }
                    IN  /\ conclusion = 3 => "error" \in levels
                        /\ conclusion = 2 => "warning" \in levels /\ "error" \notin levels
                        /\ conclusion = 0 => "error" \notin levels
                        /\ \A r \in ToSet(results) :
                             r.locations # << >> /\ r.locations[1].path \in ToSet(args)
  BY DEF SarifBacksTheOutcome
<1>1. TypeOK /\ Steady
  BY DEF IInv
<1>2. /\ conclusion = 3 => Due = 3
      /\ conclusion = 2 => Due = 2
      /\ conclusion = 0 => Due \in {0, 2}
  BY <1>1 DEF Steady, Ended
<1>3. sarif \in {<< >>, IF args = << >> THEN <<<< >>>>
                        ELSE <<SARIF(ReportOf(common("sarif")))>>}
  BY <1>1, Zenon DEF Steady
<1>4. sarif # << >>
  BY DEF ToSet
<1>5. CASE args = << >>
  <2>1. sarif = <<<< >>>>
    BY <1>3, <1>4, <1>5, Zenon
  <2>2. ToSet(results) = {}
    BY <2>1 DEF ToSet
  <2>3. Due = 0
    <3>1. FoundAt(ToSet(args)) = {}
      BY <1>5 DEF FoundAt, ToSet
    <3>2. Verdict = "allow"
      BY <1>1, <3>1, WorthOfFiles
    <3>3. QED  BY <1>1, <3>2, WorthIs, ExitOf
  <2>4. QED  BY <1>2, <2>2, <2>3
<1>6. CASE args # << >>
  <2>1. PICK u : u = SARIF(ReportOf(common("sarif")))
    OBVIOUS
  <2>2. sarif = <<u>>
    BY <1>3, <1>4, <1>6, <2>1, Zenon
  <2>3. results = u
    BY <2>2 DEF ToSet
  <2>4. /\ "error" \in { x.level : x \in ToSet(u) } <=> Due = 3
        /\ Due = 2 => "warning" \in { x.level : x \in ToSet(u) }
        /\ \A x \in ToSet(u) : x.locations # << >> /\ x.locations[1].path \in ToSet(args)
    BY <1>1, <2>1, SarifOfFiles, Zenon
  <2>5. QED  BY <1>2, <2>3, <2>4
<1>7. QED  BY <1>5, <1>6

-----------------------------------------------------------------------------
(* Every variable of the Action has its type: each run of dbguard gets a   *)
(* well-formed command line, whatever happens to the files, and an exit    *)
(* code is kept of each run that has ended.                                *)
THEOREM TypeCorrect == Spec => []TypeOK
<1>1. IInv => TypeOK
  BY DEF IInv
<1>2. QED  BY <1>1, Inductive, PTL

(* The conclusion of the Action is one that dbguard came to on the files   *)
(* at some time, in a verified release of the mode that is needed.         *)
THEOREM ConcludesAsHeard == Spec => []OutcomeWasTrue
<1>1. IInv => OutcomeWasTrue
  BY DEF IInv, Truth
<1>2. QED  BY <1>1, Inductive, PTL

(* While nothing changes, the outputs of the Action are those of a review  *)
(* of the files that are named.                                            *)
THEOREM OutputsAreOfTheFiles == Spec => []OutputsAgree
<1>1. IInv => OutputsAgree
  BY EndedAgrees
<1>2. QED  BY <1>1, Inductive, PTL

(* While nothing changes, the SARIF that is uploaded backs the conclusion. *)
THEOREM SarifBacks == Spec => []SarifBacksTheOutcome
<1>1. IInv => SarifBacksTheOutcome
  BY EndedBacked
<1>2. QED  BY <1>1, Inductive, PTL

=============================================================================
