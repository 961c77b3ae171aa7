# A formal model of DBwall

DBwall (`dbguard`) reviews PostgreSQL scripts and answers *allow*, *warn* or
*block*, by its exit code and by a report. It is a sequential program: a script
is split into statements, each is parsed into a record of what it does, the
rules look at each record under a policy, and the strictest finding decides.
This directory models that pipeline in TLA+, checks the models with TLC and
proves theorems about them with TLAPS.

What is hard in this program is not concurrency. It is loops inside loops whose
results are renumbered and folded, recursion that removes duplicates at every
return, a scanner with six modes, failures half way, and policies that should
only ever tighten. Where processes do meet, in the GitHub Action, it is three
runs over files that may change between them. A unit test shows one path of
each; the models take all of them, within the bounds below, and the proofs,
where there are any, all of them without bounds.

## Inventory

| Component | Source | State it keeps | Operations | What is hard | What makes it correct |
|---|---|---|---|---|---|
| Command line, review pipeline | `cmd/dbguard/main.go`, `internal/cli/review.go` | results of the files so far | `review-sql`, `review-file`, `review-files` | a failure after some files; renumbering across files; the dropped error of writing the report | all or nothing; exit code of the strictest finding; the report agrees with itself |
| Analyzer | `internal/analyzer` | running maxima and counts | `Analyze`, `Aggregate` | zero values below every decision, filled in at the end | strictest wins; counts exact |
| Policy | `internal/policy` | the loaded policy | load, validate, look up a rule, match a name | defaults against explicit settings; case; qualified names | the policy decides; more protection never unprotects |
| Rule catalog | `internal/rulemeta` | constant | look up | – | every rule has a default |
| Rules | `internal/rules` | findings of a statement | `Check`, nineteen rules, removal of duplicates | recursion over nested statements; escalation | nothing lost; strictest wins within a statement |
| Statement model | `internal/parser/model.go` | a statement under construction | add a relation, mark incomplete, fill convenience fields | lattice of completeness; bounded reasons | nothing forgotten that a rule needs |
| Splitter | `internal/parser/parse_shared.go:17-176` | mode, lines, current text | split a script | strings, quoted names, dollar quotes, comments | the segments are the statements, with their lines |
| Core token parser | `internal/parser/parse_shared.go:178-1014` | position, depth | tokenize, parse ten kinds of statement | a second reading of strings and comments; optional words; depth of parentheses | the tokens of a statement are its own; the findings of the full build where parity is promised |
| AST extraction | `internal/parser/ast_extract_cgo.go` | a statement and those nested in it | walk a syntax tree | set operations, WITH, merging of incompleteness | every relation and every nested statement found |
| Predicate folding | `internal/parser/predicate_cgo.go` | – | fold a WHERE clause | three-valued logic, unknown subterms | *always true* only if it is |
| Reports | `internal/report` | – | human, JSON, SARIF | levels, locations and counts derived anew from the result | each report says what the exit code says |
| GitHub Action | `action.yml` | exit codes of three runs | resolve, download, verify, review | three runs over files that may change; shell error modes | its conclusion is one that a run came to; outputs and SARIF back it |
| Benchmark harness | `benchmark/harness.go` | case results | build, run, compute metrics | one step of many failing | metrics follow their definitions |
| Coverage mode, version | `internal/parser/coverage_*.go`, `internal/version` | constants | – | – | – |
| Workflows, scripts, examples, tests | `.github`, `scripts`, `examples`, `test_e2e` | – | – | – | – |

The components interact by calls only, in one process:

    main -> ReviewSQL / ReviewFiles -> loadPolicy -> LoadFromFile, Validate
                                    -> Parse -> split -> (syntax tree -> extraction) | token parser
                                    -> Analyze -> Check (recursive) -> RuleDecision, IsProtected...
                                    -> Aggregate -> report -> exit code

The Action and the benchmark run that process and read its output and its exit
code. The build decides which parser is linked in: with cgo (*full*) the syntax
tree of libpg_query and its extraction, without (*core*) the token parser.

## Modules

| Module | Models | Kind |
|---|---|---|
| `Verdicts` | decisions, severities, their orders, exit codes | definitions |
| `Results` | command lines, statements, findings, reports | definitions |
| `Answers` | all statements of a command, what their findings amount to, the report of it all | definitions |
| `Gate` | what an invocation promises: fail, or report on everything and exit with the strictest | abstract specification |
| `Review` | `internal/cli/review.go` and `internal/analyzer`, one step per loop iteration | state machine |
| `Reports` | `internal/report`: SARIF and JSON of a result | definitions |
| `ReviewGate` | `Review` implements `Gate`, and its SARIF shows what it decides | refinement |
| `ReviewProofs` | theorems about `Review`, that it implements `Gate`, and that its SARIF agrees | proofs |
| `AnswerLemmas` | what `Answers` and `Reports` make of any command | lemmas |
| `ReviewAction` | `action.yml`: paths, download, three processes of `Gate`, conclusion | composition |
| `ActionProofs` | theorems about `ReviewAction` | proofs |
| `Policy` | catalog, validation, decisions of rules, protected names | definitions |
| `Rules` | `rules.Check`, its call stack and all rules | state machine |
| `RulesProofs` | theorems about `Rules` | proofs |
| `Tightening` | two copies of `Rules` in step under two policies | composition |
| `TighteningProofs` | the theorem that a tighter policy never relaxes the verdict | proofs |
| `Splitter` | `splitSQLStatementsWithLines`, one step per iteration | state machine |
| `SplitterProofs` | theorems about `Splitter` and `Tokenizer`, for scripts of any length | proofs |
| `SequenceLemmas` | least and greatest positions, induction over positions, concatenation of many sequences and where each of them stands in it | lemmas |
| `Tokenizer` | `tokenizeSQL` on the segments that `Splitter` cuts | composition |
| `Statements` | `model.go`: a statement under construction | definitions |
| `CoreParser` | `parse_shared.go`: a statement from its tokens | definitions |
| `SqlValues` | the values of constants, and *unknown* | definitions |
| `Predicate` | `predicate_cgo.go`: constant folding of a WHERE clause | definitions |
| `Folding` | what becomes of a WHERE clause, and SQL's three-valued truth of it | state machine |
| `FoldingProofs` | theorems about `Folding`, for expressions nested to any depth | proofs |
| `Extraction` | `ast_extract_cgo.go`: a statement from its syntax tree | definitions |
| `Scopes` | what a syntax tree uses by the scoping rules of SQL | reference |
| `Sources` | `parse_cgo.go`: the statements of a file, extracted one by one | state machine |
| `Rendering` | a syntax tree written as tokens, in several styles | reference |
| `Analysis` | from a syntax tree to its findings, in either build: `Extraction`, or `Rendering` and `CoreParser`, then `Rules` | composition |
| `Samples`, `SamplePredicates` | syntax trees and predicates shared by the instances | model checking |
| `MCReview`, `MCRules`, `MCTightening`, `MCSplitter`, `MCSources`, `MCAnalysis`, `MCAction` | instances for TLC | model checking |

### Review

`pc` walks through the code: `format` (the flag), `policy`, then per input
`read`, `parse`, `analyze` (the loop of `Analyze`) and `append` (the inner loop
of `ReviewFiles`), then `aggregate` (the two loops of `Aggregate`), `print`,
`done`. `f`, `n`, `s` and `j` are the loop counters; `res`, `statements` and
`acc` are the code's `res.Statements`, `aggregated.Statements` and
`maxDecision`/`maxSev`/`summary`. `review-sql` is a command of kind `"sql"`: it
goes from `analyze` straight to `aggregate`. What the file system, the YAML
loader and the parser answer is part of the command, chosen initially, and so
is what the rules find on each statement: the pipeline looks at neither the SQL
nor the message. `Println`'s error is dropped by the code, so `printAndExit`
may leave `stdout` without the report and still exit with the verdict.

### Rules

A statement with all those nested in it is a sequence in the order of the text
(`Preorder`); `nested` and `last` give its shape. `stack` is the call stack of
`Check`: `CheckNested` is the recursive call, `ReturnToCaller` the return with
its removal of duplicates and the `append` in the caller, `Return` the outermost
return. `dedupeFindings` sorts, so a returned slice is a set; `out` is a
sequence of such sets. A message is its rule and what it is *about* (a name, a
role, the reasons), which is exactly what makes two messages equal. Dotted names
are sequences of parts; lower-casing is the constant function `lower`; trimming
of spaces and quotes around policy entries is taken as done.

### Splitter and Tokenizer

The five flags of the code exclude each other and are one variable, `mode`. The
code sees characters (`sql`); `script` is the sequence of tokens they came from,
which only the properties read. `"x"` stands for any letter, `"1"` for any digit.

What a script should become is defined on its tokens, not on its characters:
cut at the semicolon tokens, each piece that has content is a statement
(`Wanted`, `Expected`). That has a meaning only for a script that is
`WellFormed`. Each token is then what its kind says (`IsToken`): a quote,
a dollar quote or a comment has its end where the token has its (`Closings`),
and a name, number or operator has no quote or comment in it. And no token
changes by what is written behind it (`Merges`): a string by a string, a minus by a
minus, a word by a dollar sign, which PostgreSQL takes for a part of the word.

`Tokenizer` is the second reading: `lexeme` is the body of `tokenizeSQL`'s loop,
where the token at a position ends, `lexemes` its iterations. The code reads
strings, dollar quotes and comments twice, in functions that share only
`readDollarTag`; `ReadersAgree` says that they end them at the same places. It
excepts scripts in which a dollar sign goes on a word (`DollarInWord`), where they
do not; what comes of it is shown by `SingleStatementSegments`, see *Findings*.

### Predicate and Folding

An expression is a record of its kind and its operands; `evalExpr` and the
operators under it are the functions of the same names. `evalBoolExpr` is both
loops of the code, which return at the first operand that decides: `returns` is
the set of such operands. The functions recurse over the expressions of the
constant `Exprs`, which has all the WHERE clauses and what is under them;
`Nesting` says how deep each is nested, finitely (`NestingAssumption`), and
`ExprsAssumption` what PostgreSQL's parser produces: constants have a value, an
operator as many operands as it takes, a test one of the things it can test.

A numeral is an integer of any size in one of the two forms that PostgreSQL's
parser gives it: `Ival` if it fits 32 bits, or else, or if it was written with a
point or an exponent, `Fval` with its notation. The code tests numbers for
equality as texts (`constEqual`): of an `Ival` the digits (`FormatInt`), of an
`Fval` what `normalizeNumber` makes of it by way of a 64-bit float
(`ParseFloat`), which has an exponent from a `Million` on (`FormatFloat`). It
orders numbers as floats (`constCompare`). `Floats` is which integers are
floats; `FloatsAssumption` says that every 32-bit integer is one and that every
numeral has a nearest one, and leaves open which of two that are equally near.
TLC's floats have four bits, not 53, and its million is eight, so that numerals
of both forms lie below, at and beyond each limit.

So what a clause folds to need not be what it means: `1000000 = 1000000.0` folds
to false. `ReadAsMeant` says of which clauses it is. Their numerals are floats,
in plain decimal notation, and either all of one form or all less than a million;
and no constant is converted, by a cast to another kind of values or by being a
text where a bool is asked for. `FoldingIsSound` and `NoConstantPasses` are about
these; what happens to the others is under *Findings*. `OrderSurvivesRounding` and
`AbsorbsOperands` are about all clauses.

`Folding` takes a clause through `applyPredicate` and `syncConvenienceFields`
and compares the flags that the rules read with the value that PostgreSQL gives
the clause (`SqlValue`) in each of the `Rows`; TLC uses 18 (a bool and a number,
either possibly null, and a call). There, numbers are exact. That the
predicate of a statement is that of its own clause, whatever is nested in it,
is part of `MutationsKept` in `Sources`.

### Extraction, Scopes and Sources

The functions of `ast_extract_cgo.go` become operators of the same names. What
they change through pointers is threaded through: the statement, and the map of
common table expressions, which the code shares between a SELECT and its
subqueries. A nil map is `NoMap`: then a SELECT with a WITH clause makes one of
its own, which its caller never sees. `extractDelete` and `extractUpdate` are
the same but for the type (`extractMutation`). `walk`, the one recursive operator,
stands for the calls of these functions to each other, which the kind of a node
determines, and `walkEach` for their loops. `walkNodeRelations` is left out:
it is reached only for queries of COPY that are no SELECT, where it finds
nothing. So are the branches for nodes that PostgreSQL's parser never leaves
out; of the items of a FROM clause, `function` stands for all that the code
does not support. The field `rest` of a node holds the expressions of all the
clauses that the extraction does not visit.

`Scopes` is the reference: what a tree uses (tables read, names defined, tables
written with or without a WHERE clause, parts that cannot be read), by SQL's
rules. `VisitedUses` looks where the extraction looks, `AllUses` everywhere.
Names are compared as SQL does, exactly; the extraction folds case.

### Analysis, CoreParser and Rendering

A tree of nested statements becomes the sequence that `Rules` walks. The
properties go from the syntax tree to the answer of `Check`: what a DELETE
nested in the WITH clause of a COPY does is reported by the rule about it.

In the core build there is no syntax tree. `Rendering` writes one as tokens, and
`CoreParser` reads these: its operators are the functions of `parse_shared.go`
from `parseStatementTokens` on, scanning by position and depth as the code does.
SQL leaves the writer a choice. `"wordy"` writes what is optional (TABLE after
TRUNCATE, ONLY, IF EXISTS, CASCADE, column lists, parentheses around a condition,
FETCH FIRST for LIMIT), `"plain"` does not, and `"terse"` leaves out the word COLUMN
as well and gives tables an alias. A statement that core refuses (`"rejected"`)
ends the review with exit code 1. A keyword is a word in capitals, and `lower` says which name it is.

### Reports

`SARIF` and `JSON` are what the two structured reports hold of a result: for
SARIF a level and the locations of each finding, for JSON statements, findings
and counts. Both are applied to the reports of `Review` (`SarifAgrees`) and of
the processes in `ReviewAction`.

### ReviewAction

`step` is where the composite action is: `paths` (which are resolved, and must
exist), `download` (the release, its checksum, the build it reports), `review`,
then the runs `sarif`, `json` and `human`, `done`. The process under way is an
instance of `Gate`: by the theorem `Refines` it does nothing that `Gate` does
not allow. `tree` is the file system, which `Change` changes at any time, up to
`MaxChanges` times; a process that has not ended may see the change or not,
input by input. `sarif` and `json` are what the redirections left in the files.
The shell's rules are in the actions: a redirection that fails leaves code 1
without running the program, a test that fails under `set -e` ends the step
before it has outputs. `answered` is history: what the runs decided.

## Runs

| Run | Bounds | Shows |
|---|---|---|
| `review` | command lines over up to 2 inputs of up to 2 statements with up to 2 findings each, all formats, policies and failures (74,230 states) | `TypeOK`, `StrictestWins`, `AllOrNothing`, `FindingsPointBack`, `SummaryAgrees`, `LoopInvariants`, `SarifAgrees`; `Terminates`; `ImplementsGate` |
| `rules` | 103 statements of every kind and nesting to depth 3, under two of 14 policies, the second as tight as the first or the same (30,498 states) | `TypeOK`, `OnePass`, `NothingLost`, `CheckInvariant`, `PolicyDecides`, `StrictestOtherwise`, `TighterNeverRelaxes` |
| `strictest_of_statement` | the same statements, 8 policies | expected violation, see *Findings* |
| `splitter` | all well-formed scripts of up to 4 of 12 tokens, or 3 and one of 5 tails, and all strings of up to 5 of 9 characters (777,927 states) | `SplitsIntoStatements` and `TokensAreContents` of the former, `InStep`, `SegmentLineExact` and `ReadersAgree` of both |
| `dollars` | all strings of up to 7 letters, dollar signs and semicolons | expected violation, see *Findings* |
| `sources` | 18,000 syntax trees: every statement kind, WITH lists over queries with joins, subqueries, set operations and sublinks; and by itself every WHERE clause of theirs and every expression up to three operators deep, with numerals at the limits, over all rows (67,980 states) | `ReadsResolved`, `MutationsKept`, `LimitIsOfTheWhole`; `FoldingIsSound`, `NoConstantPasses`, `OrderSurvivesRounding`, `AbsorbsOperands` of the clauses |
| `cte_scopes`, `complete` | the same | expected violations, see *Findings* |
| `analysis` | a selection of these trees, in the full build and in two styles in the core build, under 3 policies, one of which allows a rule (130,215 states) | `UnboundedWritesReported`, `ProtectedWritesReported`, `ProtectedReadsReported`, `IncompleteReported`; `ParityOfFindings`, `CoreBoundsAreOwn` |
| `parity` | the same in the third style | expected violation, see *Findings* |
| `action` | jobs naming up to 2 files, 5 contents of a file, 5 releases, a SARIF file that can or cannot be opened, one change (63,992 states) | `TypeOK`, `OutcomeWasTrue`, `OutputsAgree`, `SarifBacksTheOutcome`; `JobEnds` |
| `action_sarif` | jobs whose SARIF file cannot be opened, no change | expected violation, see *Findings* |

The bounds are enough for what can go wrong. In `review`, two inputs are needed
for a failure after a success and for renumbering, two statements for an inner
loop that repeats, two findings for an order between them. In `rules`, two
levels of nesting make a return into a frame that is itself nested, and two
children an ordering between siblings; a third adds nothing the invariant
`CheckInvariant` does not already relate pairwise, and the proof covers every
depth. In `splitter`, every ordered pair of tokens occurs with a token before
and after; five characters hold every opener with a closer and one character
between (`$x$` opens in three). In `sources`, a name is defined at two levels and
used at both and after, a WITH clause has two queries of which the second uses
the first, a set operation is the arm of another, and of a predicate three operands
in every order tell which one decides; the numerals 16, 17 and 18 are the last
float before rounding begins, one that is no float, and the next that is. In
`dollars`, seven characters are two words with a dollar quote's sign in each and
the semicolon between them. In `analysis`, a bounding clause
stands in a subquery of a statement without one, and the other way around. In
`action`, one change is enough to make two of the three runs differ, in either
direction; `OutputsAgree` and `SarifBacksTheOutcome` are about the jobs during
which nothing changes, `OutcomeWasTrue` about all.

Statements in `MCRules` are ones the parsers produce: an enclosing statement
takes over the relations and reasons of those nested in it as `mergeSemantic`
does, and its convenience fields are filled in as `syncConvenienceFields` does.
In `MCSplitter` the scripts of tokens are filtered by `WellFormed`; the strings
of characters are not, and where one of them has a dollar sign in a word
`ReadersAgree` excepts it (`DollarInWord`); run `dollars` is about these. In `MCSources` a behaviour is either of
a file or of a WHERE clause by itself.

## Fairness

`Review` assumes `WF_vars(Next)`: the process is scheduled until it exits. The
program is one goroutine with no waiting of its own; reads and the parser
return. `Terminates` and the liveness half of `ImplementsGate` use it.

`ReviewAction` assumes `WF_vars(Work)`: the CI runner goes on with the job and
schedules the process it waits for. Nothing is assumed of `Change`: files need
not change, and if they do it does not keep the job from ending, for a process
ends whatever it reads. `JobEnds` uses it. That a download returns is part of
the assumption; the runner's own time limit is not modelled.

The other modules state safety only; their loops visibly count up.

## Theorems

| Module | Theorem | Says |
|---|---|---|
| `ReviewProofs` | `TypeCorrect`, `LoopsCorrect`, `Strictest`, `NothingOnError`, `PointBack`, `CountsAgree` | the six invariants of run `review` about `Review` |
| `ReviewProofs` | `Refines`, `GateInvariance` | `Review` implements `Gate`, liveness apart |
| `ReviewProofs` | `ShownAsDecided` | `SarifAgrees` |
| `ActionProofs` | `Inductive`, `TypeCorrect`, `ConcludesAsHeard`, `OutputsAreOfTheFiles`, `SarifBacks` | the four invariants of run `action` |
| `RulesProofs` | `TypeCorrect`, `Gathers`, `ChecksInOnePass`, `LosesNothing`, `PolicyFollowed`, `StrictestAnswers` | the six invariants of run `rules` about `Rules` |
| `TighteningProofs` | `NeverRelaxes` | `TighterNeverRelaxes` |
| `SplitterProofs` | `TypeCorrect`, `StaysInStep`, `LinesAreExact`, `SplitsRight`, `ReadersInAgreement` | `TypeOK`, `InStep`, `SegmentLineExact`, `SplitsIntoStatements`, `ReadersAgree` |
| `FoldingProofs` | `Soundness`, `ConstantsCaught`, `Rounding`, `Absorption` | `FoldingIsSound`, `NoConstantPasses`, `OrderSurvivesRounding`, `AbsorbsOperands` |

They rest on the lemmas of `SequenceLemmas` and `AnswerLemmas` and hold for any
constants that satisfy the named assumptions: `PathsAssumption` (no file has the
empty path), `CommandsAssumption` (commands are well formed), `JobsAssumption`
(so are jobs and what files hold), `LowerAssumption` and `TreesAssumption`
(statements are well formed), `ScriptsAssumption` (scripts are sequences of
tokens), `NestingAssumption`, `ExprsAssumption` and `FloatsAssumption` (see
*Predicate and Folding*) and `RowsAssumption` (there is a row). A statement's line is at least 1 there: that is how the splitter
counts, by its own `TypeCorrect`.

*Review.* `TypeCorrect`, then the inductive invariant `IInv`: types, numbering
(`FindingsPointBack`) and `LoopInvariants`. None of the end-to-end properties is
inductive. `StrictestWins` relates the exit code to the inputs, two loops and a
renumbering away; in between, `NoneInvented` and `NoneLost` say that the
gathered statements are exactly those of the inputs taken, `AnalyzeLoop` that
the results under way follow the statements, and `AggregateLoop` that the
accumulator is exact for what has been passed (`Seen`). Each has a step lemma
with one case per action. `Strictest`, `NothingOnError`, `PointBack` and
`CountsAgree` follow from `IInv` at the last step.

*Rules.* `OnePass` says that the recursion of `Check`, which removes duplicates
at every return, answers what one pass over the whole text would. Its inductive
invariant is `CheckInvariant`: the calls are a path from the root
(`CallsAreAPath`) that goes forward (`GoesForward`), and each call has gathered
exactly what one pass finds from its statement up to where it is
(`GatheredSoFar`). Without the path a return could not be matched with the
stretch of text that its caller has yet to cover. The algebra is two lemmas: one
pass over two adjoining stretches is a pass over the first and what the second
adds, and removing duplicates adds one part at a time. `NothingLost` rests
besides on two facts about rules and messages: each has a first position in the
text (`FirstPosition`), and one statement has at most one finding for each
(`OneOfEachKey`). `PolicyDecides` and `StrictestOtherwise` rest on
`DecidedByPolicy`: a finding's decision is a function of its rule and the
policy, that of incomplete analysis apart.

*Gate.* `Refines` says that `Review` implements `Gate`: initial states map to
initial states, and every step to a step of `Gate` or a stutter. All steps but
the failing ones and `printAndExit` stutter. What `printAndExit` prints must be
`ReportOf(cmd)`, which `Gate` defines at one stroke over all statements of all
inputs, so the invariant `GateInv` follows the loops on the way there: the
statements gathered are exactly those of the inputs taken (`Gathered`: as many,
and at each position the one that `Gate` has there, numbered), and decision,
severity and counts are exactly those of the findings passed (`Aggregated`, by
cardinality of the set of places seen). `AggregateFinding` adds one place to
that set, `AggregateStatement` none. `GateInvariance` is that invariant;
`ReportIsTheGates` its last step. The fairness of `Gate` is left to TLC.

*SARIF.* `ShownAsDecided` and `SarifBacks` rest on the same facts about any
command, in `AnswerLemmas`. SARIF is a concatenation of the results of each
statement, and the report counts places <<statement, finding>>. There are as many
results as places, and as many of each level as places whose decision has that
level (`SarifIs`, by a bijection, `FlattenSpots` in `SequenceLemmas`), so
that errors are counted like blocks and warnings like warnings (`LevelsAre`).
A result is at its statement, which is in one of the inputs (`LocationsAre`,
`AllStatementsAre`). In `Review` the invariant `Answered` adds that a printed
report is `ReportOf(cmd)` and the exit code its decision's.

*Action.* None of the three properties is inductive: they speak of the end of a
job whose runs are long over. The invariant `IInv` says what there is on the way.
`Process` is `Gate`'s promise for the run under way: exit code and report are
those of what it read. `Stage` says what has been set at each step and that from the
download on the release is `Trusted`. `Truth` is that each exit code kept is
`Backed` by a run that was heard, since `Reconciled` picks one of the two.
`Steady` is about the time before the first change: every run is on the same
files, so each code kept is 1 or the one `Due`, the JSON has the files' `Verdict`
and the SARIF is theirs, and a job that has ended is `Ended` by these. `Change`
keeps all of it, because it makes `Steady` say nothing more, a run that has
ended is past being changed, and one that has not has promised nothing yet.
TLC checked the parts of `IInv` on run `action`'s instance beforehand.

*Tightening.* Both checks are behaviours of `Rules` (`EachSteps`), so that the
theorems about `Rules` hold of each, of the second one through an instance of
`RulesProofs` itself. By `OnePass`, each answer is what one pass finds under its
policy, and it is enough to compare the findings of one statement: every rule
that fires under the first policy fires under the second (`RuleStillFires`),
though it may be about another role, with a decision as strict. For an
incomplete analysis the decision is raised in both or is a block to begin with
(`IncompleteStillFires`, which needs that the second policy was validated).

*Splitter.* `StaysInStep` and `LinesAreExact` hold for scripts of any length
over any characters. The invariant is `Place`: the current segment is the
stretch of the text that ends at the place and begins after a semicolon or at
the start, the line is one more than the newlines before the place, and a
segment that has a character other than a space has started, at the line of
the first of these. `Rest` adds that a dollar tag is there in that mode only and
has no newline, without which skipping one would miss a line. `readDollarTag`
and the start of a segment are least positions, for which `SequenceLemmas` has
the facts (`MinIsLeast`).

`SplitsRight` says that a well-formed script of any length becomes its
statements. The property speaks of the end of the scan alone and is not
inductive; `InStep` and `SegmentLineExact` do not help, for they hold of any
text. The invariant is `Inv /\ Known`, and `Known` relates the scan to the tokens. It
is p characters into the token t (`Reads`); in a comment or a string it is
`Inside`: the mode and the dollar tag are the token's, there is room for its
end, and the quotes passed are even in number, so that the next is not half
of a doubled one. The current segment is what has been read of the piece behind
a cut c, and the segments made are the statements of the pieces before it
(`Gathers`). `TokenMoves` shows, by a lemma for each action, that a step which
writes characters goes on inside the token or ends exactly where it ends
(`Ends`, `GoesOn`): outside of comments and strings, what the scan sees tells
what token it stands at (`LooseSees`, `BeginSeen`), which is where `Merges` is
needed. `MovesKeep` takes that to the segment. `SemicolonKnown` and `EndKnown`
are the steps that make a segment; there `SegmentIsExpected` gives its text and
its line from `Place`, and `OneMoreStatement` its number. That the text of a
piece is a part of the script's text, and that each character is one of a token,
are lemmas about concatenations (`TextOfPart`, `TokenAt`). TLC checked `Known` on
scripts of up to 3 tokens beforehand.

*The two readers.* `ReadersInAgreement` is about any characters, so the tokens of
the script are of no help. What the readers share is that each goes past a
string, a quoted name, a dollar-quoted string or a comment at once (`Unit`); the
splitter takes any other character by itself, where the tokenizer goes past whole
words. The invariant says that the splitter has come to its place from piece to
piece (`Chain`), the last of which may be open, and that one of them is neither a
space nor a comment if the segment has content (`Pieces`, with a lemma for each
action). When the segment is made, spaces are trimmed from its ends: that
cuts through no piece but a comment up to the end of its line
(`UnitWithin`, `InnerPiece`). The tokenizer then goes from piece to piece as well
(`PiecesRead`): past each at once by `UnitRead`, or past the characters of a word,
which are pieces all (`WordRead`). Hence it meets no open end, each of its tokens
begins a piece, which no semicolon does, and one is there or has in it what
counted as content (`TokenThere`). `lexemes`, the places the tokenizer comes to,
is a recursive function along the text; that there is one, and what it reaches, is
proved first (`FollowsExists`, `LexemesReached`).

*Folding.* That a recursive function over `Exprs` is what its definition says is
itself to be proved: there is one on the expressions nested less deep than n,
for every n (`UpToExists`), any two agree where both are defined (`UpToAgree`),
and so there is one on all (`StepsExist`), for the folding and for SQL's value
alike. What is proved of expressions is `ExprSound`: in a clause that is read as
it is meant, each folds to *unknown* or to its value in every row, by induction
on the depth, from `NodeSound`, one operator at a time. Two of them are hard. AND
and OR return at the first operand that decides, and the value does not depend
on the order (`BoolExprSound`). Numbers are compared as texts, and a number folds
to the text of a numeral that occurs in the clause, so that what `ToldApart` says
of the numerals of the clause is what is needed (`TextsApart`, `OpSound`); that a
value keeps its kind on the way up (`Kinds`) rests on `KeepsKind`. `Rounding`
needs none of this: of any two integers the nearest floats are in the same order
or equal (`OrderKept`), whichever is taken where two are as near, and formatting
a float and reading it back changes nothing (`FloatKept`). The clause and the
flags are joined by `Fields`, which computes what the two steps set, and the
invariant `Classified`, a lemma.

Model-checked only: liveness; `TokensAreContents`, which is about the tokens of
`MCSplitter`, each of them one for `tokenizeSQL`, too (for a well-formed script in
general it is not so: `x-1` can be a token of a script and is three to it); and
everything about the extraction, the core parser and their
composition (runs `sources` and `analysis`), whose operators recurse over syntax
trees and are `RECURSIVE`, which the prover does not take. Where the induction is
over positions, the proofs argue by a least counterexample (`LeastNat`), or show
that a set of positions has them all (`UpToNat`), instead.

## Findings

`StrictestOfStatement` states what the comment of `analyzer.Aggregate`
(`internal/analyzer/analyzer.go:56`) and the help of `review-files`
(`cmd/dbguard/main.go:86`) say, *strictest wins*, of one statement. TLC finds it
violated. For

    WITH d AS (DELETE FROM users WHERE <cannot be classified> RETURNING *)
    SELECT count(*) FROM d

the enclosing SELECT takes over the reason `predicate_classification_unknown`
and comes first, with a warning; the DELETE's own finding is raised to *block*,
has the same rule and message, and is dropped as a duplicate
(`internal/rules/rules.go:409`). The verdict is *warn*; the same DELETE alone
gets *block*. `StrictestOtherwise` shows, and its theorem proves for every
statement, that this rule is the only one affected. `WHERE NULL` is such a
condition.

`CteScopesKept`, that full mode finds the tables of common table expressions and
subqueries (`README.md:50`). The map of names is shared with subqueries, which
add theirs to it. In

    WITH x AS (SELECT id FROM logs)
    SELECT * FROM (WITH users AS (SELECT id FROM logs) SELECT * FROM x) s, users

the last `users` is a table and is skipped, in an analysis called complete. The
property does not ask about names that differ in capitals only, which the
extraction takes for the same, nor about statements that write.
`ReadsResolved` shows that nothing but such equal names goes wrong.

`SingleStatementSegments`, that a segment holds a single statement, which the full
build checks (`internal/parser/parse_cgo.go:27`). To the splitter a dollar sign
begins a dollar quote wherever it stands (`internal/parser/parse_shared.go:138`);
the tokenizer and PostgreSQL take it for a part of the word it goes on. TLC finds
`x$$;x$$`, two statements of one word each, to be one segment. The full build
refuses such a file; the core build reads the tokens of both statements as one.

`CompleteMeansAll`, that *complete* means complete (`internal/parser/model.go:153`),
and that full mode finds `VALUES ((SELECT ...))` sources (`README.md:63`): the
extraction does not look at VALUES lists, and subqueries under CASE, COALESCE
and other expressions without a case of their own, in the WHERE of DELETE and
UPDATE, and in SET, RETURNING, GROUP BY, HAVING and ORDER BY are not visited
and nothing says so.

`ParityOfFindings`, that core and full find the same where the capability matrix
says so (`audit/CORE_FULL_CAPABILITY_MATRIX.md:24`). ALTER TABLE users DROP id is
one way of writing DROP COLUMN id; the core parser asks for the word COLUMN
(`internal/parser/parse_shared.go:367`) and reports nothing. It holds for the
styles with the word and without aliases (run `analysis`).

`SarifWhenPassing`, that the output `sarif-file` is the path of a generated file
(`action.yml:43`). If it cannot be opened, the SARIF run does not start and counts
as code 1; if the JSON run then warns, its code 2 replaces the 1 and the job
passes without the file (`action.yml:203`).

The models have the following too, without a run of its own.

Numbers are tested for equality as texts (`internal/parser/predicate_cgo.go:338`),
and from a million on a decimal has another text than an integer: `WHERE 1000000 =
1000000.0` is true of every row, folds to false, and passes for a real condition
in an analysis called complete, where `audit/CORE_FULL_CAPABILITY_MATRIX.md:9`
lists such tautologies as folded. Beyond 2^53, where floats become equal,
`9007199254740993 > 9007199254740992` folds to false and
`9007199254740993 = 9007199254740992` to true. That is what `ToldApart` excepts.
`OrderSurvivesRounding` shows, and its theorem proves for all numbers, that no
comparison by order is ever turned around.

ALTER DEFAULT PRIVILEGES ... REVOKE ... FROM PUBLIC is reviewed as a grant
(`internal/parser/ast_extract_cgo.go:251`), though `README.md:62` says that
revocations are allowed. Of the others `ParityOfFindings` shows that the two builds
take them alike.

In the core parser, in a target list,
`a IS DISTINCT FROM b` makes b the table read; `count(*)` and `a * b` count as
reading every column; the arms of a UNION after the first are not read; ALTER
DEFAULT PRIVILEGES with PUBLIC anywhere is a grant to it; `TRUNCATE a, ONLY b`
loses b and `DROP SCHEMA a, b` the second; statements on several objects have
the last one as their table in core and the first in full; an alias in the FROM
list of INSERT ... SELECT ends the list. DO blocks and CREATE FUNCTION are
refused in core, where `README.md:55` speaks of a warning.

## Not modelled, and why

*Outside the program's logic*: flag parsing, reading files, YAML, libpg_query and
the release automation. The models take their outcomes as inputs, so that every
outcome is met at every place it can occur. That the policy file is checked
and then read by path (`internal/policy/load.go:28`) is a matter of the file
system between two calls, which no state of the program shows.

*Texts*: messages, titles, the human report, the rule list of SARIF. Only what
tells two findings apart is kept.

*PostgreSQL's conversions*: fractions, and casts to types with a length or a
precision, which cut a value; comparisons of a text with a number, which
PostgreSQL reads as one and the folding leaves unknown. Casts to another kind of
values (`'t'::boolean`, `1::boolean`), which the code takes for no change, are
modelled, but the properties are not about clauses that have one of a constant.
Characters have no encoding;
escapes in `E'...'` strings and nested block comments, which neither reader knows,
have no reference here to compare with.

*The Action's environment*: the runner's format of outputs (a path that is called
`EOF` would end the list of paths early) and the network.

*The benchmark harness*: a development tool which runs the program on labelled
cases one after the other, with no state that survives a case; its metrics are
ratios of counts, which its unit tests compare with their definitions.

No property is stated of `SelectAll` of a set operation, which is that of its
last arm: no document says what it should be.

## What could come next

The pipeline from the text to the conclusion of the CI job is modelled. What
`Splitter`, `Rules`, `Tightening`, `Review`, `Gate`, `Folding` and `ReviewAction`
promise is proved, liveness apart; from the syntax tree to the statement it is
model-checked. Left is the benchmark harness.
