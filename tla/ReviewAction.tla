---------------------------- MODULE ReviewAction ----------------------------
(***************************************************************************)
(* The GitHub Action, action.yml: it resolves the paths it is given, gets  *)
(* and verifies a release of dbguard, runs it three times on the same      *)
(* files, for SARIF, JSON and a human, and concludes from the exit codes   *)
(* of the first two and the JSON of the second.  Each run is a process of  *)
(* module Gate; the files may change at any time.                          *)
(***************************************************************************)
EXTENDS Reports, Answers

CONSTANTS
  Jobs,        (* What the Action may be given; elements of Job.           *)
  Contents,    (* What a path may hold; elements of Content.               *)
  MaxChanges   (* How often the files change while the Action runs.        *)

(* A line of sql-paths, which may be blank and may end in CR LF.           *)
Line == [path : Paths \cup {NoPath}, cr : BOOLEAN]

(* A line of checksums.txt: whether it names the asset, and its hash.      *)
Checksum == [asset : BOOLEAN, hash : {"right", "wrong", "malformed"}]

Job ==
  [lines : Seq(Line), policy : {"default", "valid", "invalid"},
   failOnWarn : BOOLEAN,
   writable : BOOLEAN,   (* Whether sarif-file can be opened for writing.  *)
   release : [published : BOOLEAN, checksums : Seq(Checksum), mode : {"full", "core"}]]

Content == [exists : BOOLEAN, readable : BOOLEAN, parses : BOOLEAN, stmts : Seq(Statement)]

ASSUME JobsAssumption ==
  Jobs \subseteq Job /\ Contents \subseteq Content /\ MaxChanges \in Nat

VARIABLES
  job,         (* What the Action is given.                                *)
  tree,        (* The files, by path.                                      *)
  changes,     (* How often they have changed.                             *)
  step,        (* Where the Action is.                                     *)
  args,        (* steps.paths.outputs.args                                 *)
  cmd, stdout, exit,   (* The run of dbguard under way (module Gate).      *)
  sarif,       (* <<results>>, or << >> while sarif-file holds no SARIF.   *)
  json,        (* <<report>>, or << >> while dbwall.json holds no JSON.    *)
  code, jcode, (* The exit codes kept, NoExit until then.                  *)
  output,      (* <<outputs of the review step>>, << >> while not set.     *)
  conclusion,  (* The exit code of the Action, NoExit until it ends.       *)
  answered     (* What the SARIF and JSON runs that succeeded decided.     *)

G == INSTANCE Gate

process == <<cmd, stdout, exit>>
files   == <<sarif, json>>
vars    == <<job, tree, changes, step, args, process, files, code, jcode,
             output, conclusion, answered>>

InputAt(p, content) ==
  [path |-> p, readable |-> content.exists /\ content.readable,
   parses |-> content.parses, stmts |-> content.stmts]

common(format) ==
  [kind |-> "files", format |-> format, policy |-> job.policy,
   inputs |-> [k \in DOMAIN args |-> InputAt(args[k], tree[args[k]])]]

Init ==
  /\ job \in Jobs
  /\ tree \in [Paths -> Contents]
  /\ changes = 0
  /\ step = "paths"
  /\ args = << >>
  /\ cmd = [kind |-> "files", format |-> "human", policy |-> "default", inputs |-> << >>]
  /\ stdout = << >> /\ exit = NoExit
  /\ sarif = << >> /\ json = << >>
  /\ code = NoExit /\ jcode = NoExit
  /\ output = << >>
  /\ conclusion = NoExit
  /\ answered = {}

Go(from, to) == step = from /\ step' = to

Conclude(from, c) == Go(from, "done") /\ conclusion' = c

-----------------------------------------------------------------------------
(* The paths of the lines that are not blank once CR is stripped.          *)
resolved(lines) ==
  FlattenSeq([k \in DOMAIN lines |->
    IF lines[k].path = NoPath THEN << >> ELSE <<lines[k].path>>])

ResolvePaths ==
  /\ LET paths   == resolved(job.lines)
         missing == \E p \in ToSet(paths) : p \notin Paths \/ ~tree[p].exists
     IN  \/ missing /\ Conclude("paths", 1) /\ UNCHANGED args
         \/ /\ ~missing
            /\ Go("paths", IF paths = << >> THEN "review" ELSE "download")
            /\ args' = paths
            /\ UNCHANGED conclusion
  /\ UNCHANGED <<job, tree, changes, process, files, code, jcode, output, answered>>

(* The first line of checksums.txt for the asset counts.                   *)
Verified(release) ==
  /\ release.published
  /\ LET entries == {k \in DOMAIN release.checksums : release.checksums[k].asset}
     IN  entries # {} /\ release.checksums[Min(entries)].hash = "right"

Download ==
  /\ LET good == Verified(job.release) /\ job.release.mode = "full"
     IN  \/ good /\ Go("download", "review") /\ UNCHANGED conclusion
         \/ ~good /\ Conclude("download", 1)
  /\ UNCHANGED <<job, tree, changes, args, process, files, code, jcode, output, answered>>

NoFiles ==
  /\ args = << >>
  /\ \/ /\ job.writable
        /\ Conclude("review", 0)
        /\ sarif' = <<<< >>>>
        /\ output' = <<[decision |-> "allow", exitCode |-> 0]>>
     \/ ~job.writable /\ Conclude("review", 1) /\ UNCHANGED <<sarif, output>>
  /\ UNCHANGED <<job, tree, changes, args, process, json, code, jcode, answered>>

-----------------------------------------------------------------------------
Start(format) ==
  /\ cmd' = common(format)
  /\ stdout' = << >>
  /\ exit' = NoExit

(* What the run under way prints and exits with.                           *)
Dbguard ==
  /\ step \in {"sarif", "json", "human"}
  /\ G!Next
  /\ UNCHANGED <<job, tree, changes, step, args, files, code, jcode, output,
                 conclusion, answered>>

Heard ==
  IF exit = ExitError THEN answered
  ELSE answered \cup {StrictestDecision(AllStatements(cmd))}

(* Mutant: without a file for the SARIF, its run does not count.           *)
RunSarif_NoCode ==
  /\ args # << >>
  /\ \/ job.writable /\ Go("review", "sarif") /\ Start("sarif") /\ UNCHANGED code
     \/ ~job.writable /\ Go("review", "json") /\ Start("json") /\ code' = 0
  /\ UNCHANGED <<job, tree, changes, args, files, jcode, output, conclusion, answered>>

(* If sarif-file cannot be opened, dbguard is not run and $? is 1.         *)
RunSarif ==
  /\ args # << >>
  /\ \/ job.writable /\ Go("review", "sarif") /\ Start("sarif") /\ UNCHANGED code
     \/ ~job.writable /\ Go("review", "json") /\ Start("json") /\ code' = 1
  /\ UNCHANGED <<job, tree, changes, args, files, jcode, output, conclusion, answered>>

RunJson ==
  /\ Go("sarif", "json")
  /\ exit # NoExit
  /\ code' = exit
  /\ sarif' = [k \in DOMAIN stdout |-> SARIF(stdout[k])]
  /\ answered' = Heard
  /\ Start("json")
  /\ UNCHANGED <<job, tree, changes, args, json, jcode, output, conclusion>>

(* Mutant: a run that leaves no JSON is started again.                     *)
RunHuman_Retries ==
  /\ step = "json" /\ exit # NoExit
  /\ \/ stdout # << >> /\ step' = "human" /\ Start("human")
     \/ stdout = << >> /\ UNCHANGED step /\ Start("json")
  /\ jcode' = exit
  /\ json' = [k \in DOMAIN stdout |-> JSON(stdout[k])]
  /\ answered' = Heard
  /\ UNCHANGED <<job, tree, changes, args, sarif, code, output, conclusion>>

RunHuman ==
  /\ Go("json", "human")
  /\ exit # NoExit
  /\ jcode' = exit
  /\ json' = [k \in DOMAIN stdout |-> JSON(stdout[k])]
  /\ answered' = Heard
  /\ Start("human")
  /\ UNCHANGED <<job, tree, changes, args, sarif, code, output, conclusion>>

(* Mutant: the exit code of the SARIF run stands.                          *)
Reconciled_Never == code

(* Two failures of different kinds: that of the JSON run counts.           *)
Reconciled == IF jcode # code /\ jcode # 0 /\ code # 0 THEN jcode ELSE code

(* Mutant: a warning never fails the job.                                  *)
Failing_NeverWarns(c) == c \notin {0, 2}

Failing(c) == c \notin {0, 2} \/ (c = 2 /\ job.failOnWarn)

(* The exit code of the human run is dropped.  Without JSON the decision   *)
(* cannot be read, and set -e ends the step before it has any outputs.     *)
Outcome ==
  /\ exit # NoExit
  /\ code' = Reconciled
  /\ \/ json = << >> /\ Conclude("human", 1) /\ UNCHANGED output
     \/ /\ json # << >>
        /\ Conclude("human", IF Failing(Reconciled) THEN Reconciled ELSE 0)
        /\ output' = <<[decision |-> json[1].decision, exitCode |-> Reconciled]>>
  /\ UNCHANGED <<job, tree, changes, args, process, files, jcode, answered>>

-----------------------------------------------------------------------------
(* A file changes.  A run under way sees it or has read the file before.   *)
Change ==
  /\ step # "done" /\ changes < MaxChanges
  /\ changes' = changes + 1
  /\ \E p \in Paths, content \in Contents :
       LET unread == {k \in DOMAIN cmd.inputs : exit = NoExit /\ cmd.inputs[k].path = p}
       IN  /\ content # tree[p]
           /\ tree' = [tree EXCEPT ![p] = content]
           /\ \E seen \in SUBSET unread :
                cmd' = [cmd EXCEPT !.inputs =
                  [k \in DOMAIN @ |-> IF k \in seen THEN InputAt(p, content) ELSE @[k]]]
  /\ UNCHANGED <<job, step, args, stdout, exit, files, code, jcode, output,
                 conclusion, answered>>

Done == step = "done" /\ UNCHANGED vars

(* The steps of the job and of its processes.                              *)
Work ==
  \/ ResolvePaths \/ Download \/ NoFiles
  \/ RunSarif \/ Dbguard \/ RunJson \/ RunHuman \/ Outcome

Next == Work \/ Change \/ Done

Spec == Init /\ [][Next]_vars /\ WF_vars(Work)

-----------------------------------------------------------------------------
(***************************************************************************)
(* Properties.                                                             *)
(***************************************************************************)
Codes == {0, 1, 2, 3}

(* Every variable has its type; the runs of dbguard get well-formed        *)
(* command lines, and an exit code is kept of every run that has ended,    *)
(* the one of a SARIF run that could not start being that of a failure.    *)
TypeOK ==
  /\ job \in Jobs /\ tree \in [Paths -> Contents] /\ changes \in 0..MaxChanges
  /\ step \in {"paths", "download", "review", "sarif", "json", "human", "done"}
  /\ args \in Seq(Paths)
  /\ cmd \in Command /\ InputsOf(cmd.kind, cmd.inputs)
  /\ stdout \in Seq(Report) /\ exit \in Codes \cup {NoExit}
  /\ Len(sarif) <= 1 /\ Len(json) <= 1
  /\ code \in Codes \cup {NoExit} /\ jcode \in Codes \cup {NoExit}
  /\ step \in {"json", "human"} => code # NoExit /\ (~job.writable => code = 1)
  /\ step = "human" => jcode # NoExit
  /\ conclusion \in Codes \cup {NoExit} /\ (step = "done" <=> conclusion # NoExit)
  /\ answered \subseteq Decisions

(* Whatever happens to the files while the Action runs, its conclusion is  *)
(* one that dbguard came to on them at some time: it fails for a block or  *)
(* a warning only if a run saw one, and passes only if a run saw nothing   *)
(* against it, or there was nothing to review.  So a failure of dbguard    *)
(* never passes, nor does a release that is not verified or not full.      *)
OutcomeWasTrue ==
  /\ conclusion = 3 => "block" \in answered
  /\ conclusion = 2 => "warn" \in answered /\ job.failOnWarn
  /\ conclusion = 0 => \/ args = << >>
                       \/ "allow" \in answered
                       \/ "warn" \in answered /\ ~job.failOnWarn
  /\ answered # {} => Verified(job.release) /\ job.release.mode = "full"

(* While nothing changes, the outputs of the Action are those of a review  *)
(* of the files: its decision, and the exit code of it, unless only the    *)
(* SARIF run failed, which counts if nothing else fails the job.  Lines    *)
(* that are blank or end in CR LF make no difference, and with no file     *)
(* named, the decision is allow and the SARIF is a run of no results.      *)
OutputsAgree ==
  changes = 0 /\ step = "done" =>
    LET named == { l.path : l \in ToSet(job.lines) } \ {NoPath}
        stmts == UNION { ToSet(tree[p].stmts) : p \in named }
        found == { x.decision : x \in UNION { ToSet(st.findings) : st \in stmts } }
        strictest == IF "block" \in found THEN "block"
                     ELSE IF "warn" \in found THEN "warn" ELSE "allow"
    IN  /\ \A o \in ToSet(output) :
             /\ o.decision = strictest
             /\ o.exitCode = decisionToExit[strictest]
                  \/ (o.exitCode = 1 /\ strictest = "allow")
        /\ named = {} /\ job.writable => conclusion = 0 /\ sarif = <<<< >>>>
        /\ conclusion = 1 /\ jcode = NoExit => \/ \E p \in named : ~tree[p].exists
                                               \/ named # {} /\ ~Verified(job.release)
                                               \/ job.release.mode = "core"
                                               \/ ~job.writable

(* While nothing changes, the SARIF uploaded to code scanning backs what   *)
(* the job concludes: a job that fails for a block shows an error, one     *)
(* that fails for a warning shows a warning and no error, and one that     *)
(* passes shows no error.  All results are at one of the files.            *)
SarifBacksTheOutcome ==
  changes = 0 /\ step = "done" =>
    \A results \in ToSet(sarif) :
      LET levels == { r.level : r \in ToSet(results) }
      IN  /\ conclusion = 3 => "error" \in levels
          /\ conclusion = 2 => "warning" \in levels /\ "error" \notin levels
          /\ conclusion = 0 => "error" \notin levels
          /\ \A r \in ToSet(results) : r.locations # << >> /\ r.locations[1].path \in ToSet(args)

(* The job ends, with an exit code, whichever of its runs fail.            *)
JobEnds == <>(conclusion # NoExit)

(* The outputs say that "sarif-file" is the path to the generated SARIF    *)
(* file (action.yml:43): a job that passes leaves one.                     *)
SarifWhenPassing == conclusion = 0 => sarif # << >>

=============================================================================
