------------------------------ MODULE MCAction ------------------------------
(***************************************************************************)
(* Module ReviewAction on jobs of at most two lines and two files, each of *)
(* one statement with at most one finding.                                 *)
(***************************************************************************)
EXTENDS ReviewAction

CONSTANTS p1, p2

MCPaths == {p1, p2}

Holding(fs) == [exists |-> TRUE, readable |-> TRUE, parses |-> TRUE,
                stmts |-> <<[line |-> 1, findings |-> fs]>>]

Missing == [exists |-> FALSE, readable |-> FALSE, parses |-> FALSE, stmts |-> << >>]

MCContents ==
  {Missing, [Missing EXCEPT !.exists = TRUE, !.readable = TRUE], Holding(<< >>)}
  \cup { Holding(<<[decision |-> d, severity |-> "high"]>>) : d \in {"block", "warn"} }

(* Every command line dbguard can be given on these files.                 *)
MCCommands ==
  LET Inputs(p) == { InputAt(p, c) : c \in MCContents }
  IN  [kind : {"files"}, format : Formats, policy : {"default", "invalid"},
       inputs : { <<x>> : x \in Inputs(p1) }
                \cup { <<x, y>> : x \in Inputs(p1), y \in Inputs(p2) }]

At(p, crlf) == [path |-> p, cr |-> crlf]

MCLines == {<< >>, <<At(NoPath, TRUE)>>, <<At(p1, TRUE), At(NoPath, FALSE)>>,
            <<At(p1, FALSE), At(p2, FALSE)>>}

Full(checksums) == [published |-> TRUE, checksums |-> checksums, mode |-> "full"]
Sum(asset, hash) == [asset |-> asset, hash |-> hash]

Good == Full(<<Sum(FALSE, "wrong"), Sum(TRUE, "right")>>)

MCReleases ==
  {Good, Full(<< >>), Full(<<Sum(TRUE, "malformed"), Sum(TRUE, "right")>>),
   [Good EXCEPT !.mode = "core"], [Good EXCEPT !.published = FALSE]}

JobsWith(writable, releases) ==
  [lines : MCLines, policy : {"default", "invalid"}, failOnWarn : BOOLEAN,
   writable : writable, release : releases]

MCJobs == JobsWith(BOOLEAN, {Good}) \cup JobsWith({TRUE}, MCReleases)

(* The directory of sarif-file does not exist.                             *)
NoSarifDirectory == JobsWith({FALSE}, {Good})

=============================================================================
