------------------------------ MODULE MCReview ------------------------------
(***************************************************************************)
(* Module Review on small command lines: no file, one or two files of at   *)
(* most two statements of at most two findings each, or inline SQL.        *)
(***************************************************************************)
EXTENDS ReviewGate

CONSTANTS p1, p2

MCPaths == {p1, p2}

block == [decision |-> "block", severity |-> "medium"]
warn  == [decision |-> "warn", severity |-> "high"]
allow == [decision |-> "allow", severity |-> "critical"]

MCStatements ==
  [line : {1}, findings : {<< >>, <<warn>>, <<allow, block>>}]
  \cup [line : {3}, findings : {<<allow>>, <<block, warn>>}]

MCContents ==
  {<< >>} \cup { <<a>> : a \in MCStatements }
          \cup { <<a, b>> : a \in MCStatements, b \in MCStatements }

MCInputs(path) ==
  [path : {path}, readable : {TRUE}, parses : {TRUE}, stmts : MCContents]
  \cup [path : {path}, readable : BOOLEAN, parses : {FALSE}, stmts : {<< >>}]

MCFiles ==
  {<< >>} \cup { <<x>> : x \in MCInputs(p1) }
          \cup { <<x, y>> : x \in MCInputs(p1), y \in MCInputs(p2) }

MCSQL == { <<x>> : x \in { y \in MCInputs(NoPath) : y.readable } }

MCCommands ==
  LET Asked(kind, inputs) ==
        [kind : {kind}, format : {"human", "sarif", "other"},
         policy : {"default", "invalid"}, inputs : inputs]
  IN  Asked("files", MCFiles) \cup Asked("sql", MCSQL)

=============================================================================
