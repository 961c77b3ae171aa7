-------------------------------- MODULE Rules -------------------------------
(***************************************************************************)
(* rules.Check of internal/rules/rules.go: what the rules say of one       *)
(* statement and of everything nested in it, under one policy.             *)
(*                                                                         *)
(* Check calls itself for each nested statement and removes duplicates at  *)
(* every return.  Its call stack is state here, one frame per call under   *)
(* way, and each call, nested call and return is a step.                   *)
(***************************************************************************)
EXTENDS Policy, FiniteSets

CONSTANTS
  Reasons,    (* The reasons the parsers give for incompleteness.          *)
  Trees,      (* The statements considered, with what is nested in them.   *)
  Policies    (* The policies considered.                                  *)

VARIABLES
  tree,       (* The statement reviewed is tree[1].                        *)
  policy,     (* The policy in force.                                      *)
  pc,         (* "policy", then "check", then "done"; or "rejected".       *)
  stack,      (* The calls of Check under way, the outermost first.        *)
  answer      (* What the outermost call returned.                         *)

vars == <<tree, policy, pc, stack, answer>>

(***************************************************************************)
(* Statements.  A tree is the sequence of a statement and all those nested *)
(* in it, each before the ones nested in it: nested holds the positions of *)
(* its children and last is the position of its last descendant.           *)
(***************************************************************************)
StmtTypes ==
  {"DELETE", "UPDATE", "DROP_TABLE", "DROP_SCHEMA", "DROP_DATABASE", "ALTER_TABLE",
   "ALTER_TABLE_DROP_COLUMN", "ALTER_DEFAULT_PRIVILEGES", "SELECT", "INSERT",
   "GRANT", "REVOKE", "TRUNCATE", "COPY", "OTHER"}

Relation == [schema : Name, name : Name, role : {"read", "write", "target"}]

Statement ==
  [type : StmtTypes, relations : SUBSET Relation, table : Name, schema : Name,
   completeness : {"complete", "partial", "unsupported"}, reasons : Seq(Reasons),
   hasWhere : BOOLEAN, whereTrivial : BOOLEAN, hasLimit : BOOLEAN, selectAll : BOOLEAN,
   dropColumn : BOOLEAN, dropConstraint : BOOLEAN, dropNotNull : BOOLEAN,
   copyToStdout : BOOLEAN, copyToProgram : BOOLEAN, isGrantToPublic : BOOLEAN,
   isRoleMembershipGrant : BOOLEAN, grantedRoles : SUBSET Identifiers,
   nested : Seq(Nat), last : Nat]

Preorder(t) ==
  /\ t # << >> /\ t[1].last = Len(t)
  /\ \A k \in DOMAIN t :
       LET kids == t[k].nested
       IN  /\ kids = << >> => t[k].last = k
           /\ kids # << >> => /\ kids[1] = k + 1
                              /\ t[k].last = t[kids[Len(kids)]].last
           /\ \A i \in DOMAIN kids : /\ kids[i] \in DOMAIN t /\ t[kids[i]].last >= kids[i]
                                     /\ i > 1 => kids[i] = t[kids[i - 1]].last + 1

ASSUME TreesAssumption == \A t \in Trees : t \in Seq(Statement) /\ Preorder(t)

QualifiedName(rel) == rel.schema \o rel.name

ReadRelations(stmt)     == {r \in stmt.relations : r.role = "read"}
TargetRelations(stmt)   == {r \in stmt.relations : r.role = "target"}
MutationRelations(stmt) == {r \in stmt.relations : r.role \in {"write", "target"}}

-----------------------------------------------------------------------------
(***************************************************************************)
(* The rules.  A finding's message is its rule and what it is about: a     *)
(* name, a role, or the reasons of an incomplete analysis.                 *)
(***************************************************************************)
Finding(rule, about, decision) ==
  [rule |-> rule, about |-> about, decision |-> decision, severity |-> catalog[rule][1]]

(* The rules that look at the statement alone.                             *)
fires(stmt) ==
  [ delete_without_where |-> stmt.type = "DELETE" /\ ~stmt.hasWhere,
    delete_trivial_where |-> stmt.type = "DELETE" /\ stmt.whereTrivial,
    update_without_where |-> stmt.type = "UPDATE" /\ ~stmt.hasWhere,
    update_trivial_where |-> stmt.type = "UPDATE" /\ stmt.whereTrivial,
    drop_table     |-> stmt.type = "DROP_TABLE",
    drop_schema    |-> stmt.type = "DROP_SCHEMA",
    drop_database  |-> stmt.type = "DROP_DATABASE",
    drop_column    |-> stmt.type = "ALTER_TABLE_DROP_COLUMN" \/ stmt.dropColumn,
    alter_table_drop_not_null_or_constraint |->
      /\ stmt.dropConstraint \/ stmt.dropNotNull
      /\ stmt.type \in {"ALTER_TABLE", "ALTER_TABLE_DROP_COLUMN"},
    truncate_table |-> stmt.type = "TRUNCATE",
    alter_default_privileges_public |->
      stmt.type = "ALTER_DEFAULT_PRIVILEGES" /\ stmt.isGrantToPublic ]

checkStatementAlone(stmt, p) ==
  {Finding(r, << >>, RuleDecision(p, r)) :
     r \in {x \in DOMAIN fires(stmt) : fires(stmt)[x]}}

(* The protected names among some relations of the statement, or its table *)
(* when it has no relations at all.                                        *)
protectedNames(stmt, p, relations) ==
  {name \in {QualifiedName(r) : r \in relations}
              \cup (IF stmt.relations = {} THEN {stmt.table} ELSE {}) :
     IsProtectedTable(p, name)}

protectedMutationNames(stmt, p) == protectedNames(stmt, p, MutationRelations(stmt))
protectedReadNames(stmt, p)     == protectedNames(stmt, p, ReadRelations(stmt))

About(rule, names, p) == {Finding(rule, name, RuleDecision(p, rule)) : name \in names}

MutatingTypes == {"DELETE", "UPDATE", "DROP_TABLE", "ALTER_TABLE",
                  "ALTER_TABLE_DROP_COLUMN", "INSERT", "TRUNCATE"}

checkWritesToProtectedTables(stmt, p) ==
  IF stmt.type \in MutatingTypes
  THEN About("writes_to_protected_tables", protectedMutationNames(stmt, p), p) ELSE {}

checkReadsOfProtectedTables(stmt, p) ==
  LET readBy == [ select_all_from_protected_table |-> stmt.type = "SELECT" /\ stmt.selectAll,
                  select_without_limit_from_protected_table |->
                    stmt.type = "SELECT" /\ ~stmt.hasLimit,
                  insert_select_from_protected_table |-> stmt.type = "INSERT",
                  copy_to_stdout_or_program_from_protected_source |->
                    stmt.type = "COPY" /\ (stmt.copyToStdout \/ stmt.copyToProgram) ]
  IN  UNION {About(r, protectedReadNames(stmt, p), p) :
               r \in {x \in DOMAIN readBy : readBy[x]}}

checkGrantToPublicOnProtectedObjects(stmt, p) ==
  LET named == {QualifiedName(r) : r \in TargetRelations(stmt)}
                 \cup {r.schema : r \in {x \in TargetRelations(stmt) :
                                           IsProtectedSchema(p, x.schema)}}
                 \cup (IF stmt.relations = {} THEN {stmt.table} ELSE {})
                 \cup {stmt.schema}
  IN  IF stmt.type = "GRANT" /\ stmt.isGrantToPublic /\ ~stmt.isRoleMembershipGrant
      THEN About("grant_to_public_on_protected_objects",
                 {n \in named : IsProtectedTable(p, n) \/ IsProtectedSchema(p, n)}, p)
      ELSE {}

highRiskBuiltinRoles ==
  {"pg_execute_server_program", "pg_monitor", "pg_read_all_data", "pg_read_server_files",
   "pg_signal_backend", "pg_write_all_data", "pg_write_server_files"}

(* One finding, about the first such role in the order of strings; which   *)
(* one that is does not matter here.                                       *)
checkGrantHighRiskRoleMembership(stmt, p) ==
  LET risky == {r \in stmt.grantedRoles :
                  IsProtectedRole(p, r) \/ r \in highRiskBuiltinRoles}
  IN  IF stmt.type = "GRANT" /\ stmt.isRoleMembershipGrant /\ risky # {}
      THEN About("grant_high_risk_role_membership", {<<CHOOSE r \in risky : TRUE>>}, p)
      ELSE {}

actionableIncompleteReasons(reasons) ==
  FlattenSeq([i \in DOMAIN reasons |->
    IF reasons[i] = "core_mode_token_parser" THEN << >> ELSE <<reasons[i]>>])

(* The reasons that hold "relation", "from_item", "unsupported" or         *)
(* "predicate_classification_unknown".                                     *)
EscalatingReasons ==
  {"unsupported_from_item", "unrecognized_from_item", "predicate_classification_unknown",
   "unsupported_statement_type", "unsupported_drop_object_type",
   "unsupported_statement_in_core_mode", "truncate_unrecognized_relation_node"}

shouldEscalateIncomplete(stmt) ==
  /\ stmt.completeness \in {"partial", "unsupported"}
  /\ stmt.type \in MutatingTypes
  /\ \/ \E i \in DOMAIN stmt.reasons : stmt.reasons[i] \in EscalatingReasons
     \/ stmt.completeness = "unsupported"

(* Mutant: a warning the policy asks for is left a warning.                *)
checkSemanticAnalysisIncomplete_AsAsked(stmt, p) ==
  LET rule    == "semantic_analysis_incomplete"
      reasons == actionableIncompleteReasons(stmt.reasons)
      set     == RuleDecision(p, rule)
      raised  == /\ set = "warn" /\ shouldEscalateIncomplete(stmt)
                 /\ rule \notin DOMAIN p.rules
  IN  IF stmt.completeness \in {"partial", "unsupported"} /\ reasons # << >>
      THEN {Finding(rule, <<stmt.completeness>> \o reasons, IF raised THEN "block" ELSE set)}
      ELSE {}

checkSemanticAnalysisIncomplete(stmt, p) ==
  LET rule    == "semantic_analysis_incomplete"
      reasons == actionableIncompleteReasons(stmt.reasons)
      set     == RuleDecision(p, rule)
      warns   == rule \in DOMAIN p.rules => p.rules[rule] \in {"", "warn"}
      raised  == set = "warn" /\ shouldEscalateIncomplete(stmt) /\ warns
  IN  IF stmt.completeness \in {"partial", "unsupported"} /\ reasons # << >>
      THEN {Finding(rule, <<stmt.completeness>> \o reasons, IF raised THEN "block" ELSE set)}
      ELSE {}

checkOne(stmt, p) ==
  checkStatementAlone(stmt, p)
    \cup checkGrantHighRiskRoleMembership(stmt, p)
    \cup checkGrantToPublicOnProtectedObjects(stmt, p)
    \cup checkReadsOfProtectedTables(stmt, p)
    \cup checkWritesToProtectedTables(stmt, p)
    \cup checkSemanticAnalysisIncomplete(stmt, p)

-----------------------------------------------------------------------------
(***************************************************************************)
(* Check.  Its out is the findings of the statement itself followed by     *)
(* what each nested call returned.  Each of these parts has one finding    *)
(* per rule and message and is taken as a set, for dedupeFindings sorts.   *)
(***************************************************************************)
Key(finding) == <<finding.rule, finding.about>>
Keys(findings) == {Key(x) : x \in findings}

(* Mutants: the last one stays; and one finding of each rule stays.        *)
dedupeFindings_Last(out) ==
  UNION {{x \in out[i] : \A h \in (i + 1)..Len(out) : Key(x) \notin Keys(out[h])} :
           i \in DOMAIN out}

dedupeFindings_ByRule(out) ==
  UNION {{x \in out[i] : \A h \in 1..(i - 1) : \A y \in out[h] : y.rule # x.rule} :
           i \in DOMAIN out}

(* The first finding of each rule and message stays.                       *)
dedupeFindings(out) ==
  UNION {{x \in out[i] : \A h \in 1..(i - 1) : Key(x) \notin Keys(out[h])} :
           i \in DOMAIN out}

(* A call of Check on the statement at position k has run checkOne.        *)
Call(k) == [at |-> k, next |-> 1, out |-> <<checkOne(tree[k], policy)>>]

top      == stack[Len(stack)]
children == tree[top.at].nested

Init ==
  /\ tree \in Trees
  /\ policy \in Policies
  /\ pc = "policy"
  /\ stack = << >>
  /\ answer = {}

LoadPolicy ==
  /\ pc = "policy"
  /\ \/ Validate(policy) /\ pc' = "check" /\ stack' = <<Call(1)>>
     \/ ~Validate(policy) /\ pc' = "rejected" /\ UNCHANGED stack
  /\ UNCHANGED <<tree, policy, answer>>

(* Mutant: every other nested statement is passed over.                    *)
CheckNested_EveryOther ==
  /\ pc = "check" /\ top.next <= Len(children)
  /\ stack' = Append([stack EXCEPT ![Len(stack)].next = @ + 2], Call(children[top.next]))
  /\ UNCHANGED <<tree, policy, pc, answer>>

CheckNested ==
  /\ pc = "check" /\ top.next <= Len(children)
  /\ stack' = Append([stack EXCEPT ![Len(stack)].next = @ + 1], Call(children[top.next]))
  /\ UNCHANGED <<tree, policy, pc, answer>>

(* Mutant: what the nested call returns is dropped.                        *)
ReturnToCaller_Drops ==
  /\ pc = "check" /\ top.next > Len(children) /\ Len(stack) > 1
  /\ stack' = Front(stack)
  /\ UNCHANGED <<tree, policy, pc, answer>>

ReturnToCaller ==
  /\ pc = "check" /\ top.next > Len(children) /\ Len(stack) > 1
  /\ stack' = [Front(stack) EXCEPT ![Len(stack) - 1].out =
                 Append(@, dedupeFindings(top.out))]
  /\ UNCHANGED <<tree, policy, pc, answer>>

Return ==
  /\ pc = "check" /\ top.next > Len(children) /\ Len(stack) = 1
  /\ stack' = << >>
  /\ answer' = dedupeFindings(top.out)
  /\ pc' = "done"
  /\ UNCHANGED <<tree, policy>>

Done == pc \in {"rejected", "done"} /\ UNCHANGED vars

Next == LoadPolicy \/ CheckNested \/ ReturnToCaller \/ Return \/ Done

Spec == Init /\ [][Next]_vars

-----------------------------------------------------------------------------
(***************************************************************************)
(* Properties.                                                             *)
(***************************************************************************)
FindingType == [rule : RuleIds, decision : Decisions, severity : Severities,
                about : Name \cup Seq(Reasons \cup {"partial", "unsupported"})]

(* Every variable has its type; each call is at a statement of the tree,   *)
(* among whose children its place is.                                      *)
TypeOK ==
  /\ tree \in Seq(Statement) /\ Preorder(tree)
  /\ pc \in {"policy", "check", "done", "rejected"}
  /\ pc = "check" <=> stack # << >>
  /\ \A d \in DOMAIN stack : /\ stack[d].at \in DOMAIN tree
                             /\ stack[d].next \in 1..(Len(tree[stack[d].at].nested) + 1)
                             /\ \A i \in DOMAIN stack[d].out :
                                  stack[d].out[i] \subseteq FindingType
  /\ answer \subseteq FindingType

(* What a single pass over the statements from position a to position b    *)
(* finds, when the first finding of each rule and message stays.           *)
FirstFound(a, b) ==
  UNION {{x \in checkOne(tree[k], policy) :
            \A h \in a..(k - 1) : Key(x) \notin Keys(checkOne(tree[h], policy))} : k \in a..b}

(* Check looks at every statement nested at any depth exactly once, in the *)
(* order of the text, and removing the duplicates at every return amounts  *)
(* to removing them once.                                                  *)
OnePass == pc = "done" => answer = FirstFound(1, Len(tree))

(* Nothing a statement violates goes unreported: each rule and message     *)
(* found anywhere in the statement is in the answer, once.                 *)
NothingLost ==
  pc = "done" =>
    /\ Keys(answer) = UNION {Keys(checkOne(tree[k], policy)) : k \in DOMAIN tree}
    /\ \A x, y \in answer : Key(x) = Key(y) => x = y

(* The position up to which the call at depth d has been: its own          *)
(* statement, or all that is nested in the last one it has asked about.    *)
UpTo(d) == IF d = Len(stack)
           THEN IF top.next = 1 THEN top.at ELSE tree[children[top.next - 1]].last
           ELSE stack[d + 1].at - 1

(* The calls under way are a path from the root.                           *)
CallsAreAPath ==
  /\ stack # << >> => stack[1].at = 1
  /\ \A d \in 2..Len(stack) :
       /\ stack[d - 1].next > 1
       /\ stack[d].at = tree[stack[d - 1].at].nested[stack[d - 1].next - 1]

GoesForward == \A d \in DOMAIN stack : UpTo(d) >= stack[d].at

(* Each call has gathered exactly what one pass finds from its statement   *)
(* up to where it is.                                                      *)
GatheredSoFar ==
  \A d \in DOMAIN stack : dedupeFindings(stack[d].out) = FirstFound(stack[d].at, UpTo(d))

(* A policy in force was validated.                                        *)
PolicyInForce == pc \in {"check", "done"} => Validate(policy)

(* What makes Check right, call by call: under a validated policy, the     *)
(* calls under way are a path from the root going forward in the text, and *)
(* each has gathered what one pass finds up to where it is.                *)
CheckInvariant == PolicyInForce /\ CallsAreAPath /\ GoesForward /\ GatheredSoFar

(* The policy file decides: the decision of a finding is the one the file  *)
(* gives its rule, whatever the statement, and the catalog's only when the *)
(* file gives none; an incomplete analysis of a mutation may turn a        *)
(* warning into a block, and nothing else differs.                         *)
PolicyDecides ==
  \A x \in answer :
    LET set == IF x.rule \in DOMAIN policy.rules THEN policy.rules[x.rule]
                                                 ELSE catalog[x.rule][2]
    IN  \/ x.decision = set
        \/ x.rule = "semantic_analysis_incomplete" /\ set = "warn" /\ x.decision = "block"

(* The answer is as strict as the strictest finding of any statement       *)
(* nested anywhere, whatever the rule, except that of incomplete analysis. *)
StrictestOtherwise ==
  pc = "done" =>
    \A k \in DOMAIN tree : \A x \in checkOne(tree[k], policy) :
      x.rule # "semantic_analysis_incomplete" =>
        \E y \in answer : decisionStrictness[y.decision] >= decisionStrictness[x.decision]

(* Strictest wins, inside a statement too: the answer is as strict as the  *)
(* strictest finding of any statement nested in it.  The comment of        *)
(* analyzer.Aggregate and the help of review-files say that it wins; the   *)
(* code does not keep this.                                                *)
StrictestOfStatement ==
  pc = "done" =>
    \A k \in DOMAIN tree : \A x \in checkOne(tree[k], policy) : \E y \in answer :
      decisionStrictness[y.decision] >= decisionStrictness[x.decision]

=============================================================================
