-------------------------- MODULE TighteningProofs --------------------------
(***************************************************************************)
(* Proofs about Tightening: of two policies, the tighter one never relaxes *)
(* the verdict, whatever the statement and what is nested in it.  Both     *)
(* checks are behaviours of Rules, so that what is proved of Rules holds   *)
(* of each: of the second one by the proofs' own instance.                 *)
(***************************************************************************)
EXTENDS Tightening, RulesProofs

TP == INSTANCE RulesProofs WITH policy <- policy2, stack <- stack2, answer <- answer2

-----------------------------------------------------------------------------
(***************************************************************************)
(* The rules do not depend on which check applies them.                    *)
(***************************************************************************)
(* The assumption on the trees, in the words of the second check.          *)
LEMMA TreesOfSecond == \A t \in Trees : t \in Seq(TP!Statement) /\ TP!Preorder(t)
<1>1. TP!Statement = Statement
  BY Zenon DEF TP!Statement, TP!StmtTypes, TP!Relation, TP!Name,
               Statement, StmtTypes, Relation, Name
<1>2. \A t : TP!Preorder(t) <=> Preorder(t)
  BY Zenon DEF Preorder, TP!Preorder
<1> QED
  BY <1>1, <1>2, TreesAssumption, Zenon

(* A policy is valid for the second check if it is for the first.          *)
LEMMA SameValidation == ASSUME NEW p  PROVE TP!Validate(p) <=> Validate(p)
BY Zenon DEF TP!Validate, Validate, TP!Decisions, Decisions, TP!RuleIds, RuleIds,
             TP!catalog, catalog

(* And so is a rule's decision, and what is protected.                     *)
LEMMA SameDecision == ASSUME NEW p, NEW r  PROVE TP!RuleDecision(p, r) = RuleDecision(p, r)
BY Zenon DEF TP!RuleDecision, RuleDecision, TP!Decisions, Decisions, TP!catalog, catalog

(* The names a policy protects.                                            *)
LEMMA SameProtection ==
  ASSUME NEW p
  PROVE  /\ \A name : TP!IsProtectedTable(p, name) <=> IsProtectedTable(p, name)
         /\ \A name : TP!IsProtectedSchema(p, name) <=> IsProtectedSchema(p, name)
         /\ \A role : TP!IsProtectedRole(p, role) <=> IsProtectedRole(p, role)
<1>1. \A name : TP!normalizeName(name) = normalizeName(name)
  BY Zenon DEF TP!normalizeName, normalizeName
<1>2. \A s : TP!Last(s) = Last(s) /\ TP!Front(s) = Front(s)
  BY Zenon DEF TP!Last, Last, TP!Front, Front
<1>3. \A name : TP!IsProtectedSchema(p, name) <=> IsProtectedSchema(p, name)
  BY <1>1, Zenon DEF TP!IsProtectedSchema, IsProtectedSchema
<1>4. \A name : TP!IsProtectedTable(p, name) <=> IsProtectedTable(p, name)
  BY <1>1, <1>2, <1>3, Zenon DEF TP!IsProtectedTable, IsProtectedTable
<1>5. \A role : TP!IsProtectedRole(p, role) <=> IsProtectedRole(p, role)
  BY Zenon DEF TP!IsProtectedRole, IsProtectedRole
<1> QED
  BY <1>3, <1>4, <1>5

(* What the rules find in a statement.                                     *)
LEMMA SameRules == ASSUME NEW stmt, NEW p  PROVE TP!checkOne(stmt, p) = checkOne(stmt, p)
<1>1. \A r, a, d : TP!Finding(r, a, d) = Finding(r, a, d)
  BY Zenon DEF TP!Finding, Finding, TP!catalog, catalog
<1>2. \A r, names : TP!About(r, names, p) = About(r, names, p)
  BY <1>1, SameDecision, Zenon DEF TP!About, About
<1>3. TP!checkStatementAlone(stmt, p) = checkStatementAlone(stmt, p)
  BY <1>1, SameDecision, Zenon DEF TP!checkStatementAlone, checkStatementAlone,
                                   TP!fires, fires
<1>4. TP!checkGrantHighRiskRoleMembership(stmt, p) = checkGrantHighRiskRoleMembership(stmt, p)
  BY <1>2, SameProtection, Zenon
     DEF TP!checkGrantHighRiskRoleMembership, checkGrantHighRiskRoleMembership,
         TP!highRiskBuiltinRoles, highRiskBuiltinRoles
<1>5. /\ \A rel : TP!QualifiedName(rel) = QualifiedName(rel)
      /\ TP!TargetRelations(stmt) = TargetRelations(stmt)
      /\ TP!ReadRelations(stmt) = ReadRelations(stmt)
      /\ TP!MutationRelations(stmt) = MutationRelations(stmt)
  BY Zenon DEF TP!QualifiedName, QualifiedName, TP!TargetRelations, TargetRelations,
               TP!ReadRelations, ReadRelations, TP!MutationRelations, MutationRelations
<1>6. TP!checkGrantToPublicOnProtectedObjects(stmt, p)
        = checkGrantToPublicOnProtectedObjects(stmt, p)
  <2>1. {r.schema : r \in {x \in TargetRelations(stmt) : TP!IsProtectedSchema(p, x.schema)}}
          = {r.schema : r \in {x \in TargetRelations(stmt) : IsProtectedSchema(p, x.schema)}}
    BY SameProtection
  <2>2. {TP!QualifiedName(r) : r \in TargetRelations(stmt)}
          = {QualifiedName(r) : r \in TargetRelations(stmt)}
    BY <1>5
  <2>3. \A named : {n \in named : TP!IsProtectedTable(p, n) \/ TP!IsProtectedSchema(p, n)}
                     = {n \in named : IsProtectedTable(p, n) \/ IsProtectedSchema(p, n)}
    BY SameProtection
  <2> QED
    BY <1>2, <1>5, <2>1, <2>2, <2>3, Zenon
       DEF TP!checkGrantToPublicOnProtectedObjects, checkGrantToPublicOnProtectedObjects
<1>7. \A rels : TP!protectedNames(stmt, p, rels) = protectedNames(stmt, p, rels)
  BY <1>5, SameProtection, Zenon DEF TP!protectedNames, protectedNames
<1>8. TP!checkReadsOfProtectedTables(stmt, p) = checkReadsOfProtectedTables(stmt, p)
  <2>1. \A q : TP!protectedReadNames(stmt, q) = TP!protectedNames(stmt, q, TP!ReadRelations(stmt))
    BY DEF TP!protectedReadNames
  <2>2. TP!protectedReadNames(stmt, p) = protectedReadNames(stmt, p)
    BY <1>5, <1>7, <2>1 DEF protectedReadNames
  <2>3. \A rules : {TP!About(r, protectedReadNames(stmt, p), p) : r \in rules}
                     = {About(r, protectedReadNames(stmt, p), p) : r \in rules}
    BY <1>2
  <2> QED
    BY <2>2, <2>3, Zenon DEF TP!checkReadsOfProtectedTables, checkReadsOfProtectedTables
<1>9. TP!checkWritesToProtectedTables(stmt, p) = checkWritesToProtectedTables(stmt, p)
  BY <1>2, <1>5, <1>7, Zenon
     DEF TP!checkWritesToProtectedTables, checkWritesToProtectedTables,
         TP!protectedMutationNames, protectedMutationNames, TP!MutatingTypes, MutatingTypes
<1>10. TP!checkSemanticAnalysisIncomplete(stmt, p) = checkSemanticAnalysisIncomplete(stmt, p)
  BY <1>1, SameDecision, Zenon
     DEF TP!checkSemanticAnalysisIncomplete, checkSemanticAnalysisIncomplete,
         TP!actionableIncompleteReasons, actionableIncompleteReasons,
         TP!FlattenSeq, FlattenSeq,
         TP!shouldEscalateIncomplete, shouldEscalateIncomplete,
         TP!MutatingTypes, MutatingTypes, TP!EscalatingReasons, EscalatingReasons
<1> QED
  BY <1>3, <1>4, <1>6, <1>8, <1>9, <1>10, Zenon DEF TP!checkOne, checkOne

-----------------------------------------------------------------------------
(***************************************************************************)
(* Two policies and one statement.                                         *)
(***************************************************************************)
(* A tighter policy protects what the other does.                          *)
LEMMA ProtectsAsMuch ==
  ASSUME NEW p, NEW q, NoTighter(p, q)
  PROVE  /\ \A name : IsProtectedTable(p, name) => IsProtectedTable(q, name)
         /\ \A name : IsProtectedSchema(p, name) => IsProtectedSchema(q, name)
         /\ \A role : IsProtectedRole(p, role) => IsProtectedRole(q, role)
<1>1. \A name : IsProtectedSchema(p, name) => IsProtectedSchema(q, name)
  BY DEF NoTighter, IsProtectedSchema
<1>2. \A name : IsProtectedTable(p, name) => IsProtectedTable(q, name)
  BY <1>1, Zenon DEF NoTighter, IsProtectedTable
<1>3. \A role : IsProtectedRole(p, role) => IsProtectedRole(q, role)
  BY DEF NoTighter, IsProtectedRole
<1> QED
  BY <1>1, <1>2, <1>3

(* What a rule finds under a policy it finds under a tighter one, though   *)
(* it may be about another role.                                           *)
LEMMA RuleStillFires ==
  ASSUME NEW p, NEW q, NoTighter(p, q), NEW stmt, NEW x \in checkOne(stmt, p),
         x \notin checkSemanticAnalysisIncomplete(stmt, p)
  PROVE  \E y \in checkOne(stmt, q) : y.rule = x.rule
<1> DEFINE Still(S) == \E y \in S : y.rule = x.rule
<1>1. \A rule, about, d : Finding(rule, about, d).rule = rule
  BY DEF Finding
<1>2. ASSUME NEW rule, NEW names, NEW more, x \in About(rule, names, p), names \subseteq more
      PROVE  Still(About(rule, more, q))
  BY <1>1, <1>2 DEF About
<1>3. CASE x \in checkStatementAlone(stmt, p)
  <2>1. Still(checkStatementAlone(stmt, q))
    BY <1>1, <1>3 DEF checkStatementAlone
  <2> QED
    BY <2>1 DEF checkOne
<1>4. CASE x \in checkGrantHighRiskRoleMembership(stmt, p)
  <2> DEFINE risky(r) == {role \in stmt.grantedRoles :
                            IsProtectedRole(r, role) \/ role \in highRiskBuiltinRoles}
             rule == "grant_high_risk_role_membership"
  <2>1. risky(p) \subseteq risky(q)
    BY ProtectsAsMuch
  <2>2. /\ stmt.type = "GRANT" /\ stmt.isRoleMembershipGrant /\ risky(p) # {}
        /\ \E names : x \in About(rule, names, p)
    BY <1>4, Zenon DEF checkGrantHighRiskRoleMembership
  <2>3. x.rule = rule
    BY <1>1, <2>2 DEF About
  <2>4. \E name : checkGrantHighRiskRoleMembership(stmt, q) = About(rule, {name}, q)
    BY <2>1, <2>2, Zenon DEF checkGrantHighRiskRoleMembership
  <2>5. Still(checkGrantHighRiskRoleMembership(stmt, q))
    BY <1>1, <2>3, <2>4 DEF About
  <2> QED
    BY <2>5 DEF checkOne
<1>5. CASE x \in checkGrantToPublicOnProtectedObjects(stmt, p)
  <2> DEFINE named(r) == {QualifiedName(t) : t \in TargetRelations(stmt)}
                           \cup {t.schema : t \in {u \in TargetRelations(stmt) :
                                                     IsProtectedSchema(r, u.schema)}}
                           \cup (IF stmt.relations = {} THEN {stmt.table} ELSE {})
                           \cup {stmt.schema}
             names(r) == {n \in named(r) : IsProtectedTable(r, n) \/ IsProtectedSchema(r, n)}
             rule == "grant_to_public_on_protected_objects"
  <2>1. names(p) \subseteq names(q)
    BY ProtectsAsMuch
  <2>2. x \in About(rule, names(p), p)
    BY <1>5, Zenon DEF checkGrantToPublicOnProtectedObjects
  <2>3. checkGrantToPublicOnProtectedObjects(stmt, q) = About(rule, names(q), q)
    BY <1>5, Zenon DEF checkGrantToPublicOnProtectedObjects
  <2> HIDE DEF names, named
  <2>4. Still(checkGrantToPublicOnProtectedObjects(stmt, q))
    BY <1>2, <2>1, <2>2, <2>3
  <2> QED
    BY <2>4 DEF checkOne
<1>6. \A rels : protectedNames(stmt, p, rels) \subseteq protectedNames(stmt, q, rels)
  BY ProtectsAsMuch DEF protectedNames
<1>7. CASE x \in checkReadsOfProtectedTables(stmt, p)
  <2>1. protectedReadNames(stmt, p) \subseteq protectedReadNames(stmt, q)
    BY <1>6 DEF protectedReadNames
  <2>2. \E rules : /\ checkReadsOfProtectedTables(stmt, p)
                        = UNION {About(r, protectedReadNames(stmt, p), p) : r \in rules}
                   /\ checkReadsOfProtectedTables(stmt, q)
                        = UNION {About(r, protectedReadNames(stmt, q), q) : r \in rules}
    BY Zenon DEF checkReadsOfProtectedTables
  <2>3. PICK r : /\ x \in About(r, protectedReadNames(stmt, p), p)
                 /\ \A y \in About(r, protectedReadNames(stmt, q), q) :
                      y \in checkReadsOfProtectedTables(stmt, q)
    BY <1>7, <2>2
  <2>4. Still(checkReadsOfProtectedTables(stmt, q))
    BY <1>2, <2>1, <2>3
  <2> QED
    BY <2>4 DEF checkOne
<1>8. CASE x \in checkWritesToProtectedTables(stmt, p)
  <2>1. protectedMutationNames(stmt, p) \subseteq protectedMutationNames(stmt, q)
    BY <1>6 DEF protectedMutationNames
  <2>2. Still(checkWritesToProtectedTables(stmt, q))
    BY <1>2, <1>8, <2>1 DEF checkWritesToProtectedTables
  <2> QED
    BY <2>2 DEF checkOne
<1> QED
  BY <1>3, <1>4, <1>5, <1>7, <1>8 DEF checkOne

(* The decision on an incomplete analysis is as strict under the tighter   *)
(* policy, if that one is valid: a warning that is raised to a block is    *)
(* raised there too, or is a block there to begin with.                    *)
LEMMA IncompleteStillFires ==
  ASSUME NEW p, NEW q, NoTighter(p, q), Validate(q), NEW stmt,
         NEW x \in checkSemanticAnalysisIncomplete(stmt, p)
  PROVE  \E y \in checkSemanticAnalysisIncomplete(stmt, q) :
           /\ Key(y) = Key(x)
           /\ decisionStrictness[y.decision] >= decisionStrictness[x.decision]
<1> DEFINE rule    == "semantic_analysis_incomplete"
           reasons == actionableIncompleteReasons(stmt.reasons)
           about   == <<stmt.completeness>> \o reasons
           warns(r) == rule \in DOMAIN r.rules => r.rules[rule] \in {"", "warn"}
           raised(r) == RuleDecision(r, rule) = "warn" /\ shouldEscalateIncomplete(stmt)
                        /\ warns(r)
           set(r) == IF raised(r) THEN "block" ELSE RuleDecision(r, rule)
<1>1. /\ x = Finding(rule, about, set(p))
      /\ checkSemanticAnalysisIncomplete(stmt, q) = {Finding(rule, about, set(q))}
  BY Zenon DEF checkSemanticAnalysisIncomplete
<1>2. /\ RuleDecision(p, rule) \in Decisions /\ RuleDecision(q, rule) \in Decisions
      /\ decisionStrictness[RuleDecision(p, rule)] <= decisionStrictness[RuleDecision(q, rule)]
  <2>1. rule \in RuleIds
    BY DEF RuleIds, catalog
  <2> QED
    BY <2>1, DecisionsOnly DEF NoTighter
<1>3. RuleDecision(q, rule) = "warn" => warns(q)
  BY DEF Validate, RuleDecision
<1> HIDE DEF about, warns
<1>4. decisionStrictness[set(q)] >= decisionStrictness[set(p)]
  BY <1>2, <1>3 DEF Decisions, decisionStrictness
<1> HIDE DEF set
<1>5. PICK y : y = Finding(rule, about, set(q))
  OBVIOUS
<1>6. Key(y) = Key(x) /\ x.decision = set(p) /\ y.decision = set(q)
  BY <1>1, <1>5 DEF Finding, Key
<1> QED
  BY <1>1, <1>4, <1>5, <1>6

(* Whether there is anything to say of an incomplete analysis, and what,   *)
(* does not depend on the policy.                                          *)
LEMMA SameIncompleteness ==
  ASSUME NEW p, NEW q, NEW stmt, NEW x \in checkSemanticAnalysisIncomplete(stmt, p)
  PROVE  \E y \in checkSemanticAnalysisIncomplete(stmt, q) : Key(y) = Key(x)
<1> DEFINE rule  == "semantic_analysis_incomplete"
           about == <<stmt.completeness>> \o actionableIncompleteReasons(stmt.reasons)
<1>1. PICK d, e : /\ x = Finding(rule, about, d)
                  /\ checkSemanticAnalysisIncomplete(stmt, q) = {Finding(rule, about, e)}
  BY Zenon DEF checkSemanticAnalysisIncomplete
<1> HIDE DEF about
<1> QED
  BY <1>1 DEF Finding, Key

-----------------------------------------------------------------------------
(***************************************************************************)
(* The two checks.                                                         *)
(***************************************************************************)
(* What is so of the two policies all along.                               *)
Policies2 == NoTighter(policy, policy2) /\ (Validate(policy) <=> Validate(policy2))

(* The answer of the second check is what one pass finds under its policy, *)
(* which was validated.                                                    *)
LEMMA SecondAnswer ==
  ASSUME TP!IInv, pc = "done"
  PROVE  /\ Validate(policy2)
         /\ answer2 = UNION {{x \in checkOne(tree[k], policy2) :
                                \A h \in 1..(k - 1) :
                                  Key(x) \notin Keys(checkOne(tree[h], policy2))} :
                               k \in 1..Len(tree)}
         /\ Keys(answer2) = UNION {Keys(checkOne(tree[k], policy2)) : k \in DOMAIN tree}
<1>1. TP!Validate(policy2)
  BY DEF TP!IInv, TP!CheckInvariant, TP!PolicyInForce
<1>2. Validate(policy2)
  BY <1>1, SameValidation
<1>3. (\A x : TP!Key(x) = Key(x)) /\ (\A S : TP!Keys(S) = Keys(S))
  BY Zenon DEF TP!Key, Key, TP!Keys, Keys
<1>4. \A k : TP!checkOne(tree[k], policy2) = checkOne(tree[k], policy2)
  BY SameRules
<1>5. answer2 = TP!FirstFound(1, Len(tree))
  BY DEF TP!IInv, TP!OnePass
<1>6. Keys(answer2) = UNION {TP!Keys(TP!checkOne(tree[k], policy2)) : k \in DOMAIN tree}
  BY <1>3, TP!EveryKey, TreesOfSecond, LowerAssumption, Zenon
<1> QED
  BY <1>2, <1>3, <1>4, <1>5, <1>6 DEF TP!FirstFound

(* What the first check finds, the second finds something as strict as.    *)
LEMMA FindsAsStrict ==
  ASSUME IInv, TP!IInv, Policies2, pc = "done", NEW x \in answer
  PROVE  \E y \in answer2 : decisionStrictness[y.decision] >= decisionStrictness[x.decision]
<1>0. DOMAIN tree = 1..Len(tree) /\ Len(tree) \in Nat
  BY LenProperties DEF IInv, CallsOK
<1>1. PICK k \in 1..Len(tree) :
        /\ x \in checkOne(tree[k], policy)
        /\ \A h \in 1..(k - 1) : Key(x) \notin Keys(checkOne(tree[h], policy))
  BY DEF IInv, OnePass, FirstFound
<1>2. NoTighter(policy, policy2) /\ Validate(policy2)
  BY SecondAnswer DEF Policies2
<1>3. CASE x \notin checkSemanticAnalysisIncomplete(tree[k], policy)
  <2>1. PICK y \in checkOne(tree[k], policy2) : y.rule = x.rule
    BY <1>1, <1>2, <1>3, RuleStillFires
  <2>2. Key(y) \in Keys(answer2)
    <3>1. Key(y) \in Keys(checkOne(tree[k], policy2)) /\ k \in DOMAIN tree
      BY <1>0 DEF Keys
    <3> QED
      BY <3>1, SecondAnswer
  <2>3. PICK z \in answer2 : Key(z) = Key(y)
    BY <2>2 DEF Keys
  <2>4. z.rule = x.rule
    BY <2>1, <2>3 DEF Key
  <2>5. PICK h \in 1..Len(tree) : z \in checkOne(tree[h], policy2)
    BY SecondAnswer
  <2>6. /\ x = Finding(x.rule, x.about, RuleDecision(policy, x.rule))
        /\ x.rule \in RuleIds \ {"semantic_analysis_incomplete"}
    BY <1>1, <1>3, DecidedByPolicy
  <2>7. z \notin checkSemanticAnalysisIncomplete(tree[h], policy2)
    BY <2>4, <2>6, OfIncompleteAnalysis
  <2>8. z = Finding(z.rule, z.about, RuleDecision(policy2, z.rule))
    BY <2>5, <2>7, DecidedByPolicy
  <2>9. /\ x.decision = RuleDecision(policy, x.rule)
        /\ z.decision = RuleDecision(policy2, x.rule)
    BY <2>4, <2>6, <2>8 DEF Finding
  <2>10. /\ decisionStrictness[x.decision] <= decisionStrictness[z.decision]
         /\ decisionStrictness[x.decision] \in Nat /\ decisionStrictness[z.decision] \in Nat
    BY <1>2, <2>6, <2>9, DecisionsOnly DEF NoTighter
  <2> QED
    BY <2>10
<1>4. CASE x \in checkSemanticAnalysisIncomplete(tree[k], policy)
  <2>1. PICK y \in checkSemanticAnalysisIncomplete(tree[k], policy2) :
          /\ Key(y) = Key(x)
          /\ decisionStrictness[y.decision] >= decisionStrictness[x.decision]
    BY <1>2, <1>4, IncompleteStillFires
  <2>2. y \in checkOne(tree[k], policy2)
    BY DEF checkOne
  <2>3. ASSUME NEW h \in 1..(k - 1), Key(y) \in Keys(checkOne(tree[h], policy2))
        PROVE  FALSE
    <3>1. PICK z \in checkOne(tree[h], policy2) : Key(z) = Key(y)
      BY <2>3 DEF Keys
    <3>2. z.rule = "semantic_analysis_incomplete"
      BY <3>1, OfIncompleteAnalysis DEF Key
    <3>3. z \in checkSemanticAnalysisIncomplete(tree[h], policy2)
      BY <3>1, <3>2, DecidedByPolicy
    <3>4. \E w \in checkSemanticAnalysisIncomplete(tree[h], policy) : Key(w) = Key(z)
      BY <3>3, SameIncompleteness
    <3>5. Key(x) \in Keys(checkOne(tree[h], policy))
      BY <2>1, <3>1, <3>4 DEF checkOne, Keys
    <3> QED
      BY <1>1, <3>5
  <2>4. y \in answer2
    BY <2>2, <2>3, SecondAnswer
  <2> QED
    BY <2>1, <2>4
<1> QED
  BY <1>3, <1>4

(* The step of the second check, in the words of its proofs.               *)
LEMMA SameCalls == ASSUME NEW k  PROVE T!Call(k) = TP!Call(k)
BY Zenon
   DEF T!Call, TP!Call, T!checkOne, TP!checkOne, T!checkStatementAlone,
       TP!checkStatementAlone, T!fires, TP!fires, T!checkGrantHighRiskRoleMembership,
       TP!checkGrantHighRiskRoleMembership, T!highRiskBuiltinRoles,
       TP!highRiskBuiltinRoles, T!checkGrantToPublicOnProtectedObjects,
       TP!checkGrantToPublicOnProtectedObjects, T!QualifiedName, TP!QualifiedName,
       T!TargetRelations, TP!TargetRelations, T!ReadRelations, TP!ReadRelations,
       T!MutationRelations, TP!MutationRelations, T!About, TP!About, T!Finding, TP!Finding,
       T!catalog, TP!catalog, T!protectedNames, TP!protectedNames, T!protectedReadNames,
       TP!protectedReadNames, T!protectedMutationNames, TP!protectedMutationNames,
       T!MutatingTypes, TP!MutatingTypes, T!checkReadsOfProtectedTables,
       TP!checkReadsOfProtectedTables, T!checkWritesToProtectedTables,
       TP!checkWritesToProtectedTables, T!checkSemanticAnalysisIncomplete,
       TP!checkSemanticAnalysisIncomplete, T!actionableIncompleteReasons,
       TP!actionableIncompleteReasons, T!shouldEscalateIncomplete,
       TP!shouldEscalateIncomplete, T!EscalatingReasons, TP!EscalatingReasons,
       T!RuleDecision, TP!RuleDecision, T!Decisions, TP!Decisions, T!IsProtectedTable,
       TP!IsProtectedTable, T!IsProtectedSchema, TP!IsProtectedSchema, T!IsProtectedRole,
       TP!IsProtectedRole, T!normalizeName, TP!normalizeName, T!Last, TP!Last, T!Front,
       TP!Front, T!FlattenSeq, TP!FlattenSeq

(* Whatever the two checks do together, each of them does.                 *)
LEMMA EachSteps ==
  ASSUME BothNext
  PROVE  Next /\ TP!Next
<1>1. /\ T!top = TP!top /\ T!children = TP!children
      /\ T!Validate(policy2) <=> TP!Validate(policy2)
  BY Zenon DEF T!top, TP!top, T!children, TP!children, T!Validate, TP!Validate,
               T!Decisions, TP!Decisions, T!RuleIds, TP!RuleIds, T!catalog, TP!catalog
<1>2. \A out : T!dedupeFindings(out) = TP!dedupeFindings(out)
  BY Zenon DEF T!dedupeFindings, TP!dedupeFindings, T!Keys, TP!Keys, T!Key, TP!Key
<1>3. T!LoadPolicy => TP!LoadPolicy
  BY <1>1, SameCalls, Zenon DEF T!LoadPolicy, TP!LoadPolicy
<1>4. T!CheckNested => TP!CheckNested
  <2>1. T!Call(T!children[T!top.next]) = TP!Call(TP!children[TP!top.next])
    BY <1>1, SameCalls, Zenon
  <2> QED
    BY <1>1, <2>1, Zenon DEF T!CheckNested, TP!CheckNested
<1>5. T!ReturnToCaller => TP!ReturnToCaller
  <2>1. T!Front(stack2) = TP!Front(stack2)
    BY Zenon DEF T!Front, TP!Front
  <2> QED
    BY <1>1, <1>2, <2>1, Zenon DEF T!ReturnToCaller, TP!ReturnToCaller
<1>6. T!Return => TP!Return
  BY <1>1, <1>2, Zenon DEF T!Return, TP!Return
<1>7. T!Done => TP!Done
  BY Zenon DEF T!Done, TP!Done, T!vars, TP!vars
<1> QED
  BY <1>3, <1>4, <1>5, <1>6, <1>7, Zenon DEF BothNext, Next, TP!Next

(* Tightening a policy never relaxes the verdict on a statement, for every *)
(* tree of statements and every pair of policies of which the second       *)
(* protects no less and decides no laxer.                                  *)
THEOREM NeverRelaxes == BothSpec => []TighterNeverRelaxes
<1>1. BothInit => Init /\ TP!Init /\ Policies2
  BY DEF BothInit, T!Init, TP!Init, Policies2
<1>2. [BothNext]_bothVars => [Next]_vars /\ [TP!Next]_(TP!vars)
  BY EachSteps DEF bothVars, vars, TP!vars
<1>3. BothSpec => Spec /\ TP!Spec
  BY <1>1, <1>2, PTL DEF BothSpec, Spec, TP!Spec
<1>4. Policies2 /\ [BothNext]_bothVars => Policies2'
  <2>1. [BothNext]_bothVars => policy' = policy /\ policy2' = policy2
    BY DEF BothNext, LoadPolicy, CheckNested, ReturnToCaller, Return, Done, vars, bothVars,
           T!LoadPolicy, T!CheckNested, T!ReturnToCaller, T!Return, T!Done, T!vars
  <2> QED
    BY <2>1 DEF Policies2, NoTighter, Validate
<1>5. BothSpec => []Policies2
  BY <1>1, <1>4, PTL DEF BothSpec
<1>6. TP!Spec => []TP!IInv
  BY TP!Inductive, TreesOfSecond, LowerAssumption, PTL
<1>7. IInv /\ TP!IInv /\ Policies2 => TighterNeverRelaxes
  BY FindsAsStrict DEF TighterNeverRelaxes
<1> QED
  BY <1>3, <1>5, <1>6, <1>7, Inductive, PTL

=============================================================================
