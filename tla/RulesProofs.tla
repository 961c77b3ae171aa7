---------------------------- MODULE RulesProofs -----------------------------
(***************************************************************************)
(* Proofs about Rules: Check, which removes duplicates at every return of  *)
(* its recursion, finds what one pass over the statements would.           *)
(***************************************************************************)
EXTENDS Rules, SequenceLemmas

-----------------------------------------------------------------------------
(***************************************************************************)
(* The first findings of each key, among the sets F[a], ..., F[b].         *)
(***************************************************************************)
FirstOf(F, a, b) ==
  UNION {{x \in F[k] : \A h \in a..(k - 1) : Key(x) \notin Keys(F[h])} : k \in a..b}

(* Those of the findings in new whose key no finding in old has.           *)
Added(old, new) == {x \in new : Key(x) \notin Keys(old)}

(* No key is lost by keeping the first findings.                           *)
LEMMA FirstKeys ==
  ASSUME NEW F, NEW a \in Nat, NEW b \in Nat
  PROVE  Keys(FirstOf(F, a, b)) = UNION {Keys(F[k]) : k \in a..b}
<1>1. Keys(FirstOf(F, a, b)) \subseteq UNION {Keys(F[k]) : k \in a..b}
  BY DEF Keys, FirstOf
<1>2. ASSUME NEW k \in a..b, NEW key \in Keys(F[k])
      PROVE  key \in Keys(FirstOf(F, a, b))
  <2> DEFINE S == {h \in a..b : key \in Keys(F[h])}
  <2>1. S \in SUBSET Nat /\ k \in S
    BY <1>2
  <2>2. PICK i \in S : \A h \in S : i <= h
    BY <2>1, LeastNat
  <2>3. PICK x \in F[i] : Key(x) = key
    BY <2>2 DEF Keys
  <2>4. \A h \in a..(i - 1) : Key(x) \notin Keys(F[h])
    BY <2>2, <2>3
  <2>5. x \in FirstOf(F, a, b)
    BY <2>2, <2>4 DEF FirstOf
  <2> QED
    BY <2>3, <2>5 DEF Keys
<1> QED
  BY <1>1, <1>2

(* Keeping the first findings of two runs of positions, and then of both   *)
(* together, is keeping the first findings of the whole.                   *)
LEMMA FirstOfTwo ==
  ASSUME NEW F, NEW a \in Nat, NEW b \in Nat, NEW c \in Nat, a <= b + 1, b <= c
  PROVE  FirstOf(F, a, c)
           = FirstOf(F, a, b) \cup Added(FirstOf(F, a, b), FirstOf(F, b + 1, c))
<1> DEFINE later == Added(FirstOf(F, a, b), FirstOf(F, b + 1, c))
<1> USE DEF Added
<1>0. \A x : Key(x) \notin Keys(FirstOf(F, a, b)) <=> \A h \in a..b : Key(x) \notin Keys(F[h])
  BY FirstKeys
<1>1. ASSUME NEW x \in FirstOf(F, a, c)
      PROVE  x \in FirstOf(F, a, b) \cup later
  <2>1. PICK k \in a..c : x \in F[k] /\ \A h \in a..(k - 1) : Key(x) \notin Keys(F[h])
    BY <1>1 DEF FirstOf
  <2>2. CASE k \in a..b
    BY <2>1, <2>2 DEF FirstOf
  <2>3. CASE k \in (b + 1)..c
    <3>1. \A h \in a..b : h \in a..(k - 1)
      BY <2>3
    <3>2. \A h \in (b + 1)..(k - 1) : h \in a..(k - 1)
      BY <2>3
    <3>3. x \in FirstOf(F, b + 1, c)
      BY <2>1, <2>3, <3>2 DEF FirstOf
    <3> QED
      BY <1>0, <2>1, <3>1, <3>3
  <2> QED
    BY <2>2, <2>3
<1>2. FirstOf(F, a, b) \subseteq FirstOf(F, a, c)
  BY DEF FirstOf
<1>3. ASSUME NEW x \in later
      PROVE  x \in FirstOf(F, a, c)
  <2>1. PICK k \in (b + 1)..c :
          x \in F[k] /\ \A h \in (b + 1)..(k - 1) : Key(x) \notin Keys(F[h])
    BY <1>3 DEF FirstOf
  <2>2. \A h \in a..b : Key(x) \notin Keys(F[h])
    BY <1>0, <1>3
  <2>3. \A h \in a..(k - 1) : h \in a..b \/ h \in (b + 1)..(k - 1)
    BY <2>1
  <2>4. k \in a..c
    BY <2>1
  <2> QED
    BY <2>1, <2>2, <2>3, <2>4 DEF FirstOf
<1> QED
  BY <1>1, <1>2, <1>3

(* The first findings have each key once, if each set of findings has.     *)
LEMMA FirstUnique ==
  ASSUME NEW F, NEW a \in Nat, NEW b \in Nat,
         \A k \in a..b : \A x, y \in F[k] : Key(x) = Key(y) => x = y
  PROVE  \A x, y \in FirstOf(F, a, b) : Key(x) = Key(y) => x = y
<1> SUFFICES ASSUME NEW x \in FirstOf(F, a, b), NEW y \in FirstOf(F, a, b), Key(x) = Key(y)
             PROVE  x = y
  OBVIOUS
<1>1. PICK k \in a..b : x \in F[k] /\ \A h \in a..(k - 1) : Key(x) \notin Keys(F[h])
  BY DEF FirstOf
<1>2. PICK i \in a..b : y \in F[i] /\ \A h \in a..(i - 1) : Key(y) \notin Keys(F[h])
  BY DEF FirstOf
<1>3. Key(x) \in Keys(F[k]) /\ Key(y) \in Keys(F[i])
  BY <1>1, <1>2 DEF Keys
<1>4. ~(i \in a..(k - 1)) /\ ~(k \in a..(i - 1))
  BY <1>1, <1>2, <1>3
<1>5. i = k
  BY <1>4
<1> QED
  BY <1>1, <1>2, <1>5

(* What one more nested call adds to what a call has gathered.             *)
LEMMA DedupeAppend ==
  ASSUME NEW X, NEW out \in Seq(SUBSET X), NEW S \in SUBSET X
  PROVE  dedupeFindings(Append(out, S))
           = dedupeFindings(out) \cup Added(dedupeFindings(out), S)
<1> DEFINE longer == Append(out, S)
           m == Len(out)
<1>1. /\ m \in Nat /\ DOMAIN out = 1..m /\ DOMAIN longer = 1..(m + 1)
      /\ \A i \in 1..m : longer[i] = out[i]
      /\ longer[m + 1] = S
  BY AppendProperties, LenProperties
<1> HIDE DEF m, longer
<1>2. dedupeFindings(out) = FirstOf(longer, 1, m)
  BY <1>1 DEF dedupeFindings, FirstOf
<1>3. dedupeFindings(longer) = FirstOf(longer, 1, m + 1)
  BY <1>1 DEF dedupeFindings, FirstOf
<1>4. FirstOf(longer, m + 1, m + 1) = S
  <2>1. \A k : k \in (m + 1)..(m + 1) <=> k = m + 1
    BY <1>1
  <2>2. (m + 1)..(m + 1 - 1) = {}
    BY <1>1
  <2> QED
    BY <1>1, <2>1, <2>2 DEF FirstOf
<1>5. FirstOf(longer, 1, m + 1)
        = FirstOf(longer, 1, m)
            \cup Added(FirstOf(longer, 1, m), FirstOf(longer, m + 1, m + 1))
  <2>1. 1 <= m + 1 /\ m <= m + 1 /\ m + 1 \in Nat /\ 1 \in Nat
    BY <1>1
  <2> QED
    BY <1>1, <2>1, FirstOfTwo
<1> QED
  BY <1>2, <1>3, <1>4, <1>5 DEF longer

(* One set of findings is left as it is.                                   *)
LEMMA DedupeOne ==
  ASSUME NEW S
  PROVE  dedupeFindings(<<S>>) = S
<1>1. DOMAIN <<S>> = {1} /\ <<S>>[1] = S
  OBVIOUS
<1>2. 1..(1 - 1) = {}
  OBVIOUS
<1> QED
  BY <1>1, <1>2 DEF dedupeFindings

(* No finding appears from nowhere.                                        *)
LEMMA DedupeSubset ==
  ASSUME NEW X, NEW out \in Seq(SUBSET X)
  PROVE  dedupeFindings(out) \in SUBSET X
BY LenProperties DEF dedupeFindings

-----------------------------------------------------------------------------
(***************************************************************************)
(* What one statement's rules find: each rule and message once.            *)
(***************************************************************************)
(* Every rule but that of incomplete analysis takes its decision from the  *)
(* policy alone.                                                           *)
LEMMA DecidedByPolicy ==
  ASSUME NEW stmt, NEW p, NEW x \in checkOne(stmt, p),
         x \notin checkSemanticAnalysisIncomplete(stmt, p)
  PROVE  /\ x = Finding(x.rule, x.about, RuleDecision(p, x.rule))
         /\ x.rule \in RuleIds \ {"semantic_analysis_incomplete"}
<1> SUFFICES \E rule, about : /\ x = Finding(rule, about, RuleDecision(p, rule))
                              /\ rule \in RuleIds \ {"semantic_analysis_incomplete"}
  BY DEF Finding
<1> USE DEF RuleIds, catalog
<1>1. CASE x \in checkStatementAlone(stmt, p)
  <2>1. DOMAIN fires(stmt) \subseteq RuleIds \ {"semantic_analysis_incomplete"}
    BY DEF fires
  <2> QED
    BY <1>1, <2>1 DEF checkStatementAlone
<1>2. CASE x \in checkGrantHighRiskRoleMembership(stmt, p)
  BY <1>2 DEF checkGrantHighRiskRoleMembership, About
<1>3. CASE x \in checkGrantToPublicOnProtectedObjects(stmt, p)
  BY <1>3 DEF checkGrantToPublicOnProtectedObjects, About
<1>4. CASE x \in checkReadsOfProtectedTables(stmt, p)
  BY <1>4 DEF checkReadsOfProtectedTables, About
<1>5. CASE x \in checkWritesToProtectedTables(stmt, p)
  BY <1>5 DEF checkWritesToProtectedTables, About
<1> QED
  BY <1>1, <1>2, <1>3, <1>4, <1>5 DEF checkOne

(* A finding of that rule is a finding of incomplete analysis.             *)
LEMMA OfIncompleteAnalysis ==
  ASSUME NEW stmt, NEW p, NEW x \in checkSemanticAnalysisIncomplete(stmt, p)
  PROVE  x.rule = "semantic_analysis_incomplete"
<1>1. \E about, decision : x = Finding("semantic_analysis_incomplete", about, decision)
  BY DEF checkSemanticAnalysisIncomplete
<1> QED
  BY <1>1 DEF Finding

(* The rules find each rule and message once in a statement.               *)
LEMMA OneOfEachKey ==
  ASSUME NEW stmt, NEW p, NEW x \in checkOne(stmt, p), NEW y \in checkOne(stmt, p),
         Key(x) = Key(y)
  PROVE  x = y
<1> DEFINE semantic == checkSemanticAnalysisIncomplete(stmt, p)
<1>1. \A z \in semantic : z.rule = "semantic_analysis_incomplete"
  BY OfIncompleteAnalysis
<1>2. \A z, w \in semantic : z = w
  BY DEF checkSemanticAnalysisIncomplete
<1>3. x.rule = y.rule /\ x.about = y.about
  BY DEF Key
<1> HIDE DEF semantic
<1>4. CASE x \in semantic /\ y \in semantic
  BY <1>2, <1>4
<1>5. CASE x \notin semantic /\ y \notin semantic
  BY <1>3, <1>5, DecidedByPolicy DEF semantic
<1>6. ~(x \in semantic /\ y \notin semantic) /\ ~(x \notin semantic /\ y \in semantic)
  BY <1>1, <1>3, DecidedByPolicy DEF semantic
<1> QED
  BY <1>4, <1>5, <1>6

-----------------------------------------------------------------------------
(***************************************************************************)
(* The inductive invariant: CheckInvariant, and the shape of the calls.    *)
(***************************************************************************)
(* What the rules find at each position.                                   *)
found == [k \in Nat |-> checkOne(tree[k], policy)]

AnyFinding == UNION {checkOne(tree[k], policy) : k \in DOMAIN tree}

CallFrame == [at : DOMAIN tree, next : Nat, out : Seq(SUBSET AnyFinding)]

CallsOK ==
  /\ tree \in Seq(Statement) /\ Preorder(tree)
  /\ pc \in {"policy", "check", "done", "rejected"}
  /\ pc = "check" <=> stack # << >>
  /\ pc # "done" => answer = {}
  /\ stack \in Seq(CallFrame)
  /\ \A d \in DOMAIN stack : stack[d].next \in 1..(Len(tree[stack[d].at].nested) + 1)

IInv == CallsOK /\ CheckInvariant /\ OnePass

(* What one pass finds, in terms of the findings of each statement.        *)
LEMMA FoundFromTo ==
  ASSUME NEW a \in Nat, NEW b \in Nat
  PROVE  FirstFound(a, b) = FirstOf(found, a, b)
<1>1. \A k \in Nat : found[k] = checkOne(tree[k], policy)
  BY DEF found
<1>2. \A k \in a..b : k \in Nat /\ \A h \in a..(k - 1) : h \in Nat
  OBVIOUS
<1>3. ASSUME NEW k \in a..b
      PROVE  {x \in checkOne(tree[k], policy) :
                \A h \in a..(k - 1) : Key(x) \notin Keys(checkOne(tree[h], policy))}
               = {x \in found[k] : \A h \in a..(k - 1) : Key(x) \notin Keys(found[h])}
  BY <1>1, <1>2
<1> QED
  BY <1>3 DEF FirstFound, FirstOf

(* One pass over two adjoining stretches of the text: what the first finds *)
(* and what the second adds.                                               *)
LEMMA FoundFromTwo ==
  ASSUME NEW a \in Nat, NEW b \in Nat, NEW c \in Nat, a <= b + 1, b <= c
  PROVE  FirstFound(a, c)
           = FirstFound(a, b) \cup Added(FirstFound(a, b), FirstFound(b + 1, c))
<1>1. PICK F : F = found
  OBVIOUS
<1>2. FirstOf(F, a, c) = FirstOf(F, a, b) \cup Added(FirstOf(F, a, b), FirstOf(F, b + 1, c))
  BY FirstOfTwo
<1>3. /\ FirstFound(a, c) = FirstOf(F, a, c) /\ FirstFound(a, b) = FirstOf(F, a, b)
      /\ FirstFound(b + 1, c) = FirstOf(F, b + 1, c)
  BY <1>1, FoundFromTo
<1> QED
  BY <1>2, <1>3

(* What is nested in a statement follows it in the tree, each nested       *)
(* statement with its own right after it.                                  *)
LEMMA NestedFacts ==
  ASSUME CallsOK, NEW k \in DOMAIN tree
  PROVE  LET kids == tree[k].nested
         IN  /\ k \in Nat /\ tree[k].last \in Nat
             /\ Len(kids) \in Nat /\ DOMAIN kids = 1..Len(kids)
             /\ Len(kids) = 0 => tree[k].last = k
             /\ Len(kids) # 0 => kids[1] = k + 1 /\ tree[k].last = tree[kids[Len(kids)]].last
             /\ \A i \in 1..Len(kids) : /\ kids[i] \in DOMAIN tree /\ kids[i] \in Nat
                                        /\ tree[kids[i]].last >= kids[i]
                                        /\ tree[kids[i]].last \in Nat
                                        /\ i > 1 => kids[i] = tree[kids[i - 1]].last + 1
<1> DEFINE kids == tree[k].nested
<1>1. \A i \in DOMAIN tree : i \in Nat /\ tree[i] \in Statement
  BY LenProperties, ElementOfSeq DEF CallsOK
<1>2. \A i \in DOMAIN tree : tree[i].last \in Nat /\ tree[i].nested \in Seq(Nat)
  BY <1>1 DEF Statement
<1>3. Len(kids) \in Nat /\ DOMAIN kids = 1..Len(kids)
  BY <1>2, LenProperties
<1>4. kids = << >> <=> Len(kids) = 0
  BY <1>2, EmptySeq
<1>5. /\ kids = << >> => tree[k].last = k
      /\ kids # << >> => kids[1] = k + 1 /\ tree[k].last = tree[kids[Len(kids)]].last
      /\ \A i \in DOMAIN kids : /\ kids[i] \in DOMAIN tree /\ tree[kids[i]].last >= kids[i]
                                /\ i > 1 => kids[i] = tree[kids[i - 1]].last + 1
  BY DEF CallsOK, Preorder
<1> HIDE DEF kids
<1>6. \A i \in 1..Len(kids) : /\ kids[i] \in DOMAIN tree /\ kids[i] \in Nat
                              /\ tree[kids[i]].last >= kids[i] /\ tree[kids[i]].last \in Nat
                              /\ i > 1 => kids[i] = tree[kids[i - 1]].last + 1
  BY <1>1, <1>2, <1>3, <1>5
<1> QED
  BY <1>1, <1>2, <1>3, <1>4, <1>5, <1>6 DEF kids

(* What is on the call stack has its type.                                 *)
LEMMA StackFacts ==
  ASSUME CallsOK, NEW d \in DOMAIN stack
  PROVE  /\ Len(stack) \in Nat /\ DOMAIN stack = 1..Len(stack)
         /\ Len(stack) \in DOMAIN stack
         /\ stack[d] \in CallFrame /\ stack[d].at \in DOMAIN tree /\ stack[d].at \in Nat
         /\ stack[d].next \in Nat /\ stack[d].out \in Seq(SUBSET AnyFinding)
<1>1. stack \in Seq(CallFrame) /\ tree \in Seq(Statement)
  BY DEF CallsOK
<1>2. Len(stack) \in Nat /\ DOMAIN stack = 1..Len(stack) /\ Len(stack) \in DOMAIN stack
  BY <1>1, LenProperties
<1>3. stack[d] \in CallFrame
  BY <1>1, <1>2, ElementOfSeq
<1>4. \A k \in DOMAIN tree : k \in Nat
  BY <1>1, LenProperties
<1> QED
  BY <1>2, <1>3, <1>4 DEF CallFrame

(* Where the innermost call is: before its next nested statement, or at    *)
(* the end of what is nested in its own.                                   *)
LEMMA UpToTop ==
  ASSUME CallsOK, stack # << >>
  PROVE  /\ top.next <= Len(children) =>
              UpTo(Len(stack)) = children[top.next] - 1 /\ children[top.next] \in DOMAIN tree
         /\ top.next > Len(children) => UpTo(Len(stack)) = tree[top.at].last
<1>1. Len(stack) \in DOMAIN stack
  <2>1. stack \in Seq(CallFrame)
    BY DEF CallsOK
  <2> QED
    BY <2>1, LenProperties, EmptySeq
<1>2. /\ top.at \in DOMAIN tree /\ top.at \in Nat
      /\ top.next \in 1..(Len(children) + 1)
  BY <1>1, StackFacts DEF CallsOK, top, children
<1>3. UpTo(Len(stack)) = IF top.next = 1 THEN top.at ELSE tree[children[top.next - 1]].last
  BY DEF UpTo
<1> HIDE DEF top, UpTo
<1> DEFINE k == top.at
           kids == tree[k].nested
<1>4. /\ Len(kids) \in Nat
      /\ Len(kids) = 0 => tree[k].last = k
      /\ Len(kids) # 0 => kids[1] = k + 1 /\ tree[k].last = tree[kids[Len(kids)]].last
      /\ \A i \in 1..Len(kids) : /\ kids[i] \in DOMAIN tree
                                 /\ i > 1 => kids[i] = tree[kids[i - 1]].last + 1
      /\ \A i \in 1..Len(kids) : kids[i] \in Nat /\ tree[kids[i]].last \in Nat
  BY <1>2, NestedFacts
<1>5. children = kids
  BY DEF children
<1> HIDE DEF k, kids
<1>6. CASE top.next <= Len(children)
  <2>1. top.next \in 1..Len(kids)
    BY <1>2, <1>4, <1>5, <1>6
  <2>2. kids[top.next] \in DOMAIN tree
    BY <1>4, <2>1
  <2>3. CASE top.next = 1
    BY <1>2, <1>3, <1>4, <1>5, <2>1, <2>2, <2>3 DEF k
  <2>4. CASE top.next > 1
    <3>1. /\ kids[top.next] = tree[kids[top.next - 1]].last + 1
          /\ tree[kids[top.next - 1]].last \in Nat
      BY <1>4, <2>1, <2>4
    <3> QED
      BY <1>3, <1>5, <1>6, <2>1, <2>2, <2>4, <3>1
  <2> QED
    BY <1>2, <2>1, <2>3, <2>4
<1>7. CASE top.next > Len(children)
  <2>1. top.next = Len(kids) + 1
    BY <1>2, <1>4, <1>5, <1>7
  <2> QED
    BY <1>3, <1>4, <1>5, <1>7, <2>1 DEF k
<1> QED
  BY <1>2, <1>4, <1>5, <1>6, <1>7

-----------------------------------------------------------------------------
(***************************************************************************)
(* Each step.                                                              *)
(***************************************************************************)
LEMMA Start == Init => IInv
<1> SUFFICES ASSUME Init
             PROVE  IInv
  OBVIOUS
<1>1. stack = << >> /\ pc = "policy" /\ answer = {}
  BY DEF Init
<1>2. CallsOK
  <2>1. tree \in Seq(Statement) /\ Preorder(tree)
    BY TreesAssumption DEF Init
  <2> QED
    BY <1>1, <2>1, EmptySeq DEF CallsOK
<1>3. CheckInvariant
  BY <1>1 DEF CheckInvariant, PolicyInForce, CallsAreAPath, GoesForward, GatheredSoFar
<1> QED
  BY <1>1, <1>2, <1>3 DEF IInv, OnePass

(* Loading the policy keeps the invariant.                                 *)
LEMMA LoadPolicyStep ==
  ASSUME IInv, LoadPolicy
  PROVE  IInv'
<1>1. /\ pc = "policy" /\ stack = << >>
      /\ tree' = tree /\ policy' = policy /\ answer' = answer /\ answer = {}
      /\ tree \in Seq(Statement) /\ Preorder(tree)
  BY DEF IInv, CallsOK, LoadPolicy
<1>2. CASE pc' = "check" /\ stack' = <<Call(1)>> /\ Validate(policy)
  <2> DEFINE fr == Call(1)
  <2>1. 1 \in DOMAIN tree /\ tree[1].last \in Nat /\ Len(tree[1].nested) \in Nat
    <3>1. 1 \in DOMAIN tree
      BY <1>1, LenProperties, EmptySeq DEF Preorder
    <3> QED
      BY <3>1, NestedFacts DEF IInv
  <2>2. /\ fr.at = 1 /\ fr.next = 1 /\ fr.out = <<checkOne(tree[1], policy)>>
        /\ fr = [at |-> 1, next |-> 1, out |-> fr.out]
    BY DEF Call
  <2>3. fr.out \in Seq(SUBSET AnyFinding)
    BY <2>1, <2>2 DEF AnyFinding
  <2>4. fr \in CallFrame
    BY <2>1, <2>2, <2>3 DEF CallFrame
  <2> HIDE DEF fr
  <2>5. /\ stack' \in Seq(CallFrame) /\ Len(stack') = 1 /\ DOMAIN stack' = {1}
        /\ stack'[1] = fr /\ stack' # << >>
    BY <1>2, <2>4 DEF fr
  <2>6. CallFrame' = CallFrame
    BY <1>1 DEF CallFrame, AnyFinding
  <2>7. CallsOK'
    BY <1>1, <1>2, <2>1, <2>2, <2>5, <2>6 DEF CallsOK
  <2>8. UpTo(1)' = 1
    BY <2>2, <2>5 DEF UpTo, top
  <2>9. FirstFound(1, 1)' = checkOne(tree[1], policy)
    <3>1. 1..(1 - 1) = {} /\ 1..1 = {1}
      OBVIOUS
    <3> QED
      BY <1>1, <3>1 DEF FirstFound
  <2>10. CheckInvariant'
    BY <1>1, <1>2, <2>2, <2>5, <2>8, <2>9, DedupeOne
       DEF CheckInvariant, PolicyInForce, CallsAreAPath, GoesForward, GatheredSoFar
  <2> QED
    BY <1>2, <2>7, <2>10 DEF IInv, OnePass
<1>3. CASE pc' = "rejected" /\ stack' = stack
  <2>1. CallsOK'
    BY <1>1, <1>3, EmptySeq DEF CallsOK
  <2>2. CheckInvariant'
    BY <1>1, <1>3 DEF CheckInvariant, PolicyInForce, CallsAreAPath, GoesForward, GatheredSoFar
  <2> QED
    BY <1>3, <2>1, <2>2 DEF IInv, OnePass
<1> QED
  BY <1>2, <1>3 DEF LoadPolicy

(* The calls after one more call has started.                              *)
LEMMA CheckNestedFacts ==
  ASSUME IInv, CheckNested
  PROVE  LET L   == Len(stack)
             kid == children[top.next]
         IN  /\ L \in Nat \ {0} /\ DOMAIN stack = 1..L
             /\ kid \in DOMAIN tree /\ kid \in Nat /\ Len(tree[kid].nested) \in Nat
             /\ UpTo(L) = kid - 1
             /\ stack' \in Seq(CallFrame) /\ DOMAIN stack' = 1..(L + 1)
             /\ Len(stack') = L + 1 /\ stack' # << >>
             /\ \A d \in 1..(L - 1) : stack'[d] = stack[d]
             /\ stack'[L].at = stack[L].at /\ stack'[L].out = stack[L].out
             /\ stack'[L].next = stack[L].next + 1
             /\ stack'[L + 1].at = kid /\ stack'[L + 1].next = 1
             /\ stack'[L + 1].out = <<checkOne(tree[kid], policy)>>
<1> DEFINE L   == Len(stack)
           kid == children[top.next]
           fr  == Call(kid)
           up  == [stack[L] EXCEPT !.next = @ + 1]
           callers == [stack EXCEPT ![L] = up]
<1>0. CallsOK /\ stack # << >> /\ stack \in Seq(CallFrame)
  BY DEF IInv, CallsOK, CheckNested
<1>1. L \in Nat \ {0} /\ DOMAIN stack = 1..L /\ L \in DOMAIN stack
  BY <1>0, LenProperties, EmptySeq
<1>2. UpTo(L) = kid - 1 /\ kid \in DOMAIN tree
  BY <1>0, UpToTop DEF CheckNested
<1>3. kid \in Nat /\ Len(tree[kid].nested) \in Nat
  BY <1>0, <1>2, NestedFacts
<1>4. fr = [at |-> kid, next |-> 1, out |-> <<checkOne(tree[kid], policy)>>]
  BY DEF Call
<1>5. fr \in CallFrame
  <2>1. <<checkOne(tree[kid], policy)>> \in Seq(SUBSET AnyFinding)
    BY <1>2 DEF AnyFinding
  <2> QED
    BY <1>2, <1>4, <2>1 DEF CallFrame
<1>6. /\ up \in CallFrame /\ up.at = stack[L].at /\ up.out = stack[L].out
      /\ up.next = stack[L].next + 1
  <2> DEFINE fr0 == stack[L]
  <2>1. fr0 \in [at : DOMAIN tree, next : Nat, out : Seq(SUBSET AnyFinding)]
    BY <1>0, <1>1, StackFacts DEF CallFrame
  <2> HIDE DEF fr0
  <2>2. /\ [fr0 EXCEPT !.next = fr0.next + 1] \in CallFrame
        /\ [fr0 EXCEPT !.next = fr0.next + 1].at = fr0.at
        /\ [fr0 EXCEPT !.next = fr0.next + 1].out = fr0.out
        /\ [fr0 EXCEPT !.next = fr0.next + 1].next = fr0.next + 1
    BY <2>1 DEF CallFrame
  <2> QED
    BY <2>2 DEF fr0
<1>7. stack' = Append(callers, fr)
  BY DEF CheckNested, top
<1> HIDE DEF kid, fr, up, L
<1>8. /\ callers \in Seq(CallFrame) /\ Len(callers) = L
      /\ \A d \in 1..L : callers[d] = IF d = L THEN up ELSE stack[d]
  BY <1>0, <1>1, <1>6, ExceptSeq DEF L
<1> HIDE DEF callers
<1>9. /\ stack' \in Seq(CallFrame) /\ stack' # << >> /\ Len(stack') = L + 1
      /\ \A d \in 1..L : stack'[d] = callers[d]
      /\ stack'[L + 1] = fr
  BY <1>5, <1>7, <1>8, AppendProperties
<1>10. /\ \A d \in 1..(L - 1) : stack'[d] = stack[d]
       /\ stack'[L] = up
  BY <1>1, <1>8, <1>9
<1>11. DOMAIN stack' = 1..(L + 1)
  BY <1>9, LenProperties
<1> QED
  BY <1>1, <1>2, <1>3, <1>4, <1>6, <1>9, <1>10, <1>11 DEF L, kid

(* A recursive call keeps the invariant: the path grows by a child.        *)
LEMMA CheckNestedStep ==
  ASSUME IInv, CheckNested
  PROVE  IInv'
<1>0. /\ pc = "check" /\ pc' = "check" /\ tree' = tree /\ policy' = policy
      /\ answer' = answer /\ top.next <= Len(children) /\ CallsOK
  BY DEF IInv, CheckNested
<1>1. PICK L, kid :
      /\ L = Len(stack) /\ kid = children[top.next]
      /\ L \in Nat \ {0} /\ DOMAIN stack = 1..L
      /\ kid \in DOMAIN tree /\ kid \in Nat /\ Len(tree[kid].nested) \in Nat
      /\ UpTo(L) = kid - 1
      /\ stack' \in Seq(CallFrame) /\ DOMAIN stack' = 1..(L + 1)
      /\ Len(stack') = L + 1 /\ stack' # << >>
      /\ \A d \in 1..(L - 1) : stack'[d] = stack[d]
      /\ stack'[L].at = stack[L].at /\ stack'[L].out = stack[L].out
      /\ stack'[L].next = stack[L].next + 1
      /\ stack'[L + 1].at = kid /\ stack'[L + 1].next = 1
      /\ stack'[L + 1].out = <<checkOne(tree[kid], policy)>>
  BY CheckNestedFacts
<1>2. \A d \in 1..L : /\ stack[d] \in CallFrame /\ stack[d].at \in DOMAIN tree
                      /\ stack[d].next \in 1..(Len(tree[stack[d].at].nested) + 1)
                      /\ stack[d].next \in Nat
                      /\ Len(tree[stack[d].at].nested) \in Nat
  BY <1>0, <1>1, StackFacts, NestedFacts DEF CallsOK
<1>3. /\ stack[L].next <= Len(tree[stack[L].at].nested)
      /\ kid = tree[stack[L].at].nested[stack[L].next]
  BY <1>0, <1>1 DEF top, children
<1>4. \A d \in 1..(L + 1) : d \in 1..(L - 1) \/ d = L \/ d = L + 1
  BY <1>1
<1>5. \A d \in 1..L : stack'[d].at = stack[d].at /\ stack'[d].out = stack[d].out
  <2> TAKE d \in 1..L
  <2>1. d \in 1..(L - 1) \/ d = L
    BY <1>1
  <2> QED
    BY <1>1, <2>1
<1>6. CallsOK'
  <2>1. CallFrame' = CallFrame
    BY <1>0 DEF CallFrame, AnyFinding
  <2>2. \A d \in 1..(L + 1) : stack'[d].next \in 1..(Len(tree[stack'[d].at].nested) + 1)
    <3> TAKE d \in 1..(L + 1)
    <3>1. CASE d \in 1..(L - 1)
      BY <1>1, <1>2, <3>1
    <3>2. CASE d = L
      <4>1. stack'[L].at = stack[L].at /\ stack'[L].next = stack[L].next + 1 /\ L \in 1..L
        BY <1>1
      <4>2. PICK m : /\ m = Len(tree[stack[L].at].nested)
                     /\ m \in Nat /\ stack[L].next \in Nat /\ stack[L].next <= m
        BY <1>2, <1>3, <4>1
      <4>3. stack[L].next + 1 \in 1..(m + 1)
        BY <4>2
      <4> QED
        BY <3>2, <4>1, <4>2, <4>3
    <3>3. CASE d = L + 1
      BY <1>1, <3>3
    <3> QED
      BY <1>4, <3>1, <3>2, <3>3
  <2> QED
    BY <1>0, <1>1, <2>1, <2>2 DEF CallsOK
<1>7. CallsAreAPath'
  <2>0. CallsAreAPath
    BY DEF IInv, CheckInvariant
  <2>1. stack'[1].at = 1
    BY <1>1, <1>5, <2>0, EmptySeq DEF CallsAreAPath
  <2>2. ASSUME NEW d \in 2..(L + 1)
        PROVE  /\ stack'[d - 1].next > 1
               /\ stack'[d].at = tree[stack'[d - 1].at].nested[stack'[d - 1].next - 1]
    <3>1. CASE d = L + 1
      <4>1. d - 1 = L /\ stack'[d].at = kid
        BY <1>1, <3>1
      <4>2. stack'[L].next - 1 = stack[L].next /\ stack'[L].next > 1
        BY <1>1, <1>2
      <4> QED
        BY <1>1, <1>3, <4>1, <4>2
    <3>2. CASE d \in 2..L
      <4>1. /\ stack[d - 1].next > 1
            /\ stack[d].at = tree[stack[d - 1].at].nested[stack[d - 1].next - 1]
        BY <1>1, <2>0, <3>2 DEF CallsAreAPath
      <4>2. stack'[d - 1] = stack[d - 1]
        BY <1>1, <3>2
      <4> QED
        BY <1>5, <3>2, <4>1, <4>2
    <3> QED
      BY <1>1, <2>2, <3>1, <3>2
  <2> QED
    BY <1>0, <1>1, <2>1, <2>2 DEF CallsAreAPath
<1>8. \A d \in 1..L : UpTo(d)' = UpTo(d)
  <2>1. UpTo(L)' = kid - 1
    BY <1>1 DEF UpTo
  <2>2. \A d \in 1..(L - 1) : UpTo(d)' = UpTo(d)
    <3> TAKE d \in 1..(L - 1)
    <3>1. d # L /\ d # L + 1 /\ d + 1 \in 1..L
      BY <1>1
    <3> QED
      BY <1>1, <1>5, <3>1 DEF UpTo
  <2> QED
    BY <1>1, <2>1, <2>2
<1>9. UpTo(L + 1)' = kid
  BY <1>1 DEF UpTo, top
<1>10. GoesForward'
  <2>1. \A d \in 1..L : UpTo(d) >= stack[d].at
    BY <1>1 DEF IInv, CheckInvariant, GoesForward
  <2>2. \A d \in 1..(L + 1) : UpTo(d)' >= stack'[d].at
    BY <1>1, <1>5, <1>4, <1>8, <1>9, <2>1
  <2> QED
    BY <1>1, <2>2 DEF GoesForward
<1>11. GatheredSoFar'
  <2>1. \A a, b : FirstFound(a, b)' = FirstFound(a, b)
    BY <1>0 DEF FirstFound
  <2>2. \A d \in 1..L : dedupeFindings(stack'[d].out) = FirstFound(stack[d].at, UpTo(d))
    BY <1>1, <1>5 DEF IInv, CheckInvariant, GatheredSoFar
  <2>3. FirstFound(kid, kid) = checkOne(tree[kid], policy)
    <3>1. kid..(kid - 1) = {} /\ kid..kid = {kid}
      BY <1>1
    <3> QED
      BY <3>1 DEF FirstFound
  <2>4. dedupeFindings(stack'[L + 1].out) = FirstFound(kid, kid)
    BY <1>1, <2>3, DedupeOne
  <2>5. ASSUME NEW d \in 1..(L + 1)
        PROVE  (dedupeFindings(stack[d].out) = FirstFound(stack[d].at, UpTo(d)))'
    <3>1. CASE d = L + 1
      BY <1>1, <1>9, <2>1, <2>4, <3>1
    <3>2. CASE d \in 1..L
      BY <1>5, <1>8, <2>1, <2>2, <3>2
    <3> QED
      BY <1>1, <3>1, <3>2
  <2> QED
    BY <1>1, <2>5 DEF GatheredSoFar
<1> QED
  BY <1>0, <1>6, <1>7, <1>10, <1>11 DEF IInv, CheckInvariant, PolicyInForce, OnePass

(* The calls after the innermost of several has returned.                  *)
LEMMA ReturnFacts ==
  ASSUME IInv, ReturnToCaller
  PROVE  LET L      == Len(stack)
             caller == stack[L - 1]
             gives  == dedupeFindings(stack[L].out)
         IN  /\ L \in Nat /\ L > 1 /\ DOMAIN stack = 1..L
             /\ gives \in SUBSET AnyFinding
             /\ stack' \in Seq(CallFrame) /\ DOMAIN stack' = 1..(L - 1)
             /\ Len(stack') = L - 1 /\ stack' # << >>
             /\ \A d \in 1..(L - 2) : stack'[d] = stack[d]
             /\ stack'[L - 1].at = caller.at /\ stack'[L - 1].next = caller.next
             /\ stack'[L - 1].out = Append(caller.out, gives)
<1> DEFINE L      == Len(stack)
           caller == stack[L - 1]
           gives  == dedupeFindings(stack[L].out)
           more   == [caller EXCEPT !.out = Append(caller.out, gives)]
           short  == Front(stack)
<1>0. CallsOK /\ stack # << >> /\ stack \in Seq(CallFrame) /\ L > 1
  BY DEF IInv, CallsOK, ReturnToCaller
<1>1. L \in Nat \ {0} /\ DOMAIN stack = 1..L /\ L \in DOMAIN stack /\ L - 1 \in DOMAIN stack
  BY <1>0, LenProperties, EmptySeq
<1>2. gives \in SUBSET AnyFinding
  BY <1>0, <1>1, StackFacts, DedupeSubset
<1>3. caller \in [at : DOMAIN tree, next : Nat, out : Seq(SUBSET AnyFinding)]
  BY <1>0, <1>1, StackFacts DEF CallFrame
<1> HIDE DEF caller, gives, L
<1>4. /\ more \in CallFrame /\ more.at = caller.at /\ more.next = caller.next
      /\ more.out = Append(caller.out, gives)
  <2>1. Append(caller.out, gives) \in Seq(SUBSET AnyFinding)
    BY <1>2, <1>3, AppendProperties
  <2> QED
    BY <1>3, <2>1 DEF CallFrame
<1>5. /\ short \in Seq(CallFrame) /\ Len(short) = L - 1
      /\ \A d \in 1..(L - 1) : short[d] = stack[d]
  <2>1. \A i \in 1..(L - 1) : stack[i] \in CallFrame
    BY <1>0, <1>1, ElementOfSeq DEF L
  <2>2. 1 \in Int /\ L - 1 \in Int /\ 1 <= L - 1
    BY <1>0, <1>1 DEF L
  <2>3. /\ SubSeq(stack, 1, L - 1) \in Seq(CallFrame)
        /\ Len(SubSeq(stack, 1, L - 1)) = IF 1 <= L - 1 THEN L - 1 - 1 + 1 ELSE 0
        /\ \A i \in 1..(L - 1 - 1 + 1) : SubSeq(stack, 1, L - 1)[i] = stack[1 + i - 1]
    BY <2>1, <2>2, SubSeqProperties
  <2>4. short = SubSeq(stack, 1, L - 1)
    BY DEF Front, L
  <2>5. \A i \in 1..(L - 1) : 1 + i - 1 = i
    OBVIOUS
  <2> QED
    BY <1>1, <2>2, <2>3, <2>4, <2>5
<1>6. stack' = [short EXCEPT ![L - 1] = more]
  <2>1. short[L - 1] = caller
    BY <1>0, <1>1, <1>5 DEF caller, L
  <2>2. stack' = [short EXCEPT ![L - 1].out = Append(@, gives)]
    BY DEF ReturnToCaller, top, gives, L
  <2> HIDE DEF short
  <2> QED
    BY <2>1, <2>2
<1> HIDE DEF short, more
<1>7. /\ stack' \in Seq(CallFrame) /\ Len(stack') = L - 1
      /\ \A d \in 1..(L - 1) : stack'[d] = IF d = L - 1 THEN more ELSE short[d]
  <2>1. L - 1 \in 1..Len(short)
    BY <1>0, <1>1, <1>5 DEF L
  <2> QED
    BY <1>4, <1>5, <1>6, <2>1, ExceptSeq
<1>8. DOMAIN stack' = 1..(L - 1) /\ stack' # << >>
  <2>1. L \in Nat /\ L > 1
    BY <1>0, <1>1
  <2>2. DOMAIN stack' = 1..(L - 1)
    BY <1>7, LenProperties
  <2> QED
    BY <1>7, <2>1, <2>2, EmptySeq
<1>9. /\ \A d \in 1..(L - 2) : stack'[d] = stack[d]
      /\ stack'[L - 1] = more
  <2>1. L \in Nat /\ L > 1
    BY <1>0, <1>1
  <2>2. \A d \in 1..(L - 2) : d \in 1..(L - 1) /\ d # L - 1
    BY <2>1
  <2>3. L - 1 \in 1..(L - 1)
    BY <2>1
  <2> QED
    BY <1>5, <1>7, <2>2, <2>3
<1> QED
  BY <1>0, <1>1, <1>2, <1>4, <1>7, <1>8, <1>9 DEF L, caller, gives

(* A return into the caller keeps the invariant: the caller has gathered   *)
(* what one pass finds up to the end of the statement returned from.       *)
LEMMA ReturnToCallerStep ==
  ASSUME IInv, ReturnToCaller
  PROVE  IInv'
<1>0. /\ pc = "check" /\ pc' = "check" /\ tree' = tree /\ policy' = policy
      /\ answer' = answer /\ top.next > Len(children) /\ stack # << >>
      /\ CallsOK /\ CallsAreAPath /\ GoesForward /\ GatheredSoFar
  BY DEF IInv, CheckInvariant, CallsOK, ReturnToCaller
<1>1. PICK L, gives :
      /\ L = Len(stack) /\ gives = dedupeFindings(stack[L].out)
      /\ L \in Nat /\ L > 1 /\ DOMAIN stack = 1..L
      /\ gives \in SUBSET AnyFinding
      /\ stack' \in Seq(CallFrame) /\ DOMAIN stack' = 1..(L - 1)
      /\ Len(stack') = L - 1 /\ stack' # << >>
      /\ \A d \in 1..(L - 2) : stack'[d] = stack[d]
      /\ stack'[L - 1].at = stack[L - 1].at /\ stack'[L - 1].next = stack[L - 1].next
      /\ stack'[L - 1].out = Append(stack[L - 1].out, gives)
  BY ReturnFacts
<1>2. \A d \in 1..(L - 1) : (d \in 1..(L - 2) \/ d = L - 1) /\ d \in 1..L
  BY <1>1
<1>3. \A d \in 1..(L - 1) : stack'[d].at = stack[d].at /\ stack'[d].next = stack[d].next
  <2> TAKE d \in 1..(L - 1)
  <2> QED
    BY <1>1, <1>2
<1>4. PICK a, kid : a = stack[L - 1].at /\ kid = stack[L].at
  OBVIOUS
<1>5. /\ L - 1 \in DOMAIN stack /\ L \in DOMAIN stack
      /\ a \in DOMAIN tree /\ a \in Nat /\ kid \in DOMAIN tree /\ kid \in Nat
      /\ stack[L - 1].next \in Nat /\ stack[L - 1].out \in Seq(SUBSET AnyFinding)
      /\ stack[L - 1].next \in 1..(Len(tree[a].nested) + 1)
  <2>1. L - 1 \in DOMAIN stack /\ L \in DOMAIN stack
    BY <1>1
  <2> QED
    BY <1>0, <1>4, <2>1, StackFacts DEF CallsOK
<1>6. /\ stack[L - 1].next > 1
      /\ kid = tree[a].nested[stack[L - 1].next - 1]
  <2>1. L \in 2..Len(stack)
    BY <1>1
  <2> QED
    BY <1>0, <1>4, <2>1 DEF CallsAreAPath
<1>7. PICK end : /\ end = tree[kid].last /\ end \in Nat /\ end >= kid
  <2>1. stack[L - 1].next - 1 \in 1..Len(tree[a].nested) /\ Len(tree[a].nested) \in Nat
    BY <1>0, <1>5, <1>6, NestedFacts
  <2>2. tree[kid].last \in Nat /\ tree[kid].last >= kid
    BY <1>0, <1>5, <1>6, <2>1, NestedFacts
  <2> QED
    BY <2>2
<1>8. UpTo(L) = end /\ UpTo(L - 1) = kid - 1
  <2>1. UpTo(L) = end
    BY <1>0, <1>1, <1>4, <1>7, UpToTop DEF top
  <2>2. L - 1 # Len(stack) /\ L - 1 + 1 = L
    BY <1>1
  <2>3. UpTo(L - 1) = stack[L].at - 1
    BY <2>2 DEF UpTo
  <2> QED
    BY <1>4, <2>1, <2>3
<1>9. a <= kid - 1 /\ kid - 1 \in Nat
  <2>1. kid - 1 >= a
    BY <1>0, <1>4, <1>5, <1>8 DEF GoesForward
  <2> QED
    BY <1>5, <2>1
<1>10. UpTo(L - 1)' = end
  <2>1. /\ top'.next = stack[L - 1].next /\ top'.at = a
        /\ children' = tree[a].nested
    BY <1>0, <1>1, <1>4 DEF top, children
  <2>2. UpTo(L - 1)' = IF top'.next = 1 THEN top'.at ELSE tree[(children')[top'.next - 1]].last
    BY <1>0, <1>1 DEF UpTo
  <2> QED
    BY <1>5, <1>6, <1>7, <2>1, <2>2
<1>11. \A d \in 1..(L - 2) : UpTo(d)' = UpTo(d)
  <2> TAKE d \in 1..(L - 2)
  <2>1. d # L /\ d # L - 1 /\ d + 1 \in 1..(L - 1)
    BY <1>1
  <2> QED
    BY <1>1, <1>3, <2>1 DEF UpTo
<1>12. CallsOK'
  <2>1. CallFrame' = CallFrame
    BY <1>0 DEF CallFrame, AnyFinding
  <2>2. \A d \in 1..(L - 1) : stack'[d].next \in 1..(Len(tree[stack'[d].at].nested) + 1)
    BY <1>0, <1>1, <1>2, <1>3 DEF CallsOK
  <2> QED
    BY <1>0, <1>1, <2>1, <2>2 DEF CallsOK
<1>13. CallsAreAPath'
  <2>1. stack'[1].at = 1
    BY <1>0, <1>1, <1>3 DEF CallsAreAPath
  <2>2. ASSUME NEW d \in 2..(L - 1)
        PROVE  /\ stack'[d - 1].next > 1
               /\ stack'[d].at = tree[stack'[d - 1].at].nested[stack'[d - 1].next - 1]
    <3>1. d \in 1..(L - 1) /\ d - 1 \in 1..(L - 1) /\ d \in 2..Len(stack)
      BY <1>1
    <3> QED
      BY <1>0, <1>3, <3>1 DEF CallsAreAPath
  <2> QED
    BY <1>0, <1>1, <2>1, <2>2 DEF CallsAreAPath
<1>14. GoesForward'
  <2>1. \A d \in 1..(L - 1) : UpTo(d)' >= stack'[d].at
    <3> TAKE d \in 1..(L - 1)
    <3>1. CASE d = L - 1
      BY <1>3, <1>4, <1>5, <1>7, <1>9, <1>10, <3>1
    <3>2. CASE d \in 1..(L - 2)
      BY <1>0, <1>1, <1>2, <1>3, <1>11, <3>2 DEF GoesForward
    <3> QED
      BY <1>2, <3>1, <3>2
  <2> QED
    BY <1>1, <2>1 DEF GoesForward
<1>15. GatheredSoFar'
  <2>1. \A b, c : FirstFound(b, c)' = FirstFound(b, c)
    BY <1>0 DEF FirstFound
  <2>2. /\ dedupeFindings(stack[L - 1].out) = FirstFound(a, kid - 1)
        /\ gives = FirstFound(kid, end)
    BY <1>0, <1>1, <1>4, <1>5, <1>8 DEF GatheredSoFar
  <2>3. dedupeFindings(stack'[L - 1].out) = FirstFound(a, end)
    <3>1. dedupeFindings(stack'[L - 1].out)
            = FirstFound(a, kid - 1) \cup Added(FirstFound(a, kid - 1), FirstFound(kid, end))
      <4>1. dedupeFindings(Append(stack[L - 1].out, gives))
              = dedupeFindings(stack[L - 1].out)
                  \cup Added(dedupeFindings(stack[L - 1].out), gives)
        <5>1. stack[L - 1].out \in Seq(SUBSET AnyFinding) /\ gives \in SUBSET AnyFinding
          BY <1>1, <1>5
        <5> QED
          BY <5>1, DedupeAppend, ZenonT(60)
      <4>2. stack'[L - 1].out = Append(stack[L - 1].out, gives)
        BY <1>1
      <4> QED
        BY <2>2, <4>1, <4>2
    <3>2. FirstFound(a, end)
            = FirstFound(a, kid - 1) \cup Added(FirstFound(a, kid - 1), FirstFound(kid, end))
      <4>1. kid - 1 + 1 = kid /\ a <= kid - 1 + 1 /\ kid - 1 <= end
        BY <1>5, <1>7, <1>9
      <4>2. PICK b : b = kid - 1 /\ b \in Nat /\ a <= b + 1 /\ b <= end /\ b + 1 = kid
        BY <1>9, <4>1
      <4>3. FirstFound(a, end)
              = FirstFound(a, b) \cup Added(FirstFound(a, b), FirstFound(b + 1, end))
        BY <1>5, <1>7, <4>2, FoundFromTwo
      <4> QED
        BY <4>2, <4>3
    <3> QED
      BY <3>1, <3>2
  <2>4. ASSUME NEW d \in 1..(L - 1)
        PROVE  (dedupeFindings(stack[d].out) = FirstFound(stack[d].at, UpTo(d)))'
    <3>1. CASE d = L - 1
      BY <1>3, <1>4, <1>10, <2>1, <2>3, <3>1
    <3>2. CASE d \in 1..(L - 2)
      <4>1. dedupeFindings(stack[d].out) = FirstFound(stack[d].at, UpTo(d))
        BY <1>0, <1>1, <1>2, <3>2 DEF GatheredSoFar
      <4> QED
        BY <1>1, <1>11, <2>1, <3>2, <4>1
    <3> QED
      BY <1>2, <3>1, <3>2
  <2> QED
    BY <1>1, <2>4 DEF GatheredSoFar
<1> QED
  BY <1>0, <1>12, <1>13, <1>14, <1>15 DEF IInv, CheckInvariant, PolicyInForce, OnePass

(* The outermost call has gathered all that one pass finds.                *)
LEMMA ReturnStep ==
  ASSUME IInv, Return
  PROVE  IInv'
<1>0. /\ pc = "check" /\ pc' = "done" /\ tree' = tree /\ policy' = policy
      /\ answer' = dedupeFindings(top.out) /\ stack' = << >> /\ Len(stack) = 1
      /\ top.next > Len(children) /\ stack # << >>
      /\ CallsOK /\ CallsAreAPath /\ GatheredSoFar /\ PolicyInForce
  BY DEF IInv, CheckInvariant, CallsOK, Return
<1>1. top.at = 1 /\ 1 \in DOMAIN stack
  <2>1. DOMAIN stack = 1..Len(stack)
    BY <1>0, LenProperties DEF CallsOK
  <2> QED
    BY <1>0, <2>1 DEF CallsAreAPath, top
<1>2. UpTo(1) = Len(tree)
  BY <1>0, <1>1, UpToTop DEF CallsOK, Preorder
<1>3. answer' = FirstFound(1, Len(tree))
  BY <1>0, <1>1, <1>2 DEF GatheredSoFar, top
<1>4. (FirstFound(1, Len(tree)))' = FirstFound(1, Len(tree))
  BY <1>0 DEF FirstFound
<1>5. CallsOK'
  BY <1>0, EmptySeq DEF CallsOK
<1>6. CheckInvariant'
  BY <1>0, EmptySeq
     DEF CheckInvariant, PolicyInForce, CallsAreAPath, GoesForward, GatheredSoFar
<1> QED
  BY <1>3, <1>4, <1>5, <1>6 DEF IInv, OnePass

(* So does a step that changes nothing.                                    *)
LEMMA Stutter ==
  ASSUME IInv, UNCHANGED vars
  PROVE  IInv'
<1>0. /\ tree' = tree /\ policy' = policy /\ pc' = pc /\ stack' = stack /\ answer' = answer
      /\ CallsOK /\ PolicyInForce /\ CallsAreAPath /\ GoesForward /\ GatheredSoFar /\ OnePass
  BY DEF vars, IInv, CheckInvariant
<1>1. \A a, b : FirstFound(a, b)' = FirstFound(a, b)
  BY <1>0 DEF FirstFound
<1>2. \A d : UpTo(d)' = UpTo(d)
  BY <1>0 DEF UpTo, top, children
<1>3. CallsOK'
  BY <1>0 DEF CallsOK, CallFrame, AnyFinding
<1>4. PolicyInForce' /\ CallsAreAPath'
  BY <1>0 DEF PolicyInForce, CallsAreAPath
<1>5. GoesForward'
  BY <1>0, <1>2 DEF GoesForward
<1>6. GatheredSoFar'
  BY <1>0, <1>1, <1>2 DEF GatheredSoFar
<1>7. OnePass'
  BY <1>0 DEF OnePass, FirstFound
<1> QED
  BY <1>3, <1>4, <1>5, <1>6, <1>7 DEF IInv, CheckInvariant

-----------------------------------------------------------------------------
(***************************************************************************)
(* The theorems.                                                           *)
(***************************************************************************)
(* The inductive invariant holds of every tree of statements and every     *)
(* policy.                                                                 *)
THEOREM Inductive == Spec => []IInv
<1>1. Init => IInv
  BY Start
<1>2. IInv /\ [Next]_vars => IInv'
  <2> SUFFICES ASSUME IInv, [Next]_vars
               PROVE  IInv'
    OBVIOUS
  <2>1. CASE LoadPolicy
    BY <2>1, LoadPolicyStep
  <2>2. CASE CheckNested
    BY <2>2, CheckNestedStep
  <2>3. CASE ReturnToCaller
    BY <2>3, ReturnToCallerStep
  <2>4. CASE Return
    BY <2>4, ReturnStep
  <2>5. CASE Done \/ UNCHANGED vars
    BY <2>5, Stutter DEF Done
  <2> QED
    BY <2>1, <2>2, <2>3, <2>4, <2>5 DEF Next
<1> QED
  BY <1>1, <1>2, PTL DEF Spec

(* Each call of Check under way has gathered, whatever the shape of the    *)
(* tree, what one pass over the statements it has been through finds.      *)
THEOREM Gathers == Spec => []CheckInvariant
<1>1. IInv => CheckInvariant
  BY DEF IInv
<1> QED
  BY <1>1, Inductive, PTL

(* Check, which removes duplicates at every return, answers what one pass  *)
(* over all the statements nested at any depth finds.                      *)
THEOREM ChecksInOnePass == Spec => []OnePass
<1>1. IInv => OnePass
  BY DEF IInv
<1> QED
  BY <1>1, Inductive, PTL

(* The answer has every rule and message found anywhere, once.             *)
LEMMA EveryKey ==
  ASSUME IInv, pc = "done"
  PROVE  /\ Keys(answer) = UNION {Keys(checkOne(tree[k], policy)) : k \in DOMAIN tree}
         /\ \A x, y \in answer : Key(x) = Key(y) => x = y
<1>1. Len(tree) \in Nat /\ DOMAIN tree = 1..Len(tree)
  BY LenProperties DEF IInv, CallsOK
<1>2. \A k \in DOMAIN tree : found[k] = checkOne(tree[k], policy)
  BY <1>1 DEF found
<1>3. answer = FirstOf(found, 1, Len(tree))
  BY <1>1, FoundFromTo DEF IInv, OnePass
<1>4. Keys(answer) = UNION {Keys(found[k]) : k \in 1..Len(tree)}
  BY <1>1, <1>3, FirstKeys
<1>5. UNION {Keys(found[k]) : k \in 1..Len(tree)}
        = UNION {Keys(checkOne(tree[k], policy)) : k \in DOMAIN tree}
  BY <1>1, <1>2
<1>6. \A k \in 1..Len(tree) : \A x, y \in found[k] : Key(x) = Key(y) => x = y
  BY <1>1, <1>2, OneOfEachKey
<1>7. \A x, y \in FirstOf(found, 1, Len(tree)) : Key(x) = Key(y) => x = y
  BY <1>1, <1>6, FirstUnique
<1> QED
  BY <1>3, <1>4, <1>5, <1>7

(* No rule and message found in any statement nested at any depth is lost  *)
(* by removing duplicates, and none is reported twice.                     *)
THEOREM LosesNothing == Spec => []NothingLost
<1>1. IInv => NothingLost
  BY EveryKey DEF NothingLost
<1> QED
  BY <1>1, Inductive, PTL

(* A finding of the answer is one of some statement, and only once Check   *)
(* is done is there any.                                                   *)
LEMMA AnswerFrom ==
  ASSUME IInv, NEW x \in answer
  PROVE  pc = "done" /\ \E k \in DOMAIN tree : x \in checkOne(tree[k], policy)
<1>1. pc = "done"
  BY DEF IInv, CallsOK
<1>2. DOMAIN tree = 1..Len(tree)
  BY LenProperties DEF IInv, CallsOK
<1>3. x \in FirstFound(1, Len(tree))
  BY <1>1 DEF IInv, OnePass
<1> QED
  BY <1>1, <1>2, <1>3 DEF FirstFound

(* The decision of every finding is the policy file's, or the catalog's    *)
(* when the file gives none, but for the block of an incomplete analysis.  *)
THEOREM PolicyFollowed == Spec => []PolicyDecides
<1> DEFINE given(rule) == IF rule \in DOMAIN policy.rules THEN policy.rules[rule]
                                                          ELSE catalog[rule][2]
<1>1. ASSUME Validate(policy), NEW rule
      PROVE  RuleDecision(policy, rule) = given(rule)
  BY <1>1 DEF Validate, RuleDecision
<1>2. ASSUME IInv, NEW x \in answer
      PROVE  \/ x.decision = given(x.rule)
             \/ /\ x.rule = "semantic_analysis_incomplete" /\ given(x.rule) = "warn"
                /\ x.decision = "block"
  <2>1. PICK k \in DOMAIN tree : x \in checkOne(tree[k], policy)
    BY <1>2, AnswerFrom
  <2>2. Validate(policy)
    BY <1>2, AnswerFrom DEF IInv, CheckInvariant, PolicyInForce
  <2>3. CASE x \notin checkSemanticAnalysisIncomplete(tree[k], policy)
    <3>1. x = Finding(x.rule, x.about, RuleDecision(policy, x.rule))
      BY <2>1, <2>3, DecidedByPolicy
    <3>2. x.decision = RuleDecision(policy, x.rule)
      BY <3>1 DEF Finding
    <3> QED
      BY <1>1, <2>2, <3>2
  <2>4. CASE x \in checkSemanticAnalysisIncomplete(tree[k], policy)
    <3>1. \E about, raised :
            /\ raised => RuleDecision(policy, "semantic_analysis_incomplete") = "warn"
            /\ x = Finding("semantic_analysis_incomplete", about,
                           IF raised THEN "block"
                           ELSE RuleDecision(policy, "semantic_analysis_incomplete"))
      BY <2>4 DEF checkSemanticAnalysisIncomplete
    <3>2. /\ x.rule = "semantic_analysis_incomplete"
          /\ \/ x.decision = RuleDecision(policy, x.rule)
             \/ RuleDecision(policy, x.rule) = "warn" /\ x.decision = "block"
      BY <3>1 DEF Finding
    <3> QED
      BY <1>1, <2>2, <3>2
  <2> QED
    BY <2>3, <2>4
<1>3. IInv => PolicyDecides
  BY <1>2 DEF PolicyDecides
<1> QED
  BY <1>3, Inductive, PTL

(* The decision of a rule is one, whatever the policy.                     *)
LEMMA DecisionsOnly ==
  ASSUME NEW p, NEW rule \in RuleIds
  PROVE  /\ RuleDecision(p, rule) \in Decisions
         /\ decisionStrictness[RuleDecision(p, rule)] \in Nat
<1>1. catalog[rule][2] \in Decisions
  BY DEF RuleIds, catalog, Decisions
<1>2. RuleDecision(p, rule) \in Decisions
  BY <1>1 DEF RuleDecision
<1>3. \A d \in Decisions : decisionStrictness[d] \in Nat
  BY DEF Decisions, decisionStrictness
<1> QED
  BY <1>2, <1>3

(* The answer is as strict as the strictest finding of any statement       *)
(* nested anywhere, whatever the rule, but that of incomplete analysis.    *)
THEOREM StrictestAnswers == Spec => []StrictestOtherwise
<1>1. ASSUME IInv, pc = "done", NEW k \in DOMAIN tree, NEW x \in checkOne(tree[k], policy),
             x.rule # "semantic_analysis_incomplete"
      PROVE  \E y \in answer : decisionStrictness[y.decision] >= decisionStrictness[x.decision]
  <2>1. Key(x) \in Keys(answer)
    <3>1. Key(x) \in UNION {Keys(checkOne(tree[h], policy)) : h \in DOMAIN tree}
      BY DEF Keys
    <3> QED
      BY <1>1, <3>1, EveryKey
  <2>2. PICK y \in answer : Key(y) = Key(x)
    BY <2>1 DEF Keys
  <2>3. PICK h \in DOMAIN tree : y \in checkOne(tree[h], policy)
    BY <1>1, AnswerFrom
  <2>4. y.rule = x.rule
    BY <2>2 DEF Key
  <2>5. \A z, stmt : /\ z \in checkSemanticAnalysisIncomplete(stmt, policy)
                     => z.rule = "semantic_analysis_incomplete"
    BY OfIncompleteAnalysis
  <2>6. /\ x = Finding(x.rule, x.about, RuleDecision(policy, x.rule)) /\ x.rule \in RuleIds
        /\ y = Finding(y.rule, y.about, RuleDecision(policy, y.rule))
    BY <1>1, <2>3, <2>4, <2>5, DecidedByPolicy
  <2>7. x.decision = RuleDecision(policy, x.rule) /\ y.decision = RuleDecision(policy, x.rule)
    BY <2>4, <2>6 DEF Finding
  <2>8. decisionStrictness[x.decision] \in Nat
    BY <2>6, <2>7, DecisionsOnly
  <2>9. decisionStrictness[y.decision] >= decisionStrictness[x.decision]
    BY <2>7, <2>8
  <2> QED
    BY <2>9
<1>2. IInv => StrictestOtherwise
  BY <1>1 DEF StrictestOtherwise
<1> QED
  BY <1>2, Inductive, PTL

-----------------------------------------------------------------------------
(***************************************************************************)
(* The types.                                                              *)
(***************************************************************************)
(* The reasons an incomplete analysis is reported with are its own.        *)
LEMMA ReasonsOf ==
  ASSUME NEW reasons \in Seq(Reasons)
  PROVE  actionableIncompleteReasons(reasons) \in Seq(Reasons)
<1> DEFINE parts == [i \in DOMAIN reasons |->
                       IF reasons[i] = "core_mode_token_parser" THEN << >> ELSE <<reasons[i]>>]
<1>1. DOMAIN reasons = 1..Len(reasons) /\ Len(reasons) \in Nat
  BY LenProperties
<1>2. \A i \in 1..Len(reasons) : parts[i] \in Seq(Reasons)
  BY <1>1, ElementOfSeq
<1>3. parts \in Seq(Seq(Reasons))
  BY <1>1, <1>2, IsASeq
<1> QED
  BY <1>3, FlattenInSeq DEF actionableIncompleteReasons

(* What the rules find in a statement are findings.                        *)
LEMMA RulesFind ==
  ASSUME NEW stmt \in Statement, NEW p
  PROVE  checkOne(stmt, p) \subseteq FindingType
<1> DEFINE incomplete == Reasons \cup {"partial", "unsupported"}
           AboutType  == Name \cup Seq(incomplete)
<1>1. ASSUME NEW rule \in RuleIds, NEW about \in AboutType, NEW d \in Decisions
      PROVE  Finding(rule, about, d) \in FindingType
  <2>1. catalog[rule][1] \in Severities
    BY DEF RuleIds, catalog, Severities
  <2> QED
    BY <2>1 DEF Finding, FindingType
<1>2. ASSUME NEW rule \in RuleIds, NEW names, names \subseteq Name
      PROVE  About(rule, names, p) \subseteq FindingType
  BY <1>1, <1>2, DecisionsOnly DEF About
<1>3. /\ \A r \in stmt.relations : QualifiedName(r) \in Name /\ r.schema \in Name
      /\ stmt.table \in Name /\ stmt.schema \in Name
  <2>1. \A r \in stmt.relations : r.schema \in Seq(Identifiers) /\ r.name \in Seq(Identifiers)
    BY DEF Statement, Relation, Name
  <2> QED
    BY <2>1, ConcatProperties DEF Statement, Name, QualifiedName
<1> HIDE DEF AboutType
<1>4. checkStatementAlone(stmt, p) \subseteq FindingType
  <2>1. DOMAIN fires(stmt) \subseteq RuleIds
    BY DEF fires, RuleIds, catalog
  <2>2. << >> \in AboutType
    BY DEF AboutType, Name
  <2> QED
    BY <1>1, <2>1, <2>2, DecisionsOnly DEF checkStatementAlone
<1>5. checkGrantHighRiskRoleMembership(stmt, p) \subseteq FindingType
  <2> DEFINE risky == {r \in stmt.grantedRoles :
                         IsProtectedRole(p, r) \/ r \in highRiskBuiltinRoles}
  <2>1. risky \subseteq Identifiers
    BY DEF Statement
  <2>2. ASSUME risky # {}
        PROVE  {<<CHOOSE r \in risky : TRUE>>} \subseteq Name
    BY <2>1, <2>2 DEF Name
  <2>3. "grant_high_risk_role_membership" \in RuleIds
    BY DEF RuleIds, catalog
  <2> HIDE DEF risky
  <2>4. ASSUME risky # {}
        PROVE  About("grant_high_risk_role_membership", {<<CHOOSE r \in risky : TRUE>>}, p)
                 \subseteq FindingType
    BY <1>2, <2>2, <2>3, <2>4
  <2> QED
    BY <2>4, Zenon DEF checkGrantHighRiskRoleMembership, risky
<1>6. checkGrantToPublicOnProtectedObjects(stmt, p) \subseteq FindingType
  <2> DEFINE named == {QualifiedName(r) : r \in TargetRelations(stmt)}
                        \cup {r.schema : r \in {x \in TargetRelations(stmt) :
                                                  IsProtectedSchema(p, x.schema)}}
                        \cup (IF stmt.relations = {} THEN {stmt.table} ELSE {})
                        \cup {stmt.schema}
             names == {n \in named : IsProtectedTable(p, n) \/ IsProtectedSchema(p, n)}
             rule  == "grant_to_public_on_protected_objects"
  <2>1. names \subseteq Name
    BY <1>3 DEF TargetRelations
  <2>2. rule \in RuleIds
    BY DEF RuleIds, catalog
  <2>3. \/ checkGrantToPublicOnProtectedObjects(stmt, p) = About(rule, names, p)
        \/ checkGrantToPublicOnProtectedObjects(stmt, p) = {}
    BY Zenon DEF checkGrantToPublicOnProtectedObjects
  <2> HIDE DEF names, named
  <2> QED
    BY <1>2, <2>1, <2>2, <2>3
<1>7. \A rels : rels \subseteq stmt.relations => protectedNames(stmt, p, rels) \subseteq Name
  BY <1>3 DEF protectedNames
<1>8. checkReadsOfProtectedTables(stmt, p) \subseteq FindingType
  <2>1. protectedReadNames(stmt, p) \subseteq Name
    BY <1>7 DEF protectedReadNames, ReadRelations
  <2> DEFINE readRules == {"select_all_from_protected_table",
                           "select_without_limit_from_protected_table",
                           "insert_select_from_protected_table",
                           "copy_to_stdout_or_program_from_protected_source"}
  <2>2. readRules \subseteq RuleIds
    BY DEF RuleIds, catalog
  <2>3. checkReadsOfProtectedTables(stmt, p)
          \subseteq UNION {About(r, protectedReadNames(stmt, p), p) : r \in readRules}
    BY DEF checkReadsOfProtectedTables
  <2> QED
    BY <1>2, <2>1, <2>2, <2>3
<1>9. checkWritesToProtectedTables(stmt, p) \subseteq FindingType
  <2>1. protectedMutationNames(stmt, p) \subseteq Name
    BY <1>7 DEF protectedMutationNames, MutationRelations
  <2>2. "writes_to_protected_tables" \in RuleIds
    BY DEF RuleIds, catalog
  <2> QED
    BY <1>2, <2>1, <2>2 DEF checkWritesToProtectedTables
<1>10. checkSemanticAnalysisIncomplete(stmt, p) \subseteq FindingType
  <2> DEFINE rule    == "semantic_analysis_incomplete"
             reasons == actionableIncompleteReasons(stmt.reasons)
             about   == <<stmt.completeness>> \o reasons
  <2>1. ASSUME NEW x \in checkSemanticAnalysisIncomplete(stmt, p)
        PROVE  /\ stmt.completeness \in {"partial", "unsupported"}
               /\ \E d : x = Finding(rule, about, d) /\ d \in {"block", RuleDecision(p, rule)}
    BY <2>1, Zenon DEF checkSemanticAnalysisIncomplete
  <2>2. ASSUME stmt.completeness \in {"partial", "unsupported"}
        PROVE  about \in AboutType
    <3>1. reasons \in Seq(Reasons)
      BY ReasonsOf DEF Statement
    <3>2. reasons \in Seq(incomplete)
      BY <3>1
    <3>3. <<stmt.completeness>> \in Seq(incomplete)
      BY <2>2
    <3> HIDE DEF reasons, incomplete
    <3>4. about \in Seq(incomplete)
      BY <3>2, <3>3, ConcatProperties
    <3> QED
      BY <3>4 DEF AboutType, incomplete
  <2>3. rule \in RuleIds /\ RuleDecision(p, rule) \in Decisions /\ "block" \in Decisions
    BY DecisionsOnly DEF RuleIds, catalog, Decisions
  <2> HIDE DEF about, reasons
  <2> QED
    BY <1>1, <2>1, <2>2, <2>3
<1> QED
  BY <1>4, <1>5, <1>6, <1>8, <1>9, <1>10 DEF checkOne

(* Every variable keeps its type: what Check hands from call to call and   *)
(* answers in the end are findings of the catalog's rules, and each call   *)
(* under way is at a statement, before or after all nested ones.           *)
THEOREM TypeCorrect == Spec => []TypeOK
<1>1. ASSUME IInv
      PROVE  TypeOK
  <2>1. \A k \in DOMAIN tree : checkOne(tree[k], policy) \subseteq FindingType
    BY <1>1, ElementOfSeq, LenProperties, RulesFind DEF IInv, CallsOK
  <2>2. AnyFinding \subseteq FindingType
    BY <2>1 DEF AnyFinding
  <2>3. answer \subseteq FindingType
    BY <1>1, <2>1, AnswerFrom
  <2>4. ASSUME NEW d \in DOMAIN stack
        PROVE  /\ stack[d].at \in DOMAIN tree
               /\ stack[d].next \in 1..(Len(tree[stack[d].at].nested) + 1)
               /\ \A i \in DOMAIN stack[d].out : stack[d].out[i] \subseteq FindingType
    <3>1. stack[d].at \in DOMAIN tree /\ stack[d].out \in Seq(SUBSET AnyFinding)
      BY <1>1, StackFacts DEF IInv
    <3>2. \A i \in DOMAIN stack[d].out : stack[d].out[i] \in SUBSET AnyFinding
      BY <3>1, ElementOfSeq, LenProperties
    <3> QED
      BY <1>1, <2>2, <3>1, <3>2 DEF IInv, CallsOK
  <2> QED
    BY <1>1, <2>3, <2>4 DEF TypeOK, IInv, CallsOK
<1> QED
  BY <1>1, Inductive, PTL

=============================================================================
