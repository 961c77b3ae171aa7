---------------------------- MODULE AnswerLemmas ----------------------------
(***************************************************************************)
(* Facts about the answer to a command, for every command: the statements  *)
(* of its inputs, the places of their findings, what is strictest, and the *)
(* SARIF form of the report.                                               *)
(***************************************************************************)
EXTENDS Answers, Reports, SequenceLemmas

-----------------------------------------------------------------------------
(***************************************************************************)
(* The statements of a command, input by input.                            *)
(***************************************************************************)
Bare == [path : Paths \cup {NoPath}, line : Nat \ {0}, findings : Seq(RuleFinding)]

parts(c) == [k \in DOMAIN c.inputs |-> StatementsOf(c.inputs[k])]

joined(c) == CHOOSE g : Joins(parts(c), Len(c.inputs), g)

(* The statements of the first k inputs.                                   *)
Before(c, k) == IF k = 0 THEN << >> ELSE joined(c)[k]

(* The statements of an input.                                             *)
LEMMA StatementsOfInput ==
  ASSUME NEW x \in Input
  PROVE  /\ StatementsOf(x) \in Seq(Bare)
         /\ Len(StatementsOf(x)) = Len(x.stmts)
         /\ \A k \in 1..Len(x.stmts) : StatementsOf(x)[k] =
              [path |-> x.path, line |-> x.stmts[k].line, findings |-> x.stmts[k].findings]
<1>1. x.stmts \in Seq(Statement) /\ x.path \in Paths \cup {NoPath}
  BY DEF Input
<1>2. Len(x.stmts) \in Nat /\ DOMAIN x.stmts = 1..Len(x.stmts)
  BY <1>1, LenProperties
<1>3. \A k \in 1..Len(x.stmts) : x.stmts[k] \in Statement
  BY <1>1, ElementOfSeq
<1>4. \A k \in 1..Len(x.stmts) :
        x.stmts[k].line \in Nat \ {0} /\ x.stmts[k].findings \in Seq(RuleFinding)
  BY <1>3 DEF Statement
<1> DEFINE b == [k \in 1..Len(x.stmts) |->
                   [path |-> x.path, line |-> x.stmts[k].line,
                    findings |-> x.stmts[k].findings]]
<1>5. StatementsOf(x) = b
  BY <1>2, Zenon DEF StatementsOf
<1>6. \A k \in 1..Len(x.stmts) :
        [path |-> x.path, line |-> x.stmts[k].line, findings |-> x.stmts[k].findings] \in Bare
  BY <1>1, <1>4 DEF Bare
<1>7. b \in Seq(Bare) /\ Len(b) = Len(x.stmts)
  BY <1>2, <1>6, IsASeq, LenProperties
<1>8. \A k \in 1..Len(x.stmts) : b[k] =
        [path |-> x.path, line |-> x.stmts[k].line, findings |-> x.stmts[k].findings]
  OBVIOUS
<1>9. QED  BY <1>5, <1>7, <1>8, Zenon

(* The statements of the first k inputs are those of the first k - 1 and   *)
(* then those of input k; all of them are the command's.                   *)
LEMMA BeforeFacts ==
  ASSUME NEW c \in Command
  PROVE  /\ Before(c, 0) = << >>
         /\ \A k \in 0..Len(c.inputs) : Before(c, k) \in Seq(Bare)
         /\ \A k \in 1..Len(c.inputs) :
              Before(c, k) = Before(c, k - 1) \o StatementsOf(c.inputs[k])
         /\ AllStatements(c) = Before(c, Len(c.inputs))
<1> DEFINE p == parts(c)
           g == joined(c)
<1>1. /\ c.inputs \in Seq(Input) /\ Len(c.inputs) \in Nat
      /\ DOMAIN c.inputs = 1..Len(c.inputs)
  BY LenProperties DEF Command
<1>2. \A k \in 1..Len(c.inputs) : c.inputs[k] \in Input
  BY <1>1, ElementOfSeq
<1>3. \A k \in 1..Len(c.inputs) : StatementsOf(c.inputs[k]) \in Seq(Bare)
  BY <1>2, StatementsOfInput
<1>4. p = [k \in 1..Len(c.inputs) |-> StatementsOf(c.inputs[k])]
  BY <1>1, Zenon DEF parts
<1>5. p \in Seq(Seq(Bare)) /\ Len(p) = Len(c.inputs)
  BY <1>1, <1>3, <1>4, IsASeq, LenProperties
<1>6. \A k \in 1..Len(c.inputs) : p[k] = StatementsOf(c.inputs[k])
  BY <1>4
<1>7. Joins(p, Len(p), g)
  BY <1>1, <1>5, JoinsExist DEF joined
<1>8. AllStatements(c) = FlattenSeq(p)
  BY Zenon DEF AllStatements, parts
<1> HIDE DEF p, g
<1>9. \A k \in 1..Len(p) : g[k] \in Seq(Bare) /\ g[k] = IF k = 1 THEN p[k] ELSE g[k - 1] \o p[k]
  BY <1>5, <1>7, JoinsSeqs
<1>10. \A k \in 1..Len(c.inputs) : Before(c, k) = g[k]
  <2>1. \A k \in 1..Len(c.inputs) : k # 0
    BY <1>1
  <2>2. QED  BY <2>1, Zenon DEF Before, g
<1>11. Before(c, 0) = << >> /\ << >> \in Seq(Bare)
  BY EmptySeq, Zenon DEF Before
<1>12. \A k \in 0..Len(c.inputs) : Before(c, k) \in Seq(Bare)
  <2> TAKE k \in 0..Len(c.inputs)
  <2>1. k = 0 \/ k \in 1..Len(c.inputs)
    BY <1>1
  <2>2. QED  BY <1>5, <1>9, <1>10, <1>11, <2>1
<1>13. \A k \in 1..Len(c.inputs) :
         Before(c, k) = Before(c, k - 1) \o StatementsOf(c.inputs[k])
  <2> TAKE k \in 1..Len(c.inputs)
  <2>1. CASE k = 1
    <3>1. Before(c, k) = p[1]
      BY <1>5, <1>9, <1>10, <2>1
    <3>2. p[1] \in Seq(Bare) /\ << >> \o p[1] = p[1]
      BY <1>3, <1>6, <2>1, ConcatEmptySeq
    <3>3. QED  BY <1>6, <1>11, <2>1, <3>1, <3>2
  <2>2. CASE k # 1
    <3>1. k - 1 \in 1..Len(c.inputs) /\ k \in 1..Len(p)
      BY <1>1, <1>5, <2>2
    <3>2. g[k] = g[k - 1] \o p[k]
      BY <1>9, <2>2, <3>1, Zenon
    <3>3. QED  BY <1>6, <1>10, <3>1, <3>2, Zenon
  <2>3. QED  BY <2>1, <2>2
<1>14. AllStatements(c) = Before(c, Len(c.inputs))
  <2>1. CASE Len(p) = 0
    <3>1. FlattenSeq(p) = p
      BY <2>1, Zenon DEF FlattenSeq
    <3>2. p = << >>
      BY <1>5, <2>1, EmptySeq
    <3>3. QED  BY <1>5, <1>8, <1>11, <2>1, <3>1, <3>2, Zenon
  <2>2. CASE Len(p) # 0
    <3>1. FlattenSeq(p) =
            (CHOOSE q : q = [k \in 1..Len(p) |->
                               IF k = 1 THEN p[k] ELSE q[k - 1] \o p[k]])[Len(p)]
      BY <2>2, Zenon DEF FlattenSeq
    <3>2. g = CHOOSE q : q = [k \in 1..Len(p) |-> IF k = 1 THEN p[k] ELSE q[k - 1] \o p[k]]
      BY <1>5, Zenon DEF g, p, joined, Joins
    <3>3. Len(c.inputs) \in 1..Len(c.inputs)
      BY <1>1, <1>5, <2>2
    <3>4. QED  BY <1>5, <1>8, <1>10, <3>1, <3>2, <3>3, Zenon
  <2>3. QED  BY <2>1, <2>2
<1>15. QED  BY <1>11, <1>12, <1>13, <1>14, Zenon

(* One step further into the inputs, position by position.                 *)
LEMMA BeforeStep ==
  ASSUME NEW c \in Command, NEW k \in 1..Len(c.inputs)
  PROVE  /\ Len(Before(c, k - 1)) \in Nat
         /\ Len(Before(c, k)) = Len(Before(c, k - 1)) + Len(c.inputs[k].stmts)
         /\ \A h \in 1..Len(Before(c, k - 1)) : Before(c, k)[h] = Before(c, k - 1)[h]
         /\ \A t \in 1..Len(c.inputs[k].stmts) :
              Before(c, k)[Len(Before(c, k - 1)) + t] =
                [path     |-> c.inputs[k].path, line |-> c.inputs[k].stmts[t].line,
                 findings |-> c.inputs[k].stmts[t].findings]
<1>1. /\ c.inputs \in Seq(Input) /\ Len(c.inputs) \in Nat
  BY LenProperties DEF Command
<1>2. c.inputs[k] \in Input
  BY <1>1, ElementOfSeq
<1>3. PICK b : b = Before(c, k - 1)
  OBVIOUS
<1>4. PICK w : w = StatementsOf(c.inputs[k])
  OBVIOUS
<1>5. k - 1 \in 0..Len(c.inputs)
  BY <1>1
<1>6. b \in Seq(Bare) /\ Before(c, k) = b \o w
  BY <1>3, <1>4, <1>5, BeforeFacts, Zenon
<1>7. /\ w \in Seq(Bare) /\ Len(w) = Len(c.inputs[k].stmts)
      /\ \A t \in 1..Len(c.inputs[k].stmts) : w[t] =
           [path     |-> c.inputs[k].path, line |-> c.inputs[k].stmts[t].line,
            findings |-> c.inputs[k].stmts[t].findings]
  BY <1>2, <1>4, StatementsOfInput, Zenon
<1>8. /\ Len(b \o w) = Len(b) + Len(w)
      /\ \A h \in 1..(Len(b) + Len(w)) :
           (b \o w)[h] = IF h <= Len(b) THEN b[h] ELSE w[h - Len(b)]
  <2>1. b \in Seq(Bare) /\ w \in Seq(Bare)
    BY <1>6, <1>7, Zenon
  <2>2. QED  BY <2>1, ConcatProperties
<1>9. Len(b) \in Nat /\ Len(w) \in Nat
  BY <1>6, <1>7, LenProperties
<1>10. \A h \in 1..Len(b) : (b \o w)[h] = b[h]
  BY <1>8, <1>9
<1>11. \A t \in 1..Len(w) : (b \o w)[Len(b) + t] = w[t]
  <2> TAKE t \in 1..Len(w)
  <2>1. /\ Len(b) + t \in 1..(Len(b) + Len(w)) /\ ~(Len(b) + t <= Len(b))
        /\ (Len(b) + t) - Len(b) = t
    BY <1>9
  <2>2. (b \o w)[Len(b) + t] = w[(Len(b) + t) - Len(b)]
    BY <1>8, <2>1
  <2>3. QED  BY <2>1, <2>2, Zenon
<1>12. QED  BY <1>3, <1>6, <1>7, <1>8, <1>9, <1>10, <1>11, Zenon

-----------------------------------------------------------------------------
(***************************************************************************)
(* The places of findings, and the greatest of what is found there.        *)
(***************************************************************************)
(* v is the greatest of V, or least when there are none.                   *)
IsGreatest(v, V, rank, least) ==
  v \in V \cup {least} /\ \A w \in V \cup {least} : rank[w] <= rank[v]

(* A place is a statement and a finding of it.                             *)
LEMMA PlacesAre ==
  ASSUME NEW srs
  PROVE  Places(srs) =
           {p \in (DOMAIN srs) \X (UNION {DOMAIN srs[k].findings : k \in DOMAIN srs}) :
              p[2] \in DOMAIN srs[p[1]].findings}
<1> DEFINE Q == {p \in (DOMAIN srs) \X (UNION {DOMAIN srs[k].findings : k \in DOMAIN srs}) :
                   p[2] \in DOMAIN srs[p[1]].findings}
<1>1. ASSUME NEW p \in Places(srs)  PROVE p \in Q
  <2>1. PICK k \in DOMAIN srs : p \in {k} \X DOMAIN srs[k].findings
    BY Zenon DEF Places
  <2>2. PICK q \in DOMAIN srs[k].findings : p = <<k, q>>
    BY <2>1
  <2>3. p[1] = k /\ p[2] = q
    BY <2>2
  <2>4. QED  BY <2>2, <2>3
<1>2. ASSUME NEW p \in Q  PROVE p \in Places(srs)
  <2>1. PICK k \in DOMAIN srs : \E q : p = <<k, q>> /\ q \in DOMAIN srs[k].findings
    OBVIOUS
  <2>2. PICK q \in DOMAIN srs[k].findings : p = <<k, q>>
    BY <2>1
  <2>3. p \in {k} \X DOMAIN srs[k].findings
    BY <2>1, <2>2
  <2>4. QED  BY <2>3, Zenon DEF Places
<1>3. QED  BY <1>1, <1>2, Zenon

(* The greatest value is the one the gate chooses: no two have one rank.   *)
LEMMA DecisionIs ==
  ASSUME NEW V \in SUBSET Decisions, NEW v, IsGreatest(v, V, decisionStrictness, "allow")
  PROVE  Greatest(V, decisionStrictness, "allow") = v
<1>2. /\ v \in V \cup {"allow"}
      /\ \A w \in V \cup {"allow"} : decisionStrictness[w] <= decisionStrictness[v]
  BY Zenon DEF IsGreatest
<1>3. \A x, y \in Decisions :
        /\ decisionStrictness[x] \in Nat
        /\ decisionStrictness[x] <= decisionStrictness[y] /\
           decisionStrictness[y] <= decisionStrictness[x] => x = y
  BY DEF decisionStrictness, Decisions
<1>4. V \cup {"allow"} \subseteq Decisions
  BY DEF Decisions
<1>5. ASSUME NEW u \in V \cup {"allow"},
             \A w \in V \cup {"allow"} : decisionStrictness[w] <= decisionStrictness[u]
      PROVE  u = v
  BY <1>2, <1>3, <1>4, <1>5, Zenon
<1>6. v = CHOOSE u \in V \cup {"allow"} :
            \A w \in V \cup {"allow"} : decisionStrictness[w] <= decisionStrictness[u]
  BY <1>2, <1>5, Zenon
<1>7. QED  BY <1>6, Zenon DEF Greatest

(* The same for severities.                                                *)
LEMMA SeverityIs ==
  ASSUME NEW V \in SUBSET Severities, NEW v, IsGreatest(v, V, severityLevel, "low")
  PROVE  Greatest(V, severityLevel, "low") = v
<1>2. /\ v \in V \cup {"low"}
      /\ \A w \in V \cup {"low"} : severityLevel[w] <= severityLevel[v]
  BY Zenon DEF IsGreatest
<1>3. \A x, y \in Severities :
        /\ severityLevel[x] \in Nat
        /\ severityLevel[x] <= severityLevel[y] /\ severityLevel[y] <= severityLevel[x] => x = y
  BY DEF severityLevel, Severities
<1>4. V \cup {"low"} \subseteq Severities
  BY DEF Severities
<1>5. ASSUME NEW u \in V \cup {"low"},
             \A w \in V \cup {"low"} : severityLevel[w] <= severityLevel[u]
      PROVE  u = v
  BY <1>2, <1>3, <1>4, <1>5, Zenon
<1>6. v = CHOOSE u \in V \cup {"low"} :
            \A w \in V \cup {"low"} : severityLevel[w] <= severityLevel[u]
  BY <1>2, <1>5, Zenon
<1>7. QED  BY <1>6, Zenon DEF Greatest

(* The strictest of some decisions.                                        *)
LEMMA StrictestIs ==
  ASSUME NEW V \in SUBSET Decisions
  PROVE  Greatest(V, decisionStrictness, "allow") =
           IF "block" \in V THEN "block" ELSE IF "warn" \in V THEN "warn" ELSE "allow"
<1> DEFINE v == IF "block" \in V THEN "block" ELSE IF "warn" \in V THEN "warn" ELSE "allow"
<1>1. v \in V \cup {"allow"}
  OBVIOUS
<1>2. ASSUME NEW w \in V \cup {"allow"}  PROVE decisionStrictness[w] <= decisionStrictness[v]
  <2>1. w \in {"allow", "warn", "block"} /\ (w = "block" => v = "block")
        /\ (w = "warn" => v \in {"warn", "block"}) /\ v \in {"allow", "warn", "block"}
    BY DEF Decisions
  <2>2. QED  BY <2>1 DEF decisionStrictness, Decisions
<1>3. IsGreatest(v, V, decisionStrictness, "allow")
  BY <1>1, <1>2, Zenon DEF IsGreatest
<1>4. QED  BY <1>3, DecisionIs

(* The greatest of some severities is one.                                 *)
LEMMA GreatestIsSeverity ==
  ASSUME NEW V \in SUBSET Severities
  PROVE  Greatest(V, severityLevel, "low") \in Severities
<1> DEFINE W == V \cup {"low"}
<1>1. W \subseteq Severities
  BY DEF Severities
<1>2. \E v \in W : \A w \in W : severityLevel[w] <= severityLevel[v]
  BY <1>1 DEF severityLevel, Severities
<1>3. Greatest(V, severityLevel, "low") \in W
  BY <1>2, Zenon DEF Greatest
<1>4. QED  BY <1>1, <1>3

-----------------------------------------------------------------------------
(***************************************************************************)
(* The report of a command.                                                *)
(***************************************************************************)
(* Statement t of an input.                                                *)
Written(x, t) ==
  [path |-> x.path, line |-> x.stmts[t].line, findings |-> x.stmts[t].findings]

(* The statement a is one of the command's inputs.                         *)
WrittenIn(c, a) ==
  \E h \in DOMAIN c.inputs : \E t \in DOMAIN c.inputs[h].stmts : a = Written(c.inputs[h], t)

(* What the statements of a command are, and where they come from.         *)
LEMMA AllStatementsAre ==
  ASSUME NEW c \in Command, NEW as, as = AllStatements(c)
  PROVE  /\ as \in Seq(Bare) /\ Len(as) \in Nat /\ DOMAIN as = 1..Len(as)
         /\ \A k \in DOMAIN as : as[k] \in Bare
         /\ \A k \in DOMAIN as : WrittenIn(c, as[k])
         /\ \A h \in DOMAIN c.inputs : \A t \in DOMAIN c.inputs[h].stmts :
              Written(c.inputs[h], t) \in ToSet(as)
<1>1. /\ c.inputs \in Seq(Input) /\ Len(c.inputs) \in Nat /\ DOMAIN c.inputs = 1..Len(c.inputs)
  BY LenProperties DEF Command
<1>2. \A h \in DOMAIN c.inputs : c.inputs[h] \in Input
  BY <1>1, ElementOfSeq
<1>3. ASSUME NEW h \in DOMAIN c.inputs
      PROVE  /\ StatementsOf(c.inputs[h]) \in Seq(Bare)
             /\ DOMAIN StatementsOf(c.inputs[h]) = DOMAIN c.inputs[h].stmts
             /\ \A t \in DOMAIN c.inputs[h].stmts :
                  StatementsOf(c.inputs[h])[t] = Written(c.inputs[h], t)
  <2>1. c.inputs[h].stmts \in Seq(Statement)
    BY <1>2 DEF Input
  <2>2. DOMAIN c.inputs[h].stmts = 1..Len(c.inputs[h].stmts)
    BY <2>1, LenProperties
  <2>3. StatementsOf(c.inputs[h]) \in Seq(Bare)
    BY <1>2, StatementsOfInput
  <2>4. QED  BY <1>2, <2>2, <2>3, StatementsOfInput, LenProperties DEF Written
<1>4. PICK p : p = parts(c)
  OBVIOUS
<1>5. /\ DOMAIN p = DOMAIN c.inputs
      /\ \A h \in DOMAIN c.inputs : p[h] = StatementsOf(c.inputs[h])
  BY <1>4 DEF parts
<1>6. p \in Seq(Seq(Bare))
  <2>1. p = [h \in 1..Len(c.inputs) |-> StatementsOf(c.inputs[h])]
    BY <1>1, <1>4, Zenon DEF parts
  <2>2. \A h \in 1..Len(c.inputs) : StatementsOf(c.inputs[h]) \in Seq(Bare)
    BY <1>1, <1>3
  <2>3. QED  BY <1>1, <2>1, <2>2, IsASeq
<1>8. as = FlattenSeq(p)
  BY <1>4, Zenon DEF AllStatements, parts
<1>9. as \in Seq(Bare) /\ Len(as) \in Nat /\ DOMAIN as = 1..Len(as)
  BY <1>6, <1>8, FlattenSpots, Zenon
<1>10. \A k \in DOMAIN as : as[k] \in Bare
  BY <1>9, ElementOfSeq
<1>11. /\ \A k \in DOMAIN as : \E h \in DOMAIN p : \E t \in DOMAIN p[h] : as[k] = p[h][t]
       /\ \A h \in DOMAIN p : \A t \in DOMAIN p[h] : \E k \in DOMAIN as : as[k] = p[h][t]
  <2>1. SameElements(as, p)
    BY <1>6, <1>8, FlattenSpots, Zenon
  <2>2. QED  BY <2>1, Zenon DEF SameElements
<1>12. \A h \in DOMAIN c.inputs :
         /\ DOMAIN p[h] = DOMAIN c.inputs[h].stmts
         /\ \A t \in DOMAIN c.inputs[h].stmts : p[h][t] = Written(c.inputs[h], t)
  BY <1>3, <1>5, Zenon
<1>13. ASSUME NEW k \in DOMAIN as
       PROVE  WrittenIn(c, as[k])
  <2>1. PICK h \in DOMAIN p : \E t \in DOMAIN p[h] : as[k] = p[h][t]
    BY <1>11
  <2>2. PICK t \in DOMAIN p[h] : as[k] = p[h][t]
    BY <2>1
  <2>3. h \in DOMAIN c.inputs /\ t \in DOMAIN c.inputs[h].stmts
    BY <1>5, <1>12
  <2>4. as[k] = Written(c.inputs[h], t)
    BY <1>12, <2>2, <2>3, Zenon
  <2>5. QED  BY <2>3, <2>4, Zenon DEF WrittenIn
<1>14. ASSUME NEW h \in DOMAIN c.inputs, NEW t \in DOMAIN c.inputs[h].stmts
       PROVE  Written(c.inputs[h], t) \in ToSet(as)
  <2>1. h \in DOMAIN p /\ t \in DOMAIN p[h] /\ p[h][t] = Written(c.inputs[h], t)
    BY <1>5, <1>12, Zenon
  <2>2. PICK k \in DOMAIN as : as[k] = p[h][t]
    BY <1>11, <2>1, Zenon
  <2>3. QED  BY <2>1, <2>2 DEF ToSet
<1>15. QED  BY <1>9, <1>10, <1>13, <1>14, Zenon

(* The statements of the report made of the statements as.                 *)
Stated(as) ==
  [k \in DOMAIN as |->
     [index |-> k, path |-> as[k].path, line |-> as[k].line,
      findings |-> [j \in DOMAIN as[k].findings |->
                      [decision |-> as[k].findings[j].decision,
                       severity |-> as[k].findings[j].severity,
                       statementIndex |-> k]]]]

(* What the report of a command holds.                                     *)
LEMMA ReportIs ==
  ASSUME NEW c, NEW as, as = AllStatements(c), NEW r, r = ReportOf(c)
  PROVE  /\ r = [statements |-> Stated(as), decision |-> StrictestDecision(as),
                 severity |-> GreatestSeverity(as), summary |-> r.summary,
                 sourcePath |-> r.sourcePath]
         /\ r.statements = Stated(as) /\ r.decision = StrictestDecision(as)
         /\ r.severity = GreatestSeverity(as)
         /\ r.summary = [statements |-> Len(as), findings |-> Cardinality(Places(as)),
                         blocks |-> Count(as, "block"), warnings |-> Count(as, "warn")]
         /\ r.sourcePath = IF Len(c.inputs) = 1 THEN c.inputs[1].path ELSE NoPath
<1> DEFINE sm == [statements |-> Len(as), findings |-> Cardinality(Places(as)),
                  blocks |-> Count(as, "block"), warnings |-> Count(as, "warn")]
           src == IF Len(c.inputs) = 1 THEN c.inputs[1].path ELSE NoPath
<1>1. r = [statements |-> Stated(as), decision |-> StrictestDecision(as),
           severity |-> GreatestSeverity(as), summary |-> sm, sourcePath |-> src]
  BY Zenon DEF ReportOf, Stated
<1> HIDE DEF sm, src
<1>2. /\ r.statements = Stated(as) /\ r.decision = StrictestDecision(as)
      /\ r.severity = GreatestSeverity(as) /\ r.summary = sm /\ r.sourcePath = src
  BY <1>1
<1>3. QED  BY <1>1, <1>2, Zenon DEF sm, src

(* Statement k of it is the kth of the command's, numbered.                *)
Numbers(as, k) ==
  LET st == Stated(as)[k]
  IN  /\ st.index = k /\ st.path = as[k].path /\ st.line = as[k].line
      /\ DOMAIN st.findings = DOMAIN as[k].findings
      /\ \A q \in DOMAIN as[k].findings :
           st.findings[q] = [decision |-> as[k].findings[q].decision,
                             severity |-> as[k].findings[q].severity, statementIndex |-> k]

(* Each of its statements is.                                              *)
LEMMA StatedAre ==
  ASSUME NEW as
  PROVE  /\ DOMAIN Stated(as) = DOMAIN as
         /\ \A k \in DOMAIN as : Numbers(as, k)
<1>1. DOMAIN Stated(as) = DOMAIN as
  BY DEF Stated
<1>2. ASSUME NEW k \in DOMAIN as  PROVE Numbers(as, k)
  <2> DEFINE fs == [j \in DOMAIN as[k].findings |->
                      [decision |-> as[k].findings[j].decision,
                       severity |-> as[k].findings[j].severity, statementIndex |-> k]]
  <2>1. Stated(as)[k] = [index |-> k, path |-> as[k].path, line |-> as[k].line, findings |-> fs]
    BY Zenon DEF Stated
  <2>2. /\ DOMAIN fs = DOMAIN as[k].findings
        /\ \A q \in DOMAIN as[k].findings :
             fs[q] = [decision |-> as[k].findings[q].decision,
                      severity |-> as[k].findings[q].severity, statementIndex |-> k]
    OBVIOUS
  <2> HIDE DEF fs
  <2>3. /\ Stated(as)[k].index = k /\ Stated(as)[k].path = as[k].path
        /\ Stated(as)[k].line = as[k].line /\ Stated(as)[k].findings = fs
    BY <2>1
  <2>4. QED  BY <2>2, <2>3, Zenon DEF Numbers
<1>3. QED  BY <1>1, <1>2, Zenon

(* The decision of a command is that of its strictest finding.             *)
LEMMA DecisionOf ==
  ASSUME NEW c \in Command, NEW as, as = AllStatements(c)
  PROVE  /\ \A k \in DOMAIN as : \A q \in DOMAIN as[k].findings : as[k].findings[q] \in RuleFinding
         /\ \A p \in Places(as) : FindingAt(as, p) \in RuleFinding
         /\ StrictestDecision(as) =
              IF \E p \in Places(as) : FindingAt(as, p).decision = "block" THEN "block"
              ELSE IF \E p \in Places(as) : FindingAt(as, p).decision = "warn" THEN "warn"
              ELSE "allow"
         /\ StrictestDecision(as) \in Decisions /\ GreatestSeverity(as) \in Severities
<1>1. \A k \in DOMAIN as : as[k] \in Bare
  BY AllStatementsAre, Zenon
<1>2. ASSUME NEW k \in DOMAIN as, NEW q \in DOMAIN as[k].findings
      PROVE  as[k].findings[q] \in RuleFinding
  <2>1. as[k].findings \in Seq(RuleFinding)
    BY <1>1 DEF Bare
  <2>2. QED  BY <2>1, ElementOfSeq, LenProperties
<1>3. ASSUME NEW p \in Places(as)  PROVE FindingAt(as, p) \in RuleFinding
  <2>1. p[1] \in DOMAIN as /\ p[2] \in DOMAIN as[p[1]].findings
    BY PlacesAre
  <2>2. QED  BY <1>2, <2>1, Zenon DEF FindingAt
<1>4. /\ \A v : v \in Values(as, "decision") <=> \E p \in Places(as) : FindingAt(as, p).decision = v
      /\ Values(as, "decision") \subseteq Decisions
  <2>1. Values(as, "decision") = {FindingAt(as, p).decision : p \in Places(as)}
    BY Zenon DEF Values
  <2>2. \A p \in Places(as) : FindingAt(as, p).decision \in Decisions
    BY <1>3 DEF RuleFinding
  <2>3. QED  BY <2>1, <2>2
<1>5. Values(as, "severity") \subseteq Severities
  <2>1. Values(as, "severity") = {FindingAt(as, p).severity : p \in Places(as)}
    BY Zenon DEF Values
  <2>2. \A p \in Places(as) : FindingAt(as, p).severity \in Severities
    BY <1>3 DEF RuleFinding
  <2>3. QED  BY <2>1, <2>2
<1>6. GreatestSeverity(as) \in Severities
  BY <1>5, GreatestIsSeverity, Zenon DEF GreatestSeverity
<1>7. StrictestDecision(as) =
        IF "block" \in Values(as, "decision") THEN "block"
        ELSE IF "warn" \in Values(as, "decision") THEN "warn" ELSE "allow"
  BY <1>4, StrictestIs, Zenon DEF StrictestDecision
<1>8. StrictestDecision(as) =
        IF \E p \in Places(as) : FindingAt(as, p).decision = "block" THEN "block"
        ELSE IF \E p \in Places(as) : FindingAt(as, p).decision = "warn" THEN "warn"
        ELSE "allow"
  BY <1>4, <1>7, Zenon
<1>9. StrictestDecision(as) \in Decisions
  BY <1>8 DEF Decisions
<1>10. QED  BY <1>2, <1>3, <1>6, <1>8, <1>9, Zenon

(* A decision d is found in the command's inputs.                          *)
FoundIn(c, d) ==
  \E h \in DOMAIN c.inputs : \E st \in ToSet(c.inputs[h].stmts) :
    \E x \in ToSet(st.findings) : x.decision = d

(* What is found in the inputs is found in the statements, and decides.    *)
LEMMA FoundDecides ==
  ASSUME NEW c \in Command, NEW as, as = AllStatements(c)
  PROVE  StrictestDecision(as) =
           IF FoundIn(c, "block") THEN "block"
           ELSE IF FoundIn(c, "warn") THEN "warn" ELSE "allow"
<1>1. ASSUME NEW d, NEW p \in Places(as), FindingAt(as, p).decision = d  PROVE FoundIn(c, d)
  <2>1. p[1] \in DOMAIN as /\ p[2] \in DOMAIN as[p[1]].findings
    BY PlacesAre
  <2>2. PICK k \in DOMAIN as : k = p[1]
    BY <2>1
  <2>3. WrittenIn(c, as[k])
    BY AllStatementsAre, Zenon
  <2>4. PICK h \in DOMAIN c.inputs : \E t \in DOMAIN c.inputs[h].stmts :
                                       as[k] = Written(c.inputs[h], t)
    BY <2>3, Zenon DEF WrittenIn
  <2>5. PICK t \in DOMAIN c.inputs[h].stmts : as[k] = Written(c.inputs[h], t)
    BY <2>4
  <2>6. PICK st : st = c.inputs[h].stmts[t]
    OBVIOUS
  <2>7. as[k].findings = st.findings
    BY <2>5, <2>6 DEF Written
  <2>8. st \in ToSet(c.inputs[h].stmts)
    BY <2>6 DEF ToSet
  <2>9. st.findings[p[2]] \in ToSet(st.findings) /\ st.findings[p[2]].decision = d
    <3>1. p[2] \in DOMAIN st.findings
      BY <2>1, <2>2, <2>7
    <3>2. st.findings[p[2]].decision = d
      BY <1>1, <2>2, <2>7, Zenon DEF FindingAt
    <3>3. QED  BY <3>1, <3>2 DEF ToSet
  <2>10. QED  BY <2>8, <2>9, Zenon DEF FoundIn
<1>2. ASSUME NEW d, FoundIn(c, d)  PROVE \E p \in Places(as) : FindingAt(as, p).decision = d
  <2>1. PICK h \in DOMAIN c.inputs : \E st \in ToSet(c.inputs[h].stmts) :
                                       \E x \in ToSet(st.findings) : x.decision = d
    BY <1>2, Zenon DEF FoundIn
  <2>2. PICK st \in ToSet(c.inputs[h].stmts) : \E x \in ToSet(st.findings) : x.decision = d
    BY <2>1
  <2>3. PICK t \in DOMAIN c.inputs[h].stmts : st = c.inputs[h].stmts[t]
    BY DEF ToSet
  <2>4. PICK x \in ToSet(st.findings) : x.decision = d
    BY <2>2
  <2>5. PICK q \in DOMAIN st.findings : x = st.findings[q]
    BY DEF ToSet
  <2>6. Written(c.inputs[h], t) \in ToSet(as)
    BY AllStatementsAre, Zenon
  <2>7. PICK k \in DOMAIN as : as[k] = Written(c.inputs[h], t)
    BY <2>6 DEF ToSet
  <2>8. as[k].findings = st.findings
    BY <2>3, <2>7 DEF Written
  <2>9. <<k, q>> \in Places(as) /\ <<k, q>>[1] = k /\ <<k, q>>[2] = q
    BY <2>8, PlacesAre
  <2>10. FindingAt(as, <<k, q>>) = as[k].findings[q]
    BY <2>9, Zenon DEF FindingAt
  <2>11. FindingAt(as, <<k, q>>).decision = d
    BY <2>4, <2>5, <2>8, <2>10, Zenon
  <2>12. QED  BY <2>9, <2>11, Zenon
<1>3. \A d : FoundIn(c, d) <=> \E p \in Places(as) : FindingAt(as, p).decision = d
  BY <1>1, <1>2, Zenon
<1>4. StrictestDecision(as) =
        IF \E p \in Places(as) : FindingAt(as, p).decision = "block" THEN "block"
        ELSE IF \E p \in Places(as) : FindingAt(as, p).decision = "warn" THEN "warn"
        ELSE "allow"
  BY DecisionOf, Zenon
<1>5. QED  BY <1>3, <1>4, Zenon

-----------------------------------------------------------------------------
(***************************************************************************)
(* The SARIF form of a report.                                             *)
(***************************************************************************)
(* The result for the finding at place p of the statements as.             *)
ResultAt(as, r, p) ==
  [level     |-> sarifLevel[FindingAt(as, p).decision],
   locations |-> Locations(r, r.statements[p[1]])]

(* The results u are those for the places of as.                           *)
ResultsAre(as, r, u) ==
  /\ \A i \in DOMAIN u : \E p \in Places(as) : u[i] = ResultAt(as, r, p)
  /\ \A p \in Places(as) : \E i \in DOMAIN u : u[i] = ResultAt(as, r, p)

(* How many results are of a level, and how many findings call for it.     *)
AtLevel(u, lev) == Cardinality({i \in DOMAIN u : u[i].level = lev})
Calling(as, lev) ==
  Cardinality({p \in Places(as) : sarifLevel[FindingAt(as, p).decision] = lev})

(* There is one result for each place, and none else.                      *)
LEMMA SarifIs ==
  ASSUME NEW c \in Command, NEW as, as = AllStatements(c), NEW r, r = ReportOf(c),
         NEW u, u = SARIF(r)
  PROVE  /\ DOMAIN u = 1..Len(u) /\ Len(u) \in Nat /\ Len(u) = Cardinality(Places(as))
         /\ IsFiniteSet(Places(as))
         /\ ResultsAre(as, r, u)
         /\ \A lev : AtLevel(u, lev) = Calling(as, lev)
<1>1. /\ as \in Seq(Bare) /\ Len(as) \in Nat /\ DOMAIN as = 1..Len(as)
      /\ \A k \in DOMAIN as : as[k] \in Bare
  BY AllStatementsAre, Zenon
<1>2. r.statements = Stated(as)
  BY ReportIs, Zenon
<1> DEFINE s == [k \in DOMAIN r.statements |->
                   [q \in DOMAIN r.statements[k].findings |->
                      [level     |-> sarifLevel[r.statements[k].findings[q].decision],
                       locations |-> Locations(r, r.statements[k])]]]
<1>3. u = FlattenSeq(s)
  BY Zenon DEF SARIF
<1>4. DOMAIN s = DOMAIN as
  BY <1>2, StatedAre
<1>5. ASSUME NEW k \in DOMAIN as
      PROVE  /\ DOMAIN s[k] = DOMAIN as[k].findings
             /\ \A q \in DOMAIN as[k].findings : s[k][q] = ResultAt(as, r, <<k, q>>)
  <2>1. s[k] = [q \in DOMAIN r.statements[k].findings |->
                  [level     |-> sarifLevel[r.statements[k].findings[q].decision],
                   locations |-> Locations(r, r.statements[k])]]
    BY <1>4
  <2>2. DOMAIN r.statements[k].findings = DOMAIN as[k].findings
    <3>1. Numbers(as, k) /\ r.statements[k] = Stated(as)[k]
      BY <1>2, StatedAre, Zenon
    <3>2. QED  BY <3>1, Zenon DEF Numbers
  <2> HIDE DEF s
  <2>3. DOMAIN s[k] = DOMAIN as[k].findings
    BY <2>1, <2>2
  <2>4. ASSUME NEW q \in DOMAIN as[k].findings  PROVE s[k][q] = ResultAt(as, r, <<k, q>>)
    <3>1. r.statements[k].findings[q] = [decision |-> as[k].findings[q].decision,
                                         severity |-> as[k].findings[q].severity,
                                         statementIndex |-> k]
      <4>1. Numbers(as, k) /\ r.statements[k] = Stated(as)[k]
        BY <1>2, StatedAre, Zenon
      <4>2. QED  BY <4>1, Zenon DEF Numbers
    <3>2. r.statements[k].findings[q].decision = as[k].findings[q].decision
      BY <3>1
    <3>3. s[k][q] = [level     |-> sarifLevel[as[k].findings[q].decision],
                     locations |-> Locations(r, r.statements[k])]
      <4>1. q \in DOMAIN r.statements[k].findings
        BY <2>2
      <4>2. s[k][q] = [level     |-> sarifLevel[r.statements[k].findings[q].decision],
                       locations |-> Locations(r, r.statements[k])]
        BY <2>1, <4>1
      <4>3. QED  BY <3>2, <4>2
    <3>4. <<k, q>>[1] = k /\ <<k, q>>[2] = q
      OBVIOUS
    <3>5. QED  BY <3>3, <3>4, Zenon DEF ResultAt, FindingAt
  <2>5. QED  BY <2>3, <2>4
<1> DEFINE S == UNION {{s[k][q] : q \in DOMAIN s[k]} : k \in DOMAIN s}
<1>6. s \in Seq(Seq(S))
  <2>1. ASSUME NEW k \in 1..Len(as)  PROVE s[k] \in Seq(S)
    <3>1. k \in DOMAIN as /\ k \in DOMAIN s
      BY <1>1, <1>4
    <3>2. \A q \in DOMAIN s[k] : s[k][q] \in S
      <4> HIDE DEF s
      <4> TAKE q \in DOMAIN s[k]
      <4>1. s[k][q] \in {s[k][x] : x \in DOMAIN s[k]}
        OBVIOUS
      <4>2. QED  BY <3>1, <4>1, Zenon DEF S
    <3>3. as[k].findings \in Seq(RuleFinding)
      BY <1>1, <3>1 DEF Bare
    <3>4. PICK n \in Nat : DOMAIN as[k].findings = 1..n
      BY <3>3, LenProperties
    <3>5. s[k] = [q \in 1..n |-> s[k][q]]
      <4>1. DOMAIN s[k] = 1..n
        BY <1>5, <3>1, <3>4
      <4>2. s[k] = [q \in DOMAIN s[k] |-> s[k][q]]
        <5>1. s[k] = [q \in DOMAIN r.statements[k].findings |->
                        [level     |-> sarifLevel[r.statements[k].findings[q].decision],
                         locations |-> Locations(r, r.statements[k])]]
          BY <1>4, <3>1
        <5> HIDE DEF s
        <5>2. QED  BY <5>1
      <4> HIDE DEF s
      <4>3. QED  BY <4>1, <4>2
    <3>6. \A q \in 1..n : s[k][q] \in S
      BY <1>5, <3>1, <3>2, <3>4
    <3> HIDE DEF s, S
    <3>7. QED  BY <3>5, <3>6, IsASeq
  <2>2. s = [k \in 1..Len(as) |-> s[k]]
    BY <1>1, <1>4
  <2> HIDE DEF s, S
  <2>3. QED  BY <1>1, <2>1, <2>2, IsASeq
<1> HIDE DEF s, S
<1>7. /\ DOMAIN u = 1..Len(u) /\ Len(u) \in Nat /\ SameElements(u, s)
      /\ u \in Seq(S)
      /\ IsFiniteSet(Spots(s)) /\ Len(u) = Cardinality(Spots(s))
      /\ SameCounts(u, s)
  BY <1>3, <1>6, FlattenSpots, Zenon
<1>8. Spots(s) = Places(as)
  <2>1. \A k \in DOMAIN as : {k} \X DOMAIN s[k] = {k} \X DOMAIN as[k].findings
    BY <1>5, Zenon
  <2>2. {{k} \X DOMAIN s[k] : k \in DOMAIN s} = {{k} \X DOMAIN as[k].findings : k \in DOMAIN as}
    BY <1>4, <2>1
  <2>3. QED  BY <2>2, Zenon DEF Spots, Places
<1>9. ASSUME NEW p \in Places(as)
      PROVE  p[1] \in DOMAIN s /\ p[2] \in DOMAIN s[p[1]] /\ s[p[1]][p[2]] = ResultAt(as, r, p)
  <2>1. p[1] \in DOMAIN as /\ p[2] \in DOMAIN as[p[1]].findings /\ p = <<p[1], p[2]>>
    BY PlacesAre
  <2>2. s[p[1]][p[2]] = ResultAt(as, r, <<p[1], p[2]>>)
    BY <1>5, <2>1, Zenon
  <2>3. QED  BY <1>4, <1>5, <2>1, <2>2, Zenon
<1>10. ASSUME NEW i \in DOMAIN u  PROVE \E p \in Places(as) : u[i] = ResultAt(as, r, p)
  <2>1. PICK k \in DOMAIN s : \E q \in DOMAIN s[k] : u[i] = s[k][q]
    BY <1>7, Zenon DEF SameElements
  <2>2. PICK q \in DOMAIN s[k] : u[i] = s[k][q]
    BY <2>1
  <2>3. <<k, q>> \in {k} \X DOMAIN s[k]
    OBVIOUS
  <2>4. <<k, q>> \in Places(as)
    BY <1>8, <2>3, Zenon DEF Spots
  <2>5. s[k][q] = ResultAt(as, r, <<k, q>>)
    BY <1>4, <1>5, Zenon
  <2>6. QED  BY <2>2, <2>4, <2>5, Zenon
<1>11. ASSUME NEW p \in Places(as)  PROVE \E i \in DOMAIN u : u[i] = ResultAt(as, r, p)
  <2>1. PICK i \in DOMAIN u : u[i] = s[p[1]][p[2]]
    BY <1>7, <1>9, Zenon DEF SameElements
  <2>2. QED  BY <1>9, <2>1, Zenon
<1>12. ASSUME NEW lev
       PROVE  AtLevel(u, lev) = Calling(as, lev)
  <2> DEFINE T == {x \in S : x.level = lev}
  <2>1. {i \in DOMAIN u : u[i].level = lev} = {i \in DOMAIN u : u[i] \in T}
    <3>1. \A i \in DOMAIN u : u[i] \in S
      BY <1>7, ElementOfSeq
    <3>2. QED  BY <3>1
  <2>2. {p \in Places(as) : sarifLevel[FindingAt(as, p).decision] = lev}
          = {p \in Spots(s) : s[p[1]][p[2]] \in T}
    <3>1. \A p \in Places(as) : s[p[1]][p[2]] \in S
      <4> TAKE p \in Places(as)
      <4>1. PICK i \in DOMAIN u : u[i] = s[p[1]][p[2]]
        BY <1>7, <1>9, Zenon DEF SameElements
      <4>2. QED  BY <1>7, <4>1, ElementOfSeq
    <3>2. \A p \in Places(as) : s[p[1]][p[2]].level = sarifLevel[FindingAt(as, p).decision]
      <4> TAKE p \in Places(as)
      <4>1. s[p[1]][p[2]] = ResultAt(as, r, p)
        BY <1>9
      <4>2. ResultAt(as, r, p).level = sarifLevel[FindingAt(as, p).decision]
        BY DEF ResultAt
      <4>3. QED  BY <4>1, <4>2, Zenon
    <3>3. QED  BY <1>8, <3>1, <3>2
  <2> HIDE DEF T
  <2>3. Cardinality({i \in DOMAIN u : u[i] \in T})
          = Cardinality({p \in Spots(s) : s[p[1]][p[2]] \in T})
    BY <1>7, Zenon DEF SameCounts
  <2>4. QED  BY <2>1, <2>2, <2>3, Zenon DEF AtLevel, Calling
<1>13. ResultsAre(as, r, u)
  BY <1>10, <1>11, Zenon DEF ResultsAre
<1>14. QED  BY <1>7, <1>8, <1>12, <1>13, Zenon

(* A result of a file is where its statement is; one of inline SQL has no  *)
(* place.                                                                  *)
LEMMA LocationsAre ==
  ASSUME NEW c \in Command, InputsOf(c.kind, c.inputs),
         NEW as, as = AllStatements(c), NEW r, r = ReportOf(c), NEW k \in DOMAIN as
  PROVE  Locations(r, r.statements[k]) =
           IF c.kind = "sql" THEN << >> ELSE <<[path |-> as[k].path, line |-> as[k].line]>>
<1>1. PICK st : st = r.statements[k]
  OBVIOUS
<1>2. st.path = as[k].path /\ st.line = as[k].line
  <2>1. Numbers(as, k)
    BY StatedAre, Zenon
  <2>0. r.statements = Stated(as)
    BY ReportIs, Zenon
  <2>2. QED  BY <1>1, <2>0, <2>1, Zenon DEF Numbers
<1>3. as[k].line \in Nat \ {0}
  <2>1. as[k] \in Bare
    BY AllStatementsAre, Zenon
  <2>2. QED  BY <2>1 DEF Bare
<1>4. PICK h \in DOMAIN c.inputs : \E t \in DOMAIN c.inputs[h].stmts :
                                     as[k] = Written(c.inputs[h], t)
  <2>1. WrittenIn(c, as[k])
    BY AllStatementsAre, Zenon
  <2>2. QED  BY <2>1, Zenon DEF WrittenIn
<1>5. as[k].path = c.inputs[h].path
  BY <1>4 DEF Written
<1>6. as[k].path = NoPath <=> c.kind = "sql"
  BY <1>5, Zenon DEF InputsOf
<1>7. CASE c.kind = "sql"
  <2>1. Len(c.inputs) = 1 /\ 1 \in DOMAIN c.inputs
    BY <1>7, LenProperties DEF InputsOf, Command
  <2>2. c.inputs[1].path = NoPath
    BY <1>7, <2>1, Zenon DEF InputsOf
  <2>3. r.sourcePath = NoPath
    BY <2>1, <2>2, ReportIs, Zenon
  <2>4. Locations(r, st) = << >>
    BY <1>2, <1>6, <1>7, <2>3 DEF Locations
  <2>5. QED  BY <1>1, <1>7, <2>4
<1>8. CASE c.kind # "sql"
  <2>1. PICK n \in Nat \ {0} : n = as[k].line
    BY <1>3
  <2>2. Max({n, 1}) = n
    <3>1. {n, 1} \in SUBSET (1..n) /\ {n, 1} # {}
      OBVIOUS
    <3>2. Max({n, 1}) \in {n, 1} /\ \A x \in {n, 1} : x <= Max({n, 1})
      BY <3>1, MaxIsGreatest
    <3>3. QED  BY <3>2
  <2>3. st.path # NoPath
    BY <1>2, <1>6, <1>8
  <2>4. Locations(r, st) = <<[path |-> st.path, line |-> Max({st.line, 1})]>>
    BY <2>3, Zenon DEF Locations
  <2>5. Locations(r, st) = <<[path |-> as[k].path, line |-> as[k].line]>>
    BY <1>2, <2>1, <2>2, <2>4, Zenon
  <2>6. QED  BY <1>1, <1>8, <2>5, Zenon
<1>9. QED  BY <1>7, <1>8

(* How many results there are of a level, and that there are some.         *)
LEMMA LevelsAre ==
  ASSUME NEW c \in Command, NEW as, as = AllStatements(c), NEW r, r = ReportOf(c),
         NEW u, u = SARIF(r)
  PROVE  /\ AtLevel(u, "error") = Count(as, "block") /\ AtLevel(u, "warning") = Count(as, "warn")
         /\ \A d : Count(as, d) \in Nat
         /\ \A d : Count(as, d) > 0 <=> \E p \in Places(as) : FindingAt(as, p).decision = d
<1>1. \A p \in Places(as) : FindingAt(as, p).decision \in Decisions
  BY DecisionOf DEF RuleFinding
<1>2. \A d \in Decisions : /\ sarifLevel[d] = "error" <=> d = "block"
                           /\ sarifLevel[d] = "warning" <=> d = "warn"
  BY DEF sarifLevel, Decisions
<1>3. /\ {p \in Places(as) : sarifLevel[FindingAt(as, p).decision] = "error"}
           = {p \in Places(as) : FindingAt(as, p).decision = "block"}
      /\ {p \in Places(as) : sarifLevel[FindingAt(as, p).decision] = "warning"}
           = {p \in Places(as) : FindingAt(as, p).decision = "warn"}
  BY <1>1, <1>2
<1>4. IsFiniteSet(Places(as))
  BY SarifIs, Zenon
<1>5. \A lev : AtLevel(u, lev) = Calling(as, lev)
  BY SarifIs, Zenon
<1>6. AtLevel(u, "error") = Count(as, "block") /\ AtLevel(u, "warning") = Count(as, "warn")
  <2>1. Calling(as, "error") = Count(as, "block") /\ Calling(as, "warning") = Count(as, "warn")
    BY <1>3, Zenon DEF Calling, Count
  <2>2. QED  BY <1>5, <2>1, Zenon
<1>7. ASSUME NEW d
      PROVE  /\ Count(as, d) \in Nat
             /\ Count(as, d) > 0 <=> \E p \in Places(as) : FindingAt(as, p).decision = d
  <2> DEFINE P == {p \in Places(as) : FindingAt(as, p).decision = d}
  <2>1. IsFiniteSet(P)
    <3>1. P \subseteq Places(as)
      OBVIOUS
    <3>2. QED  BY <1>4, <3>1, FS_Subset
  <2>2. Count(as, d) = Cardinality(P)
    BY Zenon DEF Count
  <2>3. P = {} <=> ~\E p \in Places(as) : FindingAt(as, p).decision = d
    OBVIOUS
  <2> HIDE DEF P
  <2>4. Cardinality(P) \in Nat /\ (Cardinality(P) = 0 <=> P = {})
    BY <2>1, FS_CardinalityType, FS_EmptySet
  <2>5. Cardinality(P) > 0 <=> P # {}
    BY <2>4
  <2>6. QED  BY <2>2, <2>3, <2>4, <2>5, Zenon
<1>8. QED  BY <1>6, <1>7, Zenon

(* What the SARIF form of a report shows of the command: SarifAgrees, with *)
(* the exit code that goes with the report.                                *)
Shows(c, u, r, code) ==
  /\ Len(u) = r.summary.findings
  /\ AtLevel(u, "error") = r.summary.blocks /\ (AtLevel(u, "error") > 0 <=> code = 3)
  /\ AtLevel(u, "warning") = r.summary.warnings
  /\ \A x \in ToSet(u) : \A at \in ToSet(x.locations) :
       \E k \in DOMAIN c.inputs : \E st \in ToSet(c.inputs[k].stmts) :
         at = [path |-> c.inputs[k].path, line |-> st.line] /\ st.findings # << >>
  /\ c.kind = "files" => \A x \in ToSet(u) : x.locations # << >>

(* It does, for every command.                                             *)
LEMMA SarifShows ==
  ASSUME NEW c \in Command, InputsOf(c.kind, c.inputs)
  PROVE  Shows(c, SARIF(ReportOf(c)), ReportOf(c),
               decisionToExit[StrictestDecision(AllStatements(c))])
<1>1. PICK as : as = AllStatements(c)
  OBVIOUS
<1>2. PICK r : r = ReportOf(c)
  OBVIOUS
<1>3. PICK u : u = SARIF(r)
  OBVIOUS
<1>4. PICK code : code = decisionToExit[StrictestDecision(as)]
  OBVIOUS
<1>5. /\ r.summary.findings = Cardinality(Places(as)) /\ r.summary.blocks = Count(as, "block")
      /\ r.summary.warnings = Count(as, "warn")
  <2>1. r.summary = [statements |-> Len(as), findings |-> Cardinality(Places(as)),
                     blocks |-> Count(as, "block"), warnings |-> Count(as, "warn")]
    BY <1>1, <1>2, ReportIs, Zenon
  <2>2. QED  BY <2>1
<1>6. Len(u) = Cardinality(Places(as))
  BY <1>1, <1>2, <1>3, SarifIs, Zenon
<1>7. AtLevel(u, "error") = Count(as, "block") /\ AtLevel(u, "warning") = Count(as, "warn")
  BY <1>1, <1>2, <1>3, LevelsAre, Zenon
<1>8. Count(as, "block") > 0 <=> code = 3
  <2>1. Count(as, "block") > 0 <=> \E p \in Places(as) : FindingAt(as, p).decision = "block"
    BY <1>1, <1>2, <1>3, LevelsAre, Zenon
  <2>2. StrictestDecision(as) =
          IF \E p \in Places(as) : FindingAt(as, p).decision = "block" THEN "block"
          ELSE IF \E p \in Places(as) : FindingAt(as, p).decision = "warn" THEN "warn"
          ELSE "allow"
    BY <1>1, DecisionOf, Zenon
  <2>3. Count(as, "block") > 0 <=> StrictestDecision(as) = "block"
    BY <2>1, <2>2
  <2>4. StrictestDecision(as) \in Decisions
    BY <1>1, DecisionOf, Zenon
  <2>5. \A d \in Decisions : decisionToExit[d] = 3 <=> d = "block"
    BY DEF decisionToExit, Decisions
  <2>6. QED  BY <1>4, <2>3, <2>4, <2>5, Zenon
<1>9. ASSUME NEW x \in ToSet(u)
      PROVE  /\ \A at \in ToSet(x.locations) :
                  \E k \in DOMAIN c.inputs : \E st \in ToSet(c.inputs[k].stmts) :
                    at = [path |-> c.inputs[k].path, line |-> st.line] /\ st.findings # << >>
             /\ c.kind = "files" => x.locations # << >>
  <2>1. PICK i \in DOMAIN u : x = u[i]
    BY DEF ToSet
  <2>2. PICK p \in Places(as) : u[i] = ResultAt(as, r, p)
    <3>1. ResultsAre(as, r, u)
      BY <1>1, <1>2, <1>3, SarifIs, Zenon
    <3>2. QED  BY <3>1, Zenon DEF ResultsAre
  <2>3. p[1] \in DOMAIN as /\ p[2] \in DOMAIN as[p[1]].findings
    BY PlacesAre
  <2>4. PICK n : n = p[1]
    OBVIOUS
  <2>5. x.locations = Locations(r, r.statements[n])
    BY <2>1, <2>2, <2>4 DEF ResultAt
  <2>6. x.locations = IF c.kind = "sql" THEN << >>
                      ELSE <<[path |-> as[n].path, line |-> as[n].line]>>
    <3>1. Locations(r, r.statements[n]) =
            IF c.kind = "sql" THEN << >> ELSE <<[path |-> as[n].path, line |-> as[n].line]>>
      BY <1>1, <1>2, <2>3, <2>4, LocationsAre
    <3>2. QED  BY <2>5, <3>1, Zenon
  <2>7. c.kind = "files" => x.locations # << >>
    BY <2>6
  <2>8. ASSUME NEW at \in ToSet(x.locations)
        PROVE  \E k \in DOMAIN c.inputs : \E st \in ToSet(c.inputs[k].stmts) :
                 at = [path |-> c.inputs[k].path, line |-> st.line] /\ st.findings # << >>
    <3>1. at = [path |-> as[n].path, line |-> as[n].line]
      <4>1. PICK q \in DOMAIN x.locations : at = x.locations[q]
        BY <2>8 DEF ToSet
      <4>2. PICK v : v = [path |-> as[n].path, line |-> as[n].line]
        OBVIOUS
      <4>3. x.locations = << >> \/ x.locations = <<v>>
        BY <2>6, <4>2, Zenon
      <4>4. at = v
        BY <4>1, <4>3
      <4>5. QED  BY <4>2, <4>4
    <3>2. PICK k \in DOMAIN c.inputs : \E t \in DOMAIN c.inputs[k].stmts :
                                         as[n] = Written(c.inputs[k], t)
      <4>1. WrittenIn(c, as[n])
        BY <1>1, <2>3, <2>4, AllStatementsAre, Zenon
      <4>2. QED  BY <4>1, Zenon DEF WrittenIn
    <3>3. PICK t \in DOMAIN c.inputs[k].stmts : as[n] = Written(c.inputs[k], t)
      BY <3>2
    <3>4. PICK st : st = c.inputs[k].stmts[t]
      OBVIOUS
    <3>5. as[n].path = c.inputs[k].path /\ as[n].line = st.line /\ as[n].findings = st.findings
      BY <3>3, <3>4 DEF Written
    <3>6. st.findings # << >>
      <4>1. p[2] \in DOMAIN st.findings
        BY <2>3, <2>4, <3>5
      <4>2. DOMAIN << >> = {}
        OBVIOUS
      <4>3. QED  BY <4>1, <4>2, Zenon
    <3>7. st \in ToSet(c.inputs[k].stmts)
      BY <3>4 DEF ToSet
    <3>8. at = [path |-> c.inputs[k].path, line |-> st.line]
      BY <3>1, <3>5
    <3>9. QED  BY <3>6, <3>7, <3>8, Zenon
  <2>9. QED  BY <2>7, <2>8
<1>10. Shows(c, u, r, code)
  BY <1>5, <1>6, <1>7, <1>8, <1>9, Zenon DEF Shows
<1>11. QED  BY <1>1, <1>2, <1>3, <1>4, <1>10, Zenon

(* A report is one.                                                        *)
LEMMA ReportType ==
  ASSUME NEW c \in Command
  PROVE  ReportOf(c) \in Report
<1>1. PICK as : as = AllStatements(c)
  OBVIOUS
<1>2. PICK r : r = ReportOf(c)
  OBVIOUS
<1>3. PICK u : u = SARIF(r)
  OBVIOUS
<1>4. /\ as \in Seq(Bare) /\ Len(as) \in Nat /\ DOMAIN as = 1..Len(as)
      /\ \A k \in DOMAIN as : as[k] \in Bare
  BY <1>1, AllStatementsAre, Zenon
<1>5. /\ r = [statements |-> Stated(as), decision |-> StrictestDecision(as),
              severity |-> GreatestSeverity(as), summary |-> r.summary,
              sourcePath |-> r.sourcePath]
      /\ r.summary = [statements |-> Len(as), findings |-> Cardinality(Places(as)),
                      blocks |-> Count(as, "block"), warnings |-> Count(as, "warn")]
      /\ r.sourcePath = IF Len(c.inputs) = 1 THEN c.inputs[1].path ELSE NoPath
  BY <1>1, <1>2, ReportIs, Zenon
<1>6. StrictestDecision(as) \in Decisions /\ GreatestSeverity(as) \in Severities
  BY <1>1, DecisionOf, Zenon
<1>7. r.summary \in Summary
  <2>1. Cardinality(Places(as)) \in Nat
    <3>1. IsFiniteSet(Places(as))
      BY <1>1, <1>2, <1>3, SarifIs, Zenon
    <3>2. QED  BY <3>1, FS_CardinalityType
  <2>2. Count(as, "block") \in Nat /\ Count(as, "warn") \in Nat
    BY <1>1, <1>2, <1>3, LevelsAre, Zenon
  <2>3. PICK a \in Nat, b \in Nat, d \in Nat, e \in Nat :
          a = Len(as) /\ b = Cardinality(Places(as)) /\ d = Count(as, "block")
          /\ e = Count(as, "warn")
    BY <1>4, <2>1, <2>2
  <2>4. r.summary = [statements |-> a, findings |-> b, blocks |-> d, warnings |-> e]
    BY <1>5, <2>3, Zenon
  <2>5. QED  BY <2>4 DEF Summary
<1>8. r.sourcePath \in Paths \cup {NoPath}
  <2>1. CASE Len(c.inputs) = 1
    <3>1. c.inputs \in Seq(Input)
      BY DEF Command
    <3>2. c.inputs[1] \in Input
      BY <2>1, <3>1, ElementOfSeq
    <3>3. QED  BY <1>5, <2>1, <3>2 DEF Input
  <2>2. CASE Len(c.inputs) # 1
    BY <1>5, <2>2
  <2>3. QED  BY <2>1, <2>2
<1>9. Stated(as) \in Seq(StatementResult)
  <2>1. PICK n \in Nat : n = Len(as) /\ DOMAIN as = 1..n
    BY <1>4
  <2>2. ASSUME NEW k \in 1..n  PROVE Stated(as)[k] \in StatementResult
    <3>1. as[k] \in Bare
      BY <1>4, <2>1
    <3>2. PICK fs : fs = as[k].findings
      OBVIOUS
    <3>3. fs \in Seq(RuleFinding) /\ as[k].path \in Paths \cup {NoPath} /\ as[k].line \in Nat
      BY <3>1, <3>2 DEF Bare
    <3>4. /\ Len(fs) \in Nat /\ DOMAIN fs = 1..Len(fs)
          /\ \A q \in 1..Len(fs) : fs[q] \in RuleFinding
      BY <3>3, LenProperties, ElementOfSeq
    <3> DEFINE g == [j \in DOMAIN fs |-> [decision |-> fs[j].decision, severity |-> fs[j].severity,
                                          statementIndex |-> k]]
    <3>5. \A q \in 1..Len(fs) :
            [decision |-> fs[q].decision, severity |-> fs[q].severity, statementIndex |-> k] \in Finding
      BY <3>4 DEF RuleFinding, Finding
    <3>6. g \in Seq(Finding)
      <4>1. g = [j \in 1..Len(fs) |-> [decision |-> fs[j].decision, severity |-> fs[j].severity,
                                       statementIndex |-> k]]
        BY <3>4
      <4> HIDE DEF g
      <4>2. QED  BY <3>4, <3>5, <4>1, IsASeq
    <3>7. Stated(as)[k] = [index |-> k, path |-> as[k].path, line |-> as[k].line, findings |-> g]
      BY <2>1, <3>2, Zenon DEF Stated
    <3> HIDE DEF g
    <3>8. PICK a \in Paths \cup {NoPath}, b \in Nat, gs \in Seq(Finding) :
            a = as[k].path /\ b = as[k].line /\ gs = g
      BY <3>3, <3>6
    <3>9. Stated(as)[k] = [index |-> k, path |-> a, line |-> b, findings |-> gs]
      BY <3>7, <3>8, Zenon
    <3>10. k \in Nat
      OBVIOUS
    <3>11. QED  BY <3>9, <3>10 DEF StatementResult
  <2>3. Stated(as) = [k \in 1..n |-> Stated(as)[k]]
    BY <2>1 DEF Stated
  <2>4. PICK w : w = Stated(as)
    OBVIOUS
  <2>5. w = [k \in 1..n |-> w[k]] /\ \A k \in 1..n : w[k] \in StatementResult
    BY <2>2, <2>3, <2>4
  <2>6. w \in Seq(StatementResult)
    BY <2>5, IsASeq
  <2>7. QED  BY <2>4, <2>6
<1>10. r \in Report
  <2>1. PICK st \in Seq(StatementResult), sm \in Summary, src \in Paths \cup {NoPath} :
          st = Stated(as) /\ sm = r.summary /\ src = r.sourcePath
    BY <1>7, <1>8, <1>9
  <2>2. PICK d \in Decisions, s \in Severities :
          d = StrictestDecision(as) /\ s = GreatestSeverity(as)
    BY <1>6
  <2>3. r = [statements |-> st, decision |-> d, severity |-> s, summary |-> sm, sourcePath |-> src]
    BY <1>5, <2>1, <2>2, Zenon
  <2>4. QED  BY <2>3 DEF Report
<1>11. QED  BY <1>2, <1>10

=============================================================================
