----------------------------- MODULE MCSources ------------------------------
EXTENDS Sources, Folding
S == INSTANCE Samples
W == INSTANCE SamplePredicates

MCNames == S!Names
MCLower == S!Lower
MCRows  == W!SampleRows
MCFloats  == W!SampleFloats
MCMillion == W!SampleMillion

(* Named apart, so that TLC evaluates it once.                             *)
Sampled == S!Everything(S!Conditions) \cup S!Everything(W!Predicates)
MCExprs == Sampled
MCNesting[e \in MCExprs] ==
  IF e.args = << >> THEN 0 ELSE 1 + Max({MCNesting[e.args[i]] : i \in DOMAIN e.args})

MCNodes == S!Selects \cup S!Nested \cup S!Manipulations \cup S!Copies
             \cup S!Definitions \cup S!Grants

MCFiles ==
  {<<n>> : n \in MCNodes} \cup {<<m, n>> : m \in S!Writers, n \in S!Copies}

(* One behaviour is that of a file, or of a WHERE clause by itself.        *)
MCInit ==
  \/ Init /\ clause = << >> /\ classified = Parsed /\ step = "extract"
  \/ ClauseInit /\ file = << >> /\ stmts = << >>

MCNext ==
  \/ Next /\ UNCHANGED clauseVars
  \/ file = << >> /\ ClauseNext /\ UNCHANGED vars

MCSpec == MCInit /\ [][MCNext]_<<vars, clauseVars>>

=============================================================================
