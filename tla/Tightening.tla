----------------------------- MODULE Tightening -----------------------------
(***************************************************************************)
(* Two checks of one statement in step, under two policies of which the    *)
(* second is at least as tight: it protects what the first does and sets   *)
(* no rule to a laxer decision.  Every policy is as tight as itself, so    *)
(* the first check by itself is any behaviour of Rules.                    *)
(***************************************************************************)
EXTENDS Rules

VARIABLES policy2, stack2, answer2

T == INSTANCE Rules WITH policy <- policy2, stack <- stack2, answer <- answer2

bothVars == <<vars, policy2, stack2, answer2>>

(* p is no tighter than q.                                                 *)
NoTighter(p, q) ==
  /\ p.tables \subseteq q.tables
  /\ p.schemas \subseteq q.schemas
  /\ p.roles \subseteq q.roles
  /\ \A r \in RuleIds :
       decisionStrictness[RuleDecision(p, r)] <= decisionStrictness[RuleDecision(q, r)]

BothInit ==
  /\ Init /\ T!Init
  /\ NoTighter(policy, policy2)
  /\ Validate(policy) <=> Validate(policy2)

BothNext ==
  \/ LoadPolicy /\ T!LoadPolicy
  \/ CheckNested /\ T!CheckNested
  \/ ReturnToCaller /\ T!ReturnToCaller
  \/ Return /\ T!Return
  \/ Done /\ T!Done

BothSpec == BothInit /\ [][BothNext]_bothVars

(* Tightening a policy never relaxes the verdict on a statement: whatever  *)
(* the first check finds, the second finds something at least as strict.   *)
TighterNeverRelaxes ==
  pc = "done" =>
    \A x \in answer : \E y \in answer2 :
      decisionStrictness[y.decision] >= decisionStrictness[x.decision]

=============================================================================
