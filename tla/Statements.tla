----------------------------- MODULE Statements -----------------------------
(***************************************************************************)
(* The record of what a statement does, internal/parser/model.go, and what *)
(* both parsers build it with.  Relations are kept in the order they are   *)
(* found in, names are sequences of parts, and grantees are left out, for  *)
(* no rule reads them.                                                     *)
(***************************************************************************)
EXTENDS Naturals, SequencesExt

Blank ==
  [type |-> "OTHER", relations |-> << >>, completeness |-> "complete", reasons |-> << >>,
   predicate |-> "", hasWhere |-> FALSE, whereTrivial |-> FALSE, hasLimit |-> FALSE,
   selectAll |-> FALSE, dropColumn |-> FALSE, dropConstraint |-> FALSE, dropNotNull |-> FALSE,
   copyToStdout |-> FALSE, copyToProgram |-> FALSE, isGrantToPublic |-> FALSE,
   isRoleMembershipGrant |-> FALSE, grantedRoles |-> {},
   table |-> << >>, schema |-> << >>, object |-> << >>, nested |-> << >>]

Severity == [complete |-> 0, partial |-> 1, unsupported |-> 2]

addOnce(seq, x) == IF Contains(seq, x) THEN seq ELSE Append(seq, x)

(* Completeness only ever gets worse.                                      *)
markIncomplete(stmt, completeness, reason) ==
  [stmt EXCEPT !.completeness = IF Severity[completeness] > Severity[@]
                                THEN completeness ELSE @,
               !.reasons = addOnce(@, reason)]

Partial(stmt, reason)     == markIncomplete(stmt, "partial", reason)
Unsupported(stmt, reason) == markIncomplete(stmt, "unsupported", reason)

addRelation(stmt, schema, name, role) ==
  LET same == {i \in DOMAIN stmt.relations :
                  /\ stmt.relations[i].role = role
                  /\ stmt.relations[i].schema \o stmt.relations[i].name = schema \o name}
  IN  IF same # {} THEN stmt
      ELSE [stmt EXCEPT !.relations =
              Append(@, [schema |-> schema, name |-> name, role |-> role])]

ensureReasonsBounded(reasons) ==
  IF Len(reasons) <= 5 THEN reasons ELSE Append(SubSeq(reasons, 1, 5), "and_more")

(* The first relation written, or else granted on, or else read.           *)
primaryRelation(stmt) ==
  LET of(role) == SelectSeq(stmt.relations, LAMBDA r : r.role = role)
  IN  (of("write") \o of("target") \o of("read"))[1]

orElse(old, new) == IF old = << >> THEN new ELSE old

(* The token parser leaves the predicate empty and sets hasWhere and       *)
(* whereTrivial, the extraction does the opposite.                         *)
syncPredicate(stmt) ==
  LET p == IF stmt.predicate # "" THEN stmt.predicate
           ELSE IF ~stmt.hasWhere THEN "absent"
           ELSE IF stmt.whereTrivial THEN "always_true"
           ELSE "non_trivial"
  IN  [stmt EXCEPT !.predicate = p, !.hasWhere = p # "absent",
                   !.whereTrivial = p = "always_true"]

syncConvenienceFields(stmt) ==
  LET s == syncPredicate(stmt)
      r == primaryRelation(stmt)
  IN  IF stmt.type \in {"DROP_SCHEMA", "DROP_DATABASE", "ALTER_DEFAULT_PRIVILEGES"}
      THEN [s EXCEPT !.object = orElse(@, s.schema)]
      ELSE IF stmt.relations = << >> THEN s
      ELSE IF r.name # << >>
      THEN [s EXCEPT !.table = orElse(@, r.schema \o r.name),
                     !.object = orElse(@, r.schema \o r.name),
                     !.schema = orElse(@, r.schema)]
      ELSE [s EXCEPT !.object = orElse(@, r.schema), !.schema = orElse(@, r.schema)]

=============================================================================
