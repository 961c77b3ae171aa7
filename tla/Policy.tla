------------------------------- MODULE Policy -------------------------------
(***************************************************************************)
(* The policy of a review: internal/policy/policy.go and validate.go, with *)
(* the rule catalog of internal/rulemeta.                                  *)
(*                                                                         *)
(* A dotted name is the sequence of its parts, and << >> the empty string. *)
(***************************************************************************)
EXTENDS Verdicts, Sequences, SequencesExt

CONSTANTS
  Identifiers,   (* The parts of names, and the roles.                     *)
  lower          (* strings.ToLower on them.                               *)

ASSUME LowerAssumption ==
  /\ lower \in [Identifiers -> Identifiers]
  /\ \A x \in Identifiers : lower[lower[x]] = lower[x]

Name == Seq(Identifiers)

(* Each rule with its severity and its default decision.                   *)
catalog ==
  [ delete_without_where  |-> <<"critical", "block">>,
    update_without_where  |-> <<"critical", "block">>,
    drop_table            |-> <<"critical", "block">>,
    drop_column           |-> <<"high", "block">>,
    writes_to_protected_tables |-> <<"medium", "warn">>,
    delete_trivial_where  |-> <<"critical", "block">>,
    update_trivial_where  |-> <<"critical", "block">>,
    truncate_table        |-> <<"critical", "block">>,
    drop_schema           |-> <<"critical", "block">>,
    drop_database         |-> <<"critical", "block">>,
    alter_table_drop_not_null_or_constraint   |-> <<"high", "block">>,
    grant_to_public_on_protected_objects      |-> <<"high", "block">>,
    alter_default_privileges_public           |-> <<"high", "block">>,
    grant_high_risk_role_membership           |-> <<"high", "block">>,
    select_all_from_protected_table           |-> <<"medium", "warn">>,
    select_without_limit_from_protected_table |-> <<"medium", "warn">>,
    insert_select_from_protected_table        |-> <<"medium", "warn">>,
    copy_to_stdout_or_program_from_protected_source |-> <<"high", "block">>,
    semantic_analysis_incomplete              |-> <<"medium", "warn">> ]

RuleIds == DOMAIN catalog

(***************************************************************************)
(* A policy as yaml.Unmarshal leaves it: rules holds whatever keys and     *)
(* strings the file has.                                                   *)
(***************************************************************************)
DefaultPolicy ==
  [dialect |-> "postgres", tables |-> {}, schemas |-> {}, roles |-> {},
   rules |-> [r \in RuleIds |-> catalog[r][2]]]

(* Mutant: only the names of the rules are checked.                        *)
Validate_NamesOnly(p) == p.dialect \in {"", "postgres"} /\ DOMAIN p.rules \subseteq RuleIds

Validate(p) ==
  /\ p.dialect \in {"", "postgres"}
  /\ \A r \in DOMAIN p.rules : p.rules[r] \in Decisions /\ r \in RuleIds

RuleDecision(p, r) ==
  IF r \in DOMAIN p.rules /\ p.rules[r] \in Decisions
  THEN p.rules[r] ELSE catalog[r][2]

normalizeName(name) == [i \in DOMAIN name |-> lower[name[i]]]

IsProtectedSchema(p, schema) ==
  /\ schema # << >>
  /\ \E x \in p.schemas : normalizeName(x) = normalizeName(schema)

(* A listed name protects that very name and, when it has one part, the    *)
(* tables of that name in every schema; a listed schema, its tables.       *)
IsProtectedTable(p, name) ==
  /\ name # << >>
  /\ LET leaf == <<Last(normalizeName(name))>>
     IN  \/ \E t \in p.tables : normalizeName(t) \in {normalizeName(name), leaf}
         \/ IsProtectedSchema(p, Front(normalizeName(name)))

IsProtectedRole(p, role) == \E x \in p.roles : lower[x] = lower[role]

=============================================================================
