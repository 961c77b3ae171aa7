---------------------------- MODULE MCTightening ----------------------------
(***************************************************************************)
(* The statements of MCRules under pairs of policies: what is protected    *)
(* grows along one chain, the decisions along another, and a policy that   *)
(* leaves a rule to the catalog is paired with ones that spell it out.     *)
(***************************************************************************)
EXTENDS MCRules, Tightening

MCPairs ==
  LET none == Protecting({}, {}, {})
      some == Protecting({<<"pii", "users">>}, {}, {"admin"})
      most == Protecting({<<"Users">>, <<"pii", "users">>}, {<<"pii">>}, {"admin"})
      Setting(d, e) == [semantic_analysis_incomplete |-> d, delete_without_where |-> e]
  IN  MCPolicies \cup
      {none, some, most, DefaultPolicy,
       [some EXCEPT !.rules = Setting("allow", "allow")],
       [some EXCEPT !.rules = Setting("warn", "warn")],
       [most EXCEPT !.rules = Setting("warn", "block")],
       [most EXCEPT !.rules = Setting("block", "block")]}

=============================================================================
