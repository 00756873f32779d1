-------------------------- MODULE MCControlPlane --------------------------
(* TLC instances of ControlPlane: an agent that needs approval to inject,  *)
(* another that the policy does not list, and a bundle with a window.      *)
EXTENDS ControlPlane, TLC

MCAgents == {"listed", "unlisted"}
MCBundle ==
  [agents |-> ("listed" :> [allowed_targets |-> {}, allowed_apps |-> {"cmd"}, blocked_apps |-> {"psh"},
                            allowed_actions |-> {"inject", "read"},
                            requires_operator_approval |-> {"inject"},
                            max_classification |-> "UNCLASSIFIED", revoked |-> FALSE]),
   from |-> 1, until |-> 1, signer |-> "root"]
MCRequests ==
  [action : {"inject", "read"}, app : {"cmd", "psh"},
   classification : {"UNCLASSIFIED", "CUI", "SECRET"}, identity_type : {"dpapi"}]

Symmetry ==
  Permutations(Approvals) \cup Permutations(Operators) \cup Permutations(Dispatchers)
============================================================================
