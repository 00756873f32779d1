------------------------ MODULE MCDelegatedActions ------------------------
(* TLC instances of DelegatedActions: two good prompts of one action, and  *)
(* one whose proof was signed for another session.                         *)
EXTENDS DelegatedActions, TLC

CONSTANTS a1, s1, y1, y2, y3

(* Every grant delegates to one agent.                                     *)
OneAgent == [g \in Grants |-> a1]
MCBody ==
  [g \in Grants |->
     [signer |-> Owner, subjectId |-> a1, actions |-> {"sc_inject_text"}, mode |-> "enterprise",
      ceiling |-> "CUI", target |-> {<<"hwnd", "7">>},
      issuedAt |-> 0, notBefore |-> 0, expiresAt |-> 2]]
Good(args) ==
  [texts |-> 1, envelope |-> TRUE, tool |-> "sc_inject_text", arguments |-> args,
   author |-> a1, signer |-> a1, action |-> "sc_inject_text", mode |-> "enterprise",
   classification |-> "CUI", target |-> {<<"hwnd", "7">>, <<"pid", "1">>}, occurredAt |-> 1,
   signed |-> [session |-> s1, tool |-> "sc_inject_text", arguments |-> args]]
MCStatement ==
  (y1 :> Good(y1)) @@ (y2 :> Good(y2)) @@ (y3 :> [Good(y3) EXCEPT !.signed.session = "other"])

Symmetry == Permutations(Workers) \cup Permutations({y1, y2})
============================================================================
