---------------------------- MODULE MCProvenance ----------------------------
(* TLC instances of Provenance: a request, one that reuses its id for      *)
(* other content, and a supervisor's event with the same nonce.  The       *)
(* agent's process also belongs to a group that may be enrolled, and to    *)
(* one that may not.                                                       *)
EXTENDS Provenance

ReqA == [id |-> "a", body |-> 1, nonce |-> "n1", agent |-> "x", event |-> "agent", issued |-> 0]
ReqB == [ReqA EXCEPT !.body = 2, !.nonce = "n2"]
ReqC == [id |-> "c", body |-> 3, nonce |-> "n1", agent |-> "x", event |-> "supervisor", issued |-> 2]
MCDeployments ==
  {[audit |-> "government", sink |-> "s3"], [audit |-> "enterprise", sink |-> "r2"],
   [audit |-> "enterprise", sink |-> "file"]}
MCAgents == {"x", "team", "users"}
MCSid == [a \in MCAgents |-> IF a = "users" THEN "users" ELSE IF a = "x" THEN "S-x" ELSE "S-team"]
MCToken == [a \in MCAgents |-> {MCSid[a], "users"} \cup IF a = "x" THEN {"S-team"} ELSE {}]
MCEnrolled == [a \in MCAgents |-> IF a = "x" THEN "agent" ELSE "none"]
Rule(d) == [enabled |-> TRUE, covers |-> TRUE, type |-> "Age", days |-> d]
MCBuckets ==
  {[answers |-> TRUE, lock |-> TRUE, rules |-> {Rule(1), Rule(2)}],
   [answers |-> TRUE, lock |-> FALSE, rules |-> {Rule(1)}]}
MCRequests == {ReqA, ReqB, ReqC}
Symmetry == Permutations(Workers)
=============================================================================
