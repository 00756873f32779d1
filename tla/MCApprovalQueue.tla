-------------------------- MODULE MCApprovalQueue --------------------------
(* TLC instances of ApprovalQueue.                                         *)
EXTENDS ApprovalQueue, TLC

(* Approvals, threads and operators are interchangeable; event ids are     *)
(* drawn by FreshEvent, so they are numbers and no symmetry set.           *)
Symmetry == Permutations(Approvals) \cup Permutations(Threads) \cup Permutations(Operators)
============================================================================
