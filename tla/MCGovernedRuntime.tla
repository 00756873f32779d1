------------------------- MODULE MCGovernedRuntime -------------------------
(* TLC instances of GovernedRuntime.                                       *)
EXTENDS GovernedRuntime, TLC

CONSTANT p1

(* Every process is configured with the same two files.                    *)
SharedLedger == [p \in Processes |-> 1]
SharedApprovals == [p \in Processes |-> 2]

(* The second process names other paths, which may be links of the same    *)
(* files.                                                                  *)
OwnLedger == [p \in Processes |-> IF p = p1 THEN 1 ELSE 3]
OwnApprovals == [p \in Processes |-> IF p = p1 THEN 2 ELSE 4]

(* The approval file exists, with or without a ledger; any mix of links    *)
(* with the ledgers existing.                                              *)
Existing == {f \in [Paths -> {NoInode, 1, 2}] : f[1] \in {NoInode, 1} /\ f[2] = 2}
Linked == {f \in [Paths -> {0, 1, 2}] : f[1] # 0 /\ f[3] # 0}

Symmetry == Permutations(Threads)
============================================================================
