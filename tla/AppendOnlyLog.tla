--------------------------- MODULE AppendOnlyLog ---------------------------
(***************************************************************************)
(* What AgentLedger promises (enterprise/ledger.py): a log to which linked *)
(* entries are added one at a time and from which nothing is ever removed  *)
(* or changed, whatever fails and whenever the process dies.               *)
(***************************************************************************)
EXTENDS Naturals, Sequences

CONSTANT Ids

VARIABLE log

Newest == IF log = <<>> THEN 0 ELSE log[Len(log)].id

Init == log = <<>>

(* One entry, numbered and linked to the entry before it.                  *)
Add(id) == log' = Append(log, [seq |-> Len(log) + 1, prev |-> Newest, id |-> id])

Next == \E id \in Ids : Add(id)

Spec == Init /\ [][Next]_log
============================================================================
