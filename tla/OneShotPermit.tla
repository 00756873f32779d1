--------------------------- MODULE OneShotPermit ---------------------------
(***************************************************************************)
(* What the replay store and the final boundary (enterprise/acp_shim.py,   *)
(* enterprise/mcp_dispatch.py) promise of an action id: it goes to one     *)
(* holder for good, is used at most once, after the store knows that it    *)
(* may be and before its outcome is settled, and everyone who asks is told *)
(* that outcome.                                                           *)
(***************************************************************************)
EXTENDS Naturals

CONSTANTS Permits, Holders, NoHolder

VARIABLES phase,  \* "absent", "taken", "begun" or the outcome
          holder, \* who took the permit
          uses,   \* how often it was used
          told    \* outcomes that were reported

vars == <<phase, holder, uses, told>>

Outcomes == {"succeeded", "failed"}

Init ==
  /\ phase = [p \in Permits |-> "absent"]
  /\ holder = [p \in Permits |-> NoHolder]
  /\ uses = [p \in Permits |-> 0]
  /\ told = [p \in Permits |-> {}]

Enter(p, from, to) == phase[p] = from /\ phase' = [phase EXCEPT ![p] = to]

Take(p, h) ==
  /\ Enter(p, "absent", "taken")
  /\ holder' = [holder EXCEPT ![p] = h]
  /\ UNCHANGED <<uses, told>>

Begin(p) == Enter(p, "taken", "begun") /\ UNCHANGED <<holder, uses, told>>

Use(p) ==
  /\ phase[p] = "begun" /\ uses[p] = 0
  /\ uses' = [uses EXCEPT ![p] = 1]
  /\ UNCHANGED <<phase, holder, told>>

Tell(p, outcome) == told' = [told EXCEPT ![p] = @ \cup {outcome}]

(* A use that nobody could confirm may be settled as failed; success needs *)
(* a use.                                                                  *)
Settle(p, outcome) ==
  /\ outcome = "succeeded" => uses[p] = 1
  /\ Enter(p, "begun", outcome)
  /\ Tell(p, outcome)
  /\ UNCHANGED <<holder, uses>>

Ask(p) == phase[p] \in Outcomes /\ Tell(p, phase[p]) /\ UNCHANGED <<phase, holder, uses>>

Next ==
  \E p \in Permits :
    \/ \E h \in Holders : Take(p, h)
    \/ Begin(p) \/ Use(p) \/ Ask(p)
    \/ \E outcome \in Outcomes : Settle(p, outcome)

Spec == Init /\ [][Next]_vars
============================================================================
