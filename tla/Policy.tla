------------------------------- MODULE Policy -------------------------------
(***************************************************************************)
(* PolicyEnforcer.check (enterprise/policy.py) over a signed bundle and a  *)
(* ClassifiedModeProfile: which calls are allowed, and which of them need  *)
(* an operator's approval.  The bundle is read once and never changes; the *)
(* state of the agent and the time come from the caller at each check.     *)
(***************************************************************************)
EXTENDS Integers

CONSTANTS
  Agents,
  Bundle,     \* [agents, from, until, signer]
  TrustRoot,  \* the pinned key of the policy's signer
  Profile     \* a ClassifiedModeProfile

Levels == {"UNCLASSIFIED", "CUI", "SECRET", "TOP_SECRET"}

(* Classification and rank; any other string raises.                       *)
Rank(level) ==
  CASE level = "UNCLASSIFIED" -> 0 [] level = "CUI" -> 1
    [] level = "SECRET" -> 2 [] level = "TOP_SECRET" -> 3

(* AgentPolicy: what from_dict accepts.                                    *)
AgentPolicies ==
  [allowed_targets : SUBSET STRING, allowed_apps : SUBSET STRING, blocked_apps : SUBSET STRING,
   allowed_actions : SUBSET STRING, requires_operator_approval : SUBSET STRING,
   max_classification : Levels, revoked : BOOLEAN]

ASSUME PolicyConstants ==
  /\ DOMAIN Bundle.agents \subseteq Agents
  /\ \A a \in DOMAIN Bundle.agents : Bundle.agents[a] \in AgentPolicies
  /\ Bundle.from \in Int /\ Bundle.until \in Int

(* cui_baseline, the profile the governed runtime uses.                    *)
CuiBaseline ==
  [max_classification |-> "CUI", require_cng_identity |-> FALSE, require_signed_policy |-> TRUE,
   require_operator_approval_for |-> {}, allowed_apps |-> {}, blocked_apps |-> {}]

IsTimeValid(t) == Bundle.from <= t /\ t <= Bundle.until

(* verify_policy_signature: a signature of the given key over the bundle.  *)
VerifyPolicySignature(pub) == Bundle.signer = pub

(* _verify_sig: the caller's trust root, or else the bundle's own key; the *)
(* runtime always pins a root.  The bundle never changes, so the cached    *)
(* result is the result.                                                   *)
VerifySig == VerifyPolicySignature(TrustRoot)

(* Step 0: pause, quarantine and revocation.                               *)
ControlGate(state) == state \notin {"paused", "quarantined", "revoked"}

ListAllows(allowed, x) == allowed = {} \/ x \in allowed

(* Step 0.5: the profile's ceiling, identity and app lists.                *)
ProfileGate(r) ==
  /\ Rank(r.classification) <= Rank(Profile.max_classification)
  /\ Profile.require_cng_identity => r.identity_type = "cng"
  /\ r.app \notin Profile.blocked_apps
  /\ ListAllows(Profile.allowed_apps, r.app)

(* Steps 1 to 4: the agent is listed, and the bundle in force and signed.  *)
BundleGate(a, t) ==
  /\ a \in DOMAIN Bundle.agents
  /\ ~Bundle.agents[a].revoked
  /\ IsTimeValid(t)
  /\ Profile.require_signed_policy => VerifySig

(* Steps 5 to 8: target, app, action and the agent's own ceiling.  A call  *)
(* of the dispatcher names no target agent.                                *)
AgentGate(p, r) ==
  /\ r.app \notin p.blocked_apps
  /\ ListAllows(p.allowed_apps, r.app)
  /\ r.action \in p.allowed_actions
  /\ Rank(r.classification) <= Rank(p.max_classification)

(* Step 9: the agent's list or the profile's.                              *)
RequiresApproval(a, r) ==
  r.action \in Bundle.agents[a].requires_operator_approval \cup Profile.require_operator_approval_for

(* check, up to the composition monitor.                                   *)
Check(a, r, state, t) ==
  IF /\ r.classification \in Levels
     /\ ControlGate(state) /\ ProfileGate(r) /\ BundleGate(a, t)
     /\ AgentGate(Bundle.agents[a], r)
  THEN IF RequiresApproval(a, r) THEN "human_approved" ELSE "autonomous"
  ELSE "denied"
=============================================================================
