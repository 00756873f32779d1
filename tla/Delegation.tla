----------------------------- MODULE Delegation -----------------------------
(***************************************************************************)
(* What is signed on the way of a delegated action, and what each signed   *)
(* object must satisfy: the owner's grant, the agent's action proof, the   *)
(* prompt that carries both (enterprise/acp_shim.py) and the completion    *)
(* receipt (enterprise/delegation.py).  A signature is the key that made   *)
(* it, a digest is what it is a digest of.  The contents of grants and     *)
(* prompts are constants; their ids are drawn by DelegatedActions.         *)
(***************************************************************************)
EXTENDS Integers, FiniteSets

CONSTANTS
  Agents,     \* full-key principals
  Grants,     \* owner-signed delegation grants
  Subject,    \* the agent whose key each grant names
  Sessions,   \* ACP session ids (uuid4, never reused)
  Actions,    \* one-time action ids
  Payloads,   \* prompts: what is asked and what the proof in it signs
  Body,       \* content of each grant
  Statement,  \* content of each prompt
  Owner,      \* the key in the trust store
  Executor    \* the identity of the runtime

ASSUME DelegationContents ==
  /\ \A g \in Grants :
       /\ Body[g].actions \in SUBSET STRING /\ Body[g].target \in SUBSET (STRING \X STRING)
       /\ {Body[g].issuedAt, Body[g].notBefore, Body[g].expiresAt} \subseteq Nat
  /\ \A y \in Payloads :
       /\ Statement[y].texts \in Nat /\ Statement[y].envelope \in BOOLEAN
       /\ Statement[y].author \in Agents /\ Statement[y].target \in SUBSET (STRING \X STRING)

Proofs == [action : Actions, grant : Grants, session : Sessions, payload : Payloads]

(* DelegationGrant.__post_init__: a grant of no action, of an empty time   *)
(* window or whose subject is not the id of the subject's key is no grant. *)
GrantValid(g) ==
  /\ Body[g].actions # {}
  /\ Body[g].issuedAt <= Body[g].notBefore /\ Body[g].notBefore < Body[g].expiresAt
  /\ Body[g].subjectId = Subject[g]

(* _parse_prompt: one text block, which holds the five fields.             *)
PromptParses(p) == Statement[p.payload].texts = 1 /\ Statement[p.payload].envelope

(* What the agent signs (acp_action_payload) is the call of the prompt.    *)
ActionPayload(p) ==
  [session |-> p.session, tool |-> Statement[p.payload].tool,
   arguments |-> Statement[p.payload].arguments]

(* The authority of the grant and the authorship of the proof.             *)
Authentic(p) ==
  LET y == Statement[p.payload] IN
  /\ Body[p.grant].signer = Owner
  /\ y.author = Subject[p.grant] /\ y.signer = y.author

(* What the grant allows.                                                  *)
InScope(p) ==
  LET y == Statement[p.payload]
      g == Body[p.grant]
  IN  /\ y.action \in g.actions
      /\ y.mode = g.mode /\ y.classification = g.ceiling
      /\ g.target \subseteq y.target
      /\ y.signed = ActionPayload(p)

(* verify_historical_delegated_action: at the time the proof itself names, *)
(* and with nothing revoked.                                               *)
VerifyHistorical(p) ==
  LET at == Statement[p.payload].occurredAt IN
  /\ Authentic(p) /\ InScope(p)
  /\ Body[p.grant].notBefore <= at /\ at <= Body[p.grant].expiresAt

(* The prompt and its proof name the same tool.                            *)
NamesTool(p) == Statement[p.payload].action = Statement[p.payload].tool

-----------------------------------------------------------------------------
(* delegation_target_for: tools that work under a lease are bound to its   *)
(* target, sc_revoke_lease to the target of the lease it ends, the others  *)
(* to the live window; a target that is gone matches nothing.              *)
LeaseTools == {"sc_inject_text", "sc_read_output"}
Targets == {Statement[y].target : y \in Payloads}
Gone == {<<"gone", "gone">>}
LiveTargets ==
  [lease : Targets \cup {Gone}, authority : Targets \cup {Gone}, window : Targets \cup {Gone}]

DelegationTargetFor(tool, live) ==
  IF tool \in LeaseTools THEN live.lease
  ELSE IF tool = "sc_revoke_lease" THEN live.authority ELSE live.window

TargetMatches(p, live) ==
  Statement[p.payload].target = DelegationTargetFor(Statement[p.payload].tool, live)

-----------------------------------------------------------------------------
(* sign_delegated_receipt over the result of proof p.                      *)
SignReceipt(p, status) ==
  [grant |-> p.grant, proof |-> p, action |-> p.action, tool |-> Statement[p.payload].action,
   author |-> Statement[p.payload].author, target |-> Statement[p.payload].target,
   status |-> status, signer |-> Executor]

(* verify_delegated_receipt against the call that asks for it.             *)
VerifyReceipt(r, p, status) ==
  /\ r.signer = Executor
  /\ r.grant = p.grant /\ r.proof = p
  /\ r.action = p.action /\ r.tool = Statement[p.payload].tool
  /\ r.author = Statement[p.payload].author
  /\ r.status = status /\ r.target = Statement[p.payload].target
=============================================================================
