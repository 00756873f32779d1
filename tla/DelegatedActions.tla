-------------------------- MODULE DelegatedActions --------------------------
(***************************************************************************)
(* A delegated action from the ACP prompt to its durable completion:       *)
(* ACPShim._prompt and its sessions (enterprise/acp_shim.py), the final    *)
(* boundary MCPDispatcher.call_delegated_tool (enterprise/mcp_dispatch.py),*)
(* SQLiteActionReplayStore, and the RevocationRegistry with its watcher    *)
(* (enterprise/revocation.py).                                             *)
(*                                                                         *)
(* Revocation is checked three times on the way (shim, dispatcher,         *)
(* actuator), the action id is claimed, begun and finished in SQLite, and  *)
(* the agent is bound to its session last.  Each of these is a step of its *)
(* own: other calls, revocations, the watcher, a deactivated owner key and *)
(* a crash come between.                                                   *)
(***************************************************************************)
EXTENDS Delegation

CONSTANTS
  Workers,     \* threads that handle prompts
  MaxSessions, \* _MAX_SESSIONS
  MaxCrashes,  \* bound on process crashes
  MaxLapses,   \* bound on deactivations of the owner's key
  NoProof

ASSUME DelegationConstants ==
  /\ Subject \in [Grants -> Agents]
  /\ Agents \cap Grants = {}
  /\ MaxCrashes \in Nat /\ MaxLapses \in Nat

ASSUME SessionLimit == MaxSessions \in Nat \ {0}

ASSUME NoProofIsNoProof == NoProof \notin Proofs

VARIABLES
  revoked,   \* table revocation: revoked agents and grants
  epoch,     \* revocation_meta.epoch
  issued,    \* revocation epoch each grant was signed with, NotIssued before
  expired,   \* grants whose expires_at has passed
  enrolled,  \* ACPTrustStore.has_active_root() and the issuer's key
  initialized, \* ACPShim._initialized
  sessions,  \* ACPShim._sessions
  store,     \* table acp_action_consumption
  worker,    \* per thread: position in a prompt
  watcher,   \* RevocationWatcher: position in poll_once and _last_epoch
  crashes, lapses,
  actuated,  \* history: actuations per action id
  answers,   \* history: completion statuses returned per action id
  doomed     \* history: sessions bound to an agent when it was revoked

registry == <<revoked, epoch>>
faults == <<crashes, lapses>>
authority == <<issued, expired, enrolled, initialized>>
history == <<actuated, answers, doomed>>
vars == <<registry, authority, sessions, store, worker, watcher, faults, history>>

NotIssued == -1

IdleWorker == [pc |-> "idle", proof |-> NoProof, ok |-> FALSE, late |-> FALSE]
IdleWatcher(last) == [pc |-> "idle", last |-> last, epoch |-> -1, rows |-> {}]
NewSession == [state |-> "new", agents |-> {}, cancelled |-> FALSE]
AbsentRow == [outcome |-> "absent", started |-> FALSE, proof |-> NoProof]

Init ==
  /\ revoked = {} /\ epoch = 0
  /\ issued = [g \in Grants |-> NotIssued]
  /\ expired = {}
  /\ enrolled = TRUE /\ initialized = FALSE
  /\ sessions = [s \in Sessions |-> NewSession]
  /\ store = [a \in Actions |-> AbsentRow]
  /\ worker = [w \in Workers |-> IdleWorker]
  /\ watcher = IdleWatcher(-1)
  /\ crashes = 0 /\ lapses = 0
  /\ actuated = [a \in Actions |-> 0]
  /\ answers = [a \in Actions |-> {}]
  /\ doomed = {}

Open(s) == sessions[s].state = "open"
End(ss) == [s \in Sessions |-> IF s \in ss THEN [sessions[s] EXCEPT !.state = "ended"] ELSE sessions[s]]

-----------------------------------------------------------------------------
(* The owner, the operator and time.                                       *)

(* issue_delegation_grant with the current revocation epoch.               *)
Issue(g) ==
  /\ issued[g] = NotIssued /\ GrantValid(g)
  /\ issued' = [issued EXCEPT ![g] = epoch]
  /\ UNCHANGED <<registry, expired, enrolled, initialized, sessions, store, worker, watcher, faults, history>>

Expire(g) ==
  /\ issued[g] # NotIssued /\ g \notin expired
  /\ expired' = expired \cup {g}
  /\ UNCHANGED <<registry, issued, enrolled, initialized, sessions, store, worker, watcher, faults, history>>

(* _revoke: one transaction; a repeated revocation changes nothing.        *)
Revoke(x) ==
  /\ x \notin revoked
  /\ revoked' = revoked \cup {x}
  /\ epoch' = epoch + 1
  /\ doomed' = doomed \cup {s \in Sessions : Open(s) /\ x \in sessions[s].agents}
  /\ UNCHANGED <<authority, sessions, store, worker, watcher, faults, actuated, answers>>

Deactivate ==
  /\ enrolled /\ lapses < MaxLapses
  /\ enrolled' = FALSE
  /\ lapses' = lapses + 1
  /\ UNCHANGED <<registry, issued, expired, initialized, sessions, store, worker, watcher, crashes, history>>

Enroll ==
  /\ ~enrolled
  /\ enrolled' = TRUE
  /\ UNCHANGED <<registry, issued, expired, initialized, sessions, store, worker, watcher, faults, history>>

(* Mutant: a revoked agent is only told apart by the checkpoint epoch.     *)
VerifiedByEpoch(p) ==
  /\ Authentic(p) /\ InScope(p)
  /\ issued[p.grant] # NotIssued /\ p.grant \notin expired
  /\ p.grant \notin revoked
  /\ issued[p.grant] >= epoch

(* verify_delegated_action now, against the revocation state.              *)
Verified(p) ==
  /\ Authentic(p) /\ InScope(p)
  /\ issued[p.grant] # NotIssued /\ p.grant \notin expired
  /\ p.grant \notin revoked
  /\ Subject[p.grant] \notin revoked
  /\ issued[p.grant] >= epoch

-----------------------------------------------------------------------------
(* The shim.                                                               *)

Initialize ==
  /\ ~initialized /\ initialized' = TRUE
  /\ UNCHANGED <<registry, issued, expired, enrolled, sessions, store, worker, watcher, faults, history>>

(* _new_session: a session count at the limit is refused.                  *)
NewSessionOpens(s) ==
  /\ initialized /\ enrolled
  /\ Cardinality({t \in Sessions : Open(t)}) < MaxSessions
  /\ sessions[s].state = "new"
  /\ sessions' = [sessions EXCEPT ![s] = [@ EXCEPT !.state = "open"]]
  /\ UNCHANGED <<registry, authority, store, worker, watcher, faults, history>>

Cancel(s) ==
  /\ Open(s) /\ ~sessions[s].cancelled
  /\ sessions' = [sessions EXCEPT ![s] = [@ EXCEPT !.cancelled = TRUE]]
  /\ UNCHANGED <<registry, authority, store, worker, watcher, faults, history>>

(* _prompt up to the authentication check: a deactivated owner ends the    *)
(* session, a cancelled turn is answered without acting, and a prompt that *)
(* does not parse or names another tool than its proof is an error.        *)
Prompt(w, p) ==
  LET s == p.session IN
  /\ worker[w].pc = "idle"
  /\ Open(s)
  /\ \/ /\ ~enrolled
        /\ sessions' = End({s})
        /\ UNCHANGED worker
     \/ /\ enrolled /\ sessions[s].cancelled
        /\ sessions' = [sessions EXCEPT ![s] = [@ EXCEPT !.cancelled = FALSE]]
        /\ UNCHANGED worker
     \/ /\ enrolled /\ ~sessions[s].cancelled
        /\ PromptParses(p) /\ NamesTool(p)
        /\ worker' = [worker EXCEPT ![w] =
             [IdleWorker EXCEPT !.pc = "acp", !.proof = p,
                !.late = p.grant \in revoked \/ Subject[p.grant] \in revoked]]
        /\ UNCHANGED sessions
  /\ UNCHANGED <<registry, authority, store, watcher, faults, history>>

Advance(w, pc) == worker' = [worker EXCEPT ![w] = [@ EXCEPT !.pc = pc]]
Return(w) == worker' = [worker EXCEPT ![w] = IdleWorker]

(* The shim's check.  The session of a proof that names a revoked author   *)
(* is ended, whatever else is wrong with the proof.                        *)
AcpVerify(w) ==
  LET p == worker[w].proof IN
  /\ worker[w].pc = "acp"
  /\ \/ /\ enrolled /\ Verified(p)
        /\ Advance(w, "lookup")
        /\ UNCHANGED sessions
     \/ /\ ~(enrolled /\ Verified(p))
        /\ sessions' = IF enrolled /\ Statement[p.payload].author \in revoked /\ Open(p.session)
                       THEN End({p.session}) ELSE sessions
        /\ Return(w)
  /\ UNCHANGED <<registry, authority, store, watcher, faults, history>>

-----------------------------------------------------------------------------
(* call_delegated_tool.                                                    *)

(* replay_store.get: the receipt that was stored with the outcome.         *)
StoredReceipt(row) == SignReceipt(row.proof, row.outcome)

(* Mutant: any finished row of the action id is returned.                  *)
RecoverableById(p) == store[p.action].outcome \in {"succeeded", "failed"}

(* A stored completion is returned for the exact grant, proof and session. *)
Recoverable(p) ==
  /\ store[p.action].outcome \in {"succeeded", "failed"}
  /\ store[p.action].proof = p
  /\ VerifyReceipt(StoredReceipt(store[p.action]), p, store[p.action].outcome)

(* call_delegated_tool up to the replay store's answer: the ledger does    *)
(* not verify, or the proof was never good; a finished action is answered  *)
(* from its receipt, or refused.                                           *)
Lookup(w) ==
  LET p == worker[w].proof
      row == store[p.action]
  IN
  /\ worker[w].pc = "lookup"
  /\ \/ /\ Return(w)
        /\ UNCHANGED answers
     \/ /\ VerifyHistorical(p) /\ Recoverable(p)
        /\ answers' = [answers EXCEPT ![p.action] = @ \cup {row.outcome}]
        /\ Advance(w, "bind")
     \/ /\ VerifyHistorical(p) /\ row.outcome \in {"absent", "admitted"}
        /\ Advance(w, "verify")
        /\ UNCHANGED answers
  /\ UNCHANGED <<registry, authority, sessions, store, watcher, faults, actuated, doomed>>

(* The second check, and the target of the proof must be the live one.     *)
DispatchVerify(w) ==
  LET p == worker[w].proof IN
  /\ worker[w].pc = "verify"
  /\ \E match \in {TargetMatches(p, live) : live \in LiveTargets} :
       IF match /\ Verified(p) THEN Advance(w, "claim") ELSE Return(w)
  /\ UNCHANGED <<registry, authority, sessions, store, watcher, faults, history>>

(* Mutant: INSERT OR REPLACE.                                              *)
ClaimReplaces(w) ==
  LET p == worker[w].proof IN
  /\ worker[w].pc = "claim"
  /\ store' = [store EXCEPT ![p.action] = [AbsentRow EXCEPT !.outcome = "admitted", !.proof = p]]
  /\ Advance(w, "actuator")
  /\ UNCHANGED <<registry, authority, sessions, watcher, faults, history>>

(* INSERT OR IGNORE on the primary key action_id.                          *)
Claim(w) ==
  LET p == worker[w].proof IN
  /\ worker[w].pc = "claim"
  /\ IF store[p.action].outcome = "absent"
     THEN /\ store' = [store EXCEPT ![p.action] = [AbsentRow EXCEPT !.outcome = "admitted", !.proof = p]]
          /\ Advance(w, "actuator")
     ELSE /\ Return(w)
          /\ UNCHANGED store
  /\ UNCHANGED <<registry, authority, sessions, watcher, faults, history>>

(* _require_verified_delegated_call: the third check.  A refusal here is   *)
(* a result with ok = False, which still goes on to finish().              *)
ActuatorVerify(w) ==
  /\ worker[w].pc = "actuator"
  /\ \E match \in {TargetMatches(worker[w].proof, live) : live \in LiveTargets} :
       Advance(w, IF match /\ Verified(worker[w].proof) THEN "begin" ELSE "finish")
  /\ UNCHANGED <<registry, authority, sessions, store, watcher, faults, history>>

(* begin(): UPDATE ... WHERE the signed tuple is admitted and not started. *)
Begin(w) ==
  LET p == worker[w].proof
      admitted == store[p.action].outcome = "admitted" /\ ~store[p.action].started
                  /\ store[p.action].proof = p
  IN
  /\ worker[w].pc = "begin"
  /\ store' = IF admitted THEN [store EXCEPT ![p.action] = [@ EXCEPT !.started = TRUE]] ELSE store
  /\ Advance(w, IF admitted THEN "route" ELSE "finish")
  /\ UNCHANGED <<registry, authority, sessions, watcher, faults, history>>

(* The handler: refused by lease, policy or approval; actuated and         *)
(* confirmed; or actuated and reported as failed, because the delivery was *)
(* not confirmed or the audit entry of the success could not be written.   *)
Actuate(w) ==
  LET a == worker[w].proof.action IN
  /\ worker[w].pc = "route"
  /\ \/ UNCHANGED actuated /\ Advance(w, "finish")
     \/ /\ actuated' = [actuated EXCEPT ![a] = @ + 1]
        /\ \E ok \in BOOLEAN :
             worker' = [worker EXCEPT ![w] = [@ EXCEPT !.pc = "finish", !.ok = ok]]
  /\ UNCHANGED <<registry, authority, sessions, store, watcher, faults, answers, doomed>>

(* Mutant: an outcome the CHECK constraint of the table does not know.     *)
StatusDone(w) == "done"

(* The outcome that call_delegated_tool signs and stores.                  *)
Status(w) == IF worker[w].ok THEN "succeeded" ELSE "failed"

(* finish() updates a begun, unfinished row or raises.  The audit ledger   *)
(* may also fail before it, so that the row stays as it is.                *)
Finish(w) ==
  LET a == worker[w].proof.action IN
  /\ worker[w].pc = "finish"
  /\ \/ /\ store[a].outcome = "admitted" /\ store[a].started
        /\ store' = [store EXCEPT ![a] = [@ EXCEPT !.outcome = Status(w)]]
        /\ answers' = [answers EXCEPT ![a] = @ \cup {Status(w)}]
        /\ Advance(w, "bind")
     \/ /\ Return(w)
        /\ UNCHANGED <<store, answers>>
  /\ UNCHANGED <<registry, authority, sessions, watcher, faults, actuated, doomed>>

(* Back in the shim: the proof's author, who is the subject by now, is     *)
(* bound to the session, if it still exists.                               *)
Bind(w) ==
  LET p == worker[w].proof IN
  /\ worker[w].pc = "bind"
  /\ sessions' = IF Open(p.session)
                 THEN [sessions EXCEPT ![p.session] = [@ EXCEPT !.agents = sessions[p.session].agents \cup {Subject[p.grant]}]]
                 ELSE sessions
  /\ Return(w)
  /\ UNCHANGED <<registry, authority, store, watcher, faults, history>>

-----------------------------------------------------------------------------
(* RevocationWatcher.poll_once.  The registry's snapshot reads the epoch   *)
(* and then the rows; another process may revoke in between.               *)

WatchEpoch ==
  /\ watcher.pc = "idle"
  /\ epoch # watcher.last
  /\ watcher' = [watcher EXCEPT !.pc = "rows", !.epoch = epoch]
  /\ UNCHANGED <<registry, authority, sessions, store, worker, faults, history>>

(* Mutant: the epoch is read after the rows.                               *)
WatchRowsFirst ==
  /\ watcher.pc = "rows"
  /\ \/ watcher.rows # revoked /\ watcher' = [watcher EXCEPT !.rows = revoked]
     \/ watcher' = [watcher EXCEPT !.pc = "apply", !.epoch = epoch]
  /\ UNCHANGED <<registry, authority, sessions, store, worker, faults, history>>

WatchRows ==
  /\ watcher.pc = "rows"
  /\ watcher' = [watcher EXCEPT !.pc = "apply", !.rows = revoked]
  /\ UNCHANGED <<registry, authority, sessions, store, worker, faults, history>>

BoundTo(rows) == {s \in Sessions : Open(s) /\ sessions[s].agents \cap rows # {}}

WatchApply ==
  /\ watcher.pc = "apply"
  /\ sessions' = End(BoundTo(watcher.rows))
  /\ watcher' = IdleWatcher(watcher.epoch)
  /\ UNCHANGED <<registry, authority, store, worker, faults, history>>

(* The process dies; sessions, threads and the watcher's epoch are gone,   *)
(* and the next client initializes again.                                  *)
Crash ==
  /\ crashes < MaxCrashes
  /\ crashes' = crashes + 1
  /\ sessions' = End({s \in Sessions : Open(s)})
  /\ worker' = [w \in Workers |-> IdleWorker]
  /\ watcher' = IdleWatcher(-1)
  /\ initialized' = FALSE
  /\ UNCHANGED <<registry, issued, expired, enrolled, store, lapses, history>>

Watch == WatchEpoch \/ WatchRows \/ WatchApply

Call(w) ==
  \/ \E p \in Proofs : Prompt(w, p)
  \/ AcpVerify(w) \/ Lookup(w) \/ DispatchVerify(w) \/ Claim(w) \/ ActuatorVerify(w)
  \/ Begin(w) \/ Actuate(w) \/ Finish(w) \/ Bind(w)

Next ==
  \/ \E g \in Grants : Issue(g) \/ Expire(g)
  \/ \E x \in Agents \cup Grants : Revoke(x)
  \/ Deactivate \/ Enroll \/ Initialize
  \/ \E s \in Sessions : NewSessionOpens(s) \/ Cancel(s)
  \/ \E w \in Workers : Call(w)
  \/ Watch
  \/ Crash

Spec == Init /\ [][Next]_vars

-----------------------------------------------------------------------------
SessionType ==
  [state : {"new", "open", "ended"}, agents : SUBSET Agents, cancelled : BOOLEAN]

RowType ==
  [outcome : {"absent", "admitted", "succeeded", "failed"}, started : BOOLEAN,
   proof : Proofs \cup {NoProof}]

Steps == {"acp", "lookup", "verify", "claim", "actuator", "begin", "route", "finish", "bind"}

WorkerType ==
  [pc : Steps \cup {"idle"}, proof : Proofs \cup {NoProof}, ok : BOOLEAN, late : BOOLEAN]

WatcherType ==
  [pc : {"idle", "rows", "apply"}, last : Nat \cup {-1}, epoch : Nat \cup {-1},
   rows : SUBSET (Agents \cup Grants)]

(* Every table, session, thread record and history value has the shape the *)
(* code gives it.                                                          *)
TypeOK ==
  /\ revoked \in SUBSET (Agents \cup Grants) /\ epoch \in Nat
  /\ issued \in [Grants -> Nat \cup {NotIssued}]
  /\ expired \in SUBSET Grants /\ enrolled \in BOOLEAN /\ initialized \in BOOLEAN
  /\ sessions \in [Sessions -> SessionType]
  /\ store \in [Actions -> RowType]
  /\ worker \in [Workers -> WorkerType]
  /\ watcher \in WatcherType
  /\ crashes \in 0..MaxCrashes /\ lapses \in 0..MaxLapses
  /\ actuated \in [Actions -> Nat]
  /\ answers \in [Actions -> SUBSET {"succeeded", "failed"}]
  /\ doomed \in SUBSET Sessions

(* An action id is actuated at most once, whichever calls race for it,     *)
(* whichever proofs carry it, and across crashes and restarts.             *)
ActuatedAtMostOnce == \A a \in Actions : actuated[a] <= 1

(* Everyone who is told the outcome of an action id is told the same: the  *)
(* one the store holds, and success is only claimed for an actuation; and  *)
(* only the call that owns the row, with its proof, grant and session, is  *)
(* told.                                                                    *)
OneAnswer ==
  /\ \A a \in Actions : \A r \in answers[a] :
       /\ store[a].outcome = r
       /\ r = "succeeded" => actuated[a] = 1
  /\ \A w \in Workers :
       worker[w].pc = "bind" => store[worker[w].proof.action].proof = worker[w].proof

(* A call that starts after its agent or grant was revoked never reaches   *)
(* the actuator.                                                           *)
NoActuationAfterRevocation == \A w \in Workers : worker[w].pc = "route" => ~worker[w].late

(* Once the watcher has caught up with the registry, no session that was   *)
(* bound to an agent when the agent was revoked is left open, however      *)
(* revocations, polls, prompts and crashes interleave: no poll skips an    *)
(* epoch.                                                                   *)
BoundSessionEnds ==
  watcher.pc = "idle" /\ watcher.last = epoch => \A s \in doomed : ~Open(s)

-----------------------------------------------------------------------------
(* Refinement: the row of an action id is its permit.                      *)
Phase(row) ==
  IF row.outcome # "admitted" THEN row.outcome ELSE IF row.started THEN "begun" ELSE "taken"

Phases == [a \in Actions |-> Phase(store[a])]
Claimants == [a \in Actions |-> store[a].proof]

Permit == INSTANCE OneShotPermit WITH
  Permits <- Actions, Holders <- Proofs, NoHolder <- NoProof,
  phase <- Phases, holder <- Claimants, uses <- actuated, told <- answers

(* The claim, begin() and finish() of the replay store and the actuator    *)
(* between them make an action id a one-shot permit, across crashes: in    *)
(* particular nothing is actuated that the store does not show as begun,   *)
(* or whose outcome was already reported.                                  *)
ImplementsOneShotPermit == Permit!Spec
============================================================================
