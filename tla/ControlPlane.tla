--------------------------- MODULE ControlPlane ---------------------------
(***************************************************************************)
(* ControlPlane (enterprise/control.py): pause, resume, quarantine, revoke *)
(* and kill_all, with the two places that consult it before an action:     *)
(* MCPDispatcher._require_execution_authorization and PolicyEnforcer.check *)
(* (module Policy).                                                        *)
(*                                                                         *)
(* One transition is atomic (the code holds the lock across the ledger     *)
(* append and the assignment).  quarantine and kill_all are not: they take *)
(* a snapshot, and then work it off one agent or approval at a time while  *)
(* other operators, submitters and dispatchers run.                        *)
(***************************************************************************)
EXTENDS Policy, Sequences, FiniteSets

CONSTANTS
  Approvals,
  Operators,    \* threads that issue control commands
  Dispatchers,  \* threads that execute tool calls
  NoApproval,   \* a call that names no approval
  Requests,     \* what a call may ask for: [action, app, classification, identity_type]
  Times,        \* what the wall clock may show at a check
  MaxLog,       \* bound on ledger entries
  MaxRestarts   \* bound on process restarts

ASSUME ControlConstants ==
  NoApproval \notin Approvals /\ MaxLog \in Nat /\ MaxRestarts \in Nat

VARIABLES
  states,     \* ControlPlane._states; "unknown" for an agent not in the dict
  log,        \* operator_control entries of the signed ledger
  boot,       \* length of the ledger when this process started
  approvals,  \* the operator queue: status and submitting agent
  operator,   \* per operator thread: position in quarantine or kill_all
  call,       \* per dispatcher thread: position in a governed tool call
  restarts

controlVars == <<states, log, boot, approvals, operator, call, restarts>>

Commands == {"pause", "resume", "quarantine", "revoke"}
Stopped == {"quarantined", "revoked"}

(* get_state: an agent that was never registered counts as active.         *)
GetState(a) == IF states[a] = "unknown" THEN "active" ELSE states[a]

(* Mutant: resume also lifts a quarantine.                                 *)
NextStateResumes(current, command) ==
  CASE command = "pause"      /\ current = "active"                     -> "paused"
    [] command = "resume"     /\ current \in {"paused", "quarantined"}  -> "active"
    [] command = "quarantine" /\ current \in {"active", "paused"}       -> "quarantined"
    [] command = "revoke"     /\ current # "revoked"                    -> "revoked"
    [] OTHER                                                            -> "none"

(* _TRANSITIONS; "none" where _next_state returns None.                    *)
NextState(current, command) ==
  CASE command = "pause"      /\ current = "active"                -> "paused"
    [] command = "resume"     /\ current = "paused"                -> "active"
    [] command = "quarantine" /\ current \in {"active", "paused"}  -> "quarantined"
    [] command = "revoke"     /\ current # "revoked"               -> "revoked"
    [] OTHER                                                       -> "none"

(* _transition raises ValueError where _next_state returns None.           *)
Permitted(a, command) == NextState(GetState(a), command) # "none"

PendingApprovals == {p \in Approvals : approvals[p].status = "pending"}

IdleOperator ==
  [pc |-> "idle", agent |-> "none", targets |-> {}, items |-> {}, revokedAny |-> FALSE,
   atStart |-> {}, pendingAtStart |-> {}]

IdleCall == [pc |-> "idle", agent |-> "none", approval |-> NoApproval, stoppedAtStart |-> FALSE]

ControlInit ==
  /\ states = [a \in Agents |-> "unknown"]
  /\ log = <<>>
  /\ boot = 0
  /\ approvals = [p \in Approvals |-> [status |-> "absent", agent |-> "none"]]
  /\ operator = [o \in Operators |-> IdleOperator]
  /\ call = [d \in Dispatchers |-> IdleCall]
  /\ restarts = 0

-----------------------------------------------------------------------------
(* Mutant: the state is published although its ledger append failed.       *)
TransitionUnlogged(a, command) ==
  /\ Permitted(a, command)
  /\ Len(log) < MaxLog
  /\ UNCHANGED log
  /\ states' = [states EXCEPT ![a] = NextState(GetState(a), command)]

(* _transition under the lock: the ledger entry first, then the state.  A  *)
(* failed append raises before the state changes.                          *)
Transition(a, command) ==
  /\ Permitted(a, command)
  /\ Len(log) < MaxLog
  /\ log' = Append(log, [agent |-> a, from |-> GetState(a), to |-> NextState(GetState(a), command)])
  /\ states' = [states EXCEPT ![a] = NextState(GetState(a), command)]

Register(a) ==
  /\ states[a] = "unknown"
  /\ states' = [states EXCEPT ![a] = "active"]
  /\ UNCHANGED <<log, boot, approvals, operator, call, restarts>>

(* pause, resume and revoke are one transition and touch no approval.      *)
Command(o, a, command) ==
  /\ operator[o].pc = "idle"
  /\ command \in {"pause", "resume", "revoke"}
  /\ Transition(a, command)
  /\ UNCHANGED <<boot, approvals, operator, call, restarts>>

(* quarantine: the transition, then the drain of the agent's approvals.    *)
Quarantine(o, a) ==
  /\ operator[o].pc = "idle"
  /\ Transition(a, "quarantine")
  /\ operator' = [operator EXCEPT ![o] =
       [IdleOperator EXCEPT !.pc = "drain", !.agent = a,
          !.pendingAtStart = {p \in PendingApprovals : approvals[p].agent = a}]]
  /\ UNCHANGED <<boot, approvals, call, restarts>>

(* kill_all: the lock is held for the snapshot of targets only.            *)
KillAll(o) ==
  /\ operator[o].pc = "idle"
  /\ LET targets == {a \in Agents : states[a] \notin {"unknown", "revoked"}} IN
     operator' = [operator EXCEPT ![o] =
       [IdleOperator EXCEPT !.pc = "kill", !.targets = targets, !.atStart = targets,
          !.pendingAtStart = PendingApprovals]]
  /\ UNCHANGED <<states, log, boot, approvals, call, restarts>>

(* Mutant: a target that refuses the transition ends the loop.             *)
KillOneStops(o, a) ==
  /\ operator[o].pc = "kill" /\ a \in operator[o].targets
  /\ \/ /\ Transition(a, "revoke")
        /\ operator' = [operator EXCEPT ![o] = [@ EXCEPT
             !.targets = operator[o].targets \ {a}, !.revokedAny = TRUE]]
     \/ /\ ~Permitted(a, "revoke")
        /\ operator' = [operator EXCEPT ![o] = [@ EXCEPT !.targets = {}]]
        /\ UNCHANGED <<states, log>>
  /\ UNCHANGED <<boot, approvals, call, restarts>>

(* One iteration: ValueError from a target a concurrent command already    *)
(* revoked is skipped.                                                     *)
KillOne(o, a) ==
  /\ operator[o].pc = "kill" /\ a \in operator[o].targets
  /\ \/ /\ Transition(a, "revoke")
        /\ operator' = [operator EXCEPT ![o] = [@ EXCEPT
             !.targets = operator[o].targets \ {a}, !.revokedAny = TRUE]]
     \/ /\ ~Permitted(a, "revoke")
        /\ operator' = [operator EXCEPT ![o] = [@ EXCEPT !.targets = operator[o].targets \ {a}]]
        /\ UNCHANGED <<states, log>>
  /\ UNCHANGED <<boot, approvals, call, restarts>>

(* The loop is over: the queue is drained only if some record was made.    *)
KillLoopEnds(o) ==
  /\ operator[o].pc = "kill" /\ operator[o].targets = {}
  /\ operator' = [operator EXCEPT ![o] =
       IF operator[o].revokedAny THEN [@ EXCEPT !.pc = "drain"] ELSE IdleOperator]
  /\ UNCHANGED <<states, log, boot, approvals, call, restarts>>

(* Mutant: the filter of the drain keeps the other agents' approvals.      *)
DrainableOthers(o) ==
  {p \in PendingApprovals : operator[o].agent = "none" \/ approvals[p].agent # operator[o].agent}

(* _drain_queue and _drain_all_queue start from get_pending().             *)
Drainable(o) ==
  {p \in PendingApprovals : operator[o].agent = "none" \/ approvals[p].agent = operator[o].agent}

DrainSnapshot(o) ==
  /\ operator[o].pc = "drain"
  /\ operator' = [operator EXCEPT ![o] = [@ EXCEPT !.pc = "deny", !.items = Drainable(o)]]
  /\ UNCHANGED <<states, log, boot, approvals, call, restarts>>

(* The safety denial returns False for an item no longer pending.          *)
DenyItem(o, p) ==
  /\ operator[o].pc = "deny" /\ p \in operator[o].items
  /\ approvals' = IF approvals[p].status = "pending"
                  THEN [approvals EXCEPT ![p].status = "denied"] ELSE approvals
  /\ operator' = [operator EXCEPT ![o] = [@ EXCEPT !.items = operator[o].items \ {p}]]
  /\ UNCHANGED <<states, log, boot, call, restarts>>

DrainReturns(o) ==
  /\ operator[o].pc = "deny" /\ operator[o].items = {}
  /\ operator' = [operator EXCEPT ![o] = IdleOperator]
  /\ UNCHANGED <<states, log, boot, approvals, call, restarts>>

(* A ledger or queue failure raises out of the command, which leaves the   *)
(* rest of its targets and items as they are.                              *)
CommandRaises(o) ==
  /\ \/ operator[o].pc = "kill" /\ \E a \in operator[o].targets : Permitted(a, "revoke")
     \/ operator[o].pc = "drain"
     \/ operator[o].pc = "deny" /\ operator[o].items # {}
  /\ operator' = [operator EXCEPT ![o] = [IdleOperator EXCEPT !.pc = "raised"]]
  /\ UNCHANGED <<states, log, boot, approvals, call, restarts>>

OperatorResumes(o) ==
  /\ operator[o].pc = "raised"
  /\ operator' = [operator EXCEPT ![o] = IdleOperator]
  /\ UNCHANGED <<states, log, boot, approvals, call, restarts>>

-----------------------------------------------------------------------------
(* The operator queue, as far as the control plane sees it: a submission   *)
(* becomes pending once audited (module ApprovalQueue has the detail).     *)

Submit(p, a) ==
  /\ approvals[p].status = "absent"
  /\ approvals' = [approvals EXCEPT ![p] = [status |-> "audit_pending", agent |-> a]]
  /\ UNCHANGED <<states, log, boot, operator, call, restarts>>

Audited(p) ==
  /\ approvals[p].status = "audit_pending"
  /\ approvals' = [approvals EXCEPT ![p].status = "pending"]
  /\ UNCHANGED <<states, log, boot, operator, call, restarts>>

Approve(p) ==
  /\ approvals[p].status = "pending"
  /\ approvals' = [approvals EXCEPT ![p].status = "approved"]
  /\ UNCHANGED <<states, log, boot, operator, call, restarts>>

-----------------------------------------------------------------------------
(* A governed tool call.                                                   *)

StartCall(d, a, p) ==
  /\ call[d].pc = "idle"
  /\ call' = [call EXCEPT ![d] = [pc |-> "is_active", agent |-> a, approval |-> p,
                                  stoppedAtStart |-> GetState(a) \in Stopped]]
  /\ UNCHANGED <<states, log, boot, approvals, operator, restarts>>

(* is_active, before anything else is looked at.                           *)
CheckActive(d) ==
  /\ call[d].pc = "is_active"
  /\ call' = [call EXCEPT ![d] =
       IF GetState(call[d].agent) = "active" THEN [@ EXCEPT !.pc = "policy"] ELSE IdleCall]
  /\ UNCHANGED <<states, log, boot, approvals, operator, restarts>>

(* The policy decision, with the state read again; the composition monitor *)
(* may still deny what the policy allows.  A call that needs an approval   *)
(* and names none is refused; one that needs none leaves the approval it   *)
(* names alone.                                                            *)
CheckPolicy(d) ==
  LET a == call[d].agent
      decisions == {Check(a, r, GetState(a), t) : r \in Requests, t \in Times} IN
  /\ call[d].pc = "policy"
  /\ \E decision \in decisions \cup {"denied"} :
       \/ /\ decision = "denied" \/ (decision = "human_approved" /\ call[d].approval = NoApproval)
          /\ call' = [call EXCEPT ![d] = IdleCall]
       \/ /\ decision = "human_approved" /\ call[d].approval # NoApproval
          /\ call' = [call EXCEPT ![d] = [@ EXCEPT !.pc = "consume"]]
       \/ /\ decision = "autonomous"
          /\ call' = [call EXCEPT ![d] = [@ EXCEPT !.pc = "route"]]
  /\ UNCHANGED <<states, log, boot, approvals, operator, restarts>>

ConsumeApproval(d) ==
  LET p == call[d].approval
      granted == approvals[p].status = "approved" /\ approvals[p].agent = call[d].agent
  IN
  /\ call[d].pc = "consume"
  /\ approvals' = IF granted THEN [approvals EXCEPT ![p].status = "consumed"] ELSE approvals
  /\ call' = [call EXCEPT ![d] = IF granted THEN [@ EXCEPT !.pc = "route"] ELSE IdleCall]
  /\ UNCHANGED <<states, log, boot, operator, restarts>>

Route(d) ==
  /\ call[d].pc = "route"
  /\ call' = [call EXCEPT ![d] = IdleCall]
  /\ UNCHANGED <<states, log, boot, approvals, operator, restarts>>

(* _states lives in memory: a new process starts with an empty dict.       *)
Restart ==
  /\ restarts < MaxRestarts
  /\ restarts' = restarts + 1
  /\ boot' = Len(log)
  /\ states' = [a \in Agents |-> "unknown"]
  /\ operator' = [o \in Operators |-> IdleOperator]
  /\ call' = [d \in Dispatchers |-> IdleCall]
  /\ UNCHANGED <<log, approvals>>

Operate(o) ==
  \/ \E a \in Agents : \/ \E command \in Commands : Command(o, a, command)
                       \/ Quarantine(o, a)
                       \/ KillOne(o, a)
  \/ KillAll(o) \/ KillLoopEnds(o)
  \/ DrainSnapshot(o) \/ DrainReturns(o) \/ CommandRaises(o) \/ OperatorResumes(o)
  \/ \E p \in Approvals : DenyItem(o, p)

Queue ==
  \E p \in Approvals : Audited(p) \/ Approve(p) \/ \E a \in Agents : Submit(p, a)

Dispatch(d) ==
  \/ \E a \in Agents, p \in Approvals \cup {NoApproval} : StartCall(d, a, p)
  \/ CheckActive(d) \/ CheckPolicy(d) \/ ConsumeApproval(d) \/ Route(d)

ControlNext ==
  \/ \E a \in Agents : Register(a)
  \/ \E o \in Operators : Operate(o)
  \/ Queue
  \/ \E d \in Dispatchers : Dispatch(d)
  \/ Restart

ControlSpec == ControlInit /\ [][ControlNext]_controlVars

-----------------------------------------------------------------------------
Statuses == {"absent", "audit_pending", "pending", "approved", "denied", "consumed"}

(* The entries this process wrote about agent a.                           *)
EntriesFor(a) == {i \in boot + 1 .. Len(log) : log[i].agent = a}

(* The signed ledger tells what state every agent is in: the last entry    *)
(* this process wrote about an agent names its state, an agent without one *)
(* is active, and each entry starts where the one before it ended.  No     *)
(* reader sees a state that is not audited.                                *)
AuditMatchesState ==
  \A a \in Agents :
    /\ EntriesFor(a) = {} => GetState(a) = "active"
    /\ \A i \in EntriesFor(a) : (\A j \in EntriesFor(a) : j <= i) => log[i].to = GetState(a)
    /\ \A i, j \in EntriesFor(a) :
         (i < j /\ \A k \in EntriesFor(a) : k <= i \/ j <= k) => log[i].to = log[j].from

(* Within one process lifetime, a tool call that begins after the agent    *)
(* was quarantined or revoked is never routed, whatever commands run       *)
(* concurrently with its two checks, and one is routed only for an agent   *)
(* the policy lists.  A stop does not outlast the process: Restart forgets *)
(* it, and a call in the next process is routed.                            *)
NoActionAfterStop ==
  \A d \in Dispatchers : call[d].pc = "route" =>
    ~call[d].stoppedAtStart /\ call[d].agent \in DOMAIN Bundle.agents

(* kill_all reaches the end of its loop only with every agent revoked that *)
(* was registered when it took its snapshot.                               *)
KillAllRevokes ==
  \A o \in Operators : operator[o].pc = "kill" /\ operator[o].targets = {} =>
    \A a \in operator[o].atStart : states[a] = "revoked"

(* A command of this operator returns to its caller without an exception.  *)
CommandReturns(o) ==
  operator[o].pc \in {"kill", "drain", "deny"} /\ operator'[o].pc = "idle" /\ restarts' = restarts

(* quarantine returns only when no approval is pending that the agent had  *)
(* pending when it was quarantined, and so does a kill_all that revoked    *)
(* somebody, for every approval that was pending when it began.  One that  *)
(* revoked nobody returns without looking at the queue.                    *)
ReturnsDrained ==
  [][\A o \in Operators :
       CommandReturns(o) /\ (operator[o].agent # "none" \/ operator[o].revokedAny) =>
         \A p \in operator[o].pendingAtStart : approvals[p].status # "pending"]_controlVars
============================================================================
