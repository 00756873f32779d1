--------------------------- MODULE ApprovalQueue ---------------------------
(***************************************************************************)
(* DurableOperatorQueue (enterprise/operator.py) together with the         *)
(* LedgerApprovalDecisionSink (enterprise/approval_audit.py), as the       *)
(* governed runtime composes them: audit sink present and required.        *)
(*                                                                         *)
(* Every public operation is a SQLite write transaction that stages a      *)
(* transition (the approval becomes audit_pending and an outbox row is     *)
(* inserted) followed, outside the transaction, by _flush_event: read the  *)
(* outbox row, append the event to the signed ledger, and finalize in a    *)
(* second transaction.  Each of these steps is an action, so threads, a    *)
(* concurrent reconcile() and a process crash interleave between them.     *)
(***************************************************************************)
EXTENDS Integers, Sequences, FiniteSets

CONSTANTS
  Approvals,   \* approval ids (uuid4, never reused)
  EventIds,    \* audit event ids (uuid4, never reused)
  Threads,     \* threads of the runtime process
  Nonces,      \* nonces of operator decision proofs
  Operators,   \* operator ids
  ProofWindow, \* how far a proof's verification time may be from now (300 s)
  Subjects,    \* an agent together with the action it wants to take
  Items,       \* key/value pairs a context may hold
  Ttl,         \* approval_ttl_seconds
  MaxAge,      \* max_age_seconds
  Retention,   \* decision_nonce_retention_seconds
  MaxTime,     \* bound on the clock
  MaxCrashes,  \* bound on process crashes
  MaxSetbacks, \* bound on times the clock is set back
  NoEvent, NoNonce, NoApproval, NoOperator, NoProof

ASSUME ApprovalConstants ==
  /\ Ttl \in Nat /\ MaxAge \in Nat /\ Retention \in Nat \ {0}
  /\ MaxTime \in Nat /\ MaxCrashes \in Nat /\ MaxSetbacks \in Nat
  /\ NoEvent \notin EventIds /\ NoNonce \notin Nonces /\ NoApproval \notin Approvals
  /\ NoOperator \notin Operators /\ ProofWindow \in Nat

VARIABLES
  approvals,   \* table approvals
  outbox,      \* table approval_audit_outbox
  tombstones,  \* table decision_nonce_tombstones: nonce -> retain_until
  ledger,      \* approval entries of the signed ledger, in chain order
  clock,       \* the wall clock
  mode,        \* "boot" while the constructor reconciles, "up", or "down"
  thread,      \* per thread: program counter and locals of its operation
  crashes,     \* process crashes so far
  setbacks,    \* times the clock was set back so far
  executed,    \* history: bindings executed under each approval
  uses,        \* history: accepted decisions per nonce
  horizon      \* history: the latest time the clock has shown

storage == <<approvals, outbox, tombstones>>
faults == <<crashes, setbacks>>
history == <<executed, uses, horizon>>
vars == <<storage, ledger, clock, mode, thread, faults, history>>

NoTime == -1
Time == 0..MaxTime

Transitions == {"pending", "approved", "denied", "consumed", "expired"}
Terminal == {"denied", "consumed", "expired"}

(* An approval is bound to a subject and to its submitted context.         *)
Bindings == [subject : Subjects, context : SUBSET Items]

(* _context_matches: every required item was submitted; extras are allowed. *)
ContextMatches(submitted, required) ==
  /\ submitted.subject = required.subject
  /\ required.context \subseteq submitted.context

NoSubject == "none"
NoBinding == [subject |-> NoSubject, context |-> {}]

AbsentApproval ==
  [status |-> "absent", pending |-> "none", event |-> NoEvent, last |-> NoEvent,
   binding |-> NoBinding, operator |-> NoOperator, proof |-> NoProof, nonce |-> NoNonce,
   decided |-> NoTime, terminal |-> NoTime]

AbsentEvent ==
  [state |-> "absent", approval |-> NoApproval, kind |-> "none", at |-> NoTime,
   receipt |-> 0, delivered |-> NoTime]

Idle ==
  [pc |-> "idle", op |-> "none", event |-> NoEvent, approval |-> NoApproval,
   required |-> NoBinding, receipt |-> 0, todo |-> {}, now |-> NoTime]

Init ==
  /\ approvals = [a \in Approvals |-> AbsentApproval]
  /\ outbox = [e \in EventIds |-> AbsentEvent]
  /\ tombstones = [n \in Nonces |-> NoTime]
  /\ ledger = <<>>
  /\ clock = 0
  /\ mode = "up"
  /\ thread = [t \in Threads |-> Idle]
  /\ crashes = 0 /\ setbacks = 0
  /\ executed = [a \in Approvals |-> <<>>]
  /\ uses = [n \in Nonces |-> <<>>]
  /\ horizon = 0

-----------------------------------------------------------------------------
(* Staging: the write transaction of each public operation.  Calls that    *)
(* find the approval in another state, a refused proof or a mismatched     *)
(* context roll back, so they are stuttering steps and have no action.     *)

CanCall(t) == mode = "up" /\ thread[t].pc = "idle"

(* The operation's thread continues with _flush_event on event e.          *)
BeginFlush(t, op, a, e, required) ==
  thread' = [thread EXCEPT ![t] = [Idle EXCEPT !.pc = "read", !.op = op, !.event = e,
                                               !.approval = a, !.required = required]]

(* A fresh uuid4: which unused id is drawn makes no difference.            *)
FreshEvent == CHOOSE e \in EventIds : outbox[e].state = "absent"

InsertOutbox(a, e, kind) ==
  /\ outbox[e].state = "absent" /\ e = FreshEvent
  /\ outbox' = [outbox EXCEPT ![e] =
                  [AbsentEvent EXCEPT !.state = "pending", !.approval = a,
                                      !.kind = kind, !.at = clock]]

(* Mutant: the decision is stamped with its expiry.                        *)
StagedStampsExpiry(item, e, kind, proof) ==
  [item EXCEPT !.status = "audit_pending", !.pending = kind, !.event = e,
               !.decided = clock + Ttl]

Staged(item, e, kind, proof) ==
  [item EXCEPT
     !.status   = "audit_pending",
     !.pending  = kind,
     !.event    = e,
     !.operator = IF proof = NoProof THEN item.operator ELSE proof.operator,
     !.proof    = IF proof = NoProof THEN item.proof ELSE proof,
     !.nonce    = IF proof = NoProof THEN item.nonce ELSE proof.nonce,
     !.decided  = IF kind \in {"approved", "denied"} THEN clock ELSE item.decided,
     !.terminal = IF kind \in Terminal THEN clock ELSE item.terminal]

StageExisting(a, e, kind, proof) ==
  /\ approvals' = [approvals EXCEPT ![a] = Staged(approvals[a], e, kind, proof)]
  /\ InsertOutbox(a, e, kind)

Submit(t, a, e, b) ==
  /\ CanCall(t)
  /\ approvals[a].status = "absent"
  /\ approvals' = [approvals EXCEPT ![a] =
                     [AbsentApproval EXCEPT !.status = "audit_pending", !.pending = "pending",
                                            !.event = e, !.binding = b]]
  /\ InsertOutbox(a, e, "pending")
  /\ BeginFlush(t, "submit", a, e, NoBinding)
  /\ UNCHANGED <<tombstones, ledger, clock, mode, faults, history>>

(* Mutant: only the UNIQUE column is consulted.                            *)
NonceUnusedInTable(n) == \A a \in Approvals : approvals[a].nonce # n

(* The tombstone's primary key and the UNIQUE column decision_nonce both   *)
(* refuse a nonce that is still on record.                                 *)
NonceUnused(n) ==
  /\ tombstones[n] = NoTime
  /\ \A a \in Approvals : approvals[a].nonce # n

(* External: the deployment's verifier accepts a proof for the payload of  *)
(* this decision and says who gave it, its nonce and when it was verified. *)
Verifications == [subject : Operators, nonce : Nonces, verified : Time]

(* _verify_decision_writer: it was the claimed operator, and recently.     *)
VerifyDecisionWriter(o, v) ==
  /\ v.subject = o
  /\ v.verified - ProofWindow <= clock /\ clock <= v.verified + ProofWindow

(* DecisionProofEnvelope.create: what the decision is about is bound to    *)
(* it; the digest stands for the values it covers.                         *)
Envelope(a, decision, o, n) ==
  [approval |-> a, binding |-> approvals[a].binding, decision |-> decision, operator |-> o,
   nonce |-> n]

(* verifies_binding: the values at hand are the ones the envelope covers.  *)
VerifiesBinding(proof, a, binding, decision, o) ==
  /\ proof # NoProof
  /\ proof.approval = a /\ proof.binding = binding
  /\ proof.decision = decision /\ proof.operator = o

Decide(t, a, e, decision, o, v) ==
  /\ CanCall(t)
  /\ approvals[a].status = "pending"
  /\ VerifyDecisionWriter(o, v)
  /\ NonceUnused(v.nonce)
  /\ StageExisting(a, e, decision, Envelope(a, decision, o, v.nonce))
  /\ tombstones' = [tombstones EXCEPT ![v.nonce] = clock + Retention]
  /\ uses' = [uses EXCEPT ![v.nonce] = Append(@, [at |-> clock, horizon |-> horizon])]
  /\ BeginFlush(t, "decide", a, e, NoBinding)
  /\ UNCHANGED <<ledger, clock, mode, faults, executed, horizon>>

Approve(t, a, e, o, v) == Decide(t, a, e, "approved", o, v)

Deny(t, a, e, o, v) == Decide(t, a, e, "denied", o, v)

(* Mutant: the safety denial overrides a transition in flight.             *)
DenyInFlight(t, a, e, o) ==
  /\ CanCall(t)
  /\ approvals[a].status \in {"pending", "audit_pending"}
  /\ StageExisting(a, e, "denied", Envelope(a, "denied", o, NoNonce))
  /\ BeginFlush(t, "decide", a, e, NoBinding)
  /\ UNCHANGED <<tombstones, ledger, clock, mode, faults, history>>

(* The safety denial draws a fresh uuid4 nonce, which nothing can repeat.  *)
DenyForSystemSafety(t, a, e, o) ==
  /\ CanCall(t)
  /\ approvals[a].status = "pending"
  /\ StageExisting(a, e, "denied", Envelope(a, "denied", o, NoNonce))
  /\ BeginFlush(t, "decide", a, e, NoBinding)
  /\ UNCHANGED <<tombstones, ledger, clock, mode, faults, history>>

(* Mutant: any decided approval will do.                                   *)
MatchingDecided(a, required) ==
  /\ approvals[a].status \in {"approved", "denied"}
  /\ ContextMatches(approvals[a].binding, required)
  /\ clock >= approvals[a].decided

Matching(a, required) ==
  /\ approvals[a].status = "approved"
  /\ approvals[a].decided # NoTime
  /\ ContextMatches(approvals[a].binding, required)
  /\ clock >= approvals[a].decided

(* Mutant: the last instant of the time to live is still accepted.         *)
ExpiredLate(a) == clock > approvals[a].decided + Ttl

Expired(a) == clock >= approvals[a].decided + Ttl

ConsumeApproved(t, a, e, required) ==
  /\ CanCall(t)
  /\ Matching(a, required)
  /\ ~Expired(a)
  /\ StageExisting(a, e, "consumed", NoProof)
  /\ BeginFlush(t, "consume", a, e, required)
  /\ UNCHANGED <<tombstones, ledger, clock, mode, faults, history>>

ExpireApproved(t, a, e, required) ==
  /\ CanCall(t)
  /\ Matching(a, required)
  /\ Expired(a)
  /\ StageExisting(a, e, "expired", NoProof)
  /\ BeginFlush(t, "expire", a, e, required)
  /\ UNCHANGED <<tombstones, ledger, clock, mode, faults, history>>

-----------------------------------------------------------------------------
(* _flush_event: deliver one outbox event and finalize its approval.       *)

(* ApprovalAuditEvent: a stored event names its approval, a known          *)
(* transition and a time, or it cannot be read back.                       *)
EventReadable(e) ==
  /\ outbox[e].approval \in Approvals
  /\ outbox[e].kind \in Transitions
  /\ outbox[e].at # NoTime

(* _validate_event_state: the row and the approval name each other.        *)
EventStateValid(e) ==
  LET row == outbox[e]
      item == approvals[row.approval]
  IN /\ EventReadable(e)
     /\ \/ /\ row.state = "pending"
           /\ item.status = "audit_pending" /\ item.pending = row.kind /\ item.event = e
        \/ /\ row.state = "delivered"
           /\ item.status = row.kind /\ item.last = e

(* The operation raises: its caller sees the error, the row stays as it is. *)
(* In the constructor the exception leaves the runtime down.               *)
Raise(t) ==
  /\ thread' = [thread EXCEPT ![t] = Idle]
  /\ mode' = IF mode = "boot" THEN "down" ELSE mode

FlushRead(t) ==
  LET e == thread[t].event IN
  /\ thread[t].pc = "read"
  /\ \/ /\ ~EventStateValid(e)
        /\ Raise(t)
     \/ /\ EventStateValid(e)
        /\ thread' = [thread EXCEPT ![t] = [@ EXCEPT
             !.pc = IF outbox[e].state = "pending" THEN "record" ELSE "finalize",
             !.receipt = outbox[e].receipt]]
        /\ UNCHANGED mode
  /\ UNCHANGED <<storage, ledger, clock, faults, history>>

(* Mutant: the sink does not look for an earlier entry.                    *)
RecordedNever(e) == FALSE

(* find_verified_entries_by_nested_value: from the verified chain on disk. *)
VerifiedEntries(e) == {i \in 1..Len(ledger) : ledger[i] = e}

Recorded(e) == VerifiedEntries(e) # {}

(* Mutant: the receipt is numbered locally and the append is never made.   *)
FlushRecordUnwritten(t) ==
  /\ thread[t].pc = "record"
  /\ thread' = [thread EXCEPT ![t] = [@ EXCEPT !.pc = "finalize",
       !.receipt = Cardinality({e \in EventIds : outbox[e].state # "absent"})]]
  /\ UNCHANGED <<storage, ledger, clock, mode, faults, history>>

(* LedgerApprovalDecisionSink.record: one ledger entry per event id.       *)
FlushRecord(t) ==
  LET e == thread[t].event IN
  /\ thread[t].pc = "record"
  /\ ledger' = IF Recorded(e) THEN ledger ELSE Append(ledger, e)
  /\ \E i \in 1..Len(ledger') :
        /\ ledger'[i] = e
        /\ thread' = [thread EXCEPT ![t] = [@ EXCEPT !.pc = "finalize", !.receipt = i]]
  /\ UNCHANGED <<storage, clock, mode, faults, history>>

(* The ledger append fails; AgentLedger.log restores the previous tail.    *)
FlushRecordFails(t) ==
  /\ thread[t].pc = "record"
  /\ Raise(t)
  /\ UNCHANGED <<storage, ledger, clock, faults, history>>

(* Mutant: reconcile stops after its first row.                            *)
AfterFlushStops(t) ==
  IF thread[t].op = "consume"
  THEN thread' = [thread EXCEPT ![t].pc = "get"] /\ UNCHANGED mode
  ELSE /\ thread' = [thread EXCEPT ![t] = Idle]
       /\ mode' = IF mode = "boot" THEN "up" ELSE mode

(* What the operation does once its event is delivered: reconcile goes on  *)
(* with the next row in created_at order, consume_approved re-reads its    *)
(* record, the other operations return.                                    *)
AfterFlush(t) ==
  CASE thread[t].op = "consume" ->
         /\ thread' = [thread EXCEPT ![t].pc = "get"]
         /\ UNCHANGED mode
    [] thread[t].op = "reconcile" /\ thread[t].todo # {} ->
         /\ \E e \in thread[t].todo :
              /\ \A f \in thread[t].todo : outbox[e].at <= outbox[f].at
              /\ thread' = [thread EXCEPT ![t] =
                   [@ EXCEPT !.pc = "read", !.event = e, !.receipt = 0,
                             !.todo = thread[t].todo \ {e}]]
         /\ UNCHANGED mode
    [] OTHER ->
         /\ thread' = [thread EXCEPT ![t] = Idle]
         /\ mode' = IF mode = "boot" THEN "up" ELSE mode

FlushFinalize(t) ==
  LET e == thread[t].event
      row == outbox[e]
  IN
  /\ thread[t].pc = "finalize"
  /\ \/ /\ \/ ~EventStateValid(e)
           \/ row.state = "delivered" /\ row.receipt # thread[t].receipt
        /\ Raise(t)
        /\ UNCHANGED <<approvals, outbox>>
     \/ /\ EventStateValid(e)
        /\ row.state = "delivered" /\ row.receipt = thread[t].receipt
        /\ AfterFlush(t)
        /\ UNCHANGED <<approvals, outbox>>
     \/ /\ EventStateValid(e)
        /\ row.state = "pending"
        /\ approvals' = [approvals EXCEPT ![row.approval] =
             [@ EXCEPT !.status = row.kind, !.pending = "none", !.event = NoEvent, !.last = e]]
        /\ outbox' = [outbox EXCEPT ![e] =
             [@ EXCEPT !.state = "delivered", !.receipt = thread[t].receipt, !.delivered = clock]]
        /\ AfterFlush(t)
  /\ UNCHANGED <<tombstones, ledger, clock, faults, history>>

-----------------------------------------------------------------------------
(* The dispatcher's use of a consumed approval.                            *)

GetConsumed(t) ==
  /\ thread[t].pc = "get"
  /\ thread' = [thread EXCEPT ![t] =
       IF approvals[thread[t].approval].status = "consumed"
       THEN [@ EXCEPT !.pc = "verify"] ELSE Idle]
  /\ UNCHANGED <<storage, ledger, clock, mode, faults, history>>

DeliveredFor(a) ==
  {e \in EventIds : outbox[e].approval = a /\ outbox[e].state = "delivered"}

(* verify_receipt: the stored receipt is that of the event's only entry.   *)
VerifyReceipt(e) == VerifiedEntries(e) = {outbox[e].receipt}

(* verify_consumed_binding: exactly the lineage pending, approved,         *)
(* consumed, in ledger order and in time order, ending in the event the    *)
(* returned record names, and a proof of exactly this approval.  (Each     *)
(* event carries the operator and proof its transaction wrote to the row.) *)
ConsumedBinding(a, consumedEvent) ==
  \E p, q \in EventIds :
    /\ DeliveredFor(a) = {p, q, consumedEvent}
    /\ outbox[p].kind = "pending" /\ outbox[q].kind = "approved"
    /\ outbox[consumedEvent].kind = "consumed"
    /\ VerifiesBinding(approvals[a].proof, a, approvals[a].binding, "approved",
                       approvals[a].operator)
    /\ \A e \in {p, q, consumedEvent} : VerifyReceipt(e)
    /\ outbox[p].receipt < outbox[q].receipt
    /\ outbox[q].receipt < outbox[consumedEvent].receipt
    /\ outbox[p].at <= outbox[q].at /\ outbox[q].at <= outbox[consumedEvent].at

(* Mutant: the consumed record is kept and used again.                     *)
VerifyAndExecuteAgain(t) ==
  LET a == thread[t].approval IN
  /\ thread[t].pc = "verify"
  /\ ConsumedBinding(a, thread[t].event)
  /\ ContextMatches(approvals[a].binding, thread[t].required)
  /\ executed' = [executed EXCEPT ![a] = Append(@, thread[t].required)]
  /\ UNCHANGED <<storage, ledger, clock, mode, thread, faults, uses, horizon>>

VerifyAndExecute(t) ==
  LET a == thread[t].approval IN
  /\ thread[t].pc = "verify"
  /\ executed' = IF /\ ConsumedBinding(a, thread[t].event)
                    /\ ContextMatches(approvals[a].binding, thread[t].required)
                 THEN [executed EXCEPT ![a] = Append(@, thread[t].required)]
                 ELSE executed
  /\ thread' = [thread EXCEPT ![t] = Idle]
  /\ UNCHANGED <<storage, ledger, clock, mode, faults, uses, horizon>>

-----------------------------------------------------------------------------
(* Maintenance, the clock, and the process.                                *)

PendingEvents == {e \in EventIds : outbox[e].state = "pending"}

(* Start a reconcile loop on the rows pending now, oldest first.           *)
BeginReconcile(t) ==
  \E e \in PendingEvents :
    /\ \A f \in PendingEvents : outbox[e].at <= outbox[f].at
    /\ thread' = [thread EXCEPT ![t] =
         [Idle EXCEPT !.pc = "read", !.op = "reconcile", !.event = e,
                      !.todo = PendingEvents \ {e}]]

Reconcile(t) ==
  /\ CanCall(t)
  /\ BeginReconcile(t)
  /\ UNCHANGED <<storage, ledger, clock, mode, faults, history>>

(* purge_expired samples the clock before it waits for the writer lock.    *)
PurgeSample(t) ==
  /\ CanCall(t)
  /\ thread' = [thread EXCEPT ![t] = [Idle EXCEPT !.pc = "purge", !.op = "purge", !.now = clock]]
  /\ UNCHANGED <<storage, ledger, clock, mode, faults, history>>

Purgeable(a, now) ==
  LET cutoff == now - MaxAge IN
  /\ approvals[a].status \in Terminal
  /\ approvals[a].terminal # NoTime /\ approvals[a].terminal < cutoff
  /\ \A e \in EventIds : outbox[e].approval = a =>
        outbox[e].state = "delivered" /\ outbox[e].delivered < cutoff

(* A purged row is kept, marked, so that the history stays readable: no    *)
(* operation finds it again.                                               *)
PurgeExpired(t) ==
  LET now == thread[t].now
      old == {a \in Approvals : Purgeable(a, now)}
  IN
  /\ thread[t].pc = "purge"
  /\ approvals' = [a \in Approvals |->
       IF a \in old THEN [approvals[a] EXCEPT !.status = "purged", !.nonce = NoNonce]
       ELSE approvals[a]]
  /\ outbox' = [e \in EventIds |->
       IF outbox[e].approval \in old THEN [outbox[e] EXCEPT !.state = "purged"]
       ELSE outbox[e]]
  /\ tombstones' = [n \in Nonces |->
       IF tombstones[n] <= now THEN NoTime ELSE tombstones[n]]
  /\ thread' = [thread EXCEPT ![t] = Idle]
  /\ UNCHANGED <<ledger, clock, mode, faults, history>>

Tick ==
  /\ clock < MaxTime
  /\ clock' = clock + 1
  /\ horizon' = IF clock' > horizon THEN clock' ELSE horizon
  /\ UNCHANGED <<storage, ledger, mode, thread, faults, executed, uses>>

StepBack ==
  /\ clock > 0 /\ setbacks < MaxSetbacks
  /\ clock' = clock - 1
  /\ setbacks' = setbacks + 1
  /\ UNCHANGED <<storage, ledger, mode, thread, crashes, history>>

Crash ==
  /\ mode # "down" /\ crashes < MaxCrashes
  /\ mode' = "down"
  /\ crashes' = crashes + 1
  /\ thread' = [t \in Threads |-> Idle]
  /\ UNCHANGED <<storage, ledger, clock, setbacks, history>>

(* _validate_schema on the decision nonces: no two rows share one. *)
NoncesUnique ==
  \A a, b \in Approvals :
    approvals[a].nonce = approvals[b].nonce /\ approvals[a].nonce # NoNonce => a = b

(* _validate_schema on the rows: statuses are known, a row waits for an    *)
(* event exactly while it is audit_pending, decision nonces are unique, a  *)
(* delivered event has its receipt, and every event its approval.  Left    *)
(* out are the shape of the tables, which nothing changes, and two checks  *)
(* that compare columns one statement writes from one value: the operator  *)
(* of a decision with the subject of its proof, and the retention of a     *)
(* tombstone with the time it was recorded at.                             *)
ValidateSchema ==
  /\ \A a \in Approvals : approvals[a].status \notin {"absent", "purged"} =>
       /\ approvals[a].status \in Transitions \cup {"audit_pending"}
       /\ (approvals[a].status = "audit_pending") = (approvals[a].pending # "none")
       /\ (approvals[a].status = "audit_pending") = (approvals[a].event # NoEvent)
  /\ NoncesUnique
  /\ \A e \in EventIds : outbox[e].state \notin {"absent", "purged"} =>
       /\ outbox[e].kind \in Transitions
       /\ (outbox[e].state = "delivered") = (outbox[e].receipt # 0)
       /\ (outbox[e].state = "delivered") = (outbox[e].delivered # NoTime)
       /\ outbox[e].approval \in Approvals
       /\ approvals[outbox[e].approval].status \notin {"absent", "purged"}

(* _init_db finds the marker of the current version: the database is       *)
(* attested and never repaired, so an invalid one keeps the runtime down.  *)
InitDb == ValidateSchema

(* The constructor runs reconcile() before the queue is exposed.           *)
Restart(t) ==
  /\ mode = "down"
  /\ InitDb
  /\ \/ /\ PendingEvents = {}
        /\ mode' = "up" /\ UNCHANGED thread
     \/ /\ BeginReconcile(t)
        /\ mode' = "boot"
  /\ UNCHANGED <<storage, ledger, clock, faults, history>>

Flush(t) == FlushRead(t) \/ FlushRecord(t) \/ FlushRecordFails(t) \/ FlushFinalize(t)

Operate(t) ==
  \E a \in Approvals, e \in EventIds :
    \/ \E b \in Bindings : Submit(t, a, e, b)
    \/ \E o \in Operators, v \in Verifications : Approve(t, a, e, o, v) \/ Deny(t, a, e, o, v)
    \/ \E o \in Operators : DenyForSystemSafety(t, a, e, o)
    \/ \E b \in Bindings : ConsumeApproved(t, a, e, b) \/ ExpireApproved(t, a, e, b)

Next ==
  \/ \E t \in Threads :
       \/ Operate(t)
       \/ Flush(t)
       \/ GetConsumed(t) \/ VerifyAndExecute(t)
       \/ Reconcile(t) \/ PurgeSample(t) \/ PurgeExpired(t) \/ Restart(t)
  \/ Tick \/ StepBack \/ Crash

Spec == Init /\ [][Next]_vars

-----------------------------------------------------------------------------
(* Properties.                                                             *)

PCs == {"idle", "read", "record", "finalize", "get", "verify", "purge"}
Ops == {"none", "submit", "decide", "consume", "expire", "reconcile", "purge"}
Times == Time \cup {NoTime}
AnyBinding == Bindings \cup {NoBinding}

Envelopes ==
  [approval : Approvals, binding : AnyBinding, decision : {"approved", "denied"},
   operator : Operators, nonce : Nonces \cup {NoNonce}]

ASSUME NoProofApart == NoProof \notin Envelopes

ApprovalType ==
  [status : Transitions \cup {"absent", "audit_pending", "purged"},
   pending : Transitions \cup {"none"},
   event : EventIds \cup {NoEvent}, last : EventIds \cup {NoEvent},
   binding : AnyBinding, operator : Operators \cup {NoOperator},
   proof : Envelopes \cup {NoProof}, nonce : Nonces \cup {NoNonce},
   decided : Times, terminal : Times]

EventType ==
  [state : {"absent", "pending", "delivered", "purged"},
   approval : Approvals \cup {NoApproval}, kind : Transitions \cup {"none"},
   at : Times, receipt : Nat, delivered : Times]

ThreadType ==
  [pc : PCs, op : Ops, event : EventIds \cup {NoEvent},
   approval : Approvals \cup {NoApproval}, required : AnyBinding,
   receipt : Nat, todo : SUBSET EventIds, now : Times]

(* Every table row, ledger entry, thread record and history value has the  *)
(* shape the code gives it.                                                *)
TypeOK ==
  /\ approvals \in [Approvals -> ApprovalType]
  /\ outbox \in [EventIds -> EventType]
  /\ tombstones \in [Nonces -> Nat \cup {NoTime}]
  /\ ledger \in Seq(EventIds)
  /\ clock \in Time /\ horizon \in Time
  /\ mode \in {"boot", "up", "down"}
  /\ thread \in [Threads -> ThreadType]
  /\ crashes \in 0..MaxCrashes /\ setbacks \in 0..MaxSetbacks
  /\ executed \in [Approvals -> Seq(AnyBinding)]
  /\ uses \in [Nonces -> Seq([at : Time, horizon : Time])]

(* An approval authorizes at most one execution, however many threads      *)
(* consume it concurrently, whatever reconcile() finalizes on their behalf *)
(* and wherever the process crashes and restarts.                          *)
AtMostOnceExecution == \A a \in Approvals : Len(executed[a]) <= 1

LedgerKinds(a) ==
  LET mine == {i \in 1..Len(ledger) : outbox[ledger[i]].approval = a}
  IN [i \in mine |-> outbox[ledger[i]].kind]

(* A status a caller can observe is backed by its own ledger entry: no     *)
(* crash or failed append leaves a visible decision without evidence.      *)
(* Whatever was executed had a submitted, then an approved, then a         *)
(* consumed entry, asked for no more than the operator was shown, and the  *)
(* proof on record is that operator's approval of this very content.       *)
VisibleOnlyWhenAudited ==
  \A a \in Approvals :
    /\ approvals[a].status \in Transitions =>
         /\ approvals[a].last \in EventIds
         /\ outbox[approvals[a].last].approval = a
         /\ outbox[approvals[a].last].kind = approvals[a].status
         /\ \E i \in 1..Len(ledger) : ledger[i] = approvals[a].last
    /\ \A k \in 1..Len(executed[a]) :
         /\ ContextMatches(approvals[a].binding, executed[a][k])
         /\ VerifiesBinding(approvals[a].proof, a, approvals[a].binding, "approved",
                            approvals[a].operator)
         /\ \E i, j, m \in DOMAIN LedgerKinds(a) :
              /\ i < j /\ j < m
              /\ LedgerKinds(a)[i] = "pending" /\ LedgerKinds(a)[j] = "approved"
              /\ LedgerKinds(a)[m] = "consumed"

(* Deliveries retried after a failure or a restart, and a reconcile racing *)
(* the operation's own delivery, never enter an event in the ledger twice, *)
(* and the entries of one approval are a history the operator workflow     *)
(* allows: submitted first, one decision, and one terminal entry after an  *)
(* approval, so nothing follows a denial.                                  *)
LedgerLineage ==
  /\ \A i, j \in 1..Len(ledger) : ledger[i] = ledger[j] => i = j
  /\ \A a \in Approvals :
       LET kinds == LedgerKinds(a) IN
       \A i \in DOMAIN kinds :
         /\ kinds[i] \in {"approved", "denied"} =>
              \E j \in DOMAIN kinds : j < i /\ kinds[j] = "pending"
         /\ kinds[i] \in {"consumed", "expired"} =>
              \E j \in DOMAIN kinds : j < i /\ kinds[j] = "approved"
         /\ kinds[i] \in Terminal => \A j \in DOMAIN kinds : j <= i

(* No poison row: an undelivered outbox row always names an approval that  *)
(* waits for exactly that row, so the reconcile of a restart never meets a *)
(* row it has to refuse, an approval waits for at most one event, and the  *)
(* database is one that the next start accepts.                            *)
OutboxConsistent ==
  /\ ValidateSchema
  /\ \A e \in EventIds : outbox[e].state = "pending" => EventStateValid(e)
  /\ \A a \in Approvals : approvals[a].status = "audit_pending" =>
       /\ approvals[a].event \in EventIds
       /\ outbox[approvals[a].event].state = "pending"
       /\ outbox[approvals[a].event].approval = a

(* The grant is used inside its time to live: a consumed transition is     *)
(* stamped at or after the decision and before decided_at + ttl.           *)
ConsumedWithinTtl ==
  \A e \in EventIds : outbox[e].kind = "consumed" =>
    LET item == approvals[outbox[e].approval] IN
    item.decided <= outbox[e].at /\ outbox[e].at < item.decided + Ttl

(* A decision proof's nonce that was accepted once is accepted again only  *)
(* after the clock has shown a time past its retention, even if the clock  *)
(* is set back and the approval it decided was purged.                     *)
NonceNotReplayed ==
  \A n \in Nonces : \A i, j \in 1..Len(uses[n]) :
    i < j => uses[n][j].horizon >= uses[n][i].at + Retention

(* The constructor exposes the queue only once every event left undelivered *)
(* by the previous process is in the ledger and finalized.                 *)
BootDeliversAll == [][mode # "up" /\ mode' = "up" => PendingEvents' = {}]_vars

-----------------------------------------------------------------------------
(* The durable queue as its callers see it: a transition counts from the   *)
(* transaction that stages it, and a purged approval keeps its last state. *)
SeenStatus(item) ==
  CASE item.status = "audit_pending" -> item.pending
    [] item.status = "purged"        -> outbox[item.last].kind
    [] OTHER                         -> item.status

Submissions(a) == {e \in EventIds : outbox[e].approval = a /\ outbox[e].kind = "pending"}

SubmittedAt(a) ==
  IF Submissions(a) = {} THEN NoTime ELSE outbox[CHOOSE e \in Submissions(a) : TRUE].at

Seen == [a \in Approvals |->
  [status |-> SeenStatus(approvals[a]), binding |-> approvals[a].binding,
   submitted |-> SubmittedAt(a), decided |-> approvals[a].decided]]

(* At the instant decided + ttl the in-memory queue still accepts an       *)
(* approval and the durable one does not: on whole seconds, a ttl one less. *)
Atomic == INSTANCE OperatorQueue WITH queue <- Seen, Ttl <- Ttl - 1

(* Over concurrent callers, the two-phase delivery, crashes, boot          *)
(* reconciliation and purging, the durable queue does what the in-memory   *)
(* queue's atomic methods do: one decision per approval, a consumption     *)
(* only of an approved one, in time and for its context, none taken back.  *)
ImplementsOperatorQueue == Atomic!Spec
============================================================================
