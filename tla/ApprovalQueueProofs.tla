------------------------ MODULE ApprovalQueueProofs ------------------------
(***************************************************************************)
(* Theorems about ApprovalQueue, for every number of approvals, threads,   *)
(* events and crashes.                                                     *)
(***************************************************************************)
EXTENDS ApprovalQueue, TLAPS

(* A thread inside _flush_event delivers an event that exists.             *)
FlushingAnEvent ==
  \A t \in Threads : thread[t].pc \in {"read", "record", "finalize"} => thread[t].event \in EventIds

(* An undelivered outbox row carries the transition it announces.          *)
PendingRowsNamed ==
  \A e \in EventIds : outbox[e].state = "pending" =>
    outbox[e].kind \in Transitions /\ outbox[e].approval \in Approvals

Typed == TypeOK /\ FlushingAnEvent /\ PendingRowsNamed

-----------------------------------------------------------------------------
(* The records the actions write have their types.                         *)

LEMMA IdleTyped == Idle \in ThreadType
BY ApprovalConstants DEF Idle, ThreadType, PCs, Ops, AnyBinding, Times

LEMMA AbsentTyped == AbsentApproval \in ApprovalType /\ AbsentEvent \in EventType
BY DEF AbsentApproval, AbsentEvent, ApprovalType, EventType, AnyBinding, Times, Transitions

(* Replacing one thread's record.                                          *)
LEMMA ThreadUpdateTyped ==
  ASSUME Typed, NEW t \in Threads, NEW r \in ThreadType,
         r.pc \in {"read", "record", "finalize"} => r.event \in EventIds,
         thread' = [thread EXCEPT ![t] = r]
  PROVE  thread' \in [Threads -> ThreadType] /\ FlushingAnEvent'
BY DEF Typed, TypeOK, FlushingAnEvent

(* An operation's delivery loop starts from a typed thread record.         *)
LEMMA BeginFlushTyped ==
  ASSUME Typed, NEW t \in Threads, NEW op \in Ops, NEW a \in Approvals, NEW e \in EventIds,
         NEW b \in AnyBinding, BeginFlush(t, op, a, e, b)
  PROVE  thread' \in [Threads -> ThreadType] /\ FlushingAnEvent'
<1> DEFINE r == [Idle EXCEPT !.pc = "read", !.op = op, !.event = e, !.approval = a, !.required = b]
<1>1. r \in ThreadType /\ r.event = e
  BY DEF Idle, ThreadType, PCs, Times
<1>2. thread' = [thread EXCEPT ![t] = r]
  BY DEF BeginFlush
<1>. HIDE DEF r
<1>3. QED BY <1>1, <1>2 DEF Typed, TypeOK, FlushingAnEvent

LEMMA RaiseTyped ==
  ASSUME Typed, NEW t \in Threads, Raise(t)
  PROVE  /\ thread' \in [Threads -> ThreadType] /\ FlushingAnEvent'
         /\ mode' \in {"boot", "up", "down"}
<1>1. Idle.pc = "idle" BY DEF Idle
<1>2. QED BY <1>1, IdleTyped DEF Typed, TypeOK, FlushingAnEvent, Raise

(* What a decision binds to its proof is what the row holds.               *)
LEMMA EnvelopeTyped ==
  ASSUME Typed, NEW a \in Approvals, NEW d \in {"approved", "denied"}, NEW o \in Operators,
         NEW n \in Nonces \cup {NoNonce}
  PROVE  Envelope(a, d, o, n) \in Envelopes
<1>1. approvals[a].binding \in AnyBinding
  BY DEF Typed, TypeOK, ApprovalType
<1>2. QED BY <1>1 DEF Envelope, Envelopes

LEMMA StageExistingTyped ==
  ASSUME Typed, NEW a \in Approvals, NEW e \in EventIds, NEW kind \in Transitions,
         NEW n \in Envelopes \cup {NoProof}, StageExisting(a, e, kind, n)
  PROVE  /\ approvals' \in [Approvals -> ApprovalType]
         /\ outbox' \in [EventIds -> EventType] /\ PendingRowsNamed'
<1>1. clock \in Times /\ clock \in Time
  BY DEF Typed, TypeOK, Times
<1>2. approvals' \in [Approvals -> ApprovalType]
  <2>1. approvals[a] \in ApprovalType
    BY DEF Typed, TypeOK
  <2> DEFINE o == IF n = NoProof THEN approvals[a].operator ELSE n.operator
             m == IF n = NoProof THEN approvals[a].nonce ELSE n.nonce
             p == IF n = NoProof THEN approvals[a].proof ELSE n
  <2>2. o \in Operators \cup {NoOperator} /\ m \in Nonces \cup {NoNonce} /\ p \in Envelopes \cup {NoProof}
    BY <2>1 DEF ApprovalType, Envelopes
  <2>3. Staged(approvals[a], e, kind, n) =
          [approvals[a] EXCEPT
             !.status = "audit_pending", !.pending = kind, !.event = e,
             !.operator = o, !.proof = p, !.nonce = m,
             !.decided  = IF kind \in {"approved", "denied"} THEN clock ELSE approvals[a].decided,
             !.terminal = IF kind \in Terminal THEN clock ELSE approvals[a].terminal]
    BY DEF Staged
  <2>. HIDE DEF o, m, p
  <2>4. Staged(approvals[a], e, kind, n) \in ApprovalType
    BY <1>1, <2>1, <2>2, <2>3 DEF ApprovalType
  <2>5. QED BY <2>4 DEF StageExisting, Typed, TypeOK
<1>3. outbox' \in [EventIds -> EventType]
  BY <1>1 DEF StageExisting, InsertOutbox, AbsentEvent, Typed, TypeOK, EventType, Times
<1>4. PendingRowsNamed'
  BY DEF StageExisting, InsertOutbox, AbsentEvent, Typed, TypeOK, PendingRowsNamed
<1>5. QED BY <1>2, <1>3, <1>4

LEMMA AfterFlushTyped ==
  ASSUME Typed, NEW t \in Threads, AfterFlush(t)
  PROVE  /\ thread' \in [Threads -> ThreadType] /\ FlushingAnEvent'
         /\ mode' \in {"boot", "up", "down"}
<1>0. thread[t] \in ThreadType
  BY DEF Typed, TypeOK
<1>1. CASE thread[t].op = "consume"
  <2> DEFINE r == [thread[t] EXCEPT !.pc = "get"]
  <2>1. r \in ThreadType /\ r.pc = "get"
    BY <1>0 DEF ThreadType, PCs
  <2>2. thread' = [thread EXCEPT ![t] = r] /\ mode' = mode
    BY <1>1 DEF AfterFlush
  <2>. HIDE DEF r
  <2>3. thread' \in [Threads -> ThreadType] /\ FlushingAnEvent'
    BY <2>1, <2>2, ThreadUpdateTyped
  <2>4. QED BY <2>2, <2>3 DEF Typed, TypeOK
<1>2. CASE thread[t].op # "consume" /\ thread[t].op = "reconcile" /\ thread[t].todo # {}
  <2>1. PICK e \in thread[t].todo :
          thread' = [thread EXCEPT ![t] = [thread[t] EXCEPT !.pc = "read", !.event = e,
                                               !.receipt = 0, !.todo = thread[t].todo \ {e}]]
    BY <1>2 DEF AfterFlush
  <2>2. e \in EventIds
    BY DEF Typed, TypeOK, ThreadType
  <2>3. mode' = mode
    BY <1>2 DEF AfterFlush
  <2> DEFINE r == [thread[t] EXCEPT !.pc = "read", !.event = e, !.receipt = 0,
                                    !.todo = thread[t].todo \ {e}]
  <2>4. r \in ThreadType /\ r.event = e
    BY <1>0, <2>2 DEF ThreadType, PCs
  <2>5. thread' = [thread EXCEPT ![t] = r]
    BY <2>1
  <2>. HIDE DEF r
  <2>6. thread' \in [Threads -> ThreadType] /\ FlushingAnEvent'
    BY <2>2, <2>4, <2>5, ThreadUpdateTyped
  <2>7. QED BY <2>3, <2>6 DEF Typed, TypeOK
<1>3. CASE thread[t].op # "consume" /\ ~(thread[t].op = "reconcile" /\ thread[t].todo # {})
  <2>1. Idle.pc = "idle" BY DEF Idle
  <2>2. thread' = [thread EXCEPT ![t] = Idle] /\ mode' = IF mode = "boot" THEN "up" ELSE mode
    BY <1>3 DEF AfterFlush
  <2>3. QED BY <2>1, <2>2, IdleTyped DEF Typed, TypeOK, FlushingAnEvent
<1>4. QED BY <1>1, <1>2, <1>3

LEMMA BeginReconcileTyped ==
  ASSUME Typed, NEW t \in Threads, BeginReconcile(t)
  PROVE  thread' \in [Threads -> ThreadType] /\ FlushingAnEvent'
<1>1. PICK e \in PendingEvents :
        thread' = [thread EXCEPT ![t] = [Idle EXCEPT !.pc = "read", !.op = "reconcile", !.event = e,
                                                     !.todo = PendingEvents \ {e}]]
  BY DEF BeginReconcile
<1> DEFINE r == [Idle EXCEPT !.pc = "read", !.op = "reconcile", !.event = e,
                             !.todo = PendingEvents \ {e}]
<1>2. r \in ThreadType /\ r.event = e /\ e \in EventIds
  BY IdleTyped DEF PendingEvents, ThreadType, PCs, Ops
<1>3. thread' = [thread EXCEPT ![t] = r]
  BY <1>1
<1>. HIDE DEF r
<1>4. QED BY <1>2, <1>3 DEF Typed, TypeOK, FlushingAnEvent

(* Each action preserves the types.                                        *)
LEMMA TypedStep == Typed /\ [Next]_vars => Typed'
<1>. SUFFICES ASSUME Typed, [Next]_vars PROVE Typed'
  OBVIOUS
<1>. USE ApprovalConstants
<1>1. CASE UNCHANGED vars
  BY <1>1 DEF vars, storage, history, faults, Typed, TypeOK, FlushingAnEvent, PendingRowsNamed
<1>2. ASSUME NEW t \in Threads, NEW a \in Approvals, NEW e \in EventIds, NEW b \in Bindings,
             Submit(t, a, e, b)
      PROVE  Typed'
  <2>1. approvals' \in [Approvals -> ApprovalType]
    <3>1. [AbsentApproval EXCEPT !.status = "audit_pending", !.pending = "pending",
                                 !.event = e, !.binding = b] \in ApprovalType
      BY AbsentTyped DEF ApprovalType, AnyBinding, Transitions
    <3>2. QED BY <1>2, <3>1 DEF Submit, Typed, TypeOK
  <2>2. outbox' \in [EventIds -> EventType] /\ PendingRowsNamed'
    BY <1>2 DEF Submit, InsertOutbox, AbsentEvent, Typed, TypeOK, EventType, Times, Transitions,
                PendingRowsNamed
  <2>3. thread' \in [Threads -> ThreadType] /\ FlushingAnEvent'
    <3>1. BeginFlush(t, "submit", a, e, NoBinding)
      BY <1>2 DEF Submit
    <3>2. QED BY <3>1, BeginFlushTyped DEF AnyBinding, Ops
  <2>4. QED BY <1>2, <2>1, <2>2, <2>3 DEF Submit, Typed, TypeOK, history, faults
<1>3. ASSUME NEW t \in Threads, NEW a \in Approvals, NEW e \in EventIds,
             NEW d \in {"approved", "denied"}, NEW o \in Operators, NEW v \in Verifications,
             Decide(t, a, e, d, o, v)
      PROVE  Typed'
  <2> DEFINE n == v.nonce
  <2>0. n \in Nonces /\ Envelope(a, d, o, n) \in Envelopes
    BY EnvelopeTyped DEF Verifications
  <2>1. approvals' \in [Approvals -> ApprovalType] /\ outbox' \in [EventIds -> EventType] /\ PendingRowsNamed'
    BY <1>3, <2>0, StageExistingTyped DEF Decide, Transitions
  <2>2. thread' \in [Threads -> ThreadType] /\ FlushingAnEvent'
    <3>1. BeginFlush(t, "decide", a, e, NoBinding)
      BY <1>3 DEF Decide
    <3>2. QED BY <3>1, BeginFlushTyped DEF AnyBinding, Ops
  <2>3. tombstones' \in [Nonces -> Nat \cup {NoTime}]
    BY <1>3, <2>0, ApprovalConstants DEF Decide, Typed, TypeOK, Time
  <2>4. uses' \in [Nonces -> Seq([at : Time, horizon : Time])]
    <3> DEFINE u == [at |-> clock, horizon |-> horizon]
    <3>1. u \in [at : Time, horizon : Time]
      BY DEF Typed, TypeOK
    <3>2. uses' = [uses EXCEPT ![n] = Append(uses[n], u)]
      BY <1>3 DEF Decide
    <3>. HIDE DEF u
    <3>3. uses[n] \in Seq([at : Time, horizon : Time])
      BY <2>0 DEF Typed, TypeOK
    <3>4. Append(uses[n], u) \in Seq([at : Time, horizon : Time])
      BY <3>1, <3>3
    <3>5. QED BY <3>2, <3>4 DEF Typed, TypeOK
  <2>5. QED BY <1>3, <2>1, <2>2, <2>3, <2>4 DEF Decide, Typed, TypeOK, faults
<1>4. ASSUME NEW t \in Threads, NEW a \in Approvals, NEW e \in EventIds, NEW o \in Operators,
             DenyForSystemSafety(t, a, e, o)
      PROVE  Typed'
  <2>0. Envelope(a, "denied", o, NoNonce) \in Envelopes
    BY EnvelopeTyped
  <2>1. approvals' \in [Approvals -> ApprovalType] /\ outbox' \in [EventIds -> EventType] /\ PendingRowsNamed'
    BY <1>4, <2>0, StageExistingTyped DEF DenyForSystemSafety, Transitions
  <2>2. thread' \in [Threads -> ThreadType] /\ FlushingAnEvent'
    <3>1. BeginFlush(t, "decide", a, e, NoBinding)
      BY <1>4 DEF DenyForSystemSafety
    <3>2. QED BY <3>1, BeginFlushTyped DEF AnyBinding, Ops
  <2>3. QED BY <1>4, <2>1, <2>2 DEF DenyForSystemSafety, Typed, TypeOK, faults, history
<1>5. ASSUME NEW t \in Threads, NEW a \in Approvals, NEW e \in EventIds, NEW b \in Bindings,
             ConsumeApproved(t, a, e, b) \/ ExpireApproved(t, a, e, b)
      PROVE  Typed'
  <2>1. approvals' \in [Approvals -> ApprovalType] /\ outbox' \in [EventIds -> EventType] /\ PendingRowsNamed'
    BY <1>5, StageExistingTyped DEF ConsumeApproved, ExpireApproved, Transitions
  <2>2. thread' \in [Threads -> ThreadType] /\ FlushingAnEvent'
    <3>1. BeginFlush(t, "consume", a, e, b) \/ BeginFlush(t, "expire", a, e, b)
      BY <1>5 DEF ConsumeApproved, ExpireApproved
    <3>2. "consume" \in Ops /\ "expire" \in Ops /\ b \in AnyBinding
      BY DEF AnyBinding, Ops
    <3>3. QED BY <3>1, <3>2, BeginFlushTyped
  <2>3. QED BY <1>5, <2>1, <2>2 DEF ConsumeApproved, ExpireApproved, Typed, TypeOK, faults, history
<1>6. ASSUME NEW t \in Threads, FlushRead(t) PROVE Typed'
  <2>1. /\ thread' \in [Threads -> ThreadType] /\ FlushingAnEvent'
        /\ mode' \in {"boot", "up", "down"}
    <3>1. CASE Raise(t)
      BY <3>1, RaiseTyped
    <3>2. CASE ~Raise(t)
      <4>1. thread[t].event \in EventIds
        BY <1>6 DEF FlushRead, Typed, FlushingAnEvent
      <4>2. outbox[thread[t].event].receipt \in Nat
        BY <4>1 DEF Typed, TypeOK, EventType
      <4> DEFINE r == [thread[t] EXCEPT
                         !.pc = IF outbox[thread[t].event].state = "pending" THEN "record" ELSE "finalize",
                         !.receipt = outbox[thread[t].event].receipt]
      <4>3. thread[t] \in ThreadType
        BY DEF Typed, TypeOK
      <4>4. r \in ThreadType /\ r.event = thread[t].event
        BY <4>2, <4>3 DEF ThreadType, PCs
      <4>5. thread' = [thread EXCEPT ![t] = r] /\ mode' = mode
        BY <1>6, <3>2 DEF FlushRead
      <4>. HIDE DEF r
      <4>6. thread' \in [Threads -> ThreadType] /\ FlushingAnEvent'
        BY <4>1, <4>4, <4>5, ThreadUpdateTyped
      <4>7. QED BY <4>5, <4>6 DEF Typed, TypeOK
    <3>3. QED BY <3>1, <3>2
  <2>2. QED BY <1>6, <2>1 DEF FlushRead, Typed, TypeOK, storage, faults, history, PendingRowsNamed
<1>7. ASSUME NEW t \in Threads, FlushRecord(t) PROVE Typed'
  <2>1. thread[t].event \in EventIds
    BY <1>7 DEF FlushRecord, Typed, FlushingAnEvent
  <2>2. ledger' \in Seq(EventIds)
    BY <1>7, <2>1 DEF FlushRecord, Typed, TypeOK
  <2>3. PICK i \in 1..Len(ledger') :
          thread' = [thread EXCEPT ![t] = [@ EXCEPT !.pc = "finalize", !.receipt = i]]
    BY <1>7 DEF FlushRecord
  <2>4. i \in Nat
    BY <2>2
  <2>5. thread' \in [Threads -> ThreadType] /\ FlushingAnEvent'
    <3> DEFINE r == [thread[t] EXCEPT !.pc = "finalize", !.receipt = i]
    <3>1. thread[t] \in ThreadType
      BY DEF Typed, TypeOK
    <3>2. r \in ThreadType /\ r.event = thread[t].event
      BY <2>4, <3>1 DEF ThreadType, PCs
    <3>3. thread' = [thread EXCEPT ![t] = r]
      BY <2>3
    <3>. HIDE DEF r
    <3>4. QED BY <2>1, <3>2, <3>3, ThreadUpdateTyped
  <2>6. QED BY <1>7, <2>2, <2>5 DEF FlushRecord, Typed, TypeOK, storage, faults, history, PendingRowsNamed
<1>8. ASSUME NEW t \in Threads, FlushRecordFails(t) PROVE Typed'
  <2>1. Raise(t)
    BY <1>8 DEF FlushRecordFails
  <2>2. QED BY <1>8, <2>1, RaiseTyped DEF FlushRecordFails, Typed, TypeOK, storage, faults, history, PendingRowsNamed
<1>9. ASSUME NEW t \in Threads, FlushFinalize(t) PROVE Typed'
  <2>1. thread[t].event \in EventIds
    BY <1>9 DEF FlushFinalize, Typed, FlushingAnEvent
  <2>2. /\ thread' \in [Threads -> ThreadType] /\ FlushingAnEvent'
        /\ mode' \in {"boot", "up", "down"}
    <3>1. Raise(t) \/ AfterFlush(t)
      BY <1>9 DEF FlushFinalize
    <3>2. QED BY <3>1, RaiseTyped, AfterFlushTyped
  <2>3. /\ approvals' \in [Approvals -> ApprovalType]
        /\ outbox' \in [EventIds -> EventType] /\ PendingRowsNamed'
    <3>1. CASE UNCHANGED <<approvals, outbox>>
      BY <3>1 DEF Typed, TypeOK, PendingRowsNamed
    <3>2. CASE ~UNCHANGED <<approvals, outbox>>
      <4> DEFINE e == thread[t].event
                 row == outbox[e]
      <4>1. /\ approvals' = [approvals EXCEPT ![row.approval] =
                 [@ EXCEPT !.status = row.kind, !.pending = "none", !.event = NoEvent, !.last = e]]
            /\ outbox' = [outbox EXCEPT ![e] =
                 [@ EXCEPT !.state = "delivered", !.receipt = thread[t].receipt, !.delivered = clock]]
            /\ row.state = "pending"
        BY <1>9, <3>2 DEF FlushFinalize
      <4>2. row \in EventType /\ row.kind \in Transitions /\ row.approval \in Approvals
        BY <2>1, <4>1 DEF Typed, TypeOK, PendingRowsNamed
      <4>3. clock \in Times /\ thread[t].receipt \in Nat
        BY DEF Typed, TypeOK, Times, ThreadType
      <4>4. outbox' \in [EventIds -> EventType] /\ PendingRowsNamed'
        <5>1. [row EXCEPT !.state = "delivered", !.receipt = thread[t].receipt, !.delivered = clock]
                \in EventType
          BY <4>2, <4>3 DEF EventType
        <5>2. outbox' \in [EventIds -> EventType]
          BY <2>1, <4>1, <5>1 DEF Typed, TypeOK
        <5>3. PendingRowsNamed'
          BY <2>1, <4>1, <4>2 DEF Typed, TypeOK, PendingRowsNamed, EventType
        <5>4. QED BY <5>2, <5>3
      <4>5. approvals' \in [Approvals -> ApprovalType]
        <5>1. [approvals[row.approval] EXCEPT !.status = row.kind, !.pending = "none",
                                              !.event = NoEvent, !.last = e] \in ApprovalType
          <6>1. approvals[row.approval] \in ApprovalType /\ e \in EventIds
            BY <2>1, <4>2 DEF Typed, TypeOK
          <6>2. QED BY <4>2, <6>1 DEF ApprovalType
        <5>2. QED BY <4>1, <4>2, <5>1 DEF Typed, TypeOK
      <4>6. QED BY <4>4, <4>5
    <3>3. QED BY <3>1, <3>2
  <2>4. QED BY <1>9, <2>2, <2>3 DEF FlushFinalize, Typed, TypeOK, faults, history
<1>10. ASSUME NEW t \in Threads, GetConsumed(t) PROVE Typed'
  <2>1. Idle.pc = "idle" BY DEF Idle
  <2>2. thread' \in [Threads -> ThreadType] /\ FlushingAnEvent'
    BY <1>10, <2>1, IdleTyped DEF GetConsumed, Typed, TypeOK, FlushingAnEvent, ThreadType, PCs
  <2>3. QED BY <1>10, <2>2 DEF GetConsumed, Typed, TypeOK, storage, faults, history, PendingRowsNamed
<1>11. ASSUME NEW t \in Threads, VerifyAndExecute(t) PROVE Typed'
  <2>1. Idle.pc = "idle" BY DEF Idle
  <2>2. thread' \in [Threads -> ThreadType] /\ FlushingAnEvent'
    BY <1>11, <2>1, IdleTyped DEF VerifyAndExecute, Typed, TypeOK, FlushingAnEvent
  <2>3. thread[t].required \in AnyBinding
    BY DEF Typed, TypeOK, ThreadType
  <2>4. executed' \in [Approvals -> Seq(AnyBinding)]
    <3>1. CASE UNCHANGED executed
      BY <3>1 DEF Typed, TypeOK
    <3>2. CASE ~UNCHANGED executed
      <4> DEFINE a == thread[t].approval
      <4>1. executed' = [executed EXCEPT ![a] = Append(executed[a], thread[t].required)]
        BY <1>11, <3>2 DEF VerifyAndExecute
      <4>2. CASE a \in Approvals
        <5>1. executed[a] \in Seq(AnyBinding)
          BY <4>2 DEF Typed, TypeOK
        <5>2. Append(executed[a], thread[t].required) \in Seq(AnyBinding)
          BY <2>3, <5>1
        <5>3. QED BY <4>1, <5>2 DEF Typed, TypeOK
      <4>3. CASE a \notin Approvals
        BY <4>1, <4>3 DEF Typed, TypeOK
      <4>4. QED BY <4>2, <4>3
    <3>3. QED BY <3>1, <3>2
  <2>5. QED BY <1>11, <2>2, <2>4 DEF VerifyAndExecute, Typed, TypeOK, storage, faults, PendingRowsNamed
<1>12. ASSUME NEW t \in Threads, Reconcile(t) PROVE Typed'
  <2>1. BeginReconcile(t)
    BY <1>12 DEF Reconcile
  <2>2. QED BY <1>12, <2>1, BeginReconcileTyped
            DEF Reconcile, Typed, TypeOK, storage, faults, history, PendingRowsNamed
<1>13. ASSUME NEW t \in Threads, PurgeSample(t) PROVE Typed'
  <2> DEFINE r == [Idle EXCEPT !.pc = "purge", !.op = "purge", !.now = clock]
  <2>1. clock \in Times
    BY DEF Typed, TypeOK, Times
  <2>2. r \in ThreadType /\ r.pc = "purge"
    BY <2>1, IdleTyped DEF ThreadType, PCs, Ops
  <2>3. thread' = [thread EXCEPT ![t] = r]
    BY <1>13 DEF PurgeSample
  <2>. HIDE DEF r
  <2>4. thread' \in [Threads -> ThreadType] /\ FlushingAnEvent'
    BY <2>2, <2>3 DEF Typed, TypeOK, FlushingAnEvent
  <2>5. QED BY <1>13, <2>4 DEF PurgeSample, Typed, TypeOK, storage, faults, history, PendingRowsNamed
<1>14. ASSUME NEW t \in Threads, PurgeExpired(t) PROVE Typed'
  <2>1. Idle.pc = "idle" BY DEF Idle
  <2>2. thread' \in [Threads -> ThreadType] /\ FlushingAnEvent'
    BY <1>14, <2>1, IdleTyped DEF PurgeExpired, Typed, TypeOK, FlushingAnEvent
  <2>3. PICK old \in SUBSET Approvals :
          /\ approvals' = [a \in Approvals |->
               IF a \in old THEN [approvals[a] EXCEPT !.status = "purged", !.nonce = NoNonce]
               ELSE approvals[a]]
          /\ outbox' = [e \in EventIds |->
               IF outbox[e].approval \in old THEN [outbox[e] EXCEPT !.state = "purged"]
               ELSE outbox[e]]
    <3> DEFINE O == {a \in Approvals : Purgeable(a, thread[t].now)}
    <3>1. O \in SUBSET Approvals
      OBVIOUS
    <3>2. QED BY <1>14, <3>1 DEF PurgeExpired
  <2>4. approvals' \in [Approvals -> ApprovalType]
    <3>1. ASSUME NEW a \in Approvals
          PROVE [approvals[a] EXCEPT !.status = "purged", !.nonce = NoNonce] \in ApprovalType
      <4>1. approvals[a] \in ApprovalType
        BY DEF Typed, TypeOK
      <4>2. QED BY <4>1 DEF ApprovalType
    <3>2. QED BY <2>3, <3>1 DEF Typed, TypeOK
  <2>5. outbox' \in [EventIds -> EventType] /\ PendingRowsNamed'
    <3>1. ASSUME NEW e \in EventIds
          PROVE  /\ [outbox[e] EXCEPT !.state = "purged"] \in EventType
                 /\ [outbox[e] EXCEPT !.state = "purged"].state = "purged"
      <4>1. outbox[e] \in EventType
        BY DEF Typed, TypeOK
      <4>2. QED BY <4>1 DEF EventType
    <3>2. outbox' \in [EventIds -> EventType]
      BY <2>3, <3>1 DEF Typed, TypeOK
    <3>3. ASSUME NEW e \in EventIds, outbox'[e].state = "pending" PROVE outbox'[e] = outbox[e]
      BY <2>3, <3>1, <3>3
    <3>4. QED BY <3>2, <3>3 DEF Typed, PendingRowsNamed
  <2>6. tombstones' \in [Nonces -> Nat \cup {NoTime}]
    BY <1>14 DEF PurgeExpired, Typed, TypeOK
  <2>7. QED BY <1>14, <2>2, <2>4, <2>5, <2>6 DEF PurgeExpired, Typed, TypeOK, faults, history
<1>15. ASSUME NEW t \in Threads, Restart(t) PROVE Typed'
  <2>1. CASE UNCHANGED thread
    BY <1>15, <2>1 DEF Restart, Typed, TypeOK, storage, faults, history, PendingRowsNamed, FlushingAnEvent
  <2>2. CASE BeginReconcile(t)
    BY <1>15, <2>2, BeginReconcileTyped
       DEF Restart, Typed, TypeOK, storage, faults, history, PendingRowsNamed
  <2>3. QED BY <1>15, <2>1, <2>2 DEF Restart
<1>16. CASE Tick \/ StepBack
  <2>1. clock' \in Time /\ horizon' \in Time /\ setbacks' \in 0..MaxSetbacks
    BY <1>16 DEF Tick, StepBack, Time, Typed, TypeOK, faults, history
  <2>2. UNCHANGED <<storage, ledger, mode, thread, crashes, executed, uses>>
    BY <1>16 DEF Tick, StepBack, faults, history
  <2>3. QED BY <2>1, <2>2 DEF Typed, TypeOK, storage, PendingRowsNamed, FlushingAnEvent
<1>17. CASE Crash
  <2>1. Idle.pc = "idle" BY DEF Idle
  <2>2. thread' \in [Threads -> ThreadType] /\ FlushingAnEvent'
    BY <1>17, <2>1, IdleTyped DEF Crash, FlushingAnEvent
  <2>3. crashes' \in 0..MaxCrashes
    BY <1>17 DEF Crash, Typed, TypeOK
  <2>4. QED BY <1>17, <2>2, <2>3 DEF Crash, Typed, TypeOK, storage, history, PendingRowsNamed
<1>18. QED
  BY <1>1, <1>2, <1>3, <1>4, <1>5, <1>6, <1>7, <1>8, <1>9, <1>10, <1>11, <1>12, <1>13, <1>14,
     <1>15, <1>16, <1>17
     DEF Next, Operate, Approve, Deny, Flush

LEMMA TypedInit == Init => Typed
<1>. SUFFICES ASSUME Init PROVE Typed
  OBVIOUS
<1>1. Idle.pc = "idle" /\ AbsentEvent.state = "absent"
  BY DEF Idle, AbsentEvent
<1>2. QED
  BY <1>1, ApprovalConstants, IdleTyped, AbsentTyped
     DEF Init, Typed, TypeOK, FlushingAnEvent, PendingRowsNamed, Time

(* Every reachable state of the approval queue is well typed.              *)
THEOREM TypeCorrect == Spec => []TypeOK
<1>1. Spec => []Typed
  BY TypedInit, TypedStep, PTL DEF Spec
<1>2. Typed => TypeOK
  BY DEF Typed
<1>3. QED BY <1>1, <1>2, PTL

-----------------------------------------------------------------------------
(***************************************************************************)
(* At most one execution per approval.  The queue never counts executions: *)
(* what makes the second impossible is that a thread that holds a consumed *)
(* approval (its consume_approved committed and has not returned yet) is   *)
(* the only one, and that an approval, once staged as consumed, never      *)
(* becomes "approved" again, whichever thread finalizes it.                *)
(***************************************************************************)
Holds(t, a) == thread[t].op = "consume" /\ thread[t].approval = a

Spent(a) ==
  \/ approvals[a].status \in {"consumed", "purged"}
  \/ approvals[a].status = "audit_pending" /\ approvals[a].pending = "consumed"

HoldersAlone ==
  \A a \in Approvals :
    /\ \A t \in Threads : Holds(t, a) => Spent(a) /\ executed[a] = <<>>
    /\ \A t, u \in Threads : Holds(t, a) /\ Holds(u, a) => t = u

ExecutedOnce ==
  \A a \in Approvals : executed[a] = <<>> \/ (Len(executed[a]) = 1 /\ Spent(a))

VerifiersHold == \A t \in Threads : thread[t].pc \in {"get", "verify"} => thread[t].op = "consume"

OnceInv == HoldersAlone /\ ExecutedOnce /\ VerifiersHold

(* No step takes a consumed approval back.                                 *)
LEMMA SpentStable ==
  ASSUME Typed, [Next]_vars, NEW a \in Approvals, Spent(a)
  PROVE  Spent(a)'
<1>1. CASE UNCHANGED approvals
  BY <1>1 DEF Spent
<1>2. ASSUME NEW t \in Threads, NEW c \in Approvals, NEW e \in EventIds, NEW b \in Bindings,
             Submit(t, c, e, b)
      PROVE  Spent(a)'
  <2>1. a # c
    BY <1>2 DEF Submit, Spent
  <2>2. approvals'[a] = approvals[a]
    BY <1>2, <2>1 DEF Submit, Typed, TypeOK
  <2>3. QED BY <2>2 DEF Spent
<1>3. ASSUME NEW c \in Approvals, NEW e \in EventIds, NEW k \in Transitions,
             NEW n, StageExisting(c, e, k, n),
             approvals[c].status \in {"pending", "approved"}
      PROVE  Spent(a)'
  <2>1. a # c
    BY <1>3 DEF Spent
  <2>2. approvals'[a] = approvals[a]
    BY <1>3, <2>1 DEF StageExisting, Typed, TypeOK
  <2>3. QED BY <2>2 DEF Spent
<1>4. ASSUME NEW t \in Threads, FlushFinalize(t), ~UNCHANGED approvals PROVE Spent(a)'
  <2> DEFINE e == thread[t].event
             row == outbox[e]
  <2>1. /\ approvals' = [approvals EXCEPT ![row.approval] =
             [@ EXCEPT !.status = row.kind, !.pending = "none", !.event = NoEvent, !.last = e]]
        /\ row.state = "pending" /\ EventStateValid(e)
    BY <1>4 DEF FlushFinalize
  <2>2. e \in EventIds
    BY <1>4 DEF FlushFinalize, Typed, FlushingAnEvent
  <2>3. approvals[row.approval].status = "audit_pending" /\ approvals[row.approval].pending = row.kind
    BY <2>1 DEF EventStateValid
  <2>4. CASE a = row.approval
    <3>1. row.kind = "consumed"
      BY <2>3, <2>4 DEF Spent
    <3>2. approvals[a] \in ApprovalType
      BY DEF Typed, TypeOK
    <3>3. approvals'[a].status = "consumed"
      BY <2>1, <2>4, <3>1, <3>2 DEF Typed, TypeOK, ApprovalType
    <3>4. QED BY <3>3 DEF Spent
  <2>5. CASE a # row.approval
    <3>1. approvals'[a] = approvals[a]
      BY <2>1, <2>5 DEF Typed, TypeOK
    <3>2. QED BY <3>1 DEF Spent
  <2>6. QED BY <2>4, <2>5
<1>5. ASSUME NEW t \in Threads, PurgeExpired(t) PROVE Spent(a)'
  <2>1. approvals[a] \in ApprovalType
    BY DEF Typed, TypeOK
  <2>2. \/ approvals'[a] = approvals[a]
        \/ approvals'[a] = [approvals[a] EXCEPT !.status = "purged", !.nonce = NoNonce]
    BY <1>5 DEF PurgeExpired
  <2>3. approvals'[a] = approvals[a] \/ approvals'[a].status = "purged"
    BY <2>1, <2>2 DEF ApprovalType
  <2>4. QED BY <2>3 DEF Spent
<1>6. ASSUME NEW t \in Threads, Operate(t) PROVE Spent(a)'
  <2>1. {"approved", "denied", "consumed", "expired"} \subseteq Transitions
    BY DEF Transitions
  <2>2. QED BY <1>2, <1>3, <1>6, <2>1
    DEF Operate, Approve, Deny, Decide, DenyForSystemSafety, ConsumeApproved, ExpireApproved, Matching
<1>7. ASSUME NEW t \in Threads, Flush(t) PROVE Spent(a)'
  BY <1>1, <1>4, <1>7 DEF Flush, FlushRead, FlushRecord, FlushRecordFails, storage
<1>8. ASSUME NEW t \in Threads,
             GetConsumed(t) \/ VerifyAndExecute(t) \/ Reconcile(t) \/ PurgeSample(t) \/ Restart(t)
      PROVE Spent(a)'
  BY <1>1, <1>8 DEF GetConsumed, VerifyAndExecute, Reconcile, PurgeSample, Restart, storage
<1>9. CASE Tick \/ StepBack \/ Crash
  BY <1>1, <1>9 DEF Tick, StepBack, Crash, storage
<1>10. CASE UNCHANGED vars
  BY <1>1, <1>10 DEF vars, storage
<1>11. QED BY <1>5, <1>6, <1>7, <1>8, <1>9, <1>10 DEF Next

(* A step that lets no thread take hold of an approval and executes        *)
(* nothing preserves the invariant.                                        *)
LEMMA NoNewHolder ==
  ASSUME Typed, [Next]_vars, OnceInv, UNCHANGED executed,
         \A u \in Threads : thread'[u].op = "consume" =>
           thread[u].op = "consume" /\ thread'[u].approval = thread[u].approval,
         VerifiersHold'
  PROVE  OnceInv'
<1>1. HoldersAlone'
  BY SpentStable DEF OnceInv, HoldersAlone, Holds
<1>2. ExecutedOnce'
  BY SpentStable DEF OnceInv, ExecutedOnce
<1>3. QED BY <1>1, <1>2 DEF OnceInv

(* Replacing the record of one thread by one that holds nothing new.       *)
LEMMA QuietThread ==
  ASSUME Typed, [Next]_vars, OnceInv, UNCHANGED executed, NEW t \in Threads, NEW r,
         thread' = [thread EXCEPT ![t] = r],
         r.op = "consume" => thread[t].op = "consume" /\ r.approval = thread[t].approval,
         r.pc \in {"get", "verify"} => r.op = "consume"
  PROVE  OnceInv'
<1>1. \A u \in Threads : thread'[u] = IF u = t THEN r ELSE thread[u]
  BY DEF Typed, TypeOK
<1>2. \A u \in Threads : thread'[u].op = "consume" =>
         thread[u].op = "consume" /\ thread'[u].approval = thread[u].approval
  BY <1>1
<1>3. VerifiersHold'
  BY <1>1 DEF OnceInv, VerifiersHold
<1>4. QED BY <1>2, <1>3, NoNewHolder

LEMMA IdleHoldsNothing == Idle.op = "none" /\ Idle.pc = "idle"
BY DEF Idle

LEMMA RaiseQuiet ==
  ASSUME Typed, [Next]_vars, OnceInv, UNCHANGED executed, NEW t \in Threads, Raise(t)
  PROVE  OnceInv'
BY QuietThread, IdleHoldsNothing DEF Raise

LEMMA BeginFlushQuiet ==
  ASSUME Typed, [Next]_vars, OnceInv, UNCHANGED executed, NEW t \in Threads,
         NEW op \in Ops \ {"consume"}, NEW a, NEW e, NEW b, BeginFlush(t, op, a, e, b)
  PROVE  OnceInv'
<1> DEFINE r == [Idle EXCEPT !.pc = "read", !.op = op, !.event = e, !.approval = a, !.required = b]
<1>1. r.op = op /\ r.pc = "read"
  BY DEF Idle
<1>2. thread' = [thread EXCEPT ![t] = r]
  BY DEF BeginFlush
<1>. HIDE DEF r
<1>3. QED BY <1>1, <1>2, QuietThread

LEMMA BeginReconcileQuiet ==
  ASSUME Typed, [Next]_vars, OnceInv, UNCHANGED executed, NEW t \in Threads, BeginReconcile(t)
  PROVE  OnceInv'
<1>1. PICK e \in PendingEvents :
        thread' = [thread EXCEPT ![t] = [Idle EXCEPT !.pc = "read", !.op = "reconcile", !.event = e,
                                                     !.todo = PendingEvents \ {e}]]
  BY DEF BeginReconcile
<1> DEFINE r == [Idle EXCEPT !.pc = "read", !.op = "reconcile", !.event = e,
                             !.todo = PendingEvents \ {e}]
<1>2. r.op = "reconcile" /\ r.pc = "read"
  BY DEF Idle
<1>3. thread' = [thread EXCEPT ![t] = r]
  BY <1>1
<1>. HIDE DEF r
<1>4. QED BY <1>2, <1>3, QuietThread

LEMMA AfterFlushQuiet ==
  ASSUME Typed, [Next]_vars, OnceInv, UNCHANGED executed, NEW t \in Threads, AfterFlush(t)
  PROVE  OnceInv'
<1>0. thread[t] \in ThreadType
  BY DEF Typed, TypeOK
<1>1. CASE thread[t].op = "consume"
  <2> DEFINE r == [thread[t] EXCEPT !.pc = "get"]
  <2>1. r.op = "consume" /\ r.approval = thread[t].approval
    BY <1>0, <1>1 DEF ThreadType
  <2>2. thread' = [thread EXCEPT ![t] = r]
    BY <1>1 DEF AfterFlush
  <2>. HIDE DEF r
  <2>3. QED BY <1>1, <2>1, <2>2, QuietThread
<1>2. CASE thread[t].op # "consume" /\ thread[t].op = "reconcile" /\ thread[t].todo # {}
  <2>1. PICK e \in thread[t].todo :
          thread' = [thread EXCEPT ![t] = [thread[t] EXCEPT !.pc = "read", !.event = e,
                                               !.receipt = 0, !.todo = thread[t].todo \ {e}]]
    BY <1>2 DEF AfterFlush
  <2> DEFINE r == [thread[t] EXCEPT !.pc = "read", !.event = e, !.receipt = 0,
                                    !.todo = thread[t].todo \ {e}]
  <2>2. r.op = "reconcile" /\ r.pc = "read"
    BY <1>0, <1>2 DEF ThreadType
  <2>3. thread' = [thread EXCEPT ![t] = r]
    BY <2>1
  <2>. HIDE DEF r
  <2>4. QED BY <2>2, <2>3, QuietThread
<1>3. CASE thread[t].op # "consume" /\ ~(thread[t].op = "reconcile" /\ thread[t].todo # {})
  BY <1>3, QuietThread, IdleHoldsNothing DEF AfterFlush
<1>4. QED BY <1>1, <1>2, <1>3

LEMMA OnceInvStep == Typed /\ OnceInv /\ [Next]_vars => OnceInv'
<1>. SUFFICES ASSUME Typed, OnceInv, [Next]_vars PROVE OnceInv'
  OBVIOUS
<1>1. ASSUME NEW t \in Threads, NEW a \in Approvals, NEW e \in EventIds, NEW b \in Bindings,
             ConsumeApproved(t, a, e, b)
      PROVE  OnceInv'
  <2>1. ~Spent(a) /\ approvals[a].status = "approved"
    BY <1>1 DEF ConsumeApproved, Matching, Spent
  <2>2. executed[a] = <<>> /\ \A u \in Threads : ~Holds(u, a)
    BY <2>1 DEF OnceInv, HoldersAlone, ExecutedOnce
  <2> DEFINE r == [Idle EXCEPT !.pc = "read", !.op = "consume", !.event = e, !.approval = a,
                               !.required = b]
  <2>3. r.op = "consume" /\ r.approval = a /\ r.pc = "read"
    BY DEF Idle
  <2>4. thread' = [thread EXCEPT ![t] = r]
    BY <1>1 DEF ConsumeApproved, BeginFlush
  <2>. HIDE DEF r
  <2>5. \A u \in Threads : thread'[u] = IF u = t THEN r ELSE thread[u]
    BY <2>4 DEF Typed, TypeOK
  <2>6. UNCHANGED executed
    BY <1>1 DEF ConsumeApproved, history
  <2>7. Spent(a)'
    <3>1. approvals[a] \in ApprovalType
      BY DEF Typed, TypeOK
    <3>2. approvals'[a] = Staged(approvals[a], e, "consumed", NoProof)
      BY <1>1 DEF ConsumeApproved, StageExisting, Typed, TypeOK
    <3>3. approvals'[a].status = "audit_pending" /\ approvals'[a].pending = "consumed"
      BY <3>1, <3>2 DEF Staged, ApprovalType
    <3>4. QED BY <3>3 DEF Spent
  <2>8. HoldersAlone'
    <3>1. ASSUME NEW c \in Approvals, NEW u \in Threads, Holds(u, c)'
          PROVE  (u = t /\ c = a) \/ (u # t /\ c # a /\ Holds(u, c))
      BY <2>2, <2>3, <2>5, <3>1 DEF Holds
    <3>2. QED BY <2>2, <2>6, <2>7, <3>1, SpentStable DEF OnceInv, HoldersAlone
  <2>9. ExecutedOnce'
    BY <2>6, SpentStable DEF OnceInv, ExecutedOnce
  <2>10. VerifiersHold'
    BY <2>3, <2>5 DEF OnceInv, VerifiersHold
  <2>11. QED BY <2>8, <2>9, <2>10 DEF OnceInv
<1>2. ASSUME NEW t \in Threads, Operate(t), UNCHANGED executed,
             NEW op \in {"submit", "decide", "expire"}, NEW a, NEW e, NEW b, BeginFlush(t, op, a, e, b)
      PROVE  OnceInv'
  <2>1. op \in Ops \ {"consume"}
    BY DEF Ops
  <2>2. QED BY <1>2, <2>1, BeginFlushQuiet
<1>3. ASSUME NEW t \in Threads, Operate(t) PROVE OnceInv'
  <2>1. \/ \E a \in Approvals, e \in EventIds, b \in Bindings : ConsumeApproved(t, a, e, b)
        \/ /\ UNCHANGED executed
           /\ \E op \in {"submit", "decide", "expire"}, a \in Approvals, e \in EventIds,
                b \in Bindings \cup {NoBinding} : BeginFlush(t, op, a, e, b)
    <3>1. ASSUME NEW a \in Approvals, NEW e \in EventIds, NEW o \in Operators, NEW v \in Verifications,
                 Approve(t, a, e, o, v) \/ Deny(t, a, e, o, v)
          PROVE  UNCHANGED executed /\ BeginFlush(t, "decide", a, e, NoBinding)
      BY <3>1 DEF Approve, Deny, Decide
    <3>2. ASSUME NEW a \in Approvals, NEW e \in EventIds, NEW o \in Operators,
                 DenyForSystemSafety(t, a, e, o)
          PROVE  UNCHANGED executed /\ BeginFlush(t, "decide", a, e, NoBinding)
      BY <3>2 DEF DenyForSystemSafety, history
    <3>3. ASSUME NEW a \in Approvals, NEW e \in EventIds, NEW b \in Bindings,
                 Submit(t, a, e, b)
          PROVE  UNCHANGED executed /\ BeginFlush(t, "submit", a, e, NoBinding)
      BY <3>3 DEF Submit, history
    <3>4. ASSUME NEW a \in Approvals, NEW e \in EventIds, NEW b \in Bindings,
                 ExpireApproved(t, a, e, b)
          PROVE  UNCHANGED executed /\ BeginFlush(t, "expire", a, e, b)
      BY <3>4 DEF ExpireApproved, history
    <3>5. QED BY <1>3, <3>1, <3>2, <3>3, <3>4 DEF Operate
  <2>2. QED BY <1>1, <1>2, <1>3, <2>1
<1>4. ASSUME NEW t \in Threads, FlushRead(t) \/ FlushRecord(t) PROVE OnceInv'
  <2>1. UNCHANGED executed
    BY <1>4 DEF FlushRead, FlushRecord, history
  <2>2. CASE Raise(t)
    BY <2>1, <2>2, RaiseQuiet
  <2>3. CASE ~Raise(t)
    <3>1. thread[t] \in ThreadType
      BY DEF Typed, TypeOK
    <3>2. PICK p \in {"record", "finalize"} :
            \E i : thread' = [thread EXCEPT ![t] = [thread[t] EXCEPT !.pc = p, !.receipt = i]]
      BY <1>4, <2>3 DEF FlushRead, FlushRecord
    <3>3. PICK i : thread' = [thread EXCEPT ![t] = [thread[t] EXCEPT !.pc = p, !.receipt = i]]
      BY <3>2
    <3> DEFINE r == [thread[t] EXCEPT !.pc = p, !.receipt = i]
    <3>4. r.op = thread[t].op /\ r.approval = thread[t].approval /\ r.pc = p
      BY <3>1 DEF ThreadType
    <3>5. thread' = [thread EXCEPT ![t] = r]
      BY <3>3
    <3>. HIDE DEF r
    <3>6. QED BY <2>1, <3>4, <3>5, QuietThread
  <2>4. QED BY <2>2, <2>3
<1>5. ASSUME NEW t \in Threads, FlushRecordFails(t) \/ FlushFinalize(t) PROVE OnceInv'
  <2>1. UNCHANGED executed /\ (Raise(t) \/ AfterFlush(t))
    BY <1>5 DEF FlushRecordFails, FlushFinalize, history
  <2>2. QED BY <2>1, RaiseQuiet, AfterFlushQuiet
<1>6. ASSUME NEW t \in Threads, GetConsumed(t) PROVE OnceInv'
  <2>1. thread[t] \in ThreadType /\ thread[t].op = "consume"
    BY <1>6 DEF GetConsumed, Typed, TypeOK, OnceInv, VerifiersHold
  <2> DEFINE r == IF approvals[thread[t].approval].status = "consumed"
                  THEN [thread[t] EXCEPT !.pc = "verify"] ELSE Idle
  <2>2. r = Idle \/ (r.op = "consume" /\ r.approval = thread[t].approval)
    BY <2>1 DEF ThreadType
  <2>3. thread' = [thread EXCEPT ![t] = r] /\ UNCHANGED executed
    BY <1>6 DEF GetConsumed, history
  <2>. HIDE DEF r
  <2>4. QED BY <2>1, <2>2, <2>3, QuietThread, IdleHoldsNothing
<1>7. ASSUME NEW t \in Threads, VerifyAndExecute(t) PROVE OnceInv'
  <2> DEFINE a == thread[t].approval
  <2>1. thread[t].op = "consume"
    BY <1>7 DEF VerifyAndExecute, OnceInv, VerifiersHold
  <2>2. \A u \in Threads : thread'[u] = IF u = t THEN Idle ELSE thread[u]
    BY <1>7 DEF VerifyAndExecute, Typed, TypeOK
  <2>3. VerifiersHold'
    BY <2>2, IdleHoldsNothing DEF OnceInv, VerifiersHold
  <2>4. \A c \in Approvals : executed'[c] = executed[c] \/
          (c = a /\ executed'[c] = Append(executed[c], thread[t].required))
    BY <1>7 DEF VerifyAndExecute, Typed, TypeOK
  <2>5. \A c \in Approvals : c = a => Spent(c) /\ executed[c] = <<>>
    BY <2>1 DEF OnceInv, HoldersAlone, Holds
  <2>6. \A u \in Threads, c \in Approvals : Holds(u, c)' => u # t /\ c # a /\ Holds(u, c)
    BY <2>1, <2>2, IdleHoldsNothing DEF OnceInv, HoldersAlone, Holds
  <2>7. HoldersAlone'
    BY <2>4, <2>6, SpentStable DEF OnceInv, HoldersAlone
  <2>8. ExecutedOnce'
    <3>1. Len(Append(<<>>, thread[t].required)) = 1
      OBVIOUS
    <3>2. QED BY <2>4, <2>5, <3>1, SpentStable DEF OnceInv, ExecutedOnce
  <2>9. QED BY <2>3, <2>7, <2>8 DEF OnceInv
<1>8. ASSUME NEW t \in Threads, Reconcile(t) PROVE OnceInv'
  BY <1>8, BeginReconcileQuiet DEF Reconcile, history
<1>9. ASSUME NEW t \in Threads, PurgeSample(t) \/ PurgeExpired(t) PROVE OnceInv'
  <2>1. PICK r : /\ thread' = [thread EXCEPT ![t] = r]
                 /\ r = Idle \/ r = [Idle EXCEPT !.pc = "purge", !.op = "purge", !.now = clock]
    BY <1>9 DEF PurgeSample, PurgeExpired
  <2>2. r.op # "consume" /\ r.pc \notin {"get", "verify"}
    <3>1. LET q == [Idle EXCEPT !.pc = "purge", !.op = "purge", !.now = clock]
          IN  q.op = "purge" /\ q.pc = "purge"
      BY DEF Idle
    <3>2. QED BY <2>1, <3>1, IdleHoldsNothing
  <2>3. UNCHANGED executed
    BY <1>9 DEF PurgeSample, PurgeExpired, history
  <2>4. QED BY <2>1, <2>2, <2>3, QuietThread
<1>10. ASSUME NEW t \in Threads, Restart(t) PROVE OnceInv'
  <2>1. UNCHANGED executed /\ (UNCHANGED thread \/ BeginReconcile(t))
    BY <1>10 DEF Restart, history
  <2>2. CASE UNCHANGED thread
    BY <2>1, <2>2, NoNewHolder DEF OnceInv, VerifiersHold
  <2>3. QED BY <2>1, <2>2, BeginReconcileQuiet
<1>11. CASE Crash
  <2>1. \A u \in Threads : thread'[u] = Idle
    BY <1>11 DEF Crash
  <2>2. UNCHANGED executed
    BY <1>11 DEF Crash, history
  <2>3. VerifiersHold'
    BY <2>1, IdleHoldsNothing DEF VerifiersHold
  <2>4. QED BY <2>1, <2>2, <2>3, IdleHoldsNothing, NoNewHolder
<1>12. CASE Tick \/ StepBack \/ UNCHANGED vars
  <2>1. UNCHANGED <<executed, thread>>
    BY <1>12 DEF Tick, StepBack, vars, history
  <2>2. QED BY <2>1, NoNewHolder DEF OnceInv, VerifiersHold
<1>13. QED BY <1>3, <1>4, <1>5, <1>6, <1>7, <1>8, <1>9, <1>10, <1>11, <1>12 DEF Next, Flush

LEMMA OnceInvInit == Init => OnceInv
BY IdleHoldsNothing DEF Init, OnceInv, HoldersAlone, ExecutedOnce, VerifiersHold, Holds

(* One approval authorizes at most one execution: however many threads     *)
(* call consume_approved, whatever reconcile() finalizes for them, and     *)
(* wherever the process crashes and restarts.                              *)
THEOREM ExecutedAtMostOnce == Spec => []AtMostOnceExecution
<1>1. Spec => [](Typed /\ OnceInv)
  BY TypedInit, TypedStep, OnceInvInit, OnceInvStep, PTL DEF Spec
<1>2. Typed /\ OnceInv => AtMostOnceExecution
  <2>. SUFFICES ASSUME Typed, OnceInv, NEW a \in Approvals PROVE Len(executed[a]) <= 1
    BY Zenon DEF AtMostOnceExecution
  <2>1. executed[a] = <<>> \/ Len(executed[a]) = 1
    BY DEF OnceInv, ExecutedOnce
  <2>2. executed[a] \in Seq(AnyBinding)
    BY DEF Typed, TypeOK
  <2>3. CASE executed[a] = <<>>
    BY <2>3
  <2>4. CASE Len(executed[a]) = 1
    BY <2>4
  <2>5. QED BY <2>1, <2>3, <2>4
<1>3. QED BY <1>1, <1>2, PTL

-----------------------------------------------------------------------------
(***************************************************************************)
(* The tables.  Whatever the threads do, rows move in four ways: a         *)
(* transition is staged, its event is finalized, old rows are purged, or   *)
(* nothing is written.  Each move is stated by the fields it changes, and  *)
(* the invariants below are proved per move.                               *)
(***************************************************************************)

(* A row for a new event.                                                  *)
Inserted(a, e, kind) ==
  /\ outbox[e].state = "absent"
  /\ outbox'[e].state = "pending" /\ outbox'[e].approval = a /\ outbox'[e].kind = kind
  /\ outbox'[e].at = clock /\ outbox'[e].receipt = 0 /\ outbox'[e].delivered = NoTime
  /\ \A f \in EventIds \ {e} : outbox'[f] = outbox[f]

SameContent(a) ==
  /\ approvals'[a].binding = approvals[a].binding /\ approvals'[a].operator = approvals[a].operator
  /\ approvals'[a].proof = approvals[a].proof /\ approvals'[a].decided = approvals[a].decided

(* The states an approval is staged from.                                  *)
StagedFrom(a, kind) ==
  \/ /\ approvals[a].status = "absent" /\ kind = "pending"
     /\ approvals'[a].nonce = NoNonce
  \/ /\ approvals[a].status = "pending" /\ kind \in {"approved", "denied"}
     /\ approvals'[a].decided = clock /\ approvals'[a].binding = approvals[a].binding
     /\ approvals'[a].nonce = NoNonce \/ NonceUnused(approvals'[a].nonce)
  \/ /\ approvals[a].status = "approved" /\ kind \in {"consumed", "expired"}
     /\ approvals'[a].nonce = approvals[a].nonce
     /\ SameContent(a)
     /\ kind = "consumed" => approvals[a].decided <= clock /\ clock < approvals[a].decided + Ttl

StageMove(a, e, kind) ==
  /\ Inserted(a, e, kind)
  /\ StagedFrom(a, kind)
  /\ approvals'[a].status = "audit_pending" /\ approvals'[a].pending = kind /\ approvals'[a].event = e
  /\ \A c \in Approvals \ {a} : approvals'[c] = approvals[c]

FinalMove(a, e, i) ==
  /\ outbox[e].state = "pending" /\ outbox[e].approval = a
  /\ approvals[a].status = "audit_pending" /\ approvals[a].pending = outbox[e].kind /\ approvals[a].event = e
  /\ approvals'[a].status = outbox[e].kind /\ approvals'[a].pending = "none"
  /\ approvals'[a].event = NoEvent /\ approvals'[a].last = e
  /\ approvals'[a].nonce = approvals[a].nonce /\ SameContent(a)
  /\ \A c \in Approvals \ {a} : approvals'[c] = approvals[c]
  /\ outbox'[e].state = "delivered" /\ outbox'[e].receipt = i /\ outbox'[e].delivered = clock
  /\ outbox'[e].approval = a /\ outbox'[e].kind = outbox[e].kind /\ outbox'[e].at = outbox[e].at
  /\ \A f \in EventIds \ {e} : outbox'[f] = outbox[f]

PurgedApproval(a) ==
  /\ approvals'[a].status = "purged" /\ approvals'[a].nonce = NoNonce
  /\ approvals'[a].pending = approvals[a].pending /\ approvals'[a].event = approvals[a].event
  /\ approvals'[a].last = approvals[a].last /\ SameContent(a)

PurgedEvent(e) ==
  /\ outbox'[e].state = "purged"
  /\ outbox'[e].approval = outbox[e].approval /\ outbox'[e].kind = outbox[e].kind
  /\ outbox'[e].at = outbox[e].at /\ outbox'[e].receipt = outbox[e].receipt
  /\ outbox'[e].delivered = outbox[e].delivered

PurgeMove(old) ==
  /\ \A a \in old : approvals[a].status \in Terminal /\ PurgedApproval(a)
  /\ \A a \in Approvals \ old : approvals'[a] = approvals[a]
  /\ \A e \in EventIds : IF outbox[e].approval \in old
                         THEN outbox[e].state = "delivered" /\ PurgedEvent(e)
                         ELSE outbox'[e] = outbox[e]

RowMoves ==
  \/ UNCHANGED <<approvals, outbox>>
  \/ \E a \in Approvals, e \in EventIds, kind \in Transitions : StageMove(a, e, kind)
  \/ \E t \in Threads : /\ thread[t].pc = "finalize" /\ outbox[thread[t].event].approval \in Approvals
                        /\ FinalMove(outbox[thread[t].event].approval, thread[t].event, thread[t].receipt)
  \/ \E old \in SUBSET Approvals : PurgeMove(old)

LEMMA InsertedRow ==
  ASSUME Typed, NEW a \in Approvals, NEW e \in EventIds, NEW kind, InsertOutbox(a, e, kind)
  PROVE  Inserted(a, e, kind)
<1> DEFINE r == [AbsentEvent EXCEPT !.state = "pending", !.approval = a, !.kind = kind, !.at = clock]
<1>1. /\ r.state = "pending" /\ r.approval = a /\ r.kind = kind /\ r.at = clock /\ r.receipt = 0
      /\ r.delivered = NoTime
  BY DEF AbsentEvent
<1>2. outbox[e].state = "absent" /\ outbox' = [outbox EXCEPT ![e] = r]
  BY DEF InsertOutbox
<1> HIDE DEF r
<1> QED BY <1>1, <1>2 DEF Inserted, Typed, TypeOK

(* _stage_existing, from one of the states its callers admit.              *)
LEMMA StageExistingMove ==
  ASSUME Typed, NEW a \in Approvals, NEW e \in EventIds, NEW kind \in Transitions,
         NEW proof \in Envelopes \cup {NoProof}, StageExisting(a, e, kind, proof),
         \/ /\ approvals[a].status = "pending" /\ kind \in {"approved", "denied"} /\ proof # NoProof
            /\ proof.nonce = NoNonce \/ NonceUnused(proof.nonce)
         \/ /\ approvals[a].status = "approved" /\ kind \in {"consumed", "expired"} /\ proof = NoProof
            /\ kind = "consumed" => approvals[a].decided <= clock /\ clock < approvals[a].decided + Ttl
  PROVE  StageMove(a, e, kind)
<1>1. Inserted(a, e, kind)
  BY InsertedRow DEF StageExisting
<1>2. approvals[a] \in ApprovalType
  BY DEF Typed, TypeOK
<1> DEFINE r == Staged(approvals[a], e, kind, proof)
<1>3. /\ r.status = "audit_pending" /\ r.pending = kind /\ r.event = e
      /\ r.binding = approvals[a].binding
      /\ r.operator = (IF proof = NoProof THEN approvals[a].operator ELSE proof.operator)
      /\ r.proof = (IF proof = NoProof THEN approvals[a].proof ELSE proof)
      /\ r.nonce = (IF proof = NoProof THEN approvals[a].nonce ELSE proof.nonce)
      /\ r.decided = (IF kind \in {"approved", "denied"} THEN clock ELSE approvals[a].decided)
  BY <1>2 DEF Staged, ApprovalType
<1>4. approvals' = [approvals EXCEPT ![a] = r]
  BY DEF StageExisting
<1> HIDE DEF r
<1>5. approvals'[a] = r /\ \A c \in Approvals \ {a} : approvals'[c] = approvals[c]
  BY <1>4 DEF Typed, TypeOK
<1>6. StagedFrom(a, kind)
  BY <1>3, <1>5 DEF StagedFrom, SameContent
<1> QED BY <1>1, <1>3, <1>5, <1>6 DEF StageMove

LEMMA SubmitMove ==
  ASSUME Typed, NEW t \in Threads, NEW a \in Approvals, NEW e \in EventIds, NEW b \in Bindings,
         Submit(t, a, e, b)
  PROVE  StageMove(a, e, "pending")
<1> DEFINE r == [AbsentApproval EXCEPT !.status = "audit_pending", !.pending = "pending",
                                       !.event = e, !.binding = b]
<1>1. r.status = "audit_pending" /\ r.pending = "pending" /\ r.event = e /\ r.nonce = NoNonce
  BY DEF AbsentApproval
<1>2. approvals' = [approvals EXCEPT ![a] = r] /\ approvals[a].status = "absent"
  BY DEF Submit
<1> HIDE DEF r
<1>3. Inserted(a, e, "pending")
  BY InsertedRow DEF Submit
<1>4. approvals'[a] = r /\ \A c \in Approvals \ {a} : approvals'[c] = approvals[c]
  BY <1>2 DEF Typed, TypeOK
<1> QED BY <1>1, <1>2, <1>3, <1>4 DEF StageMove, StagedFrom

LEMMA DecideMove ==
  ASSUME Typed, NEW t \in Threads, NEW a \in Approvals, NEW e \in EventIds, NEW d \in {"approved", "denied"},
         NEW o \in Operators, NEW v \in Verifications, Decide(t, a, e, d, o, v)
  PROVE  StageMove(a, e, d)
<1> DEFINE p == Envelope(a, d, o, v.nonce)
<1>1. p.nonce = v.nonce /\ v.nonce \in Nonces /\ p \in Envelopes
  BY EnvelopeTyped DEF Envelope, Verifications
<1>2. StageExisting(a, e, d, p) /\ NonceUnused(v.nonce) /\ approvals[a].status = "pending"
  BY DEF Decide
<1>3. p # NoProof
  BY <1>1, NoProofApart
<1> HIDE DEF p
<1> QED BY <1>1, <1>2, <1>3, StageExistingMove DEF Transitions

LEMMA SafetyMove ==
  ASSUME Typed, NEW t \in Threads, NEW a \in Approvals, NEW e \in EventIds, NEW o \in Operators,
         DenyForSystemSafety(t, a, e, o)
  PROVE  StageMove(a, e, "denied")
<1> DEFINE p == Envelope(a, "denied", o, NoNonce)
<1>1. p.nonce = NoNonce /\ p \in Envelopes
  BY EnvelopeTyped DEF Envelope
<1>2. StageExisting(a, e, "denied", p) /\ approvals[a].status = "pending"
  BY DEF DenyForSystemSafety
<1>3. p # NoProof
  BY <1>1, NoProofApart
<1> HIDE DEF p
<1> QED BY <1>1, <1>2, <1>3, StageExistingMove DEF Transitions

LEMMA ConsumeMove ==
  ASSUME Typed, NEW t \in Threads, NEW a \in Approvals, NEW e \in EventIds, NEW b \in Bindings,
         ConsumeApproved(t, a, e, b)
  PROVE  StageMove(a, e, "consumed")
<1>1. approvals[a].decided \in Int /\ clock \in Int
  BY DEF Typed, TypeOK, ApprovalType, Times, Time, NoTime
<1>2. /\ approvals[a].status = "approved" /\ StageExisting(a, e, "consumed", NoProof)
      /\ approvals[a].decided <= clock /\ clock < approvals[a].decided + Ttl
  BY <1>1, ApprovalConstants DEF ConsumeApproved, Matching, Expired
<1> QED BY <1>2, StageExistingMove DEF Transitions

LEMMA ExpireMove ==
  ASSUME Typed, NEW t \in Threads, NEW a \in Approvals, NEW e \in EventIds, NEW b \in Bindings,
         ExpireApproved(t, a, e, b)
  PROVE  StageMove(a, e, "expired")
<1>1. approvals[a].status = "approved" /\ StageExisting(a, e, "expired", NoProof)
  BY DEF ExpireApproved, Matching
<1> QED BY <1>1, StageExistingMove DEF Transitions

LEMMA OperateMoves ==
  ASSUME Typed, NEW t \in Threads, Operate(t)
  PROVE  \E a \in Approvals, e \in EventIds, kind \in Transitions : StageMove(a, e, kind)
BY SubmitMove, DecideMove, SafetyMove, ConsumeMove, ExpireMove DEF Operate, Approve, Deny, Transitions

LEMMA FinalizeMoves ==
  ASSUME Typed, NEW t \in Threads, FlushFinalize(t), ~UNCHANGED <<approvals, outbox>>
  PROVE  /\ thread[t].pc = "finalize" /\ outbox[thread[t].event].approval \in Approvals
         /\ FinalMove(outbox[thread[t].event].approval, thread[t].event, thread[t].receipt)
<1> DEFINE e == thread[t].event
           row == outbox[e]
           a == row.approval
           i == thread[t].receipt
           r == [approvals[a] EXCEPT !.status = row.kind, !.pending = "none", !.event = NoEvent, !.last = e]
           s == [row EXCEPT !.state = "delivered", !.receipt = i, !.delivered = clock]
<1>1. /\ thread[t].pc = "finalize" /\ EventStateValid(e) /\ row.state = "pending"
      /\ approvals' = [approvals EXCEPT ![a] = r] /\ outbox' = [outbox EXCEPT ![e] = s]
  BY DEF FlushFinalize
<1>2. e \in EventIds
  BY <1>1 DEF Typed, FlushingAnEvent
<1>3. row \in EventType /\ a \in Approvals
  BY <1>1, <1>2 DEF Typed, TypeOK, PendingRowsNamed
<1>4. approvals[a] \in ApprovalType
  BY <1>3 DEF Typed, TypeOK
<1>5. /\ r.status = row.kind /\ r.pending = "none" /\ r.event = NoEvent /\ r.last = e
      /\ r.nonce = approvals[a].nonce /\ r.binding = approvals[a].binding
      /\ r.operator = approvals[a].operator /\ r.proof = approvals[a].proof
      /\ r.decided = approvals[a].decided
  BY <1>4 DEF ApprovalType
<1>6. /\ s.state = "delivered" /\ s.receipt = i /\ s.delivered = clock /\ s.approval = a
      /\ s.kind = row.kind /\ s.at = row.at
  BY <1>3 DEF EventType
<1>7. approvals[a].status = "audit_pending" /\ approvals[a].pending = row.kind /\ approvals[a].event = e
  BY <1>1 DEF EventStateValid
<1> HIDE DEF r, s
<1>8. approvals'[a] = r /\ \A c \in Approvals \ {a} : approvals'[c] = approvals[c]
  BY <1>1, <1>3 DEF Typed, TypeOK
<1>9. outbox'[e] = s /\ \A f \in EventIds \ {e} : outbox'[f] = outbox[f]
  BY <1>1, <1>2 DEF Typed, TypeOK
<1> QED BY <1>1, <1>3, <1>5, <1>6, <1>7, <1>8, <1>9 DEF FinalMove, SameContent

LEMMA PurgeMoves ==
  ASSUME Typed, NEW t \in Threads, PurgeExpired(t)
  PROVE  \E old \in SUBSET Approvals : PurgeMove(old)
<1> DEFINE old == {a \in Approvals : Purgeable(a, thread[t].now)}
           r(a) == [approvals[a] EXCEPT !.status = "purged", !.nonce = NoNonce]
           s(e) == [outbox[e] EXCEPT !.state = "purged"]
<1>1. \A a \in Approvals : approvals'[a] = (IF a \in old THEN r(a) ELSE approvals[a])
  BY DEF PurgeExpired
<1>2. \A e \in EventIds : outbox'[e] = (IF outbox[e].approval \in old THEN s(e) ELSE outbox[e])
  BY DEF PurgeExpired
<1>3. ASSUME NEW a \in Approvals
      PROVE  /\ r(a).status = "purged" /\ r(a).nonce = NoNonce /\ r(a).pending = approvals[a].pending
             /\ r(a).event = approvals[a].event /\ r(a).binding = approvals[a].binding
             /\ r(a).operator = approvals[a].operator /\ r(a).proof = approvals[a].proof
             /\ r(a).decided = approvals[a].decided /\ r(a).last = approvals[a].last
  <2>1. approvals[a] \in ApprovalType
    BY DEF Typed, TypeOK
  <2> QED BY <2>1 DEF ApprovalType
<1>4. ASSUME NEW e \in EventIds
      PROVE  /\ s(e).state = "purged" /\ s(e).approval = outbox[e].approval /\ s(e).kind = outbox[e].kind
             /\ s(e).at = outbox[e].at /\ s(e).receipt = outbox[e].receipt
             /\ s(e).delivered = outbox[e].delivered
  <2>1. outbox[e] \in EventType
    BY DEF Typed, TypeOK
  <2> QED BY <2>1 DEF EventType
<1>5. \A a \in old : approvals[a].status \in Terminal /\ a \in Approvals
  BY DEF Purgeable
<1>6. \A e \in EventIds : outbox[e].approval \in old => outbox[e].state = "delivered"
  BY DEF Purgeable
<1> HIDE DEF old, r, s
<1>7. \A a \in old : PurgedApproval(a)
  BY <1>1, <1>3, <1>5 DEF PurgedApproval, SameContent
<1>8. \A e \in EventIds : outbox[e].approval \in old => PurgedEvent(e)
  BY <1>2, <1>4 DEF PurgedEvent
<1>9. PurgeMove(old)
  BY <1>1, <1>2, <1>5, <1>6, <1>7, <1>8 DEF PurgeMove
<1> QED BY <1>5, <1>9

LEMMA RowsNext ==
  ASSUME Typed, [Next]_vars
  PROVE  RowMoves
<1>1. CASE UNCHANGED <<approvals, outbox>>
  BY <1>1 DEF RowMoves
<1>2. ASSUME NEW t \in Threads, Operate(t) PROVE RowMoves
  BY <1>2, OperateMoves DEF RowMoves
<1>3. ASSUME NEW t \in Threads, FlushFinalize(t) PROVE RowMoves
  BY <1>1, <1>3, FinalizeMoves DEF RowMoves
<1>4. ASSUME NEW t \in Threads, PurgeExpired(t) PROVE RowMoves
  BY <1>4, PurgeMoves DEF RowMoves
<1>5. ASSUME NEW t \in Threads,
             \/ FlushRead(t) \/ FlushRecord(t) \/ FlushRecordFails(t) \/ GetConsumed(t)
             \/ VerifyAndExecute(t) \/ Reconcile(t) \/ PurgeSample(t) \/ Restart(t)
      PROVE RowMoves
  BY <1>1, <1>5 DEF FlushRead, FlushRecord, FlushRecordFails, GetConsumed, VerifyAndExecute, Reconcile,
                    PurgeSample, Restart, storage
<1>6. CASE Tick \/ StepBack \/ Crash \/ UNCHANGED vars
  BY <1>1, <1>6 DEF Tick, StepBack, Crash, vars, storage
<1> QED BY <1>2, <1>3, <1>4, <1>5, <1>6 DEF Next, Flush

-----------------------------------------------------------------------------
(* The ledger and the threads move as follows.                             *)

InLedger(e, i) == i \in 1..Len(ledger) /\ ledger[i] = e

LedgerMoves ==
  \/ UNCHANGED ledger
  \/ \E t \in Threads : /\ thread[t].pc = "record" /\ ~Recorded(thread[t].event)
                        /\ ledger' = Append(ledger, thread[t].event)
                        /\ UNCHANGED <<approvals, outbox>>

Continues(t) ==
  /\ thread'[t].event = thread[t].event /\ thread'[t].op = thread[t].op
  /\ thread'[t].todo = thread[t].todo

ThreadMoves(t) ==
  \/ thread'[t] = thread[t]
  \/ thread'[t].pc = "idle" /\ thread'[t].todo = {}
  \/ thread'[t].pc = "purge" /\ thread'[t].todo = {} /\ thread'[t].now = clock /\ UNCHANGED clock
  \/ /\ thread'[t].pc = "read" /\ thread'[t].todo = {} /\ CanCall(t)
     /\ outbox'[thread'[t].event].state # "absent"
  \/ /\ thread'[t].pc = "read" /\ thread'[t].op = "reconcile" /\ UNCHANGED outbox
     /\ thread'[t].event \in PendingEvents
     /\ thread'[t].todo = PendingEvents \ {thread'[t].event}
  \/ /\ thread'[t].pc = "read" /\ thread[t].op = "reconcile" /\ thread'[t].op = "reconcile"
     /\ thread[t].pc = "finalize" /\ thread'[t].event \in thread[t].todo
     /\ thread'[t].todo = thread[t].todo \ {thread'[t].event}
  \/ thread[t].pc = "read" /\ thread'[t].pc = "record" /\ Continues(t)
  \/ /\ thread[t].pc = "read" /\ thread'[t].pc = "finalize" /\ Continues(t)
     /\ outbox[thread[t].event].state = "delivered"
     /\ thread'[t].receipt = outbox[thread[t].event].receipt
  \/ /\ thread[t].pc = "record" /\ thread'[t].pc = "finalize" /\ Continues(t)
     /\ thread'[t].receipt \in 1..Len(ledger') /\ ledger'[thread'[t].receipt] = thread[t].event
  \/ thread'[t].pc \in {"get", "verify"} /\ Continues(t) /\ thread[t].op = "consume"

LEMMA OperateQuiet ==
  ASSUME NEW t \in Threads, Operate(t)
  PROVE  UNCHANGED <<ledger, clock, mode, faults, executed, horizon>>
<1>1. ASSUME NEW a, NEW e, NEW b, Submit(t, a, e, b)
      PROVE  UNCHANGED <<ledger, clock, mode, faults, executed, horizon>>
  BY <1>1 DEF Submit, history
<1>2. ASSUME NEW a, NEW e, NEW o, NEW v, Approve(t, a, e, o, v) \/ Deny(t, a, e, o, v)
      PROVE  UNCHANGED <<ledger, clock, mode, faults, executed, horizon>>
  BY <1>2 DEF Approve, Deny, Decide
<1>3. ASSUME NEW a, NEW e, NEW o, DenyForSystemSafety(t, a, e, o)
      PROVE  UNCHANGED <<ledger, clock, mode, faults, executed, horizon>>
  BY <1>3 DEF DenyForSystemSafety, history
<1>4. ASSUME NEW a, NEW e, NEW b, ConsumeApproved(t, a, e, b) \/ ExpireApproved(t, a, e, b)
      PROVE  UNCHANGED <<ledger, clock, mode, faults, executed, horizon>>
  BY <1>4 DEF ConsumeApproved, ExpireApproved, history
<1> QED BY <1>1, <1>2, <1>3, <1>4 DEF Operate

LEMMA LedgerNext ==
  ASSUME Typed, [Next]_vars
  PROVE  LedgerMoves
<1>1. CASE UNCHANGED ledger
  BY <1>1 DEF LedgerMoves
<1>2. ASSUME NEW t \in Threads, FlushRecord(t) PROVE LedgerMoves
  BY <1>2 DEF LedgerMoves, FlushRecord, storage
<1>3. ASSUME NEW t \in Threads, Operate(t) PROVE LedgerMoves
  BY <1>1, <1>3, OperateQuiet
<1>4. ASSUME NEW t \in Threads,
             \/ FlushRead(t) \/ FlushRecordFails(t) \/ FlushFinalize(t) \/ GetConsumed(t)
             \/ VerifyAndExecute(t) \/ Reconcile(t) \/ PurgeSample(t) \/ PurgeExpired(t) \/ Restart(t)
      PROVE LedgerMoves
  BY <1>1, <1>4 DEF FlushRead, FlushRecordFails, FlushFinalize, GetConsumed, VerifyAndExecute, Reconcile,
                    PurgeSample, PurgeExpired, Restart
<1>5. CASE Tick \/ StepBack \/ Crash \/ UNCHANGED vars
  BY <1>1, <1>5 DEF Tick, StepBack, Crash, vars
<1> QED BY <1>2, <1>3, <1>4, <1>5 DEF Next, Flush

(* Entries stay where they are.                                            *)
LEMMA InLedgerStable ==
  ASSUME Typed, [Next]_vars, NEW e, NEW i, InLedger(e, i)
  PROVE  InLedger(e, i)'
<1>1. CASE UNCHANGED ledger
  BY <1>1 DEF InLedger
<1>2. ASSUME NEW f \in EventIds, ledger' = Append(ledger, f) PROVE InLedger(e, i)'
  <2>1. ledger \in Seq(EventIds)
    BY DEF Typed, TypeOK
  <2>2. Len(ledger') = Len(ledger) + 1 /\ \A j \in 1..Len(ledger) : ledger'[j] = ledger[j]
    BY <1>2, <2>1
  <2>3. Len(ledger) \in Nat
    BY <2>1
  <2> QED BY <2>2, <2>3 DEF InLedger
<1>3. \A t \in Threads : thread[t].pc = "record" => thread[t].event \in EventIds
  BY DEF Typed, FlushingAnEvent
<1> QED BY <1>1, <1>2, <1>3, LedgerNext DEF LedgerMoves

LEMMA OneThread ==
  ASSUME Typed, NEW t \in Threads, NEW r, thread' = [thread EXCEPT ![t] = r], NEW u \in Threads
  PROVE  thread'[t] = r /\ (u # t => ThreadMoves(u))
<1>1. thread'[t] = r /\ (u # t => thread'[u] = thread[u])
  BY DEF Typed, TypeOK
<1> QED BY <1>1 DEF ThreadMoves

LEMMA IdleMoves ==
  ASSUME Typed, NEW t \in Threads, thread' = [thread EXCEPT ![t] = Idle], NEW u \in Threads
  PROVE  ThreadMoves(u)
<1>1. Idle.pc = "idle" /\ Idle.todo = {}
  BY DEF Idle
<1> QED BY <1>1, OneThread DEF ThreadMoves

LEMMA OperateThreads ==
  ASSUME Typed, NEW t \in Threads, Operate(t), NEW u \in Threads
  PROVE  ThreadMoves(u)
<1>1. ASSUME NEW a, NEW e \in EventIds, NEW b, NEW op, BeginFlush(t, op, a, e, b), CanCall(t),
             outbox'[e].state # "absent"
      PROVE  ThreadMoves(u)
  <2> DEFINE r == [Idle EXCEPT !.pc = "read", !.op = op, !.event = e, !.approval = a, !.required = b]
  <2>1. r.pc = "read" /\ r.todo = {} /\ r.event = e
    BY DEF Idle
  <2>2. thread' = [thread EXCEPT ![t] = r]
    BY <1>1 DEF BeginFlush
  <2> HIDE DEF r
  <2>3. thread'[t] = r /\ (u # t => ThreadMoves(u))
    BY <2>2, OneThread
  <2> QED BY <1>1, <2>1, <2>3 DEF ThreadMoves
<1>2. ASSUME NEW a \in Approvals, NEW e \in EventIds, NEW k, InsertOutbox(a, e, k)
      PROVE  outbox'[e].state # "absent"
  BY <1>2, InsertedRow DEF Inserted
<1>3. ASSUME NEW a \in Approvals, NEW e \in EventIds, NEW b \in Bindings, Submit(t, a, e, b)
      PROVE  ThreadMoves(u)
  BY <1>1, <1>2, <1>3 DEF Submit
<1>4. ASSUME NEW a \in Approvals, NEW e \in EventIds, NEW o \in Operators, NEW v \in Verifications,
             Approve(t, a, e, o, v) \/ Deny(t, a, e, o, v)
      PROVE  ThreadMoves(u)
  BY <1>1, <1>2, <1>4 DEF Approve, Deny, Decide, StageExisting
<1>5. ASSUME NEW a \in Approvals, NEW e \in EventIds, NEW o \in Operators, DenyForSystemSafety(t, a, e, o)
      PROVE  ThreadMoves(u)
  BY <1>1, <1>2, <1>5 DEF DenyForSystemSafety, StageExisting
<1>6. ASSUME NEW a \in Approvals, NEW e \in EventIds, NEW b \in Bindings,
             ConsumeApproved(t, a, e, b) \/ ExpireApproved(t, a, e, b)
      PROVE  ThreadMoves(u)
  BY <1>1, <1>2, <1>6 DEF ConsumeApproved, ExpireApproved, StageExisting
<1> QED BY <1>3, <1>4, <1>5, <1>6 DEF Operate

LEMMA FlushThreads ==
  ASSUME Typed, NEW t \in Threads, FlushRead(t) \/ FlushRecord(t), NEW u \in Threads
  PROVE  ThreadMoves(u)
<1>1. thread[t] \in ThreadType
  BY DEF Typed, TypeOK
<1>2. CASE Raise(t)
  BY <1>2, IdleMoves DEF Raise
<1>3. CASE FlushRead(t) /\ ~Raise(t)
  <2> DEFINE e == thread[t].event
             r == [thread[t] EXCEPT !.pc = IF outbox[e].state = "pending" THEN "record" ELSE "finalize",
                                    !.receipt = outbox[e].receipt]
  <2>1. /\ r.pc = (IF outbox[e].state = "pending" THEN "record" ELSE "finalize")
        /\ r.receipt = outbox[e].receipt /\ r.event = e /\ r.op = thread[t].op /\ r.todo = thread[t].todo
    BY <1>1 DEF ThreadType
  <2>2. /\ thread[t].pc = "read" /\ thread' = [thread EXCEPT ![t] = r]
        /\ outbox[e].state \in {"pending", "delivered"}
    BY <1>3 DEF FlushRead, EventStateValid
  <2> HIDE DEF r
  <2>3. thread'[t] = r /\ (u # t => ThreadMoves(u))
    BY <2>2, OneThread
  <2> QED BY <2>1, <2>2, <2>3 DEF ThreadMoves, Continues
<1>4. CASE FlushRecord(t)
  <2>1. PICK i \in 1..Len(ledger') :
          /\ ledger'[i] = thread[t].event
          /\ thread' = [thread EXCEPT ![t] = [thread[t] EXCEPT !.pc = "finalize", !.receipt = i]]
    BY <1>4 DEF FlushRecord
  <2> DEFINE r == [thread[t] EXCEPT !.pc = "finalize", !.receipt = i]
  <2>2. /\ r.pc = "finalize" /\ r.receipt = i /\ r.event = thread[t].event /\ r.op = thread[t].op
        /\ r.todo = thread[t].todo
    BY <1>1 DEF ThreadType
  <2>3. thread[t].pc = "record" /\ thread' = [thread EXCEPT ![t] = r]
    BY <1>4, <2>1 DEF FlushRecord
  <2> HIDE DEF r
  <2>4. thread'[t] = r /\ (u # t => ThreadMoves(u))
    BY <2>3, OneThread
  <2> QED BY <2>1, <2>2, <2>3, <2>4 DEF ThreadMoves, Continues
<1> QED BY <1>2, <1>3, <1>4

LEMMA AfterFlushThreads ==
  ASSUME Typed, NEW t \in Threads, AfterFlush(t), thread[t].pc = "finalize", NEW u \in Threads
  PROVE  ThreadMoves(u)
<1>0. thread[t] \in ThreadType
  BY DEF Typed, TypeOK
<1>1. CASE thread[t].op = "consume"
  <2> DEFINE r == [thread[t] EXCEPT !.pc = "get"]
  <2>1. r.pc = "get" /\ r.event = thread[t].event /\ r.op = thread[t].op /\ r.todo = thread[t].todo
    BY <1>0 DEF ThreadType
  <2>2. thread' = [thread EXCEPT ![t] = r]
    BY <1>1 DEF AfterFlush
  <2> HIDE DEF r
  <2>3. thread'[t] = r /\ (u # t => ThreadMoves(u))
    BY <2>2, OneThread
  <2> QED BY <1>1, <2>1, <2>3 DEF ThreadMoves, Continues
<1>2. CASE thread[t].op # "consume" /\ thread[t].op = "reconcile" /\ thread[t].todo # {}
  <2>1. PICK e \in thread[t].todo :
          thread' = [thread EXCEPT ![t] = [thread[t] EXCEPT !.pc = "read", !.event = e,
                                               !.receipt = 0, !.todo = thread[t].todo \ {e}]]
    BY <1>2 DEF AfterFlush
  <2> DEFINE r == [thread[t] EXCEPT !.pc = "read", !.event = e, !.receipt = 0,
                                    !.todo = thread[t].todo \ {e}]
  <2>2. r.pc = "read" /\ r.event = e /\ r.op = thread[t].op /\ r.todo = thread[t].todo \ {e}
    BY <1>0 DEF ThreadType
  <2>3. thread' = [thread EXCEPT ![t] = r]
    BY <2>1
  <2> HIDE DEF r
  <2>4. thread'[t] = r /\ (u # t => ThreadMoves(u))
    BY <2>3, OneThread
  <2> QED BY <1>2, <2>1, <2>2, <2>4 DEF ThreadMoves
<1>3. CASE thread[t].op # "consume" /\ ~(thread[t].op = "reconcile" /\ thread[t].todo # {})
  BY <1>3, IdleMoves DEF AfterFlush
<1> QED BY <1>1, <1>2, <1>3

LEMMA ReconcileThreads ==
  ASSUME Typed, NEW t \in Threads, BeginReconcile(t), UNCHANGED outbox, NEW u \in Threads
  PROVE  ThreadMoves(u)
<1>1. PICK e \in PendingEvents :
        thread' = [thread EXCEPT ![t] = [Idle EXCEPT !.pc = "read", !.op = "reconcile", !.event = e,
                                                     !.todo = PendingEvents \ {e}]]
  BY DEF BeginReconcile
<1> DEFINE r == [Idle EXCEPT !.pc = "read", !.op = "reconcile", !.event = e, !.todo = PendingEvents \ {e}]
<1>2. r.pc = "read" /\ r.op = "reconcile" /\ r.event = e /\ r.todo = PendingEvents \ {e}
  BY DEF Idle
<1>3. thread' = [thread EXCEPT ![t] = r]
  BY <1>1
<1> HIDE DEF r
<1>4. thread'[t] = r /\ (u # t => ThreadMoves(u))
  BY <1>3, OneThread
<1> QED BY <1>2, <1>4 DEF ThreadMoves

LEMMA ThreadsNext ==
  ASSUME Typed, OnceInv, [Next]_vars, NEW u \in Threads
  PROVE  ThreadMoves(u)
<1>0. ASSUME UNCHANGED thread PROVE ThreadMoves(u)
  BY <1>0 DEF ThreadMoves
<1>1. ASSUME NEW t \in Threads, FlushRecordFails(t) PROVE ThreadMoves(u)
  BY <1>1, IdleMoves DEF FlushRecordFails, Raise
<1>2. ASSUME NEW t \in Threads, FlushFinalize(t) PROVE ThreadMoves(u)
  BY <1>2, IdleMoves, AfterFlushThreads DEF FlushFinalize, Raise
<1>3. ASSUME NEW t \in Threads, GetConsumed(t) PROVE ThreadMoves(u)
  <2> DEFINE r == [thread[t] EXCEPT !.pc = "verify"]
  <2>1. CASE thread' = [thread EXCEPT ![t] = Idle]
    BY <2>1, IdleMoves
  <2>2. CASE thread' = [thread EXCEPT ![t] = r]
    <3>1. thread[t] \in ThreadType /\ thread[t].op = "consume"
      BY <1>3 DEF GetConsumed, Typed, TypeOK, OnceInv, VerifiersHold
    <3>2. r.pc = "verify" /\ r.event = thread[t].event /\ r.op = thread[t].op /\ r.todo = thread[t].todo
      BY <3>1 DEF ThreadType
    <3> HIDE DEF r
    <3>3. thread'[t] = r /\ (u # t => ThreadMoves(u))
      BY <2>2, OneThread
    <3> QED BY <3>1, <3>2, <3>3 DEF ThreadMoves, Continues
  <2> QED BY <1>3, <2>1, <2>2 DEF GetConsumed
<1>4. ASSUME NEW t \in Threads, VerifyAndExecute(t) \/ PurgeExpired(t) PROVE ThreadMoves(u)
  BY <1>4, IdleMoves DEF VerifyAndExecute, PurgeExpired
<1>5. ASSUME NEW t \in Threads, PurgeSample(t) PROVE ThreadMoves(u)
  <2> DEFINE r == [Idle EXCEPT !.pc = "purge", !.op = "purge", !.now = clock]
  <2>1. r.pc = "purge" /\ r.todo = {} /\ r.now = clock
    BY DEF Idle
  <2>2. thread' = [thread EXCEPT ![t] = r] /\ UNCHANGED clock
    BY <1>5 DEF PurgeSample
  <2> HIDE DEF r
  <2>3. thread'[t] = r /\ (u # t => ThreadMoves(u))
    BY <2>2, OneThread
  <2> QED BY <2>1, <2>2, <2>3 DEF ThreadMoves
<1>6. ASSUME NEW t \in Threads, Reconcile(t) \/ Restart(t) PROVE ThreadMoves(u)
  BY <1>0, <1>6, ReconcileThreads DEF Reconcile, Restart, storage
<1>7. CASE Crash
  <2>1. Idle.pc = "idle" /\ Idle.todo = {}
    BY DEF Idle
  <2> QED BY <1>7, <2>1 DEF Crash, ThreadMoves
<1>8. CASE Tick \/ StepBack \/ UNCHANGED vars
  BY <1>0, <1>8 DEF Tick, StepBack, vars
<1> QED BY <1>1, <1>2, <1>3, <1>4, <1>5, <1>6, <1>7, <1>8, OperateThreads, FlushThreads DEF Next, Flush

-----------------------------------------------------------------------------
(***************************************************************************)
(* The tables agree with each other and with the ledger (RowInv).          *)
(***************************************************************************)

(* An approval waits for exactly the row it names.                         *)
Waits(a) ==
  IF approvals[a].status = "audit_pending"
  THEN /\ approvals[a].event \in EventIds
       /\ outbox[approvals[a].event].state = "pending"
       /\ outbox[approvals[a].event].approval = a
       /\ outbox[approvals[a].event].kind = approvals[a].pending
  ELSE approvals[a].pending = "none" /\ approvals[a].event = NoEvent

(* What a caller can see is the transition of the last delivered row.      *)
Shown(a) ==
  approvals[a].status \in Transitions =>
    /\ approvals[a].last \in EventIds
    /\ outbox[approvals[a].last].state = "delivered"
    /\ outbox[approvals[a].last].approval = a
    /\ outbox[approvals[a].last].kind = approvals[a].status

Row(e) ==
  /\ outbox[e].state = "absent" => outbox[e].approval = NoApproval /\ outbox[e].kind = "none"
  /\ outbox[e].state # "absent" =>
       /\ outbox[e].approval \in Approvals /\ outbox[e].kind \in Transitions /\ outbox[e].at \in Time
       /\ approvals[outbox[e].approval].status # "absent"
       /\ outbox[e].state = "purged" <=> approvals[outbox[e].approval].status = "purged"
  /\ outbox[e].state = "pending" =>
       /\ approvals[outbox[e].approval].status = "audit_pending"
       /\ approvals[outbox[e].approval].event = e
       /\ outbox[e].receipt = 0 /\ outbox[e].delivered = NoTime
  /\ outbox[e].state \in {"delivered", "purged"} =>
       InLedger(e, outbox[e].receipt) /\ outbox[e].delivered # NoTime

(* A thread delivers events that exist, and finalizes recorded ones.       *)
Delivers(t) ==
  /\ thread[t].pc \in {"read", "record", "finalize"} => outbox[thread[t].event].state # "absent"
  /\ thread[t].pc = "finalize" => InLedger(thread[t].event, thread[t].receipt)
  /\ \A e \in thread[t].todo : outbox[e].state # "absent"

RowInv ==
  /\ \A a \in Approvals : Waits(a) /\ Shown(a)
  /\ \A e \in EventIds : Row(e)
  /\ \A t \in Threads : Delivers(t)
  /\ NoncesUnique

LEMMA RowInit == Init => RowInv
<1> SUFFICES ASSUME Init PROVE RowInv
  OBVIOUS
<1>1. \A a \in Approvals : /\ approvals[a].status = "absent" /\ approvals[a].pending = "none"
                           /\ approvals[a].event = NoEvent /\ approvals[a].nonce = NoNonce
  BY DEF Init, AbsentApproval
<1>2. \A e \in EventIds : /\ outbox[e].state = "absent" /\ outbox[e].approval = NoApproval
                          /\ outbox[e].kind = "none"
  BY DEF Init, AbsentEvent
<1>3. \A t \in Threads : thread[t].pc = "idle" /\ thread[t].todo = {}
  BY DEF Init, Idle
<1> QED BY <1>1, <1>2, <1>3 DEF RowInv, Waits, Shown, Row, Delivers, NoncesUnique, Transitions

(* Whatever the tables say of the ledger stays true.                       *)
LEMMA RowKept ==
  ASSUME Typed, [Next]_vars, NEW e \in EventIds, Row(e), outbox'[e] = outbox[e],
         outbox[e].state # "absent" => approvals'[outbox[e].approval] = approvals[outbox[e].approval]
  PROVE  Row(e)'
<1>1. \A i : InLedger(e, i) => InLedger(e, i)'
  BY InLedgerStable
<1> QED BY <1>1 DEF Row, InLedger

LEMMA RowStaged ==
  ASSUME Typed, RowInv, [Next]_vars, NEW a \in Approvals, NEW e \in EventIds, NEW kind \in Transitions,
         StageMove(a, e, kind)
  PROVE  /\ \A c \in Approvals : (Waits(c) /\ Shown(c))'
         /\ \A f \in EventIds : Row(f)'
         /\ NoncesUnique'
<1>1. clock \in Time /\ ~(outbox[e].state # "absent")
  BY DEF Typed, TypeOK, StageMove, Inserted
<1>2. approvals[a].status \in {"absent", "pending", "approved"}
  BY DEF StageMove, StagedFrom
<1>3. ASSUME NEW c \in Approvals \ {a} PROVE (Waits(c) /\ Shown(c))'
  <2>1. Waits(c) /\ Shown(c) /\ approvals'[c] = approvals[c]
    BY DEF RowInv, StageMove
  <2>2. \A f \in EventIds : outbox[f].state # "absent" => outbox'[f] = outbox[f]
    BY <1>1 DEF StageMove, Inserted
  <2> QED BY <2>1, <2>2 DEF Waits, Shown
<1>4. (Waits(a) /\ Shown(a))'
  BY DEF StageMove, Inserted, Waits, Shown, Transitions
<1>5. Row(e)'
  BY <1>1 DEF StageMove, Inserted, Row
<1>6. ASSUME NEW f \in EventIds \ {e} PROVE Row(f)'
  <2>1. Row(f) /\ outbox'[f] = outbox[f]
    BY DEF RowInv, StageMove, Inserted
  <2>2. CASE outbox[f].approval # a
    <3>1. outbox[f].state # "absent" => approvals'[outbox[f].approval] = approvals[outbox[f].approval]
      BY <2>1, <2>2 DEF Row, StageMove
    <3> QED BY <2>1, <3>1, RowKept
  <2>3. CASE outbox[f].approval = a
    <3>1. outbox[f].state \in {"absent", "delivered"}
      <4>1. outbox[f].state \in {"absent", "pending", "delivered", "purged"}
        BY DEF Typed, TypeOK, EventType
      <4> QED BY <1>2, <2>1, <2>3, <4>1 DEF Row
    <3>2. \A i : InLedger(f, i) => InLedger(f, i)'
      BY InLedgerStable
    <3> QED BY <2>1, <2>3, <3>1, <3>2 DEF Row, InLedger, StageMove
  <2> QED BY <2>2, <2>3
<1>7. NoncesUnique'
  <2>1. \A c \in Approvals \ {a} : approvals'[c] = approvals[c]
    BY DEF StageMove
  <2>2. approvals'[a].nonce = NoNonce \/ approvals'[a].nonce = approvals[a].nonce
        \/ \A c \in Approvals : approvals[c].nonce # approvals'[a].nonce
    BY DEF StageMove, StagedFrom, NonceUnused
  <2> QED BY <2>1, <2>2 DEF RowInv, NoncesUnique
<1> QED BY <1>3, <1>4, <1>5, <1>6, <1>7

LEMMA RowFinal ==
  ASSUME Typed, RowInv, [Next]_vars, NEW a \in Approvals, NEW e \in EventIds, NEW i,
         FinalMove(a, e, i), InLedger(e, i)
  PROVE  /\ \A c \in Approvals : (Waits(c) /\ Shown(c))'
         /\ \A f \in EventIds : Row(f)'
         /\ NoncesUnique'
<1>1. clock # NoTime /\ InLedger(e, i)'
  <2>1. clock # NoTime
    BY DEF Typed, TypeOK, Time, NoTime
  <2> QED BY <2>1, InLedgerStable
<1>2. Row(e) /\ outbox[e].kind \in Transitions
  BY DEF RowInv, Row, FinalMove
<1>3. ASSUME NEW c \in Approvals \ {a} PROVE (Waits(c) /\ Shown(c))'
  <2>1. Waits(c) /\ Shown(c) /\ approvals'[c] = approvals[c]
    BY DEF RowInv, FinalMove
  <2>2. \A f \in EventIds : outbox[f].approval = c => outbox'[f] = outbox[f]
    BY DEF FinalMove
  <2> QED BY <2>1, <2>2 DEF Waits, Shown
<1>4. (Waits(a) /\ Shown(a))'
  BY <1>2 DEF FinalMove, Waits, Shown, Transitions
<1>5. Row(e)'
  BY <1>1, <1>2 DEF FinalMove, Row, InLedger, Transitions
<1>6. ASSUME NEW f \in EventIds \ {e} PROVE Row(f)'
  <2>1. Row(f) /\ outbox'[f] = outbox[f]
    BY DEF RowInv, FinalMove
  <2>2. CASE outbox[f].approval # a
    <3>1. outbox[f].state # "absent" => approvals'[outbox[f].approval] = approvals[outbox[f].approval]
      BY <2>1, <2>2 DEF Row, FinalMove
    <3> QED BY <2>1, <3>1, RowKept
  <2>3. CASE outbox[f].approval = a
    <3>1. outbox[f].state \in {"absent", "delivered"}
      <4>1. outbox[f].state \in {"absent", "pending", "delivered", "purged"}
        BY DEF Typed, TypeOK, EventType
      <4> QED BY <2>1, <2>3, <4>1 DEF Row, FinalMove
    <3>2. \A j : InLedger(f, j) => InLedger(f, j)'
      BY InLedgerStable
    <3>3. approvals'[a].status \in Transitions
      BY <1>2 DEF FinalMove
    <3> QED BY <2>1, <2>3, <3>1, <3>2, <3>3 DEF Row, InLedger, Transitions
  <2> QED BY <2>2, <2>3
<1>7. NoncesUnique'
  <2>1. \A c \in Approvals : approvals'[c].nonce = approvals[c].nonce
    BY DEF FinalMove
  <2> QED BY <2>1 DEF RowInv, NoncesUnique
<1> QED BY <1>3, <1>4, <1>5, <1>6, <1>7

LEMMA RowPurged ==
  ASSUME Typed, RowInv, [Next]_vars, NEW old \in SUBSET Approvals, PurgeMove(old)
  PROVE  /\ \A c \in Approvals : (Waits(c) /\ Shown(c))'
         /\ \A f \in EventIds : Row(f)'
         /\ NoncesUnique'
<1>1. ASSUME NEW c \in Approvals \ old PROVE (Waits(c) /\ Shown(c))'
  <2>1. Waits(c) /\ Shown(c) /\ approvals'[c] = approvals[c]
    BY DEF RowInv, PurgeMove
  <2>2. \A f \in EventIds : outbox[f].approval = c => outbox'[f] = outbox[f]
    BY DEF PurgeMove
  <2> QED BY <2>1, <2>2 DEF Waits, Shown
<1>2. ASSUME NEW c \in old PROVE (Waits(c) /\ Shown(c))'
  BY DEF RowInv, PurgeMove, PurgedApproval, Waits, Shown, Terminal, Transitions
<1>3. ASSUME NEW f \in EventIds PROVE Row(f)'
  <2>1. Row(f)
    BY DEF RowInv
  <2>2. CASE outbox[f].approval \in old
    <3>1. \A j : InLedger(f, j) => InLedger(f, j)'
      BY InLedgerStable
    <3>2. outbox[f].state = "delivered" /\ PurgedEvent(f) /\ PurgedApproval(outbox[f].approval)
      BY <2>2 DEF PurgeMove
    <3> QED BY <2>1, <3>1, <3>2 DEF Row, InLedger, PurgedEvent, PurgedApproval
  <2>3. CASE outbox[f].approval \notin old
    <3>1. outbox'[f] = outbox[f]
      BY <2>3 DEF PurgeMove
    <3>2. outbox[f].state # "absent" => approvals'[outbox[f].approval] = approvals[outbox[f].approval]
      BY <2>1, <2>3 DEF Row, PurgeMove
    <3> QED BY <2>1, <3>1, <3>2, RowKept
  <2> QED BY <2>2, <2>3
<1>4. NoncesUnique'
  <2>1. \A c \in Approvals : approvals'[c].nonce = NoNonce \/ approvals'[c].nonce = approvals[c].nonce
    BY DEF PurgeMove, PurgedApproval
  <2> QED BY <2>1 DEF RowInv, NoncesUnique
<1> QED BY <1>1, <1>2, <1>3, <1>4

(* A row, once inserted, keeps its approval, its transition and its time.  *)
LEMMA RowsStay ==
  ASSUME Typed, [Next]_vars, NEW e \in EventIds, outbox[e].state # "absent"
  PROVE  /\ outbox'[e].state # "absent" /\ outbox'[e].approval = outbox[e].approval
         /\ outbox'[e].kind = outbox[e].kind /\ outbox'[e].at = outbox[e].at
<1>1. CASE UNCHANGED <<approvals, outbox>>
  BY <1>1
<1>2. ASSUME NEW a \in Approvals, NEW f \in EventIds, NEW kind \in Transitions, StageMove(a, f, kind)
      PROVE  outbox'[e] = outbox[e]
  BY <1>2 DEF StageMove, Inserted
<1>3. ASSUME NEW a \in Approvals, NEW f, NEW i, FinalMove(a, f, i)
      PROVE  /\ outbox'[e].state # "absent" /\ outbox'[e].approval = outbox[e].approval
             /\ outbox'[e].kind = outbox[e].kind /\ outbox'[e].at = outbox[e].at
  BY <1>3 DEF FinalMove
<1>4. ASSUME NEW old \in SUBSET Approvals, PurgeMove(old)
      PROVE  /\ outbox'[e].state # "absent" /\ outbox'[e].approval = outbox[e].approval
             /\ outbox'[e].kind = outbox[e].kind /\ outbox'[e].at = outbox[e].at
  BY <1>4 DEF PurgeMove, PurgedEvent
<1> QED BY <1>1, <1>2, <1>3, <1>4, RowsNext DEF RowMoves

LEMMA DeliversNext ==
  ASSUME Typed, OnceInv, RowInv, [Next]_vars, NEW t \in Threads
  PROVE  Delivers(t)'
<1>1. \A e \in EventIds : outbox[e].state # "absent" => outbox'[e].state # "absent"
  BY RowsStay
<1>2. \A e, i : InLedger(e, i) => InLedger(e, i)'
  BY InLedgerStable
<1>3. Delivers(t) /\ \A e \in EventIds : Row(e)
  BY DEF RowInv
<1>4. thread[t].pc \in {"read", "record", "finalize"} => thread[t].event \in EventIds
  BY DEF Typed, FlushingAnEvent
<1>5. thread[t].todo \subseteq EventIds
  BY DEF Typed, TypeOK, ThreadType
<1>6. CASE thread'[t] = thread[t]
  BY <1>1, <1>2, <1>3, <1>4, <1>5, <1>6 DEF Delivers, InLedger
<1>7. CASE thread'[t].pc \in {"idle", "purge", "read"} /\ thread'[t].todo = {}
           /\ (thread'[t].pc = "read" => outbox'[thread'[t].event].state # "absent")
  BY <1>7 DEF Delivers
<1>8. CASE /\ thread'[t].pc = "read" /\ thread'[t].event \in PendingEvents
           /\ thread'[t].todo = PendingEvents \ {thread'[t].event}
  BY <1>1, <1>8 DEF Delivers, PendingEvents
<1>9. CASE /\ thread'[t].pc = "read" /\ thread'[t].event \in thread[t].todo
           /\ thread'[t].todo = thread[t].todo \ {thread'[t].event}
  BY <1>1, <1>3, <1>5, <1>9 DEF Delivers
<1>10. CASE /\ thread[t].pc = "read" /\ thread'[t].pc \in {"record", "finalize"} /\ Continues(t)
            /\ thread'[t].pc = "finalize" => /\ outbox[thread[t].event].state = "delivered"
                                             /\ thread'[t].receipt = outbox[thread[t].event].receipt
  BY <1>1, <1>2, <1>3, <1>4, <1>5, <1>10 DEF Delivers, Continues, Row, InLedger
<1>11. CASE /\ thread[t].pc = "record" /\ thread'[t].pc = "finalize" /\ Continues(t)
            /\ thread'[t].receipt \in 1..Len(ledger') /\ ledger'[thread'[t].receipt] = thread[t].event
  BY <1>1, <1>3, <1>4, <1>5, <1>11 DEF Delivers, Continues, InLedger
<1>12. CASE thread'[t].pc \in {"get", "verify"} /\ Continues(t)
  BY <1>1, <1>3, <1>5, <1>12 DEF Delivers, Continues
<1> QED BY <1>6, <1>7, <1>8, <1>9, <1>10, <1>11, <1>12, ThreadsNext DEF ThreadMoves

LEMMA RowNext ==
  ASSUME Typed, OnceInv, RowInv, [Next]_vars
  PROVE  RowInv'
<1>1. CASE UNCHANGED <<approvals, outbox>>
  <2>1. \A e \in EventIds : Row(e)'
    BY <1>1, RowKept DEF RowInv
  <2>2. (\A a \in Approvals : (Waits(a) /\ Shown(a))') /\ NoncesUnique'
    BY <1>1 DEF RowInv, Waits, Shown, NoncesUnique
  <2> QED BY <2>1, <2>2, DeliversNext DEF RowInv
<1>2. ASSUME NEW a \in Approvals, NEW e \in EventIds, NEW kind \in Transitions, StageMove(a, e, kind)
      PROVE  RowInv'
  BY <1>2, RowStaged, DeliversNext DEF RowInv
<1>3. ASSUME NEW t \in Threads, thread[t].pc = "finalize", outbox[thread[t].event].approval \in Approvals,
             FinalMove(outbox[thread[t].event].approval, thread[t].event, thread[t].receipt)
      PROVE  RowInv'
  <2>1. PICK e, a, i :
          e \in EventIds /\ a \in Approvals /\ e = thread[t].event /\ a = outbox[e].approval /\ i = thread[t].receipt
    BY <1>3 DEF Typed, FlushingAnEvent
  <2>2. FinalMove(a, e, i) /\ InLedger(e, i)
    BY <1>3, <2>1 DEF RowInv, Delivers
  <2> QED BY <2>1, <2>2, RowFinal, DeliversNext DEF RowInv
<1>4. ASSUME NEW old \in SUBSET Approvals, PurgeMove(old) PROVE RowInv'
  BY <1>4, RowPurged, DeliversNext DEF RowInv
<1> QED BY <1>1, <1>2, <1>3, <1>4, RowsNext DEF RowMoves

LEMMA RowsInvariant == Spec => [](Typed /\ OnceInv /\ RowInv)
BY TypedInit, TypedStep, OnceInvInit, OnceInvStep, RowInit, RowNext, PTL DEF Spec

(* The database is at every instant one that the next start accepts and    *)
(* can reconcile: an undelivered row and its approval wait for each other, *)
(* a delivered row has a receipt, and no two decisions share a nonce,      *)
(* whichever thread, reconcile or purge wrote last and wherever the        *)
(* process died.                                                           *)
THEOREM NoPoisonRow == Spec => []OutboxConsistent
<1>1. Typed /\ RowInv => OutboxConsistent
  <2> SUFFICES ASSUME Typed, RowInv PROVE OutboxConsistent
    OBVIOUS
  <2>1. ASSUME NEW a \in Approvals, approvals[a].status \notin {"absent", "purged"}
        PROVE  /\ approvals[a].status \in Transitions \cup {"audit_pending"}
               /\ (approvals[a].status = "audit_pending") = (approvals[a].pending # "none")
               /\ (approvals[a].status = "audit_pending") = (approvals[a].event # NoEvent)
    <3>1. approvals[a].status \in Transitions \cup {"absent", "audit_pending", "purged"}
      BY DEF Typed, TypeOK, ApprovalType
    <3>2. Waits(a)
      BY DEF RowInv
    <3>3. approvals[a].status = "audit_pending" =>
            /\ approvals[a].event # NoEvent /\ approvals[a].pending \in Transitions
      BY <3>2, ApprovalConstants DEF Waits, Typed, PendingRowsNamed
    <3> QED BY <2>1, <3>1, <3>2, <3>3 DEF Waits, Transitions
  <2>2. ASSUME NEW e \in EventIds, outbox[e].state \notin {"absent", "purged"}
        PROVE  /\ outbox[e].kind \in Transitions
               /\ (outbox[e].state = "delivered") = (outbox[e].receipt # 0)
               /\ (outbox[e].state = "delivered") = (outbox[e].delivered # NoTime)
               /\ outbox[e].approval \in Approvals
               /\ approvals[outbox[e].approval].status \notin {"absent", "purged"}
    <3>1. outbox[e].state \in {"pending", "delivered"} /\ Row(e)
      BY <2>2 DEF Typed, TypeOK, EventType, RowInv
    <3>2. InLedger(e, outbox[e].receipt) => outbox[e].receipt # 0
      BY DEF InLedger
    <3> QED BY <3>1, <3>2 DEF Row
  <2>3. ValidateSchema
    BY <2>1, <2>2 DEF ValidateSchema, RowInv
  <2>4. ASSUME NEW e \in EventIds, outbox[e].state = "pending" PROVE EventStateValid(e)
    <3>1. Row(e) /\ Waits(outbox[e].approval)
      BY <2>4 DEF RowInv, Row
    <3>2. outbox[e].at # NoTime
      BY <2>4, <3>1 DEF Row, Time, NoTime
    <3> QED BY <2>4, <3>1, <3>2 DEF EventStateValid, EventReadable, Row, Waits
  <2> QED BY <2>3, <2>4 DEF OutboxConsistent, RowInv, Waits
<1> QED BY <1>1, RowsInvariant, PTL

-----------------------------------------------------------------------------
(***************************************************************************)
(* The lineage of an approval in the ledger.  An event is staged only when *)
(* the one before it is delivered, hence recorded (Follows), and an        *)
(* approval with a terminal event waits for no other.                      *)
(***************************************************************************)
After(e, kind) ==
  \E p \in EventIds : outbox[p].approval = outbox[e].approval /\ outbox[p].kind = kind /\ Recorded(p)

Follows(e) ==
  /\ outbox[e].kind \in {"approved", "denied"} => After(e, "pending")
  /\ outbox[e].kind \in {"consumed", "expired"} => After(e, "approved")
  /\ outbox[e].kind \in Terminal =>
       \/ approvals[outbox[e].approval].event = e
       \/ approvals[outbox[e].approval].status \in Terminal \cup {"purged"}

Kind(i) == outbox[ledger[i]].kind
Of(i) == outbox[ledger[i]].approval

(* LedgerLineage, entry by entry.                                          *)
Lineage ==
  /\ \A i, j \in 1..Len(ledger) : ledger[i] = ledger[j] => i = j
  /\ \A i \in 1..Len(ledger) :
       /\ outbox[ledger[i]].state # "absent"
       /\ Kind(i) \in {"approved", "denied"} =>
            \E j \in 1..Len(ledger) : j < i /\ Of(j) = Of(i) /\ Kind(j) = "pending"
       /\ Kind(i) \in {"consumed", "expired"} =>
            \E j \in 1..Len(ledger) : j < i /\ Of(j) = Of(i) /\ Kind(j) = "approved"
       /\ Kind(i) \in Terminal => \A j \in 1..Len(ledger) : Of(j) = Of(i) => j <= i

LineInv == (\A e \in EventIds : Follows(e)) /\ Lineage

LEMMA RecordedIn ==
  ASSUME NEW e
  PROVE  Recorded(e) <=> \E i : InLedger(e, i)
BY DEF Recorded, VerifiedEntries, InLedger

LEMMA RecordedStable ==
  ASSUME Typed, [Next]_vars, NEW e, Recorded(e)
  PROVE  Recorded(e)'
<1>1. PICK i : InLedger(e, i)
  BY RecordedIn
<1>2. InLedger(e, i)'
  BY <1>1, InLedgerStable
<1> QED BY <1>2 DEF Recorded, VerifiedEntries, InLedger

LEMMA LineInit == Init => LineInv
<1> SUFFICES ASSUME Init PROVE LineInv
  OBVIOUS
<1>1. \A e \in EventIds : outbox[e].kind = "none"
  BY DEF Init, AbsentEvent
<1>2. 1..Len(ledger) = {}
  BY DEF Init
<1> QED BY <1>1, <1>2 DEF LineInv, Follows, Lineage, Terminal

LEMMA AfterStays ==
  ASSUME Typed, RowInv, [Next]_vars, NEW e \in EventIds, outbox[e].state # "absent", NEW kind, After(e, kind),
         kind # "none"
  PROVE  After(e, kind)'
<1>1. PICK p \in EventIds : outbox[p].approval = outbox[e].approval /\ outbox[p].kind = kind /\ Recorded(p)
  BY DEF After
<1>2. outbox[p].state # "absent"
  BY <1>1 DEF RowInv, Row
<1>3. outbox'[p].approval = outbox[p].approval /\ outbox'[p].kind = kind /\ Recorded(p)'
  BY <1>1, <1>2, RowsStay, RecordedStable
<1>4. outbox'[e].approval = outbox[e].approval
  BY RowsStay
<1> QED BY <1>1, <1>3, <1>4 DEF After

(* Which approvals a terminal event leaves open.                           *)
LEMMA TerminalHolds ==
  ASSUME Typed, RowInv, NEW e \in EventIds, Follows(e), outbox[e].kind \in Terminal
  PROVE  LET a == outbox[e].approval IN
         /\ a \in Approvals
         /\ \/ approvals[a].status = "audit_pending" /\ approvals[a].event = e
            \/ approvals[a].status \in Terminal \cup {"purged"}
<1>1. outbox[e].state # "absent" /\ outbox[e].approval \in Approvals
  BY DEF RowInv, Row, Terminal
<1>2. Waits(outbox[e].approval)
  BY <1>1 DEF RowInv
<1> QED BY <1>1, <1>2, ApprovalConstants DEF Follows, Waits

LEMMA FollowsNext ==
  ASSUME Typed, RowInv, LineInv, [Next]_vars, NEW e \in EventIds
  PROVE  Follows(e)'
<1> USE DEF Terminal
<1>1. Follows(e) /\ Row(e)
  BY DEF LineInv, RowInv
<1>2. ASSUME outbox[e].state # "absent"
      PROVE  /\ outbox'[e].kind \in {"approved", "denied"} => After(e, "pending")'
             /\ outbox'[e].kind \in {"consumed", "expired"} => After(e, "approved")'
  BY <1>1, <1>2, AfterStays, RowsStay DEF Follows
<1>3. ASSUME UNCHANGED <<approvals, outbox>> PROVE Follows(e)'
  <2>1. CASE outbox[e].state = "absent"
    BY <1>1, <1>3, <2>1 DEF Follows, Row
  <2>2. CASE outbox[e].state # "absent"
    BY <1>1, <1>2, <1>3, <2>2 DEF Follows
  <2> QED BY <2>1, <2>2
<1>4. ASSUME NEW a \in Approvals, NEW f \in EventIds, NEW kind \in Transitions, StageMove(a, f, kind)
      PROVE  Follows(e)'
  <2>1. CASE e = f
    <3>1. ASSUME NEW k \in {"pending", "approved"}, approvals[a].status = k PROVE After(f, k)'
      <4>1. PICK p \in EventIds : p = approvals[a].last
        BY <3>1 DEF RowInv, Shown, Transitions
      <4>2. outbox[p].state = "delivered" /\ outbox[p].approval = a /\ outbox[p].kind = k
        BY <3>1, <4>1 DEF RowInv, Shown, Transitions
      <4>3. Recorded(p)
        BY <4>2, RecordedIn DEF RowInv, Row
      <4>4. outbox'[p].approval = a /\ outbox'[p].kind = k /\ Recorded(p)'
        BY <4>2, <4>3, RowsStay, RecordedStable
      <4>5. outbox'[f].approval = a
        BY <1>4 DEF StageMove, Inserted
      <4> QED BY <4>4, <4>5 DEF After
    <3>2. outbox'[e].kind = kind /\ outbox'[e].approval = a /\ approvals'[a].event = e
      BY <1>4, <2>1 DEF StageMove, Inserted
    <3>3. /\ kind \in {"approved", "denied"} => approvals[a].status = "pending"
          /\ kind \in {"consumed", "expired"} => approvals[a].status = "approved"
      BY <1>4 DEF StageMove, StagedFrom
    <3> QED BY <2>1, <3>1, <3>2, <3>3 DEF Follows
  <2>2. CASE e # f /\ outbox[e].kind = "none"
    BY <1>4, <2>2 DEF StageMove, Inserted, Follows
  <2>3. CASE e # f /\ outbox[e].kind # "none"
    <3>1. outbox[e].state # "absent" /\ outbox'[e] = outbox[e]
      BY <1>1, <1>4, <2>3 DEF Row, StageMove, Inserted
    <3>2. outbox[e].kind \in Terminal => outbox[e].approval # a /\ outbox[e].approval \in Approvals
      <4>1. approvals[a].status \in {"absent", "pending", "approved"}
        BY <1>4 DEF StageMove, StagedFrom
      <4> QED BY <1>1, <4>1, TerminalHolds
    <3>3. outbox[e].kind \in Terminal => approvals'[outbox[e].approval] = approvals[outbox[e].approval]
      BY <1>4, <3>2 DEF StageMove
    <3> QED BY <1>1, <1>2, <3>1, <3>3 DEF Follows
  <2> QED BY <2>1, <2>2, <2>3
<1>5. ASSUME NEW a \in Approvals, NEW f \in EventIds, NEW i, FinalMove(a, f, i) PROVE Follows(e)'
  <2>1. CASE outbox[e].state = "absent"
    <3>1. outbox'[e] = outbox[e]
      BY <1>5, <2>1 DEF FinalMove
    <3> QED BY <1>1, <2>1, <3>1 DEF Follows, Row
  <2>2. CASE outbox[e].state # "absent"
    <3>1. outbox'[e].kind = outbox[e].kind /\ outbox'[e].approval = outbox[e].approval
      BY <2>2, RowsStay
    <3>2. ASSUME outbox[e].kind \in Terminal
          PROVE  \/ approvals'[outbox[e].approval].event = e
                 \/ approvals'[outbox[e].approval].status \in Terminal \cup {"purged"}
      BY <1>1, <1>5, <3>2, TerminalHolds DEF FinalMove
    <3> QED BY <1>2, <2>2, <3>1, <3>2 DEF Follows
  <2> QED BY <2>1, <2>2
<1>6. ASSUME NEW old \in SUBSET Approvals, PurgeMove(old) PROVE Follows(e)'
  <2>1. CASE outbox[e].state = "absent"
    <3>1. outbox'[e] = outbox[e]
      BY <1>1, <1>6, <2>1, ApprovalConstants DEF PurgeMove, Row
    <3> QED BY <1>1, <2>1, <3>1 DEF Follows, Row
  <2>2. CASE outbox[e].state # "absent"
    <3>1. outbox'[e].kind = outbox[e].kind /\ outbox'[e].approval = outbox[e].approval
      BY <2>2, RowsStay
    <3>2. ASSUME outbox[e].kind \in Terminal
          PROVE  \/ approvals'[outbox[e].approval].event = e
                 \/ approvals'[outbox[e].approval].status \in Terminal \cup {"purged"}
      BY <1>1, <1>6, <3>2, TerminalHolds DEF PurgeMove, PurgedApproval
    <3> QED BY <1>2, <2>2, <3>1, <3>2 DEF Follows
  <2> QED BY <2>1, <2>2
<1>7. \A t \in Threads : thread[t].pc = "finalize" => thread[t].event \in EventIds
  BY DEF Typed, FlushingAnEvent
<1> QED BY <1>3, <1>4, <1>5, <1>6, <1>7, RowsNext DEF RowMoves

LEMMA LineageNext ==
  ASSUME Typed, RowInv, LineInv, [Next]_vars
  PROVE  Lineage'
<1> USE DEF Terminal
<1>1. ledger \in Seq(EventIds) /\ Len(ledger) \in Nat
  BY DEF Typed, TypeOK
<1>2. \A i \in 1..Len(ledger) : ledger[i] \in EventIds /\ outbox[ledger[i]].state # "absent"
  BY <1>1 DEF LineInv, Lineage
<1>3. \A i \in 1..Len(ledger) :
        /\ outbox'[ledger[i]].state # "absent" /\ outbox'[ledger[i]].approval = Of(i)
        /\ outbox'[ledger[i]].kind = Kind(i)
  BY <1>2, RowsStay DEF Of, Kind
<1>4. CASE UNCHANGED ledger
  <2>1. \A i \in 1..Len(ledger) : Of(i)' = Of(i) /\ Kind(i)' = Kind(i)
    BY <1>3, <1>4 DEF Of, Kind
  <2> QED BY <1>3, <1>4, <2>1 DEF LineInv, Lineage
<1>5. ASSUME NEW e \in EventIds, ~Recorded(e), ledger' = Append(ledger, e), UNCHANGED <<approvals, outbox>>,
             outbox[e].state # "absent"
      PROVE  Lineage'
  <2>0. PICK n \in Nat : n = Len(ledger) + 1
    BY <1>1
  <2>1. Len(ledger') = n /\ ledger'[n] = e /\ \A i \in 1..Len(ledger) : ledger'[i] = ledger[i]
    BY <1>1, <1>5, <2>0
  <2>2. 1..Len(ledger') = 1..Len(ledger) \cup {n} /\ \A i \in 1..Len(ledger) : i < n /\ i \in Nat /\ i # n
    BY <1>1, <2>0, <2>1
  <2>4. \A i \in 1..Len(ledger) : ledger[i] # e /\ Of(i)' = Of(i) /\ Kind(i)' = Kind(i)
    BY <1>5, <2>1, RecordedIn DEF Of, Kind, InLedger
  <2>5. Of(n)' = outbox[e].approval /\ Kind(n)' = outbox[e].kind
    BY <1>5, <2>1 DEF Of, Kind
  <2>6. ASSUME NEW k, After(e, k)
        PROVE  \E j \in 1..Len(ledger) : Of(j) = outbox[e].approval /\ Kind(j) = k
    <3>1. PICK p \in EventIds : /\ outbox[p].approval = outbox[e].approval /\ outbox[p].kind = k
                                /\ Recorded(p)
      BY <2>6 DEF After
    <3>2. PICK j : InLedger(p, j)
      BY <3>1, RecordedIn
    <3> QED BY <3>1, <3>2 DEF InLedger, Of, Kind
  <2>7. \A i \in 1..Len(ledger) : Kind(i) \in Terminal => Of(i) # outbox[e].approval
    <3> SUFFICES ASSUME NEW i \in 1..Len(ledger), Kind(i) \in Terminal, Of(i) = outbox[e].approval PROVE FALSE
      OBVIOUS
    <3>1. outbox[e].state = "pending"
      <4>1. outbox[e].state \in {"pending", "delivered", "purged"} /\ Row(e)
        BY <1>5 DEF Typed, TypeOK, EventType, RowInv
      <4> QED BY <1>5, <4>1, RecordedIn DEF Row
    <3>2. approvals[outbox[e].approval].status = "audit_pending" /\ approvals[outbox[e].approval].event = e
      BY <3>1 DEF RowInv, Row
    <3>3. ledger[i] \in EventIds /\ Follows(ledger[i]) /\ ledger[i] # e
      BY <1>2, <2>4 DEF LineInv
    <3> QED BY <3>2, <3>3, TerminalHolds DEF Kind, Of
  <2>8. \A i, j \in 1..Len(ledger') : ledger'[i] = ledger'[j] => i = j
    BY <2>1, <2>2, <2>4 DEF LineInv, Lineage
  <2>9. ASSUME NEW i \in 1..Len(ledger')
        PROVE  /\ outbox'[ledger'[i]].state # "absent"
               /\ Kind(i)' \in {"approved", "denied"} =>
                    \E j \in 1..Len(ledger') : j < i /\ Of(j)' = Of(i)' /\ Kind(j)' = "pending"
               /\ Kind(i)' \in {"consumed", "expired"} =>
                    \E j \in 1..Len(ledger') : j < i /\ Of(j)' = Of(i)' /\ Kind(j)' = "approved"
               /\ Kind(i)' \in Terminal => \A j \in 1..Len(ledger') : Of(j)' = Of(i)' => j <= i
    <3>1. CASE i = n
      <4>1. outbox'[ledger'[i]].state # "absent"
        BY <1>5, <2>1, <3>1
      <4>2. \A j \in 1..Len(ledger') : j <= n
        BY <1>1, <2>0, <2>2
      <4>3. Follows(e)
        BY DEF LineInv
      <4> QED BY <2>2, <2>4, <2>5, <2>6, <3>1, <4>1, <4>2, <4>3 DEF Follows
    <3>2. CASE i \in 1..Len(ledger)
      <4>1. outbox'[ledger'[i]].state # "absent"
        BY <1>3, <2>1, <3>2
      <4> QED BY <2>2, <2>4, <2>5, <2>7, <3>2, <4>1 DEF LineInv, Lineage
    <3> QED BY <2>2, <3>1, <3>2
  <2> QED BY <2>8, <2>9 DEF Lineage
<1>6. \A t \in Threads : thread[t].pc = "record" =>
        thread[t].event \in EventIds /\ outbox[thread[t].event].state # "absent"
  BY DEF Typed, FlushingAnEvent, RowInv, Delivers
<1> QED BY <1>4, <1>5, <1>6, LedgerNext DEF LedgerMoves

LEMMA LinesInvariant == Spec => [](Typed /\ OnceInv /\ RowInv /\ LineInv)
<1>1. Typed /\ RowInv /\ LineInv /\ [Next]_vars => LineInv'
  BY FollowsNext, LineageNext DEF LineInv
<1> QED BY <1>1, LineInit, RowsInvariant, PTL DEF Spec

(* No event is in the ledger twice, though deliveries are retried after    *)
(* failures and restarts and reconcile() races the operation that staged   *)
(* the event, and the entries of one approval are in the order submitted,  *)
(* decided, consumed or expired, with nothing after a denial or an end.    *)
THEOREM LedgerTellsTheHistory == Spec => []LedgerLineage
<1>1. Lineage => LedgerLineage
  <2> SUFFICES ASSUME Lineage, NEW a \in Approvals, NEW i \in DOMAIN LedgerKinds(a)
               PROVE  /\ LedgerKinds(a)[i] \in {"approved", "denied"} =>
                           \E j \in DOMAIN LedgerKinds(a) : j < i /\ LedgerKinds(a)[j] = "pending"
                      /\ LedgerKinds(a)[i] \in {"consumed", "expired"} =>
                           \E j \in DOMAIN LedgerKinds(a) : j < i /\ LedgerKinds(a)[j] = "approved"
                      /\ LedgerKinds(a)[i] \in Terminal => \A j \in DOMAIN LedgerKinds(a) : j <= i
    BY DEF LedgerLineage, Lineage
  <2>1. \A j : j \in DOMAIN LedgerKinds(a) <=> j \in 1..Len(ledger) /\ Of(j) = a
    BY DEF LedgerKinds, Of
  <2>2. \A j \in DOMAIN LedgerKinds(a) : LedgerKinds(a)[j] = Kind(j)
    BY DEF LedgerKinds, Kind
  <2>3. i \in 1..Len(ledger) /\ Of(i) = a /\ LedgerKinds(a)[i] = Kind(i)
    BY <2>1, <2>2
  <2>4. LedgerKinds(a)[i] \in {"approved", "denied"} =>
          \E j \in DOMAIN LedgerKinds(a) : j < i /\ LedgerKinds(a)[j] = "pending"
    <3> HAVE LedgerKinds(a)[i] \in {"approved", "denied"}
    <3>1. PICK j \in 1..Len(ledger) : j < i /\ Of(j) = Of(i) /\ Kind(j) = "pending"
      BY <2>3 DEF Lineage
    <3>2. j \in DOMAIN LedgerKinds(a)
      BY <2>1, <2>3, <3>1
    <3> QED BY <2>2, <3>1, <3>2
  <2>5. LedgerKinds(a)[i] \in {"consumed", "expired"} =>
          \E j \in DOMAIN LedgerKinds(a) : j < i /\ LedgerKinds(a)[j] = "approved"
    <3> HAVE LedgerKinds(a)[i] \in {"consumed", "expired"}
    <3>1. PICK j \in 1..Len(ledger) : j < i /\ Of(j) = Of(i) /\ Kind(j) = "approved"
      BY <2>3 DEF Lineage
    <3>2. j \in DOMAIN LedgerKinds(a)
      BY <2>1, <2>3, <3>1
    <3> QED BY <2>2, <3>1, <3>2
  <2>6. LedgerKinds(a)[i] \in Terminal => \A j \in DOMAIN LedgerKinds(a) : j <= i
    BY <2>1, <2>3 DEF Lineage
  <2> QED BY <2>4, <2>5, <2>6
<1> QED BY <1>1, LinesInvariant, PTL DEF LineInv

-----------------------------------------------------------------------------
(***************************************************************************)
(* What was executed was audited first.  The content of an approval is     *)
(* fixed by its decision: neither a consumption, a finalization nor a      *)
(* purge touches it.                                                       *)
(***************************************************************************)
LEMMA ContentStays ==
  ASSUME Typed, [Next]_vars, NEW a \in Approvals, approvals[a].status \notin {"absent", "pending"}
  PROVE  SameContent(a)
<1>1. ASSUME UNCHANGED approvals PROVE SameContent(a)
  BY <1>1 DEF SameContent
<1>2. ASSUME approvals'[a] = approvals[a] PROVE SameContent(a)
  BY <1>2 DEF SameContent
<1>3. ASSUME NEW c \in Approvals, NEW e \in EventIds, NEW kind \in Transitions, StageMove(c, e, kind)
      PROVE  SameContent(a)
  BY <1>2, <1>3 DEF StageMove, StagedFrom
<1>4. ASSUME NEW c \in Approvals, NEW e, NEW i, FinalMove(c, e, i) PROVE SameContent(a)
  BY <1>2, <1>4 DEF FinalMove
<1>5. ASSUME NEW old \in SUBSET Approvals, PurgeMove(old) PROVE SameContent(a)
  BY <1>2, <1>5 DEF PurgeMove, PurgedApproval
<1> QED BY <1>1, <1>3, <1>4, <1>5, RowsNext DEF RowMoves

InOrder(a, i, j, m) ==
  /\ {i, j, m} \subseteq 1..Len(ledger) /\ i < j /\ j < m
  /\ Of(i) = a /\ Of(j) = a /\ Of(m) = a
  /\ Kind(i) = "pending" /\ Kind(j) = "approved" /\ Kind(m) = "consumed"

Proven(a) ==
  VerifiesBinding(approvals[a].proof, a, approvals[a].binding, "approved", approvals[a].operator)

Evidence(a) ==
  executed[a] # <<>> =>
    /\ \A k \in 1..Len(executed[a]) : ContextMatches(approvals[a].binding, executed[a][k])
    /\ Proven(a)
    /\ \E i, j, m \in Nat : InOrder(a, i, j, m)

EvidenceInv == \A a \in Approvals : Evidence(a)

LEMMA OrderStays ==
  ASSUME Typed, LineInv, [Next]_vars, NEW a, NEW i \in Nat, NEW j \in Nat, NEW m \in Nat, InOrder(a, i, j, m)
  PROVE  InOrder(a, i, j, m)'
<1>1. ledger \in Seq(EventIds)
  BY DEF Typed, TypeOK
<1>2. \A k \in 1..Len(ledger) : ledger[k] \in EventIds /\ outbox[ledger[k]].state # "absent"
  BY <1>1 DEF LineInv, Lineage
<1>3. \A k \in 1..Len(ledger) : k \in 1..Len(ledger') /\ ledger'[k] = ledger[k]
  BY InLedgerStable DEF InLedger
<1>4. \A k \in 1..Len(ledger) : Of(k)' = Of(k) /\ Kind(k)' = Kind(k)
  BY <1>2, <1>3, RowsStay DEF Of, Kind
<1> QED BY <1>3, <1>4 DEF InOrder

LEMMA ExecutedNext ==
  ASSUME Typed, [Next]_vars, NEW a \in Approvals
  PROVE  \/ executed'[a] = executed[a]
         \/ \E t \in Threads :
              /\ thread[t].approval = a /\ UNCHANGED <<storage, ledger>>
              /\ ConsumedBinding(a, thread[t].event)
              /\ ContextMatches(approvals[a].binding, thread[t].required)
              /\ executed'[a] = Append(executed[a], thread[t].required)
<1>1. ASSUME NEW t \in Threads, VerifyAndExecute(t)
      PROVE  \/ executed'[a] = executed[a]
             \/ /\ thread[t].approval = a /\ UNCHANGED <<storage, ledger>>
                /\ ConsumedBinding(a, thread[t].event)
                /\ ContextMatches(approvals[a].binding, thread[t].required)
                /\ executed'[a] = Append(executed[a], thread[t].required)
  BY <1>1 DEF VerifyAndExecute, Typed, TypeOK
<1>2. ASSUME NEW t \in Threads,
             \/ FlushRead(t) \/ FlushRecord(t) \/ FlushRecordFails(t) \/ FlushFinalize(t) \/ GetConsumed(t)
             \/ Reconcile(t) \/ PurgeSample(t) \/ PurgeExpired(t) \/ Restart(t)
      PROVE  UNCHANGED executed
  BY <1>2 DEF FlushRead, FlushRecord, FlushRecordFails, FlushFinalize, GetConsumed, Reconcile,
              PurgeSample, PurgeExpired, Restart, history
<1>3. CASE Tick \/ StepBack \/ Crash \/ UNCHANGED vars
  BY <1>3 DEF Tick, StepBack, Crash, vars, history
<1> QED BY <1>1, <1>2, <1>3, OperateQuiet DEF Next, Flush

LEMMA EvidenceNext ==
  ASSUME Typed, OnceInv, LineInv, EvidenceInv, [Next]_vars
  PROVE  EvidenceInv'
<1> SUFFICES ASSUME NEW a \in Approvals PROVE Evidence(a)'
  BY DEF EvidenceInv
<1>1. CASE executed'[a] = executed[a] /\ executed[a] = <<>>
  BY <1>1 DEF Evidence
<1>2. CASE executed'[a] = executed[a] /\ executed[a] # <<>>
  <2>1. Evidence(a) /\ Spent(a)
    BY <1>2 DEF EvidenceInv, OnceInv, ExecutedOnce
  <2>2. SameContent(a)
    BY <2>1, ContentStays DEF Spent
  <2>3. PICK i \in Nat, j \in Nat, m \in Nat : InOrder(a, i, j, m)
    BY <1>2, <2>1 DEF Evidence
  <2>4. InOrder(a, i, j, m)'
    BY <2>3, OrderStays
  <2>5. Proven(a)'
    BY <1>2, <2>1, <2>2 DEF Evidence, Proven, SameContent, VerifiesBinding
  <2>6. \A k \in 1..Len(executed'[a]) : ContextMatches(approvals'[a].binding, executed'[a][k])
    BY <1>2, <2>1, <2>2 DEF Evidence, SameContent
  <2> QED BY <2>4, <2>5, <2>6 DEF Evidence
<1>3. ASSUME NEW t \in Threads, thread[t].approval = a, UNCHANGED <<storage, ledger>>,
             ConsumedBinding(a, thread[t].event),
             ContextMatches(approvals[a].binding, thread[t].required),
             executed'[a] = Append(executed[a], thread[t].required)
      PROVE  Evidence(a)'
  <2>1. executed[a] \in Seq(AnyBinding) /\ Len(executed[a]) \in Nat
    BY DEF Typed, TypeOK
  <2>2. \A k \in 1..Len(executed'[a]) :
          \/ k \in 1..Len(executed[a]) /\ executed'[a][k] = executed[a][k] /\ executed[a] # <<>>
          \/ executed'[a][k] = thread[t].required
    BY <1>3, <2>1
  <2>3. \A k \in 1..Len(executed'[a]) : ContextMatches(approvals'[a].binding, executed'[a][k])
    BY <1>3, <2>2 DEF EvidenceInv, Evidence, storage
  <2>4. PICK p \in EventIds, q \in EventIds :
          /\ DeliveredFor(a) = {p, q, thread[t].event}
          /\ outbox[p].kind = "pending" /\ outbox[q].kind = "approved"
          /\ outbox[thread[t].event].kind = "consumed" /\ Proven(a)
          /\ \A e \in {p, q, thread[t].event} : VerifyReceipt(e)
          /\ outbox[p].receipt < outbox[q].receipt
          /\ outbox[q].receipt < outbox[thread[t].event].receipt
    BY <1>3 DEF ConsumedBinding, Proven
  <2>5. \A e \in {p, q, thread[t].event} :
          /\ outbox[e].receipt \in 1..Len(ledger) /\ ledger[outbox[e].receipt] = e
          /\ outbox[e].approval = a
    BY <2>4 DEF VerifyReceipt, VerifiedEntries, DeliveredFor
  <2>6. PICK i \in Nat, j \in Nat, m \in Nat :
          i = outbox[p].receipt /\ j = outbox[q].receipt /\ m = outbox[thread[t].event].receipt
    BY <2>5
  <2>7. InOrder(a, i, j, m)
    BY <2>4, <2>5, <2>6 DEF InOrder, Of, Kind
  <2>8. InOrder(a, i, j, m)' /\ Proven(a)'
    BY <1>3, <2>4, <2>7 DEF InOrder, Of, Kind, Proven, storage, VerifiesBinding
  <2> QED BY <2>3, <2>8 DEF Evidence
<1> QED BY <1>1, <1>2, <1>3, ExecutedNext

(* No status is visible before its own ledger entry exists, wherever an    *)
(* append fails or the process dies, and every execution has its submitted,*)
(* approved and consumed entries in order and the operator's proof for     *)
(* exactly the approval's content, of which it used no more than was shown.*)
THEOREM DecisionsAreAudited == Spec => []VisibleOnlyWhenAudited
<1>1. Typed /\ OnceInv /\ LineInv /\ EvidenceInv /\ [Next]_vars => EvidenceInv'
  BY EvidenceNext
<1>2. Init => EvidenceInv
  BY DEF Init, EvidenceInv, Evidence
<1>3. Typed /\ RowInv /\ EvidenceInv => VisibleOnlyWhenAudited
  <2> SUFFICES ASSUME Typed, RowInv, EvidenceInv, NEW a \in Approvals
               PROVE  /\ approvals[a].status \in Transitions =>
                           /\ approvals[a].last \in EventIds
                           /\ outbox[approvals[a].last].approval = a
                           /\ outbox[approvals[a].last].kind = approvals[a].status
                           /\ \E i \in 1..Len(ledger) : ledger[i] = approvals[a].last
                      /\ \A k \in 1..Len(executed[a]) :
                           /\ ContextMatches(approvals[a].binding, executed[a][k])
                           /\ Proven(a)
                           /\ \E i, j, m \in DOMAIN LedgerKinds(a) :
                                /\ i < j /\ j < m
                                /\ LedgerKinds(a)[i] = "pending" /\ LedgerKinds(a)[j] = "approved"
                                /\ LedgerKinds(a)[m] = "consumed"
    BY DEF VisibleOnlyWhenAudited, Proven
  <2>1. ASSUME approvals[a].status \in Transitions
        PROVE  /\ approvals[a].last \in EventIds
               /\ outbox[approvals[a].last].approval = a
               /\ outbox[approvals[a].last].kind = approvals[a].status
               /\ \E i \in 1..Len(ledger) : ledger[i] = approvals[a].last
    BY <2>1 DEF RowInv, Shown, Row, InLedger
  <2>2. ASSUME NEW k \in 1..Len(executed[a])
        PROVE  /\ ContextMatches(approvals[a].binding, executed[a][k])
               /\ Proven(a)
               /\ \E i, j, m \in DOMAIN LedgerKinds(a) :
                    /\ i < j /\ j < m
                    /\ LedgerKinds(a)[i] = "pending" /\ LedgerKinds(a)[j] = "approved"
                    /\ LedgerKinds(a)[m] = "consumed"
    <3>1. executed[a] # <<>>
      BY <2>2
    <3>2. PICK i \in Nat, j \in Nat, m \in Nat : InOrder(a, i, j, m)
      BY <3>1 DEF EvidenceInv, Evidence
    <3>3. {i, j, m} \subseteq DOMAIN LedgerKinds(a)
      BY <3>2 DEF InOrder, LedgerKinds, Of
    <3>4. /\ LedgerKinds(a)[i] = "pending" /\ LedgerKinds(a)[j] = "approved"
          /\ LedgerKinds(a)[m] = "consumed"
      BY <3>2 DEF InOrder, LedgerKinds, Of, Kind
    <3> QED BY <3>1, <3>2, <3>3, <3>4 DEF EvidenceInv, Evidence, InOrder
  <2> QED BY <2>1, <2>2
<1> QED BY <1>1, <1>2, <1>3, LinesInvariant, PTL DEF Spec

(* A consumption is stamped inside the time to live of the decision, and   *)
(* stays so: the decision's time never changes once its event is staged.   *)
THEOREM GrantsUsedInTime == Spec => []ConsumedWithinTtl
<1>1. ASSUME Typed, RowInv, LineInv, ConsumedWithinTtl, [Next]_vars PROVE ConsumedWithinTtl'
  <2> SUFFICES ASSUME NEW e \in EventIds, outbox'[e].kind = "consumed"
               PROVE  /\ approvals'[outbox'[e].approval].decided <= outbox'[e].at
                      /\ outbox'[e].at < approvals'[outbox'[e].approval].decided + Ttl
    BY DEF ConsumedWithinTtl
  <2>1. CASE outbox[e].state # "absent"
    <3>1. /\ outbox[e].kind = "consumed" /\ outbox'[e].approval = outbox[e].approval
          /\ outbox'[e].at = outbox[e].at
      BY <1>1, <2>1, RowsStay
    <3>2. /\ outbox[e].approval \in Approvals
          /\ approvals[outbox[e].approval].status \notin {"absent", "pending"}
      BY <1>1, <3>1, TerminalHolds DEF LineInv, Terminal
    <3>3. PICK a \in Approvals : a = outbox[e].approval
      BY <3>2
    <3>4. approvals'[a].decided = approvals[a].decided
      BY <3>2, <3>3, ContentStays, <1>1 DEF SameContent
    <3> QED BY <1>1, <3>1, <3>3, <3>4 DEF ConsumedWithinTtl
  <2>2. CASE outbox[e].state = "absent"
    <3>1. ASSUME NEW a \in Approvals, NEW f \in EventIds, NEW kind \in Transitions, StageMove(a, f, kind)
          PROVE  /\ approvals'[outbox'[e].approval].decided <= outbox'[e].at
                 /\ outbox'[e].at < approvals'[outbox'[e].approval].decided + Ttl
      <4>1. e = f
        BY <1>1, <2>2, <3>1 DEF StageMove, Inserted, RowInv, Row
      <4>2. kind = "consumed" /\ outbox'[e].approval = a /\ outbox'[e].at = clock
        BY <3>1, <4>1 DEF StageMove, Inserted
      <4> QED BY <3>1, <4>2 DEF StageMove, StagedFrom, SameContent
    <3>2. outbox'[e] # outbox[e]
      BY <1>1, <2>2 DEF RowInv, Row
    <3>3. ASSUME NEW a \in Approvals, NEW f, NEW i, FinalMove(a, f, i) PROVE FALSE
      BY <2>2, <3>2, <3>3 DEF FinalMove
    <3>4. ASSUME NEW old \in SUBSET Approvals, PurgeMove(old) PROVE FALSE
      BY <2>2, <3>2, <3>4 DEF PurgeMove
    <3> QED BY <1>1, <3>1, <3>2, <3>3, <3>4, RowsNext DEF RowMoves
  <2> QED BY <2>1, <2>2
<1>2. Init => ConsumedWithinTtl
  <2>1. Init => \A e \in EventIds : outbox[e].kind = "none"
    BY DEF Init, AbsentEvent
  <2> QED BY <2>1 DEF ConsumedWithinTtl
<1> QED BY <1>1, <1>2, LinesInvariant, PTL DEF Spec

-----------------------------------------------------------------------------
(***************************************************************************)
(* Decision nonces.  A nonce is on record until the clock has shown a time *)
(* past its retention: purge_expired uses the clock it sampled, which is   *)
(* not later than the latest time shown, whatever the clock does since.    *)
(***************************************************************************)
NonceInv ==
  /\ clock <= horizon
  /\ \A t \in Threads : thread[t].pc = "purge" => thread[t].now <= horizon
  /\ \A n \in Nonces : \A i \in 1..Len(uses[n]) :
       \/ uses[n][i].at + Retention <= horizon
       \/ uses[n][i].at + Retention <= tombstones[n]

NonceMoves ==
  \/ UNCHANGED <<tombstones, uses>>
  \/ /\ UNCHANGED <<clock, horizon>>
     /\ \E n \in Nonces :
          /\ tombstones[n] = NoTime /\ tombstones' = [tombstones EXCEPT ![n] = clock + Retention]
          /\ uses' = [uses EXCEPT ![n] = Append(uses[n], [at |-> clock, horizon |-> horizon])]
  \/ /\ UNCHANGED <<clock, horizon, uses>>
     /\ \E t \in Threads :
          /\ thread[t].pc = "purge"
          /\ tombstones' = [n \in Nonces |-> IF tombstones[n] <= thread[t].now THEN NoTime ELSE tombstones[n]]

LEMMA NoncesNext ==
  ASSUME Typed, [Next]_vars
  PROVE  NonceMoves
<1>1. ASSUME NEW a, NEW e, NEW d, NEW o, NEW t, NEW v \in Verifications, Decide(t, a, e, d, o, v)
      PROVE  NonceMoves
  <2>1. v.nonce \in Nonces
    BY DEF Verifications
  <2>2. /\ tombstones[v.nonce] = NoTime /\ UNCHANGED <<clock, horizon>>
        /\ tombstones' = [tombstones EXCEPT ![v.nonce] = clock + Retention]
        /\ uses' = [uses EXCEPT ![v.nonce] = Append(uses[v.nonce], [at |-> clock, horizon |-> horizon])]
    BY <1>1 DEF Decide, NonceUnused
  <2> QED BY <2>1, <2>2 DEF NonceMoves
<1>2. ASSUME UNCHANGED <<tombstones, uses>> PROVE NonceMoves
  BY <1>2 DEF NonceMoves
<1>3. ASSUME NEW t \in Threads, PurgeExpired(t) PROVE NonceMoves
  <2>1. /\ thread[t].pc = "purge" /\ UNCHANGED <<clock, horizon, uses>>
        /\ tombstones' = [n \in Nonces |-> IF tombstones[n] <= thread[t].now THEN NoTime ELSE tombstones[n]]
    BY <1>3 DEF PurgeExpired, history
  <2> QED BY <2>1 DEF NonceMoves
<1>4. ASSUME NEW t \in Threads, Operate(t) PROVE NonceMoves
  <2>1. ASSUME NEW a, NEW e, NEW b,
               Submit(t, a, e, b) \/ ConsumeApproved(t, a, e, b) \/ ExpireApproved(t, a, e, b)
        PROVE  NonceMoves
    BY <1>2, <2>1 DEF Submit, ConsumeApproved, ExpireApproved, history
  <2>2. ASSUME NEW a, NEW e, NEW o, DenyForSystemSafety(t, a, e, o) PROVE NonceMoves
    BY <1>2, <2>2 DEF DenyForSystemSafety, history
  <2> QED BY <1>1, <1>4, <2>1, <2>2 DEF Operate, Approve, Deny
<1>5. ASSUME NEW t \in Threads,
             \/ FlushRead(t) \/ FlushRecord(t) \/ FlushRecordFails(t) \/ FlushFinalize(t) \/ GetConsumed(t)
             \/ VerifyAndExecute(t) \/ Reconcile(t) \/ PurgeSample(t) \/ Restart(t)
      PROVE  NonceMoves
  BY <1>2, <1>5 DEF FlushRead, FlushRecord, FlushRecordFails, FlushFinalize, GetConsumed, Reconcile,
                    PurgeSample, VerifyAndExecute, Restart, history, storage
<1>6. CASE Tick \/ StepBack \/ Crash \/ UNCHANGED vars
  BY <1>2, <1>6 DEF Tick, StepBack, Crash, vars, history, storage
<1> QED BY <1>3, <1>4, <1>5, <1>6 DEF Next, Flush

LEMMA ClockNext ==
  ASSUME Typed, [Next]_vars, clock <= horizon
  PROVE  clock' <= horizon' /\ horizon <= horizon'
<1>1. clock \in Nat /\ horizon \in Nat
  BY DEF Typed, TypeOK, Time
<1>2. ASSUME UNCHANGED <<clock, horizon>> PROVE clock' <= horizon' /\ horizon <= horizon'
  BY <1>1, <1>2
<1>3. ASSUME NEW t \in Threads, Operate(t) PROVE clock' <= horizon' /\ horizon <= horizon'
  BY <1>2, <1>3, OperateQuiet
<1>4. ASSUME NEW t \in Threads,
             \/ FlushRead(t) \/ FlushRecord(t) \/ FlushRecordFails(t) \/ FlushFinalize(t) \/ GetConsumed(t)
             \/ VerifyAndExecute(t) \/ Reconcile(t) \/ PurgeSample(t) \/ PurgeExpired(t) \/ Restart(t)
      PROVE  clock' <= horizon' /\ horizon <= horizon'
  BY <1>2, <1>4 DEF FlushRead, FlushRecord, FlushRecordFails, FlushFinalize, GetConsumed, Reconcile,
                    PurgeSample, PurgeExpired, VerifyAndExecute, Restart, history
<1>5. CASE Crash \/ UNCHANGED vars
  BY <1>2, <1>5 DEF Crash, vars, history
<1>6. CASE Tick
  BY <1>1, <1>6 DEF Tick
<1>7. CASE StepBack
  BY <1>1, <1>7 DEF StepBack, history
<1> QED BY <1>3, <1>4, <1>5, <1>6, <1>7 DEF Next, Flush

LEMMA UsesTyped ==
  ASSUME Typed, NEW n \in Nonces
  PROVE  /\ uses[n] \in Seq([at : Time, horizon : Time]) /\ Len(uses[n]) \in Nat
         /\ \A i \in 1..Len(uses[n]) : uses[n][i].at \in Nat /\ uses[n][i].horizon \in Nat
         /\ tombstones[n] \in Int
<1>1. uses[n] \in Seq([at : Time, horizon : Time])
  BY DEF Typed, TypeOK
<1>2. \A i \in 1..Len(uses[n]) : uses[n][i] \in [at : Time, horizon : Time]
  <2> DEFINE U == [at : Time, horizon : Time]
  <2> HIDE DEF U
  <2>1. uses[n] \in Seq(U)
    BY <1>1 DEF U
  <2>2. \A i \in 1..Len(uses[n]) : uses[n][i] \in U
    BY <2>1
  <2> QED BY <2>2 DEF U
<1>3. tombstones[n] \in Int
  BY DEF Typed, TypeOK, NoTime
<1>4. \A i \in 1..Len(uses[n]) : uses[n][i].at \in Nat /\ uses[n][i].horizon \in Nat
  BY <1>2 DEF Time
<1> QED BY <1>1, <1>3, <1>4

(* The uses of a nonce after a step: the earlier ones, and at most one.    *)
LEMMA UsesNext ==
  ASSUME Typed, NEW n \in Nonces,
         uses' = [uses EXCEPT ![n] = Append(uses[n], [at |-> clock, horizon |-> horizon])], NEW m \in Nonces
  PROVE  IF m = n
         THEN /\ Len(uses'[m]) = Len(uses[n]) + 1
              /\ \A i \in 1..Len(uses[n]) : uses'[m][i] = uses[n][i]
              /\ uses'[m][Len(uses[n]) + 1].at = clock /\ uses'[m][Len(uses[n]) + 1].horizon = horizon
         ELSE uses'[m] = uses[m]
<1> DEFINE u == [at |-> clock, horizon |-> horizon]
<1>1. u.at = clock /\ u.horizon = horizon
  OBVIOUS
<1>2. uses' = [uses EXCEPT ![n] = Append(uses[n], u)]
  OBVIOUS
<1> HIDE DEF u
<1>3. CASE m = n
  <2>1. uses[n] \in Seq([at : Time, horizon : Time])
    BY UsesTyped
  <2>2. uses'[m] = Append(uses[n], u)
    BY <1>2, <1>3 DEF Typed, TypeOK
  <2>3. /\ Len(uses'[m]) = Len(uses[n]) + 1 /\ uses'[m][Len(uses[n]) + 1] = u
        /\ \A i \in 1..Len(uses[n]) : uses'[m][i] = uses[n][i]
    BY <2>1, <2>2
  <2> QED BY <1>1, <1>3, <2>3
<1>4. CASE m # n
  BY <1>2, <1>4 DEF Typed, TypeOK
<1> QED BY <1>3, <1>4

LEMMA NonceInvNext ==
  ASSUME Typed, OnceInv, NonceInv, [Next]_vars
  PROVE  NonceInv'
<1>1. clock \in Nat /\ horizon \in Nat /\ Retention \in Nat
  BY ApprovalConstants DEF Typed, TypeOK, Time
<1>2. clock' <= horizon' /\ horizon <= horizon'
  BY ClockNext DEF NonceInv
<1>3. horizon' \in Nat
  <2>1. Typed'
    BY TypedStep
  <2> QED BY <2>1 DEF Typed, TypeOK, Time
<1>4. ASSUME NEW t \in Threads, thread'[t].pc = "purge" PROVE thread'[t].now <= horizon'
  <2>1. CASE thread'[t] = thread[t]
    <3>1. thread[t].now \in Int /\ thread[t].now <= horizon
      BY <1>4, <2>1 DEF NonceInv, Typed, TypeOK, ThreadType, Times, Time, NoTime
    <3> QED BY <1>1, <1>2, <1>3, <2>1, <3>1
  <2>2. CASE thread'[t].now = clock
    BY <1>1, <1>2, <1>3, <2>2 DEF NonceInv
  <2> QED BY <1>4, <2>1, <2>2, ThreadsNext DEF ThreadMoves
<1>5. ASSUME NEW n \in Nonces, NEW i \in 1..Len(uses'[n])
      PROVE  \/ uses'[n][i].at + Retention <= horizon'
             \/ uses'[n][i].at + Retention <= tombstones'[n]
  <2>0. /\ tombstones[n] \in Int
        /\ \A j \in 1..Len(uses[n]) :
             /\ uses[n][j].at \in Nat
             /\ uses[n][j].at + Retention <= horizon \/ uses[n][j].at + Retention <= tombstones[n]
    BY UsesTyped DEF NonceInv
  <2>1. CASE UNCHANGED <<tombstones, uses>>
    BY <1>1, <1>2, <1>3, <2>0, <2>1
  <2>2. ASSUME NEW m \in Nonces, UNCHANGED <<clock, horizon>>, tombstones[m] = NoTime,
               tombstones' = [tombstones EXCEPT ![m] = clock + Retention],
               uses' = [uses EXCEPT ![m] = Append(uses[m], [at |-> clock, horizon |-> horizon])]
        PROVE  \/ uses'[n][i].at + Retention <= horizon'
               \/ uses'[n][i].at + Retention <= tombstones'[n]
    <3>1. CASE n = m
      <4>1. /\ Len(uses'[n]) = Len(uses[n]) + 1
            /\ \A j \in 1..Len(uses[n]) : uses'[n][j] = uses[n][j]
            /\ uses'[n][Len(uses[n]) + 1].at = clock
        BY <2>2, <3>1, UsesNext
      <4>2. tombstones'[n] = clock + Retention
        BY <2>2, <3>1 DEF Typed, TypeOK
      <4>3. i \in 1..Len(uses[n]) \/ i = Len(uses[n]) + 1
        BY <4>1, UsesTyped
      <4>4. CASE i = Len(uses[n]) + 1
        BY <1>1, <4>1, <4>2, <4>4
      <4>5. CASE i \in 1..Len(uses[n])
        BY <1>1, <2>0, <2>2, <3>1, <4>1, <4>5 DEF NoTime
      <4> QED BY <4>3, <4>4, <4>5
    <3>2. CASE n # m
      BY <1>1, <2>0, <2>2, <3>2, UsesNext DEF Typed, TypeOK
    <3> QED BY <3>1, <3>2
  <2>3. ASSUME NEW t \in Threads, thread[t].pc = "purge", UNCHANGED <<clock, horizon, uses>>,
               tombstones' = [k \in Nonces |-> IF tombstones[k] <= thread[t].now THEN NoTime ELSE tombstones[k]]
        PROVE  \/ uses'[n][i].at + Retention <= horizon'
               \/ uses'[n][i].at + Retention <= tombstones'[n]
    <3>1. thread[t].now \in Int /\ thread[t].now <= horizon
      BY <2>3 DEF NonceInv, Typed, TypeOK, ThreadType, Times, Time, NoTime
    <3>2. tombstones'[n] = tombstones[n] \/ tombstones[n] <= thread[t].now
      BY <2>3
    <3> QED BY <1>1, <2>0, <2>3, <3>1, <3>2
  <2> QED BY <2>1, <2>2, <2>3, NoncesNext DEF NonceMoves
<1> QED BY <1>2, <1>4, <1>5 DEF NonceInv

(* A decision nonce accepted once is accepted again only after the clock   *)
(* has shown a time past its retention, even if the clock was set back     *)
(* since and the approval it decided is purged: between the UNIQUE column  *)
(* and the tombstones, _stage_decision never sees it as unused before.     *)
THEOREM NoncesAreKept == Spec => []NonceNotReplayed
<1>1. ASSUME Typed, NonceInv, NonceNotReplayed, [Next]_vars PROVE NonceNotReplayed'
  <2> SUFFICES ASSUME NEW n \in Nonces, NEW i \in 1..Len(uses'[n]), NEW j \in 1..Len(uses'[n]), i < j
               PROVE  uses'[n][j].horizon >= uses'[n][i].at + Retention
    BY DEF NonceNotReplayed
  <2>1. CASE uses'[n] = uses[n]
    BY <1>1, <2>1 DEF NonceNotReplayed
  <2>2. ASSUME NEW m \in Nonces, tombstones[m] = NoTime,
               uses' = [uses EXCEPT ![m] = Append(uses[m], [at |-> clock, horizon |-> horizon])], n = m
        PROVE  uses'[n][j].horizon >= uses'[n][i].at + Retention
    <3>1. /\ Len(uses'[n]) = Len(uses[n]) + 1
          /\ \A k \in 1..Len(uses[n]) : uses'[n][k] = uses[n][k]
          /\ uses'[n][Len(uses[n]) + 1].horizon = horizon
      BY <1>1, <2>2, UsesNext
    <3>2. Len(uses[n]) \in Nat /\ \A k \in 1..Len(uses[n]) : uses[n][k].at \in Nat /\ uses[n][k].horizon \in Nat
      BY <1>1, UsesTyped
    <3>3. i \in 1..Len(uses[n]) /\ (j \in 1..Len(uses[n]) \/ j = Len(uses[n]) + 1)
      BY <3>1, <3>2
    <3>4. CASE j \in 1..Len(uses[n])
      BY <1>1, <3>1, <3>3, <3>4 DEF NonceNotReplayed
    <3>5. CASE j = Len(uses[n]) + 1
      <4>1. uses[n][i].at + Retention <= horizon \/ uses[n][i].at + Retention <= -1
        BY <1>1, <2>2, <3>3 DEF NonceInv, NoTime
      <4>2. horizon \in Nat /\ Retention \in Nat
        BY <1>1, ApprovalConstants DEF Typed, TypeOK, Time
      <4> QED BY <3>1, <3>2, <3>3, <3>5, <4>1, <4>2
    <3> QED BY <3>3, <3>4, <3>5
  <2>3. ASSUME NEW m \in Nonces,
               uses' = [uses EXCEPT ![m] = Append(uses[m], [at |-> clock, horizon |-> horizon])], n # m
        PROVE  uses'[n] = uses[n]
    BY <1>1, <2>3, UsesNext
  <2> QED BY <1>1, <2>1, <2>2, <2>3, NoncesNext DEF NonceMoves
<1>2. Init => NonceInv /\ NonceNotReplayed
  <2> SUFFICES ASSUME Init PROVE NonceInv /\ NonceNotReplayed
    OBVIOUS
  <2>1. \A t \in Threads : thread[t].pc = "idle"
    BY DEF Init, Idle
  <2>2. \A n \in Nonces : 1..Len(uses[n]) = {}
    BY DEF Init
  <2>3. clock <= horizon
    BY DEF Init
  <2> QED BY <2>1, <2>2, <2>3 DEF NonceInv, NonceNotReplayed
<1> QED BY <1>1, <1>2, NonceInvNext, RowsInvariant, PTL DEF Spec

-----------------------------------------------------------------------------
(***************************************************************************)
(* Booting.  While the constructor reconciles, one thread works through    *)
(* the rows left pending and no other runs, so nothing is staged behind    *)
(* its back.                                                               *)
(***************************************************************************)
Booting(t) ==
  /\ thread[t].pc \in {"read", "record", "finalize"} /\ thread[t].op = "reconcile"
  /\ PendingEvents \subseteq thread[t].todo \cup {thread[t].event}
  /\ \A u \in Threads \ {t} : thread[u].pc = "idle"

BootInv ==
  /\ mode = "down" => \A t \in Threads : thread[t].pc = "idle"
  /\ mode = "boot" => \E t \in Threads : Booting(t)

Exposed == mode # "up" /\ mode' = "up" => PendingEvents' = {}

LEMMA BusyIsBooting ==
  ASSUME BootInv, Typed, NEW t \in Threads, thread[t].pc # "idle", mode # "up"
  PROVE  mode = "boot" /\ Booting(t)
<1>1. mode = "boot"
  BY DEF BootInv, Typed, TypeOK
<1> QED BY <1>1 DEF BootInv, Booting

LEMMA RaiseBoot ==
  ASSUME Typed, BootInv, NEW t \in Threads, thread[t].pc # "idle", Raise(t)
  PROVE  BootInv' /\ Exposed
<1>1. Idle.pc = "idle"
  BY DEF Idle
<1>2. CASE mode = "up"
  BY <1>2 DEF Raise, BootInv, Exposed
<1>3. CASE mode # "up"
  <2>1. mode = "boot" /\ \A u \in Threads \ {t} : thread[u].pc = "idle"
    BY <1>3, BusyIsBooting DEF Booting
  <2>2. mode' = "down" /\ \A u \in Threads : thread'[u].pc = "idle"
    BY <1>1, <2>1 DEF Raise, Typed, TypeOK
  <2> QED BY <2>2 DEF BootInv, Exposed
<1> QED BY <1>2, <1>3

LEMMA FlushBoot ==
  ASSUME Typed, BootInv, NEW t \in Threads, FlushRead(t) \/ FlushRecord(t)
  PROVE  BootInv' /\ Exposed
<1>1. thread[t].pc \in {"read", "record"} /\ UNCHANGED outbox /\ thread[t] \in ThreadType
  BY DEF FlushRead, FlushRecord, storage, Typed, TypeOK
<1>2. CASE Raise(t)
  BY <1>1, <1>2, RaiseBoot
<1>3. CASE ~Raise(t)
  <2>1. mode' = mode
    BY <1>3 DEF FlushRead, FlushRecord
  <2>2. /\ thread'[t].pc \in {"record", "finalize"} /\ thread'[t].op = thread[t].op
        /\ thread'[t].event = thread[t].event /\ thread'[t].todo = thread[t].todo
        /\ \A u \in Threads \ {t} : thread'[u] = thread[u]
    <3>1. CASE FlushRecord(t)
      <4>1. PICK i : thread' = [thread EXCEPT ![t] = [thread[t] EXCEPT !.pc = "finalize", !.receipt = i]]
        BY <3>1 DEF FlushRecord
      <4> QED BY <1>1, <4>1 DEF ThreadType, Typed, TypeOK
    <3>2. CASE FlushRead(t)
      <4>1. PICK p, i : /\ p = IF outbox[thread[t].event].state = "pending" THEN "record" ELSE "finalize"
                        /\ i = outbox[thread[t].event].receipt
        OBVIOUS
      <4>2. thread' = [thread EXCEPT ![t] = [thread[t] EXCEPT !.pc = p, !.receipt = i]]
        BY <1>3, <3>2, <4>1 DEF FlushRead
      <4>3. p \in {"record", "finalize"}
        BY <4>1
      <4> QED BY <1>1, <4>2, <4>3 DEF ThreadType, Typed, TypeOK
    <3> QED BY <3>1, <3>2
  <2>3. CASE mode = "up"
    BY <2>1, <2>3 DEF BootInv, Exposed
  <2>4. CASE mode # "up"
    <3>1. mode = "boot" /\ Booting(t)
      BY <1>1, <2>4, BusyIsBooting
    <3>2. PendingEvents' = PendingEvents
      BY <1>1 DEF PendingEvents
    <3>3. Booting(t)'
      BY <2>2, <3>1, <3>2 DEF Booting
    <3> QED BY <2>1, <3>1, <3>3 DEF BootInv, Exposed
  <2> QED BY <2>3, <2>4
<1> QED BY <1>2, <1>3

LEMMA AfterFlushBoot ==
  ASSUME Typed, BootInv, NEW t \in Threads, AfterFlush(t), thread[t].pc = "finalize",
         PendingEvents' \subseteq PendingEvents \ {thread[t].event}
  PROVE  BootInv' /\ Exposed
<1>0. thread[t] \in ThreadType
  BY DEF Typed, TypeOK
<1>1. CASE mode = "up"
  <2>1. mode' = "up"
    BY <1>1 DEF AfterFlush
  <2> QED BY <1>1, <2>1 DEF BootInv, Exposed
<1>2. CASE mode # "up"
  <2>1. mode = "boot" /\ Booting(t)
    BY <1>2, BusyIsBooting
  <2>2. thread[t].op = "reconcile" /\ PendingEvents' \subseteq thread[t].todo
    BY <2>1 DEF Booting
  <2>3. CASE thread[t].todo # {}
    <3>1. PICK e \in thread[t].todo :
            thread' = [thread EXCEPT ![t] = [thread[t] EXCEPT !.pc = "read", !.event = e,
                                                 !.receipt = 0, !.todo = thread[t].todo \ {e}]]
      BY <2>2, <2>3 DEF AfterFlush
    <3>2. mode' = mode
      BY <2>2, <2>3 DEF AfterFlush
    <3> DEFINE r == [thread[t] EXCEPT !.pc = "read", !.event = e, !.receipt = 0,
                                      !.todo = thread[t].todo \ {e}]
    <3>3. r.pc = "read" /\ r.op = thread[t].op /\ r.event = e /\ r.todo = thread[t].todo \ {e}
      BY <1>0 DEF ThreadType
    <3>4. thread' = [thread EXCEPT ![t] = r]
      BY <3>1
    <3> HIDE DEF r
    <3>5. thread'[t] = r /\ \A u \in Threads \ {t} : thread'[u] = thread[u]
      BY <3>4 DEF Typed, TypeOK
    <3>6. Booting(t)'
      BY <2>1, <2>2, <3>3, <3>5 DEF Booting
    <3> QED BY <2>1, <3>2, <3>6 DEF BootInv, Exposed
  <2>4. CASE thread[t].todo = {}
    <3>1. mode' = "up"
      BY <2>1, <2>2, <2>4 DEF AfterFlush
    <3>2. PendingEvents' = {}
      BY <2>2, <2>4
    <3> QED BY <3>1, <3>2 DEF BootInv, Exposed
  <2> QED BY <2>3, <2>4
<1> QED BY <1>1, <1>2

LEMMA FinalizeBoot ==
  ASSUME Typed, BootInv, NEW t \in Threads, FlushFinalize(t)
  PROVE  BootInv' /\ Exposed
<1> DEFINE e == thread[t].event
<1>1. thread[t].pc = "finalize" /\ e \in EventIds
  BY DEF FlushFinalize, Typed, FlushingAnEvent
<1>2. CASE Raise(t)
  BY <1>1, <1>2, RaiseBoot
<1>3. CASE AfterFlush(t) /\ UNCHANGED outbox /\ outbox[e].state = "delivered"
  <2>1. PendingEvents' \subseteq PendingEvents \ {e}
    BY <1>3 DEF PendingEvents
  <2> QED BY <1>1, <1>3, <2>1, AfterFlushBoot
<1>4. CASE AfterFlush(t) /\ ~UNCHANGED <<approvals, outbox>>
  <2>1. FinalMove(outbox[e].approval, e, thread[t].receipt)
    BY <1>4, FinalizeMoves
  <2>2. outbox'[e].state = "delivered" /\ \A f \in EventIds \ {e} : outbox'[f] = outbox[f]
    BY <2>1 DEF FinalMove
  <2>3. PendingEvents' \subseteq PendingEvents \ {e}
    BY <2>2 DEF PendingEvents
  <2> QED BY <1>1, <1>4, <2>3, AfterFlushBoot
<1>5. \/ Raise(t)
      \/ AfterFlush(t) /\ UNCHANGED outbox /\ outbox[e].state = "delivered"
      \/ AfterFlush(t) /\ outbox[e].state = "pending"
           /\ outbox' = [outbox EXCEPT ![e] =
                [@ EXCEPT !.state = "delivered", !.receipt = thread[t].receipt, !.delivered = clock]]
  BY DEF FlushFinalize
<1>6. ASSUME outbox[e].state = "pending",
             outbox' = [outbox EXCEPT ![e] =
                [@ EXCEPT !.state = "delivered", !.receipt = thread[t].receipt, !.delivered = clock]]
      PROVE  ~UNCHANGED outbox
  <2>1. outbox[e] \in EventType
    BY <1>1 DEF Typed, TypeOK
  <2>2. outbox'[e].state = "delivered"
    BY <1>1, <1>6, <2>1 DEF Typed, TypeOK, EventType
  <2> QED BY <1>6, <2>2
<1> QED BY <1>2, <1>3, <1>4, <1>5, <1>6

LEMMA RestartBoot ==
  ASSUME Typed, BootInv, NEW t \in Threads, Restart(t)
  PROVE  BootInv' /\ Exposed
<1>1. UNCHANGED outbox /\ mode = "down"
  BY DEF Restart, storage
<1>2. PendingEvents' = PendingEvents
  BY <1>1 DEF PendingEvents
<1>3. CASE PendingEvents = {} /\ mode' = "up"
  BY <1>2, <1>3 DEF BootInv, Exposed
<1>4. CASE BeginReconcile(t) /\ mode' = "boot"
  <2>1. PICK e \in PendingEvents :
          thread' = [thread EXCEPT ![t] = [Idle EXCEPT !.pc = "read", !.op = "reconcile", !.event = e,
                                                       !.todo = PendingEvents \ {e}]]
    BY <1>4 DEF BeginReconcile
  <2> DEFINE r == [Idle EXCEPT !.pc = "read", !.op = "reconcile", !.event = e, !.todo = PendingEvents \ {e}]
  <2>2. r.pc = "read" /\ r.op = "reconcile" /\ r.event = e /\ r.todo = PendingEvents \ {e}
    BY DEF Idle
  <2>3. thread' = [thread EXCEPT ![t] = r]
    BY <2>1
  <2> HIDE DEF r
  <2>4. thread'[t] = r /\ \A u \in Threads \ {t} : thread'[u] = thread[u]
    BY <2>3 DEF Typed, TypeOK
  <2>5. \A u \in Threads \ {t} : thread'[u].pc = "idle"
    BY <1>1, <2>4 DEF BootInv
  <2>6. Booting(t)'
    BY <1>2, <2>2, <2>4, <2>5 DEF Booting
  <2> QED BY <1>4, <2>6 DEF BootInv, Exposed
<1> QED BY <1>3, <1>4 DEF Restart

LEMMA OperateCalls ==
  ASSUME NEW t \in Threads, Operate(t)
  PROVE  CanCall(t)
<1>1. ASSUME NEW a, NEW e, NEW b, Submit(t, a, e, b) PROVE CanCall(t)
  BY <1>1 DEF Submit
<1>2. ASSUME NEW a, NEW e, NEW o, NEW v, Approve(t, a, e, o, v) \/ Deny(t, a, e, o, v) PROVE CanCall(t)
  BY <1>2 DEF Approve, Deny, Decide
<1>3. ASSUME NEW a, NEW e, NEW o, DenyForSystemSafety(t, a, e, o) PROVE CanCall(t)
  BY <1>3 DEF DenyForSystemSafety
<1>4. ASSUME NEW a, NEW e, NEW b, ConsumeApproved(t, a, e, b) \/ ExpireApproved(t, a, e, b) PROVE CanCall(t)
  BY <1>4 DEF ConsumeApproved, ExpireApproved
<1> QED BY <1>1, <1>2, <1>3, <1>4 DEF Operate

LEMMA BootNext ==
  ASSUME Typed, BootInv, [Next]_vars
  PROVE  BootInv' /\ Exposed
<1>1. ASSUME mode = "up", UNCHANGED mode PROVE BootInv' /\ Exposed
  BY <1>1 DEF BootInv, Exposed
<1>2. ASSUME NEW t \in Threads, Operate(t) PROVE mode = "up" /\ UNCHANGED mode
  BY <1>2, OperateCalls, OperateQuiet DEF CanCall
<1>3. ASSUME NEW t \in Threads, Reconcile(t) \/ PurgeSample(t) PROVE mode = "up" /\ UNCHANGED mode
  BY <1>3 DEF Reconcile, PurgeSample, CanCall
<1>4. ASSUME NEW t \in Threads, GetConsumed(t) \/ VerifyAndExecute(t) \/ PurgeExpired(t)
      PROVE  mode = "up" /\ UNCHANGED mode
  <2>1. thread[t].pc \in {"get", "verify", "purge"} /\ UNCHANGED mode
    BY <1>4 DEF GetConsumed, VerifyAndExecute, PurgeExpired
  <2> QED BY <2>1, BusyIsBooting DEF Booting
<1>5. ASSUME NEW t \in Threads, FlushRecordFails(t) PROVE BootInv' /\ Exposed
  BY <1>5, RaiseBoot DEF FlushRecordFails
<1>6. CASE Crash
  <2>1. Idle.pc = "idle"
    BY DEF Idle
  <2>2. mode' = "down" /\ \A t \in Threads : thread'[t].pc = "idle"
    BY <1>6, <2>1 DEF Crash
  <2> QED BY <2>2 DEF BootInv, Exposed
<1>7. CASE Tick \/ StepBack \/ UNCHANGED vars
  <2>1. UNCHANGED <<mode, thread, outbox>>
    BY <1>7 DEF Tick, StepBack, vars, storage
  <2> QED BY <2>1 DEF BootInv, Exposed, Booting, PendingEvents
<1> QED BY <1>1, <1>2, <1>3, <1>4, <1>5, <1>6, <1>7, FlushBoot, FinalizeBoot, RestartBoot DEF Next, Flush

(* The queue is exposed after a restart only when every event that the     *)
(* previous process left pending is recorded and finalized.                *)
THEOREM RestartsAreComplete == Spec => BootDeliversAll
<1>1. Init => BootInv
  BY DEF Init, BootInv
<1>2. Typed /\ BootInv /\ [Next]_vars => BootInv'
  BY BootNext
<1>3. Typed /\ BootInv /\ [Next]_vars => [mode # "up" /\ mode' = "up" => PendingEvents' = {}]_vars
  BY BootNext DEF Exposed
<1> QED BY <1>1, <1>2, <1>3, RowsInvariant, PTL DEF Spec, BootDeliversAll

-----------------------------------------------------------------------------
(***************************************************************************)
(* The durable queue implements the in-memory one.  A staging transaction  *)
(* is the abstract method; delivery, finalization, reconciliation, purging *)
(* and crashes change nothing that is seen.                                *)
(***************************************************************************)

(* What was shown, or was shown when it was purged, has its row.           *)
LastInv ==
  \A a \in Approvals : approvals[a].status \in Transitions \cup {"purged"} =>
    approvals[a].last \in EventIds /\ outbox[approvals[a].last].state # "absent"

(* Steps that stage nothing.                                               *)
QuietMoves ==
  \/ UNCHANGED <<approvals, outbox>>
  \/ \E a \in Approvals, e \in EventIds, i \in Nat : FinalMove(a, e, i)
  \/ \E old \in SUBSET Approvals : PurgeMove(old)

LEMMA QuietNext ==
  ASSUME Typed, [Next]_vars, \A t \in Threads : ~Operate(t)
  PROVE  QuietMoves
<1>1. CASE UNCHANGED <<approvals, outbox>>
  BY <1>1 DEF QuietMoves
<1>2. ASSUME NEW t \in Threads, FlushFinalize(t), ~UNCHANGED <<approvals, outbox>> PROVE QuietMoves
  <2>1. thread[t].event \in EventIds /\ thread[t].receipt \in Nat
    BY <1>2 DEF FlushFinalize, Typed, FlushingAnEvent, TypeOK, ThreadType
  <2> QED BY <1>2, <2>1, FinalizeMoves DEF QuietMoves
<1>3. ASSUME NEW t \in Threads, PurgeExpired(t) PROVE QuietMoves
  BY <1>3, PurgeMoves DEF QuietMoves
<1>4. ASSUME NEW t \in Threads,
             \/ FlushRead(t) \/ FlushRecord(t) \/ FlushRecordFails(t) \/ GetConsumed(t)
             \/ VerifyAndExecute(t) \/ Reconcile(t) \/ PurgeSample(t) \/ Restart(t)
      PROVE QuietMoves
  BY <1>1, <1>4 DEF FlushRead, FlushRecord, FlushRecordFails, GetConsumed, VerifyAndExecute, Reconcile,
                    PurgeSample, Restart, storage
<1>5. CASE Tick \/ StepBack \/ Crash \/ UNCHANGED vars
  BY <1>1, <1>5 DEF Tick, StepBack, Crash, vars, storage
<1> QED BY <1>1, <1>2, <1>3, <1>4, <1>5 DEF Next, Flush

LEMMA LastNext ==
  ASSUME Typed, LastInv, [Next]_vars
  PROVE  LastInv'
<1> SUFFICES ASSUME NEW c \in Approvals, approvals'[c].status \in Transitions \cup {"purged"}
             PROVE  approvals'[c].last \in EventIds /\ outbox'[approvals'[c].last].state # "absent"
  BY DEF LastInv
<1>1. ASSUME approvals[c].status \in Transitions \cup {"purged"}, approvals'[c].last = approvals[c].last
      PROVE  approvals'[c].last \in EventIds /\ outbox'[approvals'[c].last].state # "absent"
  <2>1. PICK e \in EventIds : e = approvals[c].last /\ outbox[e].state # "absent"
    BY <1>1 DEF LastInv
  <2> QED BY <1>1, <2>1, RowsStay
<1>2. ASSUME approvals'[c] = approvals[c]
      PROVE  approvals'[c].last \in EventIds /\ outbox'[approvals'[c].last].state # "absent"
  BY <1>1, <1>2
<1>3. ASSUME NEW a \in Approvals, NEW e \in EventIds, NEW kind \in Transitions, StageMove(a, e, kind)
      PROVE  approvals'[c] = approvals[c]
  BY <1>3 DEF StageMove, Transitions
<1>4. ASSUME NEW a \in Approvals, NEW e \in EventIds, NEW i, FinalMove(a, e, i)
      PROVE  approvals'[c].last \in EventIds /\ outbox'[approvals'[c].last].state # "absent"
  <2>1. CASE c = a
    BY <1>4, <2>1 DEF FinalMove
  <2>2. CASE c # a
    BY <1>2, <1>4, <2>2 DEF FinalMove
  <2> QED BY <2>1, <2>2
<1>5. ASSUME NEW old \in SUBSET Approvals, PurgeMove(old)
      PROVE  approvals'[c].last \in EventIds /\ outbox'[approvals'[c].last].state # "absent"
  <2>1. CASE c \in old
    <3>1. approvals[c].status \in Transitions /\ approvals'[c].last = approvals[c].last
      BY <1>5, <2>1 DEF PurgeMove, PurgedApproval, Terminal, Transitions
    <3> QED BY <1>1, <3>1
  <2>2. CASE c \notin old
    BY <1>2, <1>5, <2>2 DEF PurgeMove
  <2> QED BY <2>1, <2>2
<1>6. CASE \E t \in Threads : Operate(t)
  BY <1>2, <1>3, <1>6, OperateMoves
<1>7. CASE \A t \in Threads : ~Operate(t)
  BY <1>2, <1>4, <1>5, <1>7, QuietNext DEF QuietMoves
<1> QED BY <1>6, <1>7

LEMMA SeenFields ==
  ASSUME NEW c \in Approvals
  PROVE  Seen[c] = [status |-> SeenStatus(approvals[c]), binding |-> approvals[c].binding,
                    submitted |-> SubmittedAt(c), decided |-> approvals[c].decided]
  BY DEF Seen

(* The submission's time stays, unless this step is the submission.        *)
LEMMA SubmittedStays ==
  ASSUME Typed, RowInv, [Next]_vars, NEW c \in Approvals,
         \A e \in EventIds : outbox[e].state = "absent" => ~(outbox'[e].approval = c /\ outbox'[e].kind = "pending")
  PROVE  SubmittedAt(c)' = SubmittedAt(c)
<1>1. ASSUME NEW e \in EventIds
      PROVE  (e \in Submissions(c)' <=> e \in Submissions(c))
             /\ (e \in Submissions(c) => outbox'[e].at = outbox[e].at)
  <2>1. CASE outbox[e].state = "absent"
    <3>1. outbox[e].kind # "pending"
      BY <2>1 DEF RowInv, Row
    <3> QED BY <2>1, <3>1 DEF Submissions
  <2>2. CASE outbox[e].state # "absent"
    BY <2>2, RowsStay DEF Submissions
  <2> QED BY <2>1, <2>2
<1>2. Submissions(c)' = Submissions(c)
  BY <1>1 DEF Submissions
<1>3. CASE Submissions(c) = {}
  BY <1>2, <1>3 DEF SubmittedAt
<1>4. CASE Submissions(c) # {}
  <2>1. PICK e \in EventIds : e \in Submissions(c) /\ e = CHOOSE f \in Submissions(c) : TRUE
    BY <1>4 DEF Submissions
  <2>2. outbox'[e].at = outbox[e].at
    BY <1>1, <2>1
  <2> QED BY <1>2, <1>4, <2>1, <2>2 DEF SubmittedAt
<1> QED BY <1>3, <1>4

LEMMA StatusStays ==
  ASSUME Typed, LastInv, [Next]_vars, NEW c \in Approvals, approvals'[c] = approvals[c]
  PROVE  SeenStatus(approvals[c])' = SeenStatus(approvals[c])
<1>1. CASE approvals[c].status = "purged"
  <2>1. PICK e \in EventIds : e = approvals[c].last /\ outbox[e].state # "absent"
    BY <1>1 DEF LastInv
  <2>2. outbox'[e].kind = outbox[e].kind
    BY <2>1, RowsStay
  <2> QED BY <1>1, <2>1, <2>2 DEF SeenStatus
<1>2. CASE approvals[c].status # "purged"
  BY <1>2 DEF SeenStatus
<1> QED BY <1>1, <1>2

LEMMA SeenQuiet ==
  ASSUME Typed, RowInv, LastInv, [Next]_vars, \A t \in Threads : ~Operate(t)
  PROVE  Seen' = Seen
<1>1. QuietMoves
  BY QuietNext
<1>2. \A e \in EventIds : outbox[e].state = "absent" => outbox'[e] = outbox[e]
  BY <1>1 DEF QuietMoves, FinalMove, PurgeMove
<1>3. ASSUME NEW c \in Approvals
      PROVE  SubmittedAt(c)' = SubmittedAt(c)
  <2>1. \A e \in EventIds : outbox[e].state = "absent" => ~(outbox'[e].approval = c /\ outbox'[e].kind = "pending")
    BY <1>2 DEF RowInv, Row
  <2> QED BY <2>1, SubmittedStays
<1>4. ASSUME NEW c \in Approvals
      PROVE  /\ SeenStatus(approvals[c])' = SeenStatus(approvals[c])
             /\ approvals'[c].binding = approvals[c].binding /\ approvals'[c].decided = approvals[c].decided
  <2>1. CASE approvals'[c] = approvals[c]
    BY <2>1, StatusStays
  <2>2. ASSUME NEW a \in Approvals, NEW e \in EventIds, NEW i, FinalMove(a, e, i), approvals'[c] # approvals[c]
        PROVE  /\ SeenStatus(approvals[c])' = SeenStatus(approvals[c])
               /\ approvals'[c].binding = approvals[c].binding /\ approvals'[c].decided = approvals[c].decided
    <3>1. c = a
      BY <2>2 DEF FinalMove
    <3>2. approvals[c].status = "audit_pending" /\ approvals[c].pending = outbox[e].kind
          /\ approvals'[c].status = outbox[e].kind
      BY <2>2, <3>1 DEF FinalMove
    <3>3. outbox[e].kind \in Transitions
      BY <2>2 DEF FinalMove, RowInv, Row
    <3>4. approvals'[c].status \notin {"audit_pending", "purged"}
      BY <3>2, <3>3 DEF Transitions
    <3>5. SeenStatus(approvals[c])' = SeenStatus(approvals[c])
      BY <3>2, <3>4 DEF SeenStatus
    <3> QED BY <2>2, <3>1, <3>5 DEF FinalMove, SameContent
  <2>3. ASSUME NEW old \in SUBSET Approvals, PurgeMove(old), approvals'[c] # approvals[c]
        PROVE  /\ SeenStatus(approvals[c])' = SeenStatus(approvals[c])
               /\ approvals'[c].binding = approvals[c].binding /\ approvals'[c].decided = approvals[c].decided
    <3>1. /\ approvals[c].status \in Terminal /\ approvals'[c].status = "purged"
          /\ approvals'[c].last = approvals[c].last /\ SameContent(c)
      BY <2>3 DEF PurgeMove, PurgedApproval
    <3>2. approvals[c].status \in Transitions /\ approvals[c].status \notin {"audit_pending", "purged"}
      BY <3>1 DEF Terminal, Transitions
    <3>3. PICK e \in EventIds : e = approvals[c].last /\ outbox[e].state # "absent"
                                /\ outbox[e].kind = approvals[c].status
      BY <3>2 DEF RowInv, Shown
    <3>4. outbox'[e].kind = approvals[c].status
      BY <3>3, RowsStay
    <3>5. SeenStatus(approvals[c])' = approvals[c].status
      BY <3>1, <3>3, <3>4 DEF SeenStatus
    <3>6. SeenStatus(approvals[c]) = approvals[c].status
      BY <3>2 DEF SeenStatus
    <3> QED BY <3>1, <3>5, <3>6 DEF SameContent
  <2> QED BY <1>1, <2>1, <2>2, <2>3 DEF QuietMoves
<1> QED BY <1>3, <1>4 DEF Seen

(* What a staging transaction shows: only its own approval changes.        *)
LEMMA SeenStage ==
  ASSUME Typed, RowInv, LastInv, [Next]_vars,
         NEW a \in Approvals, NEW e \in EventIds, NEW kind \in Transitions, StageMove(a, e, kind)
  PROVE  Seen' = [Seen EXCEPT ![a] =
           [status |-> kind, binding |-> approvals'[a].binding,
            submitted |-> IF kind = "pending" THEN clock ELSE SubmittedAt(a),
            decided |-> approvals'[a].decided]]
<1>1. ASSUME NEW c \in Approvals, c # a
      PROVE  Seen'[c] = Seen[c]
  <2>1. approvals'[c] = approvals[c]
    BY <1>1 DEF StageMove
  <2>2. \A f \in EventIds : outbox[f].state = "absent" => ~(outbox'[f].approval = c /\ outbox'[f].kind = "pending")
    BY <1>1 DEF StageMove, Inserted, RowInv, Row
  <2>3. SubmittedAt(c)' = SubmittedAt(c)
    BY <2>2, SubmittedStays
  <2>4. SeenStatus(approvals[c])' = SeenStatus(approvals[c])
    BY <2>1, StatusStays
  <2> QED BY <2>1, <2>3, <2>4 DEF Seen
<1>2. SeenStatus(approvals[a])' = kind
  BY DEF StageMove, SeenStatus
<1>3. SubmittedAt(a)' = IF kind = "pending" THEN clock ELSE SubmittedAt(a)
  <2>1. CASE kind # "pending"
    <3>1. \A f \in EventIds : outbox[f].state = "absent" => ~(outbox'[f].approval = a /\ outbox'[f].kind = "pending")
      BY <2>1 DEF StageMove, Inserted, RowInv, Row
    <3> QED BY <2>1, <3>1, SubmittedStays
  <2>2. CASE kind = "pending"
    <3>1. approvals[a].status = "absent"
      BY <2>2 DEF StageMove, StagedFrom
    <3>2. \A f \in EventIds : outbox[f].approval # a
      <4>1. NoApproval # a
        BY ApprovalConstants
      <4> QED BY <3>1, <4>1 DEF RowInv, Row
    <3>3. \A f \in EventIds : outbox'[f].approval = a /\ outbox'[f].kind = "pending" <=> f = e
      BY <2>2, <3>2 DEF StageMove, Inserted
    <3>4. Submissions(a)' = {e}
      BY <3>3 DEF Submissions
    <3>5. outbox'[e].at = clock
      BY DEF StageMove, Inserted
    <3> QED BY <2>2, <3>4, <3>5 DEF SubmittedAt
  <2> QED BY <2>1, <2>2
<1> DEFINE r == [status |-> kind, binding |-> approvals'[a].binding,
                 submitted |-> IF kind = "pending" THEN clock ELSE SubmittedAt(a),
                 decided |-> approvals'[a].decided]
<1>4. Seen'[a] = r
  BY <1>2, <1>3 DEF Seen
<1> HIDE DEF r
<1>5. Seen' = [c \in Approvals |-> Seen'[c]] /\ Seen = [c \in Approvals |-> Seen[c]]
  BY DEF Seen
<1>6. Seen' = [Seen EXCEPT ![a] = r]
  BY <1>1, <1>4, <1>5
<1> QED BY <1>6 DEF r

LEMMA SeenIs ==
  ASSUME NEW a \in Approvals, approvals[a].status \in {"absent", "pending", "approved"}
  PROVE  Seen[a] = [status |-> approvals[a].status, binding |-> approvals[a].binding,
                    submitted |-> SubmittedAt(a), decided |-> approvals[a].decided]
<1>1. SeenStatus(approvals[a]) = approvals[a].status
  BY DEF SeenStatus
<1> QED BY <1>1, SeenFields

LEMMA SubmitImplements ==
  ASSUME Typed, RowInv, LastInv, [Next]_vars, NEW t \in Threads, NEW a \in Approvals, NEW e \in EventIds,
         NEW b \in Bindings, Submit(t, a, e, b)
  PROVE  Atomic!Submit(a, b)
<1>1. StageMove(a, e, "pending")
  BY SubmitMove
<1>2. approvals'[a].binding = b /\ approvals'[a].decided = NoTime /\ approvals[a].status = "absent"
      /\ UNCHANGED clock
  BY DEF Submit, Typed, TypeOK, AbsentApproval
<1>3. Seen' = [Seen EXCEPT ![a] = [status |-> "pending", binding |-> b, submitted |-> clock, decided |-> NoTime]]
  BY <1>1, <1>2, SeenStage DEF Transitions
<1>4. Seen[a].status = "absent"
  <2>1. Seen[a] = [status |-> "absent", binding |-> approvals[a].binding, submitted |-> SubmittedAt(a),
                   decided |-> approvals[a].decided]
    BY <1>2, SeenIs
  <2> QED BY <2>1
<1> QED BY <1>2, <1>3, <1>4 DEF Atomic!Submit, Atomic!Absent

LEMMA DecideImplements ==
  ASSUME Typed, RowInv, LastInv, [Next]_vars, NEW a \in Approvals, NEW e \in EventIds,
         NEW d \in {"approved", "denied"}, StageMove(a, e, d), UNCHANGED clock
  PROVE  Atomic!Decide(a, d)
<1>1. approvals[a].status = "pending" /\ approvals'[a].decided = clock
      /\ approvals'[a].binding = approvals[a].binding
  BY DEF StageMove, StagedFrom
<1>2. Seen' = [Seen EXCEPT ![a] = [status |-> d, binding |-> approvals[a].binding,
                                   submitted |-> SubmittedAt(a), decided |-> clock]]
  BY <1>1, SeenStage DEF Transitions
<1>3. Seen[a] = [status |-> "pending", binding |-> approvals[a].binding, submitted |-> SubmittedAt(a),
                 decided |-> approvals[a].decided]
  BY <1>1, SeenIs
<1>4. [Seen[a] EXCEPT !.status = d, !.decided = clock] =
      [status |-> d, binding |-> approvals[a].binding, submitted |-> SubmittedAt(a), decided |-> clock]
  <2>1. PICK b, u, c, k : b = approvals[a].binding /\ u = SubmittedAt(a) /\ c = approvals[a].decided /\ k = clock
    OBVIOUS
  <2>2. PICK r : r = [status |-> "pending", binding |-> b, submitted |-> u, decided |-> c]
    OBVIOUS
  <2>3. [r EXCEPT !.status = d, !.decided = k] = [status |-> d, binding |-> b, submitted |-> u, decided |-> k]
    <3>1. [r EXCEPT !.status = d] = [status |-> d, binding |-> b, submitted |-> u, decided |-> c]
      BY <2>2
    <3>2. PICK q : q = [status |-> d, binding |-> b, submitted |-> u, decided |-> c]
      OBVIOUS
    <3>3. [q EXCEPT !.decided = k] = [status |-> d, binding |-> b, submitted |-> u, decided |-> k]
      BY <3>2
    <3>4. [r EXCEPT !.status = d, !.decided = k] = [[r EXCEPT !.status = d] EXCEPT !.decided = k]
      OBVIOUS
    <3> QED BY <3>1, <3>2, <3>3, <3>4
  <2> QED BY <1>3, <2>1, <2>2, <2>3
<1>5. [Seen EXCEPT ![a].status = d, ![a].decided = clock] =
      [Seen EXCEPT ![a] = [Seen[a] EXCEPT !.status = d, !.decided = clock]]
  OBVIOUS
<1>6. Seen' = [Seen EXCEPT ![a].status = d, ![a].decided = clock]
  BY <1>2, <1>4, <1>5
<1>7. Seen[a].status = "pending"
  BY <1>3
<1> QED BY <1>6, <1>7 DEF Atomic!Decide

LEMMA ConsumeImplements ==
  ASSUME Typed, RowInv, LastInv, [Next]_vars, NEW a \in Approvals, NEW e \in EventIds, NEW b \in Bindings,
         NEW kind \in {"consumed", "expired"}, StageMove(a, e, kind), UNCHANGED clock, Matching(a, b),
         kind = "expired" <=> Expired(a)
  PROVE  Atomic!ConsumeApproved(a, b, clock)
<1>1. approvals[a].status = "approved" /\ approvals'[a].decided = approvals[a].decided
      /\ approvals'[a].binding = approvals[a].binding
  BY DEF StageMove, StagedFrom, SameContent
<1>2. Seen' = [Seen EXCEPT ![a] = [status |-> kind, binding |-> approvals[a].binding,
                                   submitted |-> SubmittedAt(a), decided |-> approvals[a].decided]]
  BY <1>1, SeenStage DEF Transitions
<1>3. /\ Seen[a].status = "approved" /\ Seen[a].binding = approvals[a].binding
      /\ Seen[a].decided = approvals[a].decided
      /\ [Seen[a] EXCEPT !.status = kind] =
         [status |-> kind, binding |-> approvals[a].binding, submitted |-> SubmittedAt(a),
          decided |-> approvals[a].decided]
  <2>1. Seen[a] = [status |-> "approved", binding |-> approvals[a].binding, submitted |-> SubmittedAt(a),
                   decided |-> approvals[a].decided]
    BY <1>1, SeenIs
  <2> QED BY <2>1
<1>4. Seen' = [Seen EXCEPT ![a].status = kind]
  BY <1>2, <1>3
<1>5. approvals[a].decided \in Int /\ clock \in Int /\ Ttl \in Nat
  BY ApprovalConstants DEF Typed, TypeOK, ApprovalType, Times, Time, NoTime
<1>6. /\ approvals[a].decided # NoTime /\ clock >= approvals[a].decided
      /\ ContextMatches(approvals[a].binding, b)
  BY DEF Matching
<1>7. Atomic!ContextMatches(Seen[a].binding, b)
  BY <1>3, <1>6 DEF ContextMatches, Atomic!ContextMatches
<1>8. Expired(a) <=> clock - approvals[a].decided > Ttl - 1
  BY <1>5 DEF Expired
<1>9. CASE kind = "expired"
  BY <1>3, <1>4, <1>6, <1>8, <1>9 DEF Atomic!ConsumeApproved
<1>10. CASE kind = "consumed"
  <2>1. clock - approvals[a].decided <= Ttl - 1
    BY <1>5, <1>8, <1>10
  <2> QED BY <1>3, <1>4, <1>6, <1>7, <1>10, <2>1 DEF Atomic!ConsumeApproved
<1> QED BY <1>9, <1>10

LEMMA OperateImplements ==
  ASSUME Typed, RowInv, LastInv, [Next]_vars, NEW t \in Threads, Operate(t)
  PROVE  Atomic!Next
<1>1. UNCHANGED clock /\ clock \in Time
  BY OperateQuiet DEF Typed, TypeOK
<1>2. ASSUME NEW a \in Approvals, NEW e \in EventIds, NEW b \in Bindings, Submit(t, a, e, b) PROVE Atomic!Next
  BY <1>2, SubmitImplements DEF Atomic!Next
<1>3. ASSUME NEW a \in Approvals, NEW e \in EventIds, NEW d \in {"approved", "denied"}, StageMove(a, e, d)
      PROVE  Atomic!Next
  BY <1>1, <1>3, DecideImplements DEF Atomic!Next
<1>4. ASSUME NEW a \in Approvals, NEW e \in EventIds, NEW o \in Operators, NEW v \in Verifications,
             Approve(t, a, e, o, v) \/ Deny(t, a, e, o, v)
      PROVE  Atomic!Next
  BY <1>3, <1>4, DecideMove DEF Approve, Deny
<1>5. ASSUME NEW a \in Approvals, NEW e \in EventIds, NEW o \in Operators, DenyForSystemSafety(t, a, e, o)
      PROVE  Atomic!Next
  BY <1>3, <1>5, SafetyMove
<1>6. ASSUME NEW a \in Approvals, NEW e \in EventIds, NEW b \in Bindings,
             NEW kind \in {"consumed", "expired"}, StageMove(a, e, kind), Matching(a, b),
             kind = "expired" <=> Expired(a)
      PROVE  Atomic!Next
  BY <1>1, <1>6, ConsumeImplements DEF Atomic!Next
<1>7. ASSUME NEW a \in Approvals, NEW e \in EventIds, NEW b \in Bindings, ConsumeApproved(t, a, e, b)
      PROVE  Atomic!Next
  <2>1. StageMove(a, e, "consumed") /\ Matching(a, b) /\ ~Expired(a)
    BY <1>7, ConsumeMove DEF ConsumeApproved
  <2> QED BY <1>6, <2>1
<1>8. ASSUME NEW a \in Approvals, NEW e \in EventIds, NEW b \in Bindings, ExpireApproved(t, a, e, b)
      PROVE  Atomic!Next
  <2>1. StageMove(a, e, "expired") /\ Matching(a, b) /\ Expired(a)
    BY <1>8, ExpireMove DEF ExpireApproved
  <2> QED BY <1>6, <2>1
<1> QED BY <1>2, <1>4, <1>5, <1>7, <1>8 DEF Operate

(* Seen by its callers, the durable queue is the in-memory one: over       *)
(* concurrent callers, the two-phase delivery, crashes, boot               *)
(* reconciliation and purging, each staging transaction is one atomic      *)
(* method and nothing else changes what is seen.                           *)
THEOREM DurableRefinesInMemory == Spec => ImplementsOperatorQueue
<1>1. Init => LastInv /\ Atomic!Init
  <2> SUFFICES ASSUME Init PROVE LastInv /\ Atomic!Init
    OBVIOUS
  <2>1. \A a \in Approvals : /\ approvals[a].status = "absent" /\ approvals[a].binding = NoBinding
                             /\ approvals[a].decided = NoTime
    BY DEF Init, AbsentApproval
  <2>2. \A e \in EventIds : outbox[e].kind = "none"
    BY DEF Init, AbsentEvent
  <2>3. ASSUME NEW a \in Approvals PROVE SubmittedAt(a) = NoTime /\ SeenStatus(approvals[a]) = "absent"
    BY <2>1, <2>2 DEF SubmittedAt, Submissions, SeenStatus
  <2>4. Seen = [a \in Approvals |-> [status |-> "absent", binding |-> NoBinding, submitted |-> NoTime,
                                     decided |-> NoTime]]
    BY <2>1, <2>3 DEF Seen
  <2>5. clock \in Time
    BY ApprovalConstants DEF Init, Time
  <2> QED BY <2>1, <2>4, <2>5 DEF LastInv, Transitions, Atomic!Init, Atomic!Absent
<1>2. ASSUME Typed, RowInv, LastInv, [Next]_vars PROVE [Atomic!Next]_<<Seen, clock>>
  <2>1. CASE \E t \in Threads : Operate(t)
    BY <1>2, <2>1, OperateImplements
  <2>2. CASE \A t \in Threads : ~Operate(t)
    <3>1. Seen' = Seen
      BY <1>2, <2>2, SeenQuiet
    <3>2. clock' \in Time
      BY <1>2, TypedStep DEF Typed, TypeOK
    <3> QED BY <3>1, <3>2 DEF Atomic!Next, Atomic!ClockMoves
  <2> QED BY <2>1, <2>2
<1>3. Typed /\ LastInv /\ [Next]_vars => LastInv'
  BY LastNext
<1> QED BY <1>1, <1>2, <1>3, RowsInvariant, PTL DEF Spec, ImplementsOperatorQueue, Atomic!Spec, Atomic!vars
============================================================================
