--------------------------- MODULE OperatorQueue ---------------------------
(***************************************************************************)
(* OperatorQueue (enterprise/operator.py), the in-memory approval queue:   *)
(* every public method holds one lock, so it is one atomic step.  It is    *)
(* also what the durable queue promises to its callers (ApprovalQueue).    *)
(***************************************************************************)
EXTENDS Integers

CONSTANTS
  Approvals,  \* approval ids (uuid4, never reused)
  Bindings,   \* agent and action, with the items of the context
  Ttl,        \* approval_ttl_seconds
  MaxAge,     \* max_age_seconds
  Time,       \* what the clock can show
  NoTime, NoBinding

VARIABLES
  queue,      \* approval id -> PendingApproval
  clock       \* the wall clock

vars == <<queue, clock>>

Absent == [status |-> "absent", binding |-> NoBinding, submitted |-> NoTime, decided |-> NoTime]

Init == queue = [a \in Approvals |-> Absent] /\ clock \in Time

Submit(a, b) ==
  /\ queue[a].status = "absent"
  /\ queue' = [queue EXCEPT ![a] = [Absent EXCEPT !.status = "pending", !.binding = b, !.submitted = clock]]
  /\ UNCHANGED clock

(* approve and deny: False, and no change, unless the item is pending.     *)
Decide(a, decision) ==
  /\ queue[a].status = "pending"
  /\ queue' = [queue EXCEPT ![a].status = decision, ![a].decided = clock]
  /\ UNCHANGED clock

(* _context_matches: every required item was submitted; extras are allowed. *)
ContextMatches(submitted, required) ==
  /\ submitted.subject = required.subject
  /\ required.context \subseteq submitted.context

(* consume_approved reads the clock before it takes the lock, so current   *)
(* may be an earlier time; one before the decision raises.                 *)
ConsumeApproved(a, required, current) ==
  /\ queue[a].status = "approved" /\ queue[a].decided # NoTime
  /\ current >= queue[a].decided
  /\ \/ /\ current - queue[a].decided > Ttl
        /\ queue' = [queue EXCEPT ![a].status = "expired"]
     \/ /\ current - queue[a].decided <= Ttl
        /\ ContextMatches(queue[a].binding, required)
        /\ queue' = [queue EXCEPT ![a].status = "consumed"]
  /\ UNCHANGED clock

(* purge_expired samples its cutoff before the lock as well, and goes by   *)
(* the time of submission, whatever the item has become.                   *)
PurgeExpired(now) ==
  /\ queue' = [a \in Approvals |->
       IF queue[a].status \notin {"absent", "pending"} /\ queue[a].submitted < now - MaxAge
       THEN [queue[a] EXCEPT !.status = "purged"] ELSE queue[a]]
  /\ UNCHANGED clock

ClockMoves == clock' \in Time /\ UNCHANGED queue

Next ==
  \/ \E a \in Approvals :
       \/ \E b \in Bindings : Submit(a, b)
       \/ \E decision \in {"approved", "denied"} : Decide(a, decision)
       \/ \E required \in Bindings, current \in Time : ConsumeApproved(a, required, current)
  \/ \E now \in Time : PurgeExpired(now)
  \/ ClockMoves

Spec == Init /\ [][Next]_vars
============================================================================
