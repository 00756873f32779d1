--------------------------- MODULE UltraHaBoundary ---------------------------
(***************************************************************************)
(* The writer boundary of the Ultra Server in shared-state mode: two server  *)
(* processes over one PostgreSQL and one Redis (haLockMiddleware and         *)
(* waitForResponse of server.js, UltraHaController of ha-controller.js, the  *)
(* advisory locks of runtime-stores.js).                                     *)
(*                                                                         *)
(* A governed request takes the cluster's advisory lock in shared mode,       *)
(* checks the writer lease, and works until its response has finished or its  *)
(* connection has closed.  A guard command takes the lock exclusively and     *)
(* moves the fence.  Locks are held on connections of the process's pool,     *)
(* from which the queries of the handlers are served as well.                 *)
(***************************************************************************)
EXTENDS Naturals, FiniteSets

CONSTANTS Nodes,         \* server processes
          NoNode,        \* the fence before its first claim
          MaxRequests,   \* bound on the requests in flight
          MaxOfKind,     \* bound on those of each kind
          PoolSize,      \* connections of one process's pool
          MaxEpoch,      \* bound on fence epochs
          MaxMishaps     \* bound on process restarts and lost clients

Kinds == {"governed", "command", "reload"}

ASSUME BoundaryConstants ==
    /\ NoNode \notin Nodes
    /\ MaxRequests \in Nat \ {0}
    /\ MaxOfKind \in [Kinds -> Nat]
    /\ PoolSize \in Nat \ {0}
    /\ MaxEpoch \in Nat
    /\ MaxMishaps \in Nat

VARIABLES
    fence,     \* the record in Redis
    lease,     \* UltraHaController.lease: the epoch a process holds, or 0
    requests,  \* requests in flight
    ahead,     \* the queue of the advisory lock: who waits in front of a request
    hungUp,    \* kinds of requests of which a client has closed its connection
    mishaps    \* process restarts and lost clients so far

haVars == <<fence, lease, requests, ahead, hungUp, mishaps>>

Slots  == 1 .. MaxRequests
Epochs == 0 .. MaxEpoch

\* left: locks still to take; holds: locks held, each on a connection;
\* open: the client is still there; epoch: req.scFenceEpoch
Request == [kind : Kinds \cup {"idle"}, node : Nodes \cup {NoNode},
            at : {"connect", "queued", "work", "hung"},
            left : 0 .. 2, holds : 0 .. 2, open : BOOLEAN, epoch : Epochs]
Idle == [kind |-> "idle", node |-> NoNode, at |-> "connect",
         left |-> 0, holds |-> 0, open |-> TRUE, epoch |-> 0]

\* fresh: the lease has more than the drain window left; below it nothing new is
\* admitted, and nothing else distinguishes the window from expiry
Fence == [node : Nodes \cup {NoNode}, epoch : Epochs, active : BOOLEAN, fresh : BOOLEAN]

TypeOK ==
    /\ fence \in Fence
    /\ lease \in [Nodes -> Epochs]
    /\ requests \in [Slots -> Request]
    /\ ahead \in [Slots -> SUBSET Slots]
    /\ hungUp \subseteq Kinds
    /\ mishaps \in 0 .. MaxMishaps

HaInit ==
    /\ fence = [node |-> NoNode, epoch |-> 0, active |-> FALSE, fresh |-> FALSE]
    /\ lease = [n \in Nodes |-> 0]
    /\ requests = [r \in Slots |-> Idle]
    /\ ahead = [r \in Slots |-> {}]
    /\ hungUp = {}
    /\ mishaps = 0

-----------------------------------------------------------------------------
(* Advisory lock and connection pool                                         *)

Exclusive(r) == requests[r].kind = "command"
Holders      == {r \in Slots : requests[r].holds > 0}
Queued       == {r \in Slots : requests[r].at = "queued"}

(* Mutant: a command takes the lock in shared mode as well *)
CompatibleAlways(r, h) == {r, h} \subseteq Slots

Compatible(r, h) == ~Exclusive(r) /\ ~Exclusive(h)

\* PostgreSQL grants a request that conflicts with no holder and with nobody
\* who waits in front of it
Grantable(r) == \A h \in Holders \cup ahead[r] : Compatible(r, h)

Enqueue(r)    == ahead' = [ahead EXCEPT ![r] = Queued]
Dequeue(gone) == ahead' = [q \in Slots |-> IF q \in gone THEN {} ELSE ahead[q] \ gone]

\* a request has a connection for every lock it holds and one to wait with
Connections(r) == requests[r].holds + (IF r \in Queued THEN 1 ELSE 0)
InUse(n) ==
    LET Mine(k) == {r \in Slots : requests[r].node = n /\ Connections(r) >= k}
    IN  Cardinality(Mine(1)) + Cardinality(Mine(2))

PoolFree(n) == InUse(n) < PoolSize

-----------------------------------------------------------------------------
(* Requests                                                                  *)

Set(r, rec) == requests' = [requests EXCEPT ![r] = rec]

\* a governed lifecycle or verify request, /ha/command, or
\* /ha/reload-tsk-authority, which has two writer-lease middlewares
Arrived(kind, n) ==
    [kind |-> kind, node |-> n, at |-> "queued", left |-> IF kind = "reload" THEN 2 ELSE 1,
     holds |-> 0, open |-> TRUE, epoch |-> 0]

\* it has arrived once pool.connect() of _withAdvisoryLock has given it a connection
Arrive(kind, n) ==
    \E r \in Slots :
        /\ requests[r].kind = "idle" /\ PoolFree(n)
        /\ Cardinality({q \in Slots : requests[q].kind = kind}) < MaxOfKind[kind]
        /\ \A q \in Slots : requests[q].kind = "idle" => r <= q
        /\ Set(r, Arrived(kind, n))
        /\ Enqueue(r)
        /\ UNCHANGED <<fence, lease, hungUp, mishaps>>

\* the second middleware of a reload connects while the first holds its lock
Connect(r) ==
    /\ requests[r].kind # "idle" /\ requests[r].at = "connect"
    /\ PoolFree(requests[r].node)
    /\ requests' = [requests EXCEPT ![r].at = "queued"]
    /\ Enqueue(r)
    /\ UNCHANGED <<fence, lease, hungUp, mishaps>>

\* assertWritable with minRemainingMs
Writable(n) ==
    /\ lease[n] # 0
    /\ fence.active /\ fence.node = n /\ fence.epoch = lease[n]
    /\ fence.fresh

(* Mutant: the middleware never learns that the response has finished *)
ReplyUnnoticed(r) == Set(r, [requests[r] EXCEPT !.at = "hung"])

\* finish: the middlewares unlock and give their connections back.  A response
\* to a client that has gone before waitForResponse looked emits neither finish
\* nor close again, and the locks stay
Reply(r) ==
    IF requests[r].open \/ requests[r].holds = 0
    THEN Set(r, Idle)
    ELSE Set(r, [requests[r] EXCEPT !.at = "hung"])

\* a refusal inside the callback of the lock unlocks it; the refusal of the
\* second middleware is the response the first one waits for
Refuse(r) ==
    IF requests[r].holds = 0 THEN Set(r, Idle) ELSE Reply(r)

\* the lock is granted, and the callback checks the lease and calls next()
Grant(r) ==
    LET q == requests[r]
    IN  /\ r \in Queued /\ Grantable(r)
        /\ Dequeue({r})
        /\ \/ /\ Exclusive(r)
              /\ Set(r, [q EXCEPT !.at = "work", !.left = 0, !.holds = 1])
           \/ /\ ~Exclusive(r) /\ Writable(q.node)
              /\ Set(r, [q EXCEPT !.epoch = lease[q.node], !.left = @ - 1, !.holds = @ + 1,
                                  !.at = IF q.left = 1 THEN "work" ELSE "connect"])
           \/ /\ ~Exclusive(r) /\ ~Writable(q.node)
              /\ Refuse(r)
        /\ UNCHANGED <<fence, lease, hungUp, mishaps>>

\* the handler's query needs a connection of the pool; then it answers
Work(r) ==
    LET q == requests[r]
    IN  /\ q.kind \in {"governed", "reload"} /\ q.at = "work"
        /\ PoolFree(q.node)
        /\ Reply(r)
        /\ UNCHANGED <<fence, lease, ahead, hungUp, mishaps>>

-----------------------------------------------------------------------------
(* applyCommand                                                              *)

(* Mutant: the lease is taken for the epoch after the claimed one *)
ClaimNext(n) ==
    \E e \in Epochs :
        /\ e > fence.epoch
        /\ fence' = [node |-> n, epoch |-> e, active |-> TRUE, fresh |-> TRUE]
        /\ lease' = [lease EXCEPT ![n] = e + 1]

\* activate or promote: fenceStore.claim accepts a higher epoch only; the answer
\* may be lost, and then the controller keeps the lease it had
Claim(n) ==
    \E e \in Epochs :
        /\ e > fence.epoch
        /\ fence' = [node |-> n, epoch |-> e, active |-> TRUE, fresh |-> TRUE]
        /\ \/ lease' = [lease EXCEPT ![n] = e]
           \/ UNCHANGED lease

\* fenceStore.release, for the epoch this process holds; again the answer may be lost
Demote(n) ==
    /\ lease[n] # 0
    /\ fence.active /\ fence.node = n /\ fence.epoch = lease[n]
    /\ fence' = [fence EXCEPT !.active = FALSE, !.fresh = FALSE]
    /\ \/ lease' = [lease EXCEPT ![n] = 0]
       \/ UNCHANGED lease

\* a stale command, a lower epoch, another lease, or Redis is not reachable
Rejected == UNCHANGED <<fence, lease>>

ApplyCommand(r) ==
    /\ requests[r].kind = "command" /\ requests[r].at = "work"
    /\ Claim(requests[r].node) \/ Demote(requests[r].node) \/ Rejected
    /\ Reply(r)
    /\ UNCHANGED <<ahead, hungUp, mishaps>>

-----------------------------------------------------------------------------
(* The environment                                                           *)

Mishap == mishaps < MaxMishaps /\ mishaps' = mishaps + 1

\* the client closes: res emits close, waitForResponse resolves, the locks the
\* request holds are released, and the handler works on
HangUp(r) ==
    LET q == requests[r]
    IN  /\ q.kind # "idle" /\ q.open
        /\ Mishap
        /\ hungUp' = hungUp \cup {q.kind}
        /\ Set(r, [q EXCEPT !.open = FALSE, !.holds = 0])
        /\ UNCHANGED <<fence, lease, ahead>>

LeaseAges ==
    /\ fence.active /\ fence.fresh
    /\ fence' = [fence EXCEPT !.fresh = FALSE]
    /\ UNCHANGED <<lease, requests, ahead, hungUp, mishaps>>

\* the process ends: its sessions and their locks with it; the lease is memory.
\* A process without requests and lease has nothing to lose
Crash(n) ==
    /\ lease[n] # 0 \/ \E r \in Slots : requests[r].node = n
    /\ Mishap
    /\ lease' = [lease EXCEPT ![n] = 0]
    /\ requests' = [r \in Slots |-> IF requests[r].node = n THEN Idle ELSE requests[r]]
    /\ Dequeue({r \in Slots : requests[r].node = n})
    /\ UNCHANGED <<fence, hungUp>>

-----------------------------------------------------------------------------
Step(r) == Connect(r) \/ Grant(r) \/ Work(r) \/ ApplyCommand(r)

HaNext ==
    \/ \E r \in Slots : Step(r) \/ HangUp(r)
    \/ \E n \in Nodes : Crash(n) \/ \E kind \in Kinds : Arrive(kind, n)
    \/ LeaseAges

HaSpec == HaInit /\ [][HaNext]_haVars

\* a request that can go on does: the event loop and PostgreSQL's lock queue
\* leave nobody behind; clients need not come, leave or stay
FairSpec == HaSpec /\ \A r \in Slots : WF_haVars(Step(r))

-----------------------------------------------------------------------------
(* Properties                                                                *)

Working == {r \in Slots : requests[r].kind \in {"governed", "reload"} /\ requests[r].at = "work"}

\* "requests may overlap each other but cannot overlap a fence epoch change"
\* (server.js, /ha/command): while a request that was admitted works under its
\* lock, the fence is the one it was admitted under, active, and of its process.  A
\* command whose client hangs up gives its lock away before it is applied, and
\* is excepted.
FencedWhileHeld ==
    "command" \notin hungUp =>
        \A r \in Working : requests[r].holds > 0 =>
            /\ fence.epoch = requests[r].epoch
            /\ fence.node = requests[r].node
            /\ fence.active

\* The states in which the boundary cannot go on by itself: the second lock of a
\* reload queues behind a command that waits for the first; or a handler has no
\* connection left, since the locks have them all
DoubleLocked == \E r \in Queued : requests[r].kind = "reload" /\ requests[r].holds > 0
Exhausted    == \E r \in Slots : requests[r].kind # "idle" /\ ~PoolFree(requests[r].node)

\* A guard command that waits for the lock gets it, unless one of those states
\* is reached or a client has hung up (ULTRA_SHARED_STATE_HA.md: promotion "waits
\* for all admitted requests rather than overlapping them").
TransitionEnds ==
    \A r \in Slots :
        (requests[r].kind = "command" /\ requests[r].at = "queued")
            ~> (requests[r].at # "queued" \/ hungUp # {} \/ DoubleLocked \/ Exhausted)
=============================================================================
