--------------------------- MODULE UltraLifecycle ---------------------------
(***************************************************************************)
(* The identity lifecycle between UltraGate (enterprise/ultra_gate.py) and  *)
(* the Ultra Server (ultra_server/server.js over runtime-stores.js), for one *)
(* agent principal and its one pair.  Several gates may run with the same    *)
(* identity: every retry, and every process of the agent, is one of them.    *)
(*                                                                         *)
(* A handler of the server is a slot of handlers, and moves from one await   *)
(* on a store to the next, with other handlers in between; reads in a row    *)
(* are one step.  A gate that gives up waiting (urlopen's timeout) leaves    *)
(* its handler behind, which runs to its end without anyone to answer.       *)
(* Authentication, the writer lease (UltraHaBoundary), changes of a pair's   *)
(* status and operator changes of a key's label are not modelled.            *)
(***************************************************************************)
EXTENDS Naturals, FiniteSets

CONSTANTS Gates,        \* instances of UltraGate with the agent's identity
          MaxRequests,  \* bound on the requests the server has in flight
          NoGate,       \* nobody waits for the answer of this handler
          MaxKeys,      \* bound on the TSK clients ever provisioned
          MaxCounter,   \* bound on the HOTP counter of a key
          MaxMishaps    \* bound on timeouts, restarts and operator edits

ASSUME LifecycleConstants ==
    /\ NoGate \notin Gates
    /\ MaxRequests \in Nat \ {0}
    /\ MaxKeys \in Nat \ {0}
    /\ MaxCounter \in Nat
    /\ MaxMishaps \in Nat

VARIABLES
    pairs,      \* rows of the pair registry that belong to the principal
    keys,       \* ultra_tumbler_maps: client id -> tumbler map
    binding,    \* ultra_identity_bindings: client id the pair is bound to
    idem,       \* ultra_idempotency: key -> state and stored response
    handlers,   \* requests in flight
    gates,      \* the gates of the agent
    spent,      \* <<client, counter>> the server has accepted
    mishaps     \* timeouts and gate restarts, server restarts, operator edits

vars == <<pairs, keys, binding, idem, handlers, gates, spent, mishaps>>

Slots    == 1 .. MaxRequests
Clients  == 1 .. MaxKeys
NoClient == 0
Counters == 0 .. MaxCounter
Labels   == {"none", "agent", "rotation"}
Statuses == {"active", "revoked", "expired"}
ClaimOps == {"register", "provision", "bind", "prepare"}
Mishaps  == {"loss", "crash", "patch"}
Booting  == {"register", "resume", "provision", "bind"}

\* idempotency keys are uuid5 values of the operation and what it is about
IdemKeys == ClaimOps \X (0 .. MaxKeys)

TumblerMap == [label : Labels, of : 0 .. MaxKeys, status : Statuses, counter : Counters]
NoMap      == [label |-> "none", of |-> NoClient, status |-> "active", counter |-> 0]

\* arg: the client id in the request; new: the candidate of a commit or the HOTP
\* counter of a verify; status: what an operator's edit asks for; seen and map:
\* the resource and the tumbler map a step has read and a later one uses
Handler == [op : ClaimOps \cup {"idle", "resume", "commit", "verify", "patch"},
            at : {"start", "list", "insert", "done", "map", "swap", "revoke", "set"},
            from : Gates \cup {NoGate},
            arg : 0 .. MaxKeys, new : 0 .. (MaxKeys + MaxCounter),
            status : Statuses \cup {"same"}, seen : 0 .. (MaxKeys + MaxRequests), map : TumblerMap]
Idle == [op |-> "idle", at |-> "start", from |-> NoGate, arg |-> 0, new |-> 0,
         status |-> "same", seen |-> 0, map |-> NoMap]

\* at: the call the gate makes or waits for, or "ready" between two operations;
\* tsk and counter: tsk_state; cand, candCounter: the prepared client a commit is about
Gate  == [at : Booting \cup {"ready", "prepare", "commit", "verify"},
          tsk : 0 .. MaxKeys, counter : 0 .. MaxCounter + 1,
          cand : 0 .. MaxKeys, candCounter : Counters]
Fresh == [at |-> "register", tsk |-> NoClient, counter |-> 0,
          cand |-> NoClient, candCounter |-> 0]

\* response: the resource that was answered; counter: the HOTP counter in its
\* provisionPayload
Stores == [state : {"none", "processing", "complete"},
           response : 0 .. (MaxKeys + MaxRequests), counter : Counters]

Init ==
    /\ pairs = 0
    /\ keys = [k \in Clients |-> NoMap]
    /\ binding = NoClient
    /\ idem = [i \in IdemKeys |-> [state |-> "none", response |-> 0, counter |-> 0]]
    /\ handlers = [s \in Slots |-> Idle]
    /\ gates = [g \in Gates |-> Fresh]
    /\ spent = {}
    /\ mishaps = [m \in Mishaps |-> 0]

-----------------------------------------------------------------------------
(* Helpers                                                                   *)

Max2(a, b) == IF a < b THEN b ELSE a

Active(k)     == keys[k].status = "active"
AgentKeys     == {k \in Clients : keys[k].label = "agent"}
Candidates(k) == {c \in Clients : keys[c].label = "rotation" /\ keys[c].of = k}
Unused        == {k \in Clients : keys[k].label = "none"}

\* owningClientResponse releases the secret of any map the pair's owner holds
Owned(k) == keys[k].label \in {"agent", "rotation"}

(* Mutant: the resource lock is not taken *)
LockFreeAlways(s) == s \in Slots

\* handlers that hold the resource lock of s: idempotencyStore.withLock is keyed
\* by the operation and, for a rotation, by the client that is rotated
Holding(h)  == \/ h.op \in ClaimOps /\ h.at \in {"insert", "done"}
               \/ h.op = "verify" /\ h.at = "done"
SameLock(h, i) == h.op = i.op /\ (h.op = "prepare" => h.arg = i.arg)
LockFree(s) == \A t \in Slots \ {s} :
                   Holding(handlers[t]) => ~SameLock(handlers[t], handlers[s])

\* res.json(): the handler ends, and the gate that still waits goes to `then`
Respond(s, then) ==
    /\ handlers' = [handlers EXCEPT ![s] = Idle]
    /\ gates' = IF handlers[s].from = NoGate THEN gates
                ELSE [gates EXCEPT ![handlers[s].from] = then]

\* an HTTP error raises in the gate: bootstrap() starts over when it is called
\* again, rotate_tsk() and authorize_injection() leave tsk_state as it was
AfterError(g) == IF g = NoGate THEN Fresh
                 ELSE IF gates[g].at \in Booting THEN Fresh
                 ELSE [gates[g] EXCEPT !.at = "ready", !.cand = NoClient, !.candCounter = 0]
Fail(s) == Respond(s, AfterError(handlers[s].from))

\* the process is gone, with its handlers and their locks; every gate that waited
\* sees its connection close
Down ==
    /\ handlers' = [s \in Slots |-> Idle]
    /\ gates' = [g \in Gates |->
           IF \E s \in Slots : handlers[s].from = g THEN AfterError(g) ELSE gates[g]]

Go(s, where)         == handlers' = [handlers EXCEPT ![s].at = where]
GoWith(s, where, v)  == handlers' = [handlers EXCEPT ![s].at = where, ![s].seen = v]
GoMap(s, where, k)   == handlers' = [handlers EXCEPT ![s].at = where, ![s].map = keys[k]]

\* a provisionPayload makes a tsk_state of the named client whose HOTP segments
\* start at the counter it carries (segments and secret: the client's id)
parse_provision_payload(was, value, counter) == [was EXCEPT !.tsk = value, !.counter = counter]

\* commit-after-success: the counter moves once the server has confirmed the key
commit_hotp_counter(was) == [was EXCEPT !.counter = @ + 1]

\* what each call of the gate does with a good answer, which names a resource
\* and carries the counter of its provisionPayload
Answer(s, value, counter) ==
    LET g   == handlers[s].from
        was == IF g = NoGate THEN Fresh ELSE gates[g]
        key == parse_provision_payload(was, value, counter)
        op  == handlers[s].op
    IN  Respond(s, CASE op = "register"  -> [was EXCEPT !.at = "resume"]
                     [] op = "resume"    -> [key EXCEPT !.at = "ready"]
                     [] op = "provision" -> [key EXCEPT !.at = "bind"]
                     [] op = "bind"      -> [was EXCEPT !.at = "ready"]
                     [] op = "prepare"   -> [was EXCEPT !.at = "commit", !.cand = value, !.candCounter = counter]
                     [] op = "commit"    -> [was EXCEPT !.at = "ready", !.tsk = was.cand,
                                                 !.counter = was.candCounter,
                                                 !.cand = NoClient, !.candCounter = 0]
                     [] op = "verify"    -> [commit_hotp_counter(was) EXCEPT !.at = "ready"]
                     [] OTHER            -> was)

-----------------------------------------------------------------------------
(* The gate                                                                  *)

\* bootstrap(), rotate_tsk() and verify_server() each make their calls one
\* after the other, so a gate has at most one request in flight
Waiting(g) == \E s \in Slots : handlers[s].from = g

IdleSlots == {s \in Slots : handlers[s].op = "idle"}
FirstIdle == CHOOSE s \in IdleSlots : \A t \in IdleSlots : s <= t

\* the key of the moment: a function of the client's secret and of the HOTP
\* counter, which is read and not moved (static and time segments are taken to match)
generate_tsk_key(g) == [arg |-> gates[g].tsk, new |-> gates[g].counter]

\* the signed headers around it: a fresh nonce and timestamp make every request
\* another one, so what the server can confuse is the key alone
build_injection_request(g) == generate_tsk_key(g)

Request(g) ==
    CASE gates[g].at = "bind"    -> [arg |-> gates[g].tsk, new |-> 0]
      [] gates[g].at = "prepare" -> [arg |-> gates[g].tsk, new |-> 0]
      [] gates[g].at = "commit"  -> [arg |-> gates[g].tsk, new |-> gates[g].cand]
      [] gates[g].at = "verify"  -> build_injection_request(g)
      [] OTHER                   -> [arg |-> 0, new |-> 0]

Call(g) ==
    /\ gates[g].at # "ready" /\ ~Waiting(g)
    /\ IdleSlots # {}
    /\ handlers' = [handlers EXCEPT ![FirstIdle] =
           [Idle EXCEPT !.op = gates[g].at, !.from = g,
                        !.arg = Request(g).arg, !.new = Request(g).new]]
    /\ UNCHANGED <<pairs, keys, binding, idem, gates, spent, mishaps>>

\* rotate_tsk(); a gate whose key has no successor id left starts none (bound)
RotateTsk(g) ==
    /\ gates[g].at = "ready" /\ gates[g].tsk < MaxKeys
    /\ gates' = [gates EXCEPT ![g].at = "prepare"]
    /\ UNCHANGED <<pairs, keys, binding, idem, handlers, spent, mishaps>>

\* authorize_injection(): build_injection_request() and verify_server()
AuthorizeInjection(g) ==
    /\ gates[g].at = "ready" /\ gates[g].counter < MaxCounter
    /\ gates' = [gates EXCEPT ![g].at = "verify"]
    /\ UNCHANGED <<pairs, keys, binding, idem, handlers, spent, mishaps>>

Mishap(m) ==
    /\ mishaps["loss"] + mishaps["crash"] + mishaps["patch"] < MaxMishaps
    /\ mishaps' = [mishaps EXCEPT ![m] = @ + 1]

\* the gate that waited in g is gone: its handler answers nobody
Orphan(g) == [s \in Slots |-> IF handlers[s].from = g
                              THEN [handlers[s] EXCEPT !.from = NoGate] ELSE handlers[s]]

\* urlopen(timeout=...) raises while the server works on
Timeout(g) ==
    /\ Waiting(g) /\ Mishap("loss")
    /\ handlers' = Orphan(g)
    /\ gates' = [gates EXCEPT ![g] = AfterError(g)]
    /\ UNCHANGED <<pairs, keys, binding, idem, spent>>

\* the agent's process restarts: pair_id and tsk_state are in memory only
GateRestart(g) ==
    /\ gates[g] # Fresh /\ Mishap("loss")
    /\ handlers' = Orphan(g)
    /\ gates' = [gates EXCEPT ![g] = Fresh]
    /\ UNCHANGED <<pairs, keys, binding, idem, spent>>

-----------------------------------------------------------------------------
(* /register-pair, /provision-tsk, /bind-identity, /rotate-tsk/prepare       *)

IdemKey(h) == <<h.op, h.arg>>

\* the checks in front of claimIdempotency
Admitted(h) ==
    CASE h.op = "provision" -> pairs > 0
      [] h.op = "prepare"   -> pairs > 0 /\ binding = h.arg
      [] OTHER              -> TRUE

\* a stored response is returned if what it names is still what it was
CachedValid(h, r) ==
    CASE h.op = "provision" -> keys[r].label = "agent"
      [] h.op = "prepare"   -> r \in Candidates(h.arg) /\ Active(r)
      [] OTHER              -> TRUE

\* the map is read again, not its stored copy
CurrentMap(h, r)     == IF h.op \in {"provision", "prepare"} THEN keys[r] ELSE NoMap
CurrentCounter(h, r) == CurrentMap(h, r).counter

(* Mutant: a request that is already being processed is a conflict *)
ClaimOnce(s) ==
    LET h == handlers[s]
        i == idem[IdemKey(h)]
    IN  /\ h.op \in ClaimOps /\ h.at = "start"
        /\ IF Admitted(h) /\ i.state = "none"
           THEN /\ idem' = [idem EXCEPT ![IdemKey(h)].state = "processing"]
                /\ Go(s, "list") /\ UNCHANGED gates
           ELSE IF Admitted(h) /\ i.state = "complete" /\ CachedValid(h, i.response)
           THEN Answer(s, i.response, CurrentCounter(h, i.response)) /\ UNCHANGED idem
           ELSE Fail(s) /\ UNCHANGED idem
        /\ UNCHANGED <<pairs, keys, binding, spent, mishaps>>

Claim(s) ==
    LET h == handlers[s]
        i == idem[IdemKey(h)]
    IN  /\ h.op \in ClaimOps /\ h.at = "start"
        /\ \/ /\ ~Admitted(h)
              /\ Fail(s) /\ UNCHANGED idem
           \/ /\ Admitted(h) /\ i.state = "complete"
              /\ IF CachedValid(h, i.response) THEN Answer(s, i.response, CurrentCounter(h, i.response)) ELSE Fail(s)
              /\ UNCHANGED idem
           \/ /\ Admitted(h) /\ i.state # "complete"
              /\ idem' = [idem EXCEPT ![IdemKey(h)].state = "processing"]
              /\ Go(s, "list")
              /\ UNCHANGED gates
        /\ UNCHANGED <<pairs, keys, binding, spent, mishaps>>

\* the resources a retry may find: pairs by content, maps by label
Existing(h) ==
    CASE h.op = "register"  -> 1 .. pairs
      [] h.op = "provision" -> AgentKeys
      [] h.op = "prepare"   -> Candidates(h.arg)
      [] h.op = "bind"      -> {binding} \ {NoClient}

\* a resource that is found must be the right one and live
Recoverable(h, r) ==
    CASE h.op = "register" -> TRUE
      [] h.op = "bind"     -> r = h.arg
      [] OTHER             -> Active(r)

Bindable(h) == h.op = "bind" => pairs > 0 /\ h.arg \in AgentKeys /\ Active(h.arg)

\* under withLock: reconcile with what is there, or go on to create it
List(s) ==
    LET h == handlers[s]
        e == Existing(h)
    IN  /\ h.op \in ClaimOps /\ h.at = "list"
        /\ LockFree(s)
        /\ \/ /\ Bindable(h) /\ e = {}
              /\ Go(s, "insert") /\ UNCHANGED gates
           \/ \E r \in e :
              /\ Bindable(h) /\ e = {r} /\ Recoverable(h, r)
              /\ handlers' = [handlers EXCEPT ![s].at = "done", ![s].seen = r,
                                              ![s].map = CurrentMap(h, r)]
              /\ UNCHANGED gates
           \/ /\ \/ ~Bindable(h)
                 \/ Cardinality(e) > 1
                 \/ \E r \in e : ~Recoverable(h, r)
              /\ Fail(s)
        /\ UNCHANGED <<pairs, keys, binding, idem, spent, mishaps>>

NewMap(h) == [label |-> IF h.op = "prepare" THEN "rotation" ELSE "agent",
              of |-> h.arg, status |-> "active", counter |-> 0]

\* registerDirect, provision and the conditional insert of a binding.  What is
\* thrown under withLock is a rejected promise that the handler returns without
\* awaiting it: nobody catches it, and it ends the process
Insert(s) ==
    LET h == handlers[s]
        k == CHOOSE c \in Unused : \A d \in Unused : c <= d
    IN  /\ h.op \in ClaimOps /\ h.at = "insert"
        /\ \/ /\ h.op = "register"
              /\ pairs' = pairs + 1
              /\ GoWith(s, "done", pairs + 1)
              /\ UNCHANGED <<keys, binding, gates>>
           \/ /\ h.op \in {"provision", "prepare"} /\ Unused # {}
              /\ keys' = [keys EXCEPT ![k] = NewMap(h)]
              /\ GoWith(s, "done", k)
              /\ UNCHANGED <<pairs, binding, gates>>
           \/ /\ h.op = "bind"
              /\ IF binding \in {NoClient, h.arg}
                 THEN binding' = h.arg /\ GoWith(s, "done", h.arg) /\ UNCHANGED gates
                 ELSE Down /\ UNCHANGED binding
              /\ UNCHANGED <<pairs, keys>>
        /\ UNCHANGED <<idem, spent, mishaps>>

Complete(h, r) == [state |-> "complete", response |-> r, counter |-> h.map.counter]

\* finishIdempotent, the answer, and the release of the lock; complete() throws
\* if another response is stored
Done(s) ==
    LET h == handlers[s]
        i == idem[IdemKey(h)]
    IN  /\ h.op \in ClaimOps /\ h.at = "done"
        /\ \/ /\ i.state = "processing"
              /\ idem' = [idem EXCEPT ![IdemKey(h)] = Complete(h, h.seen)]
              /\ Answer(s, h.seen, h.map.counter)
           \/ /\ i.state = "complete"
              /\ IF i = Complete(h, h.seen) THEN Answer(s, h.seen, h.map.counter) ELSE Down
              /\ UNCHANGED idem
        /\ UNCHANGED <<pairs, keys, binding, spent, mishaps>>

-----------------------------------------------------------------------------
(* /resume-identity                                                          *)

\* 404 is the first enrollment: _resume_tsk returns None and bootstrap provisions
ResumeBinding(s) ==
    LET h == handlers[s]
    IN  /\ h.op = "resume" /\ h.at = "start"
        /\ \/ /\ pairs > 0 /\ binding # NoClient
              /\ GoWith(s, "map", binding) /\ UNCHANGED gates
           \/ /\ pairs = 0 \/ binding = NoClient
              /\ Respond(s, [Fresh EXCEPT !.at = "provision"])
        /\ UNCHANGED <<pairs, keys, binding, idem, spent, mishaps>>

ResumeMap(s) ==
    LET h == handlers[s]
    IN  /\ h.op = "resume" /\ h.at = "map"
        /\ IF Owned(h.seen) /\ Active(h.seen) THEN Answer(s, h.seen, keys[h.seen].counter) ELSE Fail(s)
        /\ UNCHANGED <<pairs, keys, binding, idem, spent, mishaps>>

-----------------------------------------------------------------------------
(* /rotate-tsk/commit                                                        *)

\* map keeps the status of the old map for the last step
CommitRead(s) ==
    LET h == handlers[s]
    IN  /\ h.op = "commit" /\ h.at = "start"
        /\ IF pairs > 0 /\ binding # NoClient /\ h.new \in Candidates(h.arg) /\ Active(h.new)
           THEN GoMap(s, "swap", h.arg) /\ UNCHANGED gates
           ELSE Fail(s)
        /\ UNCHANGED <<pairs, keys, binding, idem, spent, mishaps>>

(* Mutant: the old key is revoked although the binding did not move *)
CommitSwapIgnored(s) ==
    LET h == handlers[s]
    IN  /\ h.op = "commit" /\ h.at = "swap"
        /\ Go(s, "revoke")
        /\ UNCHANGED <<pairs, keys, binding, idem, gates, spent, mishaps>>

\* compareAndSwap: updated, already, or a conflict
CommitSwap(s) ==
    LET h == handlers[s]
    IN  /\ h.op = "commit" /\ h.at = "swap"
        /\ \/ /\ binding \in {h.arg, h.new}
              /\ binding' = h.new
              /\ IF h.map.status = "revoked"
                 THEN Answer(s, h.new, 0)
                 ELSE Go(s, "revoke") /\ UNCHANGED gates
           \/ /\ binding \notin {h.arg, h.new}
              /\ Fail(s) /\ UNCHANGED binding
        /\ UNCHANGED <<pairs, keys, idem, spent, mishaps>>

\* the lifecycleAuthorizer of the provisioner for reason rotation-commit
RotationAuthorized(k) == keys[k].label = "agent" /\ Active(k)

\* provisioner.updateKey reads the map and writes it back with the new status
CommitRevoke(s) ==
    LET h == handlers[s]
    IN  /\ h.op = "commit" /\ h.at = "revoke"
        /\ IF RotationAuthorized(h.arg)
           THEN GoMap(s, "set", h.arg) /\ UNCHANGED gates
           ELSE Fail(s)
        /\ UNCHANGED <<pairs, keys, binding, idem, spent, mishaps>>

(* Mutant: the incoming counter replaces the stored one *)
StoredLast(k, map) == [keys EXCEPT ![k] = map]

\* PgTumblerStore.set: the incoming map replaces the row, but for HOTP counters,
\* of which the higher one stays
Stored(k, map) == [keys EXCEPT ![k] = [map EXCEPT !.counter = Max2(map.counter, keys[k].counter)]]

CommitSet(s) ==
    LET h == handlers[s]
    IN  /\ h.op = "commit" /\ h.at = "set"
        /\ keys' = Stored(h.arg, [h.map EXCEPT !.status = "revoked"])
        /\ Answer(s, h.new, 0)
        /\ UNCHANGED <<pairs, binding, idem, spent, mishaps>>

-----------------------------------------------------------------------------
(* /verify and PATCH /tsk/keys/:clientId                                     *)

\* under the pair's activity lock: BPC layers, then the bound client
VerifyBinding(s) ==
    LET h == handlers[s]
    IN  /\ h.op = "verify" /\ h.at = "start"
        /\ LockFree(s)
        /\ IF pairs > 0 /\ binding = h.arg
           THEN Go(s, "done") /\ UNCHANGED gates
           ELSE Fail(s)
        /\ UNCHANGED <<pairs, keys, binding, idem, spent, mishaps>>

\* commitValidation: one transaction on the row of the map; a counter below the
\* stored one matches nothing, and an accepted one is passed
CommitValidation(k, c) == Active(k) /\ keys[k].counter <= c

VerifyCommit(s) ==
    LET h == handlers[s]
    IN  /\ h.op = "verify" /\ h.at = "done"
        /\ \/ /\ CommitValidation(h.arg, h.new)
              /\ keys' = [keys EXCEPT ![h.arg].counter = h.new + 1]
              /\ spent' = spent \cup {<<h.arg, h.new>>}
              /\ Answer(s, h.arg, 0)
           \/ /\ ~CommitValidation(h.arg, h.new)
              /\ Fail(s) /\ UNCHANGED <<keys, spent>>
        /\ UNCHANGED <<pairs, binding, idem, mishaps>>

\* an operator edits a key: a new status, or limits only
PatchRead ==
    /\ IdleSlots # {} /\ Mishap("patch")
    /\ \E k \in Clients \ Unused, status \in Statuses \cup {"same"} :
          handlers' = [handlers EXCEPT ![FirstIdle] =
                 [Idle EXCEPT !.op = "patch", !.at = "set", !.arg = k,
                              !.status = status, !.map = keys[k]]]
    /\ UNCHANGED <<pairs, keys, binding, idem, gates, spent>>

PatchSet(s) ==
    LET h == handlers[s]
        status == IF h.status = "same" THEN h.map.status ELSE h.status
    IN  /\ h.op = "patch"
        /\ keys' = Stored(h.arg, [h.map EXCEPT !.status = status])
        /\ Respond(s, Fresh)
        /\ UNCHANGED <<pairs, binding, idem, spent, mishaps>>

\* the server process is ended; the tables stay
ServerCrash ==
    /\ Mishap("crash")
    /\ Down
    /\ UNCHANGED <<pairs, keys, binding, idem, spent>>

-----------------------------------------------------------------------------
Step(s) ==
    \/ Claim(s) \/ List(s) \/ Insert(s) \/ Done(s)
    \/ ResumeBinding(s) \/ ResumeMap(s)
    \/ CommitRead(s) \/ CommitSwap(s) \/ CommitRevoke(s) \/ CommitSet(s)
    \/ VerifyBinding(s) \/ VerifyCommit(s)
    \/ PatchSet(s)

Next ==
    \/ \E s \in Slots : Step(s)
    \/ PatchRead
    \/ \E g \in Gates : Call(g) \/ RotateTsk(g) \/ AuthorizeInjection(g)
                        \/ Timeout(g) \/ GateRestart(g)
    \/ ServerCrash

Spec == Init /\ [][Next]_vars

\* a handler that runs goes on to its end, and the agent calls bootstrap()
\* again until it succeeds
FairSpec == Spec /\ (\A s \in Slots : WF_vars(Step(s)))
                 /\ (\A g \in Gates : WF_vars(gates[g].at \in Booting /\ Call(g)))

-----------------------------------------------------------------------------
(* Properties                                                                *)

\* Retries, restarts and concurrent gates never leave the principal with two
\* pairs, two agent keys, or two candidates for the rotation of one key: the
\* resource lock covers the search and the creation, and a request stranded in
\* "processing" finds what its predecessor made (server.js, claimIdempotency and
\* the list-then-create of its callers).  A stored idempotent response names the
\* resource that exists, so a retry answered from the table gets what a retry
\* that searches would get.
Reconciled ==
    /\ pairs <= 1
    /\ Cardinality(AgentKeys) <= 1
    /\ \A k \in Clients : Cardinality(Candidates(k)) <= 1
    /\ idem[<<"register", 0>>].state = "complete" => idem[<<"register", 0>>].response \in 1 .. pairs
    /\ idem[<<"provision", 0>>].state = "complete" => idem[<<"provision", 0>>].response \in AgentKeys
    /\ \A k \in Clients : idem[<<"prepare", k>>].state = "complete" =>
           idem[<<"prepare", k>>].response \in Candidates(k)

\* An HOTP counter the server has accepted is behind the stored one for good,
\* although updateKey writes back a map it has read before the counter moved
\* (runtime-stores.js, PgTumblerStore.set keeps the higher counter).
NoReplay == \A u \in spent : keys[u[1]].counter > u[2]

\* The key the pair is bound to works, unless an operator has edited a key: no
\* order of delayed commits revokes the key that is bound, or moves the binding
\* to a key that is not active (server.js, /rotate-tsk/commit).
BoundKeyLive == binding # NoClient /\ mishaps["patch"] = 0 => Active(binding)

\* An operator has taken the agent's key away
Withdrawn == IF binding # NoClient THEN ~Active(binding)
             ELSE \E k \in AgentKeys : ~Active(k)

\* A bootstrap that is retried succeeds, wherever the attempts before it, or a
\* rotation of another gate, were cut off (ultra_gate.py, bootstrap()).
BootstrapCompletes ==
    \A g \in Gates : gates[g].at \in Booting ~> (gates[g].at \notin Booting \/ Withdrawn)

=============================================================================
