# TLA+ verification of SelfConnect Enterprise

SelfConnect Enterprise governs what software agents may do on a machine: a
policy decides, an operator approves, a delegation proof authorises, a
dispatcher executes, and a signed ledger records. The modules here model the
parts of it in which several threads, several processes or a crash can put
state that is spread over memory, a SQLite file, a ledger file and lock files
out of step. Everything is translated from the Python and JavaScript source; the
"map" of `PROJECT.json` names the lines of every definition.

## 1. Inventory

| Component | State it keeps | Operations | Talks to | What is hard | What makes it correct |
|---|---|---|---|---|---|
| Durable approval queue (`enterprise/operator.py`, `approval_audit.py`) | SQLite tables `approvals`, `approval_audit_outbox`, nonce tombstones | submit, approve and deny with a signed decision, safety denial, consume, verify_consumed, expire, purge, reconcile, validation of all rows at start | ledger (audit sink), control plane (drain), dispatcher (consume) | staged transition, ledger append and finalization are three steps; other threads, `reconcile()` and a crash fall in between; a clock that moves backward | an approval executes once, only with its evidence in the ledger; a nonce decides once; the ledger shows one legal history |
| In-memory queue (`OperatorQueue`) | list of approvals | the same calls without audit | tests and small deployments; the promise the durable queue keeps | purge of decided entries, times sampled before the lock | one decision, one consumption |
| Control plane (`control.py`) | agent states in memory | register, pause, resume, quarantine, revoke, kill_all | ledger, approval queue, policy step 0, dispatcher | kill_all and quarantine work on snapshots taken before the lock is released; ledger may fail half way; the state is lost by a restart | a stopped agent starts nothing new; the audit trail agrees with the state |
| Delegated actions (`acp_shim.py`, `acp_auth.py`, `delegation.py`, `mcp_dispatch.py`) | sessions, SQLite replay store of action ids | session/new, prompt, cancel, verify, claim, begin, actuate, finish | revocation registry, dispatcher | the same action id in flight twice, a crash between claim and completion, revocation between two checks | an action is actuated at most once; every caller is told the same; only the owner is told |
| Revocation (`revocation.py`) | SQLite epoch and rows; watcher thread | revoke, snapshot, poll | ACP sessions, dispatcher, actuator | epoch and rows are two reads; the effect on sessions is asynchronous | a revoked agent starts no action and its sessions end |
| Runtime composition (`governed_runtime.py`, `runtime_ownership.py`, `runtime_lifetime.py`) | lock files, the lifetime barrier's counters | start, bind, enter, exit, close | ledger, queue, control plane, dispatcher | several locks taken one by one without waiting; files created after the locks; close racing operations; close from inside an operation | one runtime writes one file; locks outlive operations; close ends |
| Signed ledger (`ledger.py`) | JSONL file, rotated segments, tail in memory | log, rotate, recover, load, verify | everything that audits | partial writes, truncation that fails, crash at any byte, rotation | what is acknowledged stays in the verified chain |
| Policy (`policy.py`, `policy_sign.py`) | signed bundle | check | control plane, composition monitor | order of the rules | deny by default, first refusal wins |
| Dispatcher (`mcp_dispatch.py`, `logical_targets.py`, and `target_guard.py`, `channel_router.py` of `win32_probe`) | leases, their signed authority and revocations; the desktop below it | issue, inject, read, revoke | windows of other programs | nothing is locked across a call; a handle is reused by another process; a payload is posted message by message; the echo is late, missing or someone else's | a confirmed delivery reached the bound process; a delivery the caller is not told of is on record; nothing is used after a revocation |
| Provenance service (`provenance.py`, `provenance_service*.py`, `provenance_pipe.py`, `session_index.py`) | hash-chained log, object-store replica with seals, session index, SQLite receipts and nonces | open, record, seal, replicate, interrupt, resume, stop | pipe workers, object store, Windows accounts | log write, replication, index entry and COMMIT are separate; retries of what was done; a crash or a failed write in between; enrollment changes over restarts | a request is recorded once; an acknowledged record is durable; an interrupted session can be resumed |
| Agent mesh: handshake (`handshake.py`), registry and birth tags (`registry.py`, `birth_tag_v2.py`), identity gate (`identity_gate.py`), key recovery (`key_recovery.py`) | window properties, challenge per candidate, backoff, peer keys, recovery files | stamp, discover, challenge, respond, cross-check, gated send, recover, accept a recovered key | each other through SendMessage and properties | properties are read one by one while a window is destroyed and its handle reused; a hung window; two files of a recovery | a verified peer answered this challenge and still owns the window; text goes to a proven key only; a recovered key was confirmed |
| Ultra gate (`ultra_gate.py`, `tsk_client.py`) | pair id, TSK state and HOTP counters in memory | bootstrap, resume, rotate, authorize | ultra server over HTTP | timeouts and restarts between calls | a retry ends with the one identity of the agent |
| Identity and key custody | keys, trust state | create, load, sign | everything that signs | operating-system key stores | no key leaves its store |
| Egress, export guard, labels, composition monitor, watcher, observer | session taint | check | policy | order of observations | taint only grows |
| Ultra server: lifecycle (`server.js`, `runtime-stores.js`) | pairs, tumbler maps, bindings, idempotency rows | register, provision, bind, resume, rotate, verify, edit a key | gate, PostgreSQL | handlers interleave at every await; stale maps are written back; rows stranded in processing | one pair, one key and one candidate; no counter twice |
| Ultra server: writer boundary (`ha-controller.js`, `server.js`) | fence in Redis, lease in memory, advisory lock | governed requests, guard commands, reload | PostgreSQL, Redis | fence change against requests in flight, hung-up clients, exhausted pool | one writer at a time, transitions end |
| Ultra server: independent state (`independent-state.js`, `ultra-state-outbox.js`, `promoted-tsk-*.js`) | outbox, import head, TSK authority | stream, import, promote, reload | second site | crash between stores, replayed records | one active authority |
| WORM service, hosting, installer, drills | — | process hosting and evidence collection | operating system | — | — |

Interactions inside one governed runtime: the dispatcher asks policy and control
plane, consumes an approval from the queue, executes, and logs; the queue logs
every transition through the ledger before it becomes visible; the control plane
drains the queue; the ACP shim calls the dispatcher and listens to the
revocation watcher; the composition holds the locks of both files for all of
them. Beside the runtime, the provenance service takes signed requests of the
agents over a pipe, the agents find each other through window properties, and the
Ultra gate holds the identity that the Ultra Server issues.

## 2. Modules

| Module | Models |
|---|---|
| `ApprovalQueue` | `DurableOperatorQueue` with the ledger sink. Variables are the three tables, the ledger's approval entries, the clock and one program counter per thread. Every operation is its staging transaction followed by the steps of `_flush_event` (read the outbox row, append, finalize), each an action. An approval or denial carries the operator's proof, which is checked against the row at the decision and again whenever the row or its ledger entry is read. `Crash` and `Restart` are the restart, whose constructor validates every row and then reconciles. |
| `OperatorQueue` | The in-memory queue: one atomic step per method. It is also the abstract specification of `ApprovalQueue`. |
| `ControlPlane` | `ControlPlane` with `_drain_queue`, the pending approvals it drains, and the dispatcher's check, consume and route. An operator is a thread with the snapshot its command took. A tool call is decided by `Policy` at the time of its check. |
| `Policy` | `PolicyEnforcer.check` as operators over a signed bundle and a profile: control gate, profile gate, validity and signature, agent rules, classification ceiling, approval. |
| `DelegatedActions` | ACP initialize, session and prompt, `DelegatedActionBoundary`, replay store, revocation registry and watcher. A worker is one prompt on its way through the three verifications, the claim, the actuator and the stored completion. |
| `Delegation` | Contents of grant, proof, prompt and receipt, and the checks on them, used by `DelegatedActions`. |
| `Dispatcher` | The governed terminal tools for several workers over one desktop: lease authority, authorization, window verification before each step, posting message by message, read-back with deadline, disposition and audit record. The desktop closes windows, reuses handles, changes titles, echoes or does not. |
| `GovernedRuntime` | `RuntimeOwnershipLock`, the start and close of `GovernedRuntime`, `RuntimeLifetime`. Files are inodes reached by paths, so hard links and replaced files are in the model. |
| `Ledger` | `AgentLedger.log` with `_rotate`, `_append`, truncation recovery and resume. A file is a sequence of lines, of which the last may be torn or lack its newline. |
| `OneShotPermit` | What the replay store and the final boundary promise of an action id: one holder for good, at most one use, only while it is begun and not yet settled, and one final outcome. |
| `AppendOnlyLog` | What the ledger promises: an acknowledged entry is never removed or reordered. |
| `UltraLifecycle` | `UltraGate` and the identity handlers of `server.js` over the PostgreSQL stores. A gate is at one of its calls; a handler is a slot that moves from one await to the next; the tables are pairs, tumbler maps, the binding and the idempotency rows. A timeout leaves the handler running without anyone to answer. |
| `UltraHaBoundary` | `haLockMiddleware`, `waitForResponse`, `UltraHaController` and the advisory lock of `PgIdempotencyStore` for two processes over one PostgreSQL and one Redis. A request holds locks on connections of its process's pool; the lock queue is first come, first served as in PostgreSQL. |
| `Provenance` | `ProvenanceRecorder`, `SessionIndex`, the core's transaction, the manager and the pipe workers for one session. A record's hash is its line number; a line is linked when its writer was right about the line before. A worker is at one step of `handle_record`; the service is at one step of its start or stop. |
| `ServiceHost` | The checks of the service on its host: access lists, enrolled accounts, bucket retention; used by `Provenance`. |
| `AgentMesh` | Birth tags, the discovery cycle with challenge and response, the identity gate's modes and levels, and key recovery over windows whose handles are reused. A tag is read and written property by property. |
| `ApprovalQueueProofs`, `DelegatedActionsProofs`, `DispatcherProofs`, `LedgerProofs`, `ProvenanceProofs`, `UltraLifecycleProofs` | Theorems about the module each is named after, with their inductive invariants. |
| `ControlRuntimeProofs`, `MeshBoundaryProofs` | Theorems about `GovernedRuntime` and then `ControlPlane`, and about `AgentMesh` and then `UltraHaBoundary`. Each extends both of its modules; the two state machines of a module share nothing, so `ControlPlane` and `UltraHaBoundary` name theirs `ControlSpec` and `HaSpec`. |
| `MC*` | TLC instances: symmetry sets and the functions the configurations use. |

External parts are modelled from their use: `updateKey` of the TSK package reads a
map and stores it with the changes; its provision payload carries the current HOTP
counters; an object store keeps what it has accepted; a window's properties vanish
with it; the fencing store accepts a higher epoch only; a Node process ends with an
unhandled rejection.

Abstractions, in every module: identifiers are model values; uuid4 values never
repeat; signatures, hashes and JSON are replaced by what verification accepts;
a SQLite write transaction (`BEGIN IMMEDIATE`) is one step, and everything
between two transactions is a point at which other threads run or the process
dies. A call that rolls back and returns an error changes nothing and is a
stuttering step.

## 3. Runs

Every bound is a named constant. Where a run sets a bound of one (one crash, one
mishap, one setback of the clock), the behaviour in question is a single
disturbance at any point of any interleaving of the rest.

### Approval queue
| Run | Instance | Shows |
|---|---|---|
| `approval_race` | one approval, two threads, two operators, one crash | `AtMostOnceExecution`; no visible transition without its ledger entry, and no decision without a proof that binds it (`VisibleOnlyWhenAudited`); one legal history in the ledger, without duplicates (`LedgerLineage`); rows consistent with their outbox (`OutboxConsistent`); and `ImplementsOperatorQueue`: seen by its callers, the durable queue does what the atomic in-memory queue does |
| `approval_nonce` | two approvals, one nonce, one clock setback, purge, one crash | `NonceNotReplayed`, `ConsumedWithinTtl`, and `BootDeliversAll`: the restart delivers what a crash left in the outbox |

One approval with two threads is where the races over one outbox row happen: row,
approval and ledger entry are keyed by the approval, and a third thread could only
repeat what one of the two does. Two operators are needed for a decision that is
recorded under one name and signed by another. A nonce meets a second approval only in
the second run, and one setback of the clock is enough to reach the horizon of its
tombstone. The refinement maps a staged transition to the state it leads to and a
purged row to its last state; the one difference between the queues, at the instant
decided + ttl, is in the mapping (observation 13).

### Control plane and policy
`control_race`: two operators over two agents, a tool call in flight, one approval,
a ledger of two entries, one restart; requests over the values the bundle tells apart,
before, in and after its validity. `KillAllRevokes` and `ReturnsDrained` are
about the snapshots that the commands take before they release the lock;
`NoActionAfterStop` and `AuditMatchesState` about dispatch and audit. `ReturnsDrained`
covers every return of a quarantine and the returns of a `kill_all` that revoked somebody.
`NoActionAfterStop` speaks of one process lifetime: what a call found when it began is
forgotten with the process.

Both limits are the code's: observations 1 and 2 are what happens beyond them.

### Delegated actions
`delegated_race`: two workers, one action id, three prompts of which one was signed for
another session, one crash, one lapse of the owner's key. `OneAnswer` is
about the same id in flight twice, `NoActuationAfterRevocation`
about the checks that surround the claim, and `BoundSessionEnds` about the watcher: once
it has caught up, no session that was bound to an agent at its revocation is open.
`ImplementsOneShotPermit`: the row of the action id behaves as a `OneShotPermit`, so it is
actuated once at most, never before the row is begun or after an outcome was reported.

### Dispatcher
`dispatcher`: two workers, one lease on one window whose handle goes to a second process,
a payload of two messages, one failing step (ledger, post or read). `RetryHazardOnRecord`:
a plain error means that nothing was posted, or that the whole payload was and the ledger
says so, as `enqueued_unconfirmed` with `do_not_retry` or, when only the success record of
the call failed, as `delivery_confirmed`. `ConfirmedInBoundTarget`: neither handle reuse
nor an old echo is reported as a delivery. `NoUseAfterRevoke`: a lease object held from
before a revocation is of no use. Two messages are the smallest payload that can be posted
in part; one reuse is enough to have the window change hands between any two steps; a
second lease would share nothing with the first but the desktop.

The warning to the caller is weaker than the record: observation 18.

### Runtime
`runtime_links`: two processes, four paths that may be links of two files, one of
them relinked during startup, one crash (`ExclusiveWriter`). `runtime_close`: one pair of
paths for both, two threads each, one nested operation, one rotation, one crash
(`WritesUnderLock`, `StartupHasWinner`, `CloseTerminates`). `CloseTerminates` assumes
that an operation that was entered ends, that a notified thread is scheduled, and
that the release of the locks proceeds. The code has no timeout on the drain, so an
operation that hangs hangs `close()` as well; that is an assumption, not a result. In
both runs the approval database exists before the runtimes start; observation 4 below
is about a fresh installation.

### Ledger
`ledger_recovery`: five entries, two per segment, so that there are two rotations with
a fault before and after; two failed writes, one failed truncation, two crashes. A
chain that verifies holds every acknowledged entry (`VerifiedHoldsAcknowledged`), and
the ledger implements `AppendOnlyLog`. A torn write leaves nothing, a part, or all of a line; the
configuration leaves out a line that lost its newline only (observation 5).

### Provenance service
`provenance_service`: two pipe workers; three requests, of which two share an id and two a
nonce, and two attempts at most that reach the core's lock; three deployments (military over S3, enterprise over R2,
enterprise over files); one failure; one crash or stop with restart, and an enrollment
changed in between. A failure is a signature, a local write (no byte, part of the line, or
only its fsync), the seal index, the push of an object, or the receipt of a push (no
byte, or part of the line). A crash inside an append leaves the files as a failed write
followed by a crash does. The clock starts at 1, so that a request may have been signed
before the service was up. `RequestRecordedOnce` is about retries after lost answers,
rolled-back transactions and crashes between log and COMMIT; `AckedDurable` relates an
answer to log, index and store. `ResumableAfterCrash`: whenever the process is down, the
index loads and the log verifies, unless a local write ended badly; and the log reaches
the high-water mark of the index, unless a signature failed as well: a swallowed one of
a heartbeat moves the sequence number, the next index entry takes the number over, and
after a crash the session looks rolled back. Five lines hold the start, two requests with
a seal, and the records of an interruption or a resumption.

What a local write that ended badly costs is observation 14.

### Agent mesh
`mesh`: two agents, one window that is reused twice (so it may return to its first
owner), two generations of keys, a window that may hang. `VerifiedPeerAnswered` is
about a handle that changes hands between answer and cross-check, `Level2Authentic` about
one that does so between two property reads of the gate, `RecoveredKeyConfirmed` about the
two files of interrupted and repeated recoveries. The listener of the cycle has a window,
as in `tests/test_enterprise/test_handshake.py`; observation 20 is about the cycle as
`handshake.py` constructs it. One window is enough for these properties: a cycle keeps
its state per window, and the responses of other candidates that reach the shared listener
are the action `OtherResponse`.

### Ultra server
`ultra_lifecycle`: two gates of one agent, three requests in flight, two keys, one
timeout, restart or operator edit at any point.
`Reconciled` is about retries that overtake each other, `NoReplay` about HOTP counters under stale writes, `BoundKeyLive` about late commits
of a rotation. `BootstrapCompletes` assumes that a handler that can go on does, and
that the agent calls `bootstrap()` again after it failed; then an interrupted
enrollment or rotation never leaves an identity that cannot be resumed, unless an
operator has withdrawn the key. Three requests are two of the gates and one that was
left behind; two keys are one rotation.

`ultra_ha`: two processes with three requests in flight, at most one governed
request, one reload and two commands of them, a pool of two connections, two
epochs, and one crash or one hung-up client.
`FencedWhileHeld` says that nothing is done under the shared lock while the fence
belongs to someone else. `TransitionEnds` assumes that PostgreSQL's queue and the
event loop leave no request behind that can go on; the cases in which a guard
command may wait for ever are named in the property (observations 8 to 10). A pool of two
is the smallest in which a lock and a query fit; a larger one needs more requests
to be exhausted.

### Observations
Seen while modelling; no run is spent on them. Of observations 1, 2, 14 and 18 TLC has
found the behaviour in the model, with a property that says the opposite.

1. `kill_all` drains the queue only if it revoked an agent (`control.py:226`), while
   `control.py:28` says it auto-denies all pending approvals: an approval is submitted,
   `kill_all` finds nobody to revoke, and returns with the approval pending.
2. Pause, quarantine and revocation are in memory; a restarted runtime has every agent
   active again (`control.py:110`) although its revocation is on the ledger, while
   `control.py:188` calls revocation permanent and terminal.
3. A session that is idle during a lapse of the owner's key works again after
   re-enrollment (`acp_shim.py:458`, `GAPS.md:73`).
4. On a fresh installation the ledger file is created after the last binding, so its
   inode is never locked (`runtime_ownership.py:185`); and two processes that create the
   approval database together may both be refused (`runtime_ownership.py:211`).
5. A crash that keeps a ledger line and loses its newline lets the next acknowledged
   entry share the line, and the chain no longer parses (`ledger.py:230`).
6. After a truncation that failed, `log()` raises, but the next call goes on from the
   old tail (`ledger.py:247`).
7. A `/verify` that takes longer than half a second advances the server's HOTP counter
   and not the gate's (`ultra_gate.py:645`); a rotation whose commit response is lost is
   refused when `rotate_tsk` is called again (`server.js:636`), and only a restart of
   the gate resumes the new key; an operator's edit of a key's limits restores the
   status it has read (`server.js:1150`).
8. The shared lock of a request ends when its client hangs up, although the handler
   works on (`server.js:331`): a fence change can overlap it, contrary to the comment
   at `server.js:927`. If the client is gone before `waitForResponse` listens, neither
   event fires and the lock stays.
9. `/ha/reload-tsk-authority` has two writer-lease middlewares (`server.js:968`); a guard
   command that queues between them and they block each other.
10. Locks and queries share one connection pool (`runtime-stores.js:503`).
11. The lifecycle handlers `return` the promise of `withLock` without awaiting it inside
    their `try` (`server.js:455`): an error under the lock, for example the
    response conflict of a late retry, is an unhandled rejection and ends the process.
    A second rotation of an agent leaves the rotated-out key active, since the authorizer
    of the revocation knows the label of the first key only (`server.js:283`, `:581`, `:687`).
12. A session that is bound to its agent after the watcher has applied the agent's
    revocation stays open (`acp_shim.py:563`), while `REVOCATION_LIFECYCLE.md:11` says "ACP
    denies the revoked agent and terminates its session"; `BoundSessionEnds` is therefore
    about sessions bound before. A proof that has not been verified yet but names a revoked
    author's key ends the session it is sent in (`acp_shim.py:509`).
13. The in-memory queue accepts an approval at the instant decided + ttl, the durable one
    does not. The in-memory purge goes by the time of submission and also removes approved
    entries; the durable one removes terminal rows only. The path of the delegation
    replay database is not covered by the ownership lock.
14. `_append_record` advances the sequence number before it signs (`provenance.py:1269`) and
    the previous hash before it writes (`:1303`), and a heartbeat's failure is logged and
    forgotten (`:1539`). After one failed write of a heartbeat the service may be stopped in
    order and the index call the session interrupted, and no later start accepts it, while the
    docstring of `interrupt` (`:1113`) says it may be verified and reconstructed. A record can
    be acknowledged behind such a heartbeat when it falls between the core's search of the log
    and `record()`: the receipt is given, and the chain the record stands in never
    verifies. A receipt line that is cut off has the same effect (`:1444`), and enterprise mode
    only warns of it (`:1456`). An index entry that fails to be written breaks the chain of
    the index in the same way.
15. The number of the current seal segment is not restored on resume, so the next seal is
    taken for a fork. An `OSError` of the file sink is not caught by `_replicate` and raises in
    enterprise mode too. `change_audit_mode` looks at neither `_closed` nor `_started`.
16. A request that was logged, rolled back, and is retried after the freshness window is
    rejected as stale. A recorder whose `open_session` fails is dropped with its heartbeat
    running and forks the log. A clock that is set back fails verification. The service
    interrupts sessions before it stops the pipe: a request in between is refused for an
    interrupted session, and opens another one that nobody interrupts.
    The client adapter builds a fresh request for each call, so a retry by its caller is a
    second record.
17. Removing an agent from the registry without running the deployment script again, or
    enrolling a group that another client belongs to, keeps the service from starting or
    locks that client out.
18. A read or a verification that fails in the confirmation loop, after the whole payload was
    posted, is raised again as it is (`mcp_dispatch.py:1451`): the caller gets "UIA TextPattern
    output read failed" or "unsafe target: ...", and only the message of the deadline (`:1435`)
    warns, while `GAPS.md:140` says that the dispatcher "warns against automatic retry
    after ambiguity". A delivery that was confirmed and whose audit record fails is
    answered like a refusal, too. `RetryHazardOnRecord` says what the ledger holds in
    these cases. A `ChannelRoutingError` leaves no disposition record.
19. Revocation and expiry of a lease are checked once per call, so a call in flight still
    posts; an injection overwrites the snapshot of a read; the echo filter may remove
    genuine output; two concurrent injections of one text may both be confirmed by one echo;
    `_leases` is iterated without a lock; the composition monitor is unlocked and records
    denied calls as well.
20. As constructed at `handshake.py:581` the listener is never started and has no window, so
    responders drop every challenge (`:338`) and no peer is ever verified. With two or more
    candidates the shared listener takes the first response only: the others see a
    mismatched nonce and back off for a minute. `SendMessageW` has no timeout, so one hung
    window blocks the cycle. `HandshakePeer.agent_id` is taken from the earlier tag read.
21. Level 2 of the identity gate works only through `DegradationCascade` with keys:
    `gated_send_string` passes none, so its level 2 always fails; a strict enforce mode
    whose gate is not bootstrapped falls to level 2. Global atoms are never freed. The watcher
    imports classes that do not exist.
22. `recover()` overwrites the identity before the server has confirmed the new key.
23. `UltraGate`'s local verification reads the clock before the nonce cache reads it
    again (the timestamp window is 60 s, the nonce window 120 s).

## 4. Theorems

The theorems hold for every set of approvals, threads, events, nonces, sessions,
agents, windows, processes, files, gates and requests and for every bound. They
assume what the named assumptions of the modules say (`ApprovalConstants`,
`NoProofApart`, `ControlConstants`, `DelegationConstants`, `DelegationContents`,
`SessionLimit`, `NoProofIsNoProof`, `DispatcherAssumption`, `RuntimeConstants`,
`LedgerConstants`, `LifecycleConstants`, `BoundaryConstants`, `ProvenanceConstants`,
`HostConstants`): that
bounds are naturals, that contents of grants, prompts and paths have their types, that
the "none" values are none of the real ones, that a request id is not empty
(`provenance_ipc.py:358` parses it as a UUID), that the enrolled accounts let the
service start, and that there is a terminal to lease. The theorems about the mesh do not
use `MeshAssumption`. Four theorems have a hypothesis of their own, named where they
are listed.

**Approval queue** (`ApprovalQueueProofs`)

* `TypeCorrect`: `TypeOK` is not inductive: a thread that finalizes uses the
  approval its event names. `FlushingAnEvent` (a thread on its way through
  `_flush_event` holds an existing event) and `PendingRowsNamed` (an outbox row names
  an approval) are added. `EnvelopeTyped` is the lemma on the decision a row stores.
* `ExecutedAtMostOnce` (`AtMostOnceExecution`), with `HoldersAlone` (one thread at most is
  between consume and execution of an approval), `ExecutedOnce` and `VerifiersHold`. The
  staging transaction of consume requires status approved and leaves it, and no action
  returns to approved from there.
* `NoPoisonRow` (`OutboxConsistent`). `RowInv` relates an approval, its row and a thread
  that delivers it: the approval waits for exactly the event it names, and a thread
  that is about to finalize holds the line number under which its event is in the ledger.
* `LedgerTellsTheHistory` (`LedgerLineage`). `Follows`: the event a row's kind presupposes
  is in the ledger before the row is staged, so an append in any order of threads
  is in order.
* `DecisionsAreAudited` (`VisibleOnlyWhenAudited`). `EvidenceInv` carries the witnesses: an
  execution has three ledger positions in order, whatever is appended later.
* `GrantsUsedInTime` (`ConsumedWithinTtl`) follows from the two.
* `NoncesAreKept` (`NonceNotReplayed`). `NonceInv`: every use of a nonce is past its
  retention or covered by a tombstone, and no purge in progress has a time
  later than the clock has ever shown.
* `RestartsAreComplete` (`BootDeliversAll`, an action property). `BootInv`: while the restarted
  process reconciles, one thread has every pending event on its list and the others are idle.
* `DurableRefinesInMemory` (`ImplementsOperatorQueue`): each staging transaction maps to the
  method call of `OperatorQueue`, every other step to a stutter. `LastInv` is needed for
  purged rows, whose last state is what the mapping shows.

**Control plane** (`ControlRuntimeProofs`)

* `LedgerAccountsForStates` (`AuditMatchesState`): inductive with the types, since a
  transition is appended and assigned in one hold of the lock.
* `StoppedAgentsDoNotAct` (`NoActionAfterStop`), with `CallInv`: a call that began with its
  agent stopped is still in front of the check. `StatesMonotone`: without a restart a stopped
  agent stays stopped. The theorem is about one process lifetime.
* `KillAllReachesEveryone` (`KillAllRevokes`), with `KillInv`: an agent of the snapshot is
  revoked or on the list that is left.
* `DrainLeavesNothingPending` (`ReturnsDrained`), with `DrainInv`: what was pending at the
  start is decided, or the drain has yet to take its snapshot, or has it on its list.
  `ApprovalsMonotone`: what is decided never becomes pending again. A `kill_all` that
  revoked nobody is outside the statement, since it returns without a drain.

**Delegated actions** (`DelegatedActionsProofs`)

* `TypeCorrect`, with `ProofHeld` (a worker beyond the prompt has a proof).
* `OneShotActuation` (`ActuatedAtMostOnce`, which the refinement below implies), with `HeldAlone` (one worker at most owns a claimed
  action id) and `UnclaimedUntouched` (an id with no row was never actuated). The row of a
  claim is never deleted, also not by a crash.
* `EveryoneToldTheSame` (`OneAnswer`), with `AnswerInv`: what was answered is what the row
  holds, success is stored by the owner that actuated, and a terminal row does not change.
* `RevokedNeverActuated` (`NoActuationAfterRevocation`), with `LateInv`: a call that began after
  the revocation never gets past its first verification.
* `ActionIdsAreOneShot` (`ImplementsOneShotPermit`): claim, `begin()`, actuator and `finish()` are the
  steps of a `OneShotPermit`, whose state is the row of the action id; every other step, a
  crash included, is a stutter. Beyond the invariants above it says *when* the actuation
  happens: after the row is durably begun and before anybody is told an outcome. `RouteBegun`
  is what the mapping needs in addition: a thread at the actuator has a row that is begun
  and not finished, since only the row's holder finishes it.
* `WatcherSkipsNothing` (`BoundSessionEnds`), with `WatchInv`: the rows of a poll are at least
  as new as its epoch, and a session that is still open names a revoked agent. Epoch and
  rows are two reads, and it matters that the epoch is read first.

**Dispatcher** (`DispatcherProofs`)

* `UnwarnedDeliveriesAreOnRecord` (`RetryHazardOnRecord`), `ConfirmationMeansDelivery`
  (`ConfirmedInBoundTarget`) and `RevokedLeasesAreDead` (`NoUseAfterRevoke`) share one
  invariant: `Sound` says what a call may have done at each of its positions, `Leasing`
  what the two lease maps may hold. The argument about handle reuse is that a process never
  comes back to a handle: a verification that finds the bound process behind the
  handle after the last message shows that every message went to it. (In the model a
  process id is not reused; the code compares the process id and the path of the program.)

**Mesh, identity gate and key recovery** (`MeshBoundaryProofs`)

* `HandshakeMatchesOwner` (`VerifiedPeerAnswered`) and `GateMatchesOwner` (`Level2Authentic`), two
  action properties, follow from `MeshInv`. Its `TagsProper` says of every signature that was
  read from a window, by an initiator or by the gate, or that is in its tag, that it is
  `Proper`: its process id was given out already, and if the window's owner has it, the
  owner's key signed. A new owner has a process id that no signature names yet, so a
  signature stays proper when the handle changes hands, and a stamp of the owner is.
  `SignedByOwner`: a signature that agrees with the tag of its window, whose process id is
  the owner's, was made with the owner's key; it does not matter when the
  properties were read. In the code too the process id is what binds a signature
  to the window (`SCPID`, as the properties state it, is in the payload that
  `verify_signed_birth_tag` checks); that only an owner states its own process id is the model's
  assumption (section 5), and the model does not reuse process ids within a window.
* `RecoveryNeedsServer` (`RecoveredKeyConfirmed`), with `FilesConfirmed`: the token that is on
  disk, or about to be written, names a key the server confirmed. `Regenerate` starts
  only when no recovery of the agent is in progress, so the key a token is written for is
  the one that was confirmed.

**Runtime** (`ControlRuntimeProofs`)

* `OperationsRunUnderLock` (`WritesUnderLock`). `Local` relates, for one process, its position,
  the counters of the barrier, the threads inside and the locks it holds.
* `OneWriterPerFile`: `StableFiles => (Spec => []ExclusiveWriter)`. `StableFiles`: either no path is
  relinked before it is bound (then the hard links are those that were there before, and who
  owns a path that is one has locked its file, `LinksLocked`), or no ledger is rotated and every
  ledger exists from the start (then each holds the lock on the identity it has open,
  `FilesLocked`). The two runs are one instance of each. When files are relinked and replaced as well, the
  locks are on identities that nobody has open any more (observation 4 is the case of a
  file that is created after the locks were taken).
* `SomeRuntimeIsNotRefused`: `Processes # {} /\ ApprovalsExist /\ MaxSubstitutions = 0 => (Spec =>
  []StartupHasWinner)`, for any number of runtimes and any overlap of their paths. Until one is
  up, or fails for a reason of its own (`Won`), no file appears, so each takes exactly the
  locks it read at its start, in sorted order (`Ordered`), and binding needs no further one.
  Then some starting runtime holds a lock that sorts after every lock the refused ones
  have not returned yet (`Leader`), unless one is past acquiring: who is refused a lock
  finds its owner ahead of it. TLC checked this invariant with three processes on overlapping pairs of
  paths before it was proved. The hypotheses are needed: a process that creates its approval database has to
  lock that file after the path, out of order (observation 4), and so has one whose path is relinked to a
  file that sorts first; without either hypothesis TLC finds a race of two that both lose.

**Ledger** (`LedgerProofs`)

* `AcknowledgedIsKept`: `Spec => []HoldsAcknowledged`, the first half of
  `VerifiedHoldsAcknowledged`, without any hypothesis: a chain that verifies holds every entry
  that `log()` returned. `HoldInv` states it of `Base`, the lines below a write
  in progress.
* `TailIsRecovered`: `WholeLines => (Spec => []VerifiedHoldsAcknowledged)`. `WholeLines` says that no
  write loses only its newline; without it the statement is false, as observation 5
  describes. `CleanInv` (an unterminated file ends in a line that does not parse) and
  `TailInv` (the process stands on a chain that verifies, with its tail in memory).
* `LedgerRefinesLog`: `WholeLines => (Spec => ImplementsAppendOnlyLog)`. The log is the longest
  prefix that verifies. That there is one would be an induction over the file; `BestInv` has
  it as an invariant of the behaviour instead, since each change of the file keeps that
  prefix or adds one linked entry to it.

**Provenance** (`ProvenanceProofs`)

The recorder's operators are functions from one state of log, store and recorder to the
next. The first part proves what each of them does to any such state (`Sound`,
`Extends`, `InStep`), without the actions; the second carries it through the service.

* `RecordedOnce` (`RequestRecordedOnce`), with `Kept`: two lines of the log never carry the same
  request id. A record is appended under the core's lock (`Busy`: one worker at most is
  between opening and committing), by a worker that has searched the log for the id.
  Between that search (`Check`) and the append the heartbeat or the stop may write; no
  step but the append puts a request on a line, and `JobSound` carries the result across.
  That search matters: a record that was rolled back has no stored receipt, and its
  line is in the log all the same.
* `AnswersAreDurable` (`AckedDurable`), with `AnswerInv`: every stored receipt, and every request
  that was answered, is `Durable`: a line holds its content, and is replicated where the mode
  or the sink asks for it, and the index covers that line's sequence number. `JobSound` says the
  same of a worker in front of its commit. Log, store and index only grow (`Grows`), so what
  is durable stays so.
* `SessionsResume` (`ResumableAfterCrash`), with `CleanInv`: until a local write ends badly, log
  and index are chained and the recorder, if there is one, stands on the last line (`InStep`);
  until a signature fails as well, the last line is above every entry of the index (`Level`,
  `Abreast`). `LogInv` has the part that is not
  obvious: a recorder that was dropped while its heartbeat runs could still write, but while
  the log is linked the line it believes in is not the last one (`Leads`).

**Identity lifecycle** (`UltraLifecycleProofs`)

* `RetriesReconcile` (`Reconciled`), `CountersNeverReturn` (`NoReplay`) and `BoundKeyStaysLive`
  (`BoundKeyLive`) share `IInv`. `Tidy`: a handler and the gate that waits for it agree
  on the call. `Working`: what a handler found at an earlier await still holds, since rows are
  added and never relabelled. `Alone`: what it found missing under a resource lock is
  still missing. `Shelved`: one pair, agent key and candidate at most; a stored response
  names what exists; an accepted counter is passed; and a key that is not active is
  older than the bound one, unless an operator has edited a key. The last part uses that
  the model gives ids out in the order of creation: a candidate is younger than the key it
  replaces, so the binding moves forward only, and a late commit revokes a key that the
  binding has left behind.

**Writer boundary** (`MeshBoundaryProofs`)

* `TypeCorrect` (`TypeOK`), with `WaitingForLocks` (a request in front of a lock has one left to take, and
  two altogether at most), without which the counts of a grant could leave their range.
* `Fenced` (`FencedWhileHeld`), with `CommandsAlone` (a guard command that holds the lock holds
  it alone, and it holds it while it works, unless its client has hung up) and
  `SharedUnderFence` (every shared holder, also a reload between its two locks, was
  admitted under the fence as it is). A grant reads the fence under the lock, and
  only a command moves it.

Only model-checked:

* Liveness: `CloseTerminates`, `BootstrapCompletes` and `TransitionEnds`, the three properties
  that assume weak fairness, each as its run describes. Liveness under fairness is
  outside the prover. Every invariant and action property of the runs is proved.

## 5. Not modelled

Cryptography, JSON-RPC framing, operating-system permissions of lock files and reparse
points, and the bodies of tools. In the parts that are modelled:

* `ApprovalQueue`: the migration of an older database (`_migrate_schema`), the shape of
  the tables and the mode without audit. Two checks of the validation at start that the
  code's own writes cannot fail: the operator's subject and id agree (`operator.py:671`), and
  a tombstone is retained past its recording (`:692`).
* `Policy`: loading and signing files, the classified profiles other than the CUI baseline.
* `DelegatedActions`: tools that are not protected on a backend without delegated calls
  (`acp_shim.py:537`).
* `Dispatcher`: the tools without state (identity, receipts, policy queries, listings) and
  the schema validator; policy and approval are one step that may refuse, since
  `ControlPlane` and `ApprovalQueue` model them.
* `Provenance`: more than one session, `close()` and `change_audit_mode()`, which the service
  never calls. A receipt line that is whole leaves no trace, since every reader of the chain
  skips it. Left out are a line that loses its newline only, a failed fsync of the index
  (the entry is then in the file although it was reported lost), and a log that is read
  while the heartbeat is half-way through a line.
* `AgentMesh`: the message loop and the enumeration of windows, the announcement of a
  recovery through window properties, callers on several threads. A window's owner puts its
  tag on in one step (it is read property by property), and only the owner does: a
  process that puts a copy of another one's fresh properties, `SCPID` included, on a window of
  its own is not in the model (`birth_tag_v2.py:203-229` checks the signature against the process
  id that the properties state, not against the window's process).
* `UltraLifecycle`: it has one agent and one pair; changes of a pair's status, operator
  changes of a key's label, recovery tokens, local verification and peer bindings, and the
  promoted authority of independent-state mode are left out.

Not modelled at all: the state outbox, independent state and promoted authority of the
Ultra Server; the windows of the composition monitor and the egress and export guards; key
stores; process hosting, installer, drills and tools. `PROJECT.json` lists every component
with its status.

## 6. Plan

1. (done) Approval queue, control plane, delegated actions, runtime, ledger; the identity
   lifecycle and the writer boundary of the Ultra Server.
2. (done) Dispatcher, in-memory queue and the refinement of the durable one, policy,
   contents of delegation, decision proofs and validation at start; provenance service and
   its host; handshake, birth tags, identity gate and key recovery.
3. (done) Theorems about the approval queue, the ledger and delegated actions with their
   refinements, control plane, dispatcher, mesh, runtime, provenance service, identity
   lifecycle and writer boundary. With these every safety property of the runs is
   proved for all values of the constants, under the hypotheses of section 4.
4. Ultra Server, independent state: the outbox (`ultra-state-outbox.js`) and the import
   and promotion of a second site (`independent-state.js`), the promoted TSK runtime
   with its drain and swap, reprovisioning. An abstract specification of the stream
   (every record applied once, in order, under one epoch) that the outbox implements.
   To look at: the digest of the import head after a promoted site has changed a
   binding.
5. The migration of the approval database by two starting processes; composition monitor
   and export guard; recovery tokens and agent nonces; the gate's local verification.
6. Compositions: dispatcher over queue, control plane and ledger; runtime over ledger. That
   approvals, too, implement the one-shot permit.
