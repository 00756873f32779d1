----------------------------- MODULE Provenance -----------------------------
(***************************************************************************)
(* The provenance service: ProvenanceRecorder (enterprise/provenance.py)   *)
(* writes a hash-chained log and replicates it to an object store with     *)
(* retention; ProvenanceServiceCore takes signed requests from the pipe    *)
(* workers and keeps receipts and nonces in SQLite; SessionIndex is a      *)
(* second chained file with the high-water mark of each session; the       *)
(* manager opens, resumes and interrupts recorders.                        *)
(*                                                                         *)
(* One session.  A record's hash is its line number in the log: prev is    *)
(* the line the writer believes to be the last one, Lost when that record  *)
(* never reached the file whole, and a line is linked when prev was right. *)
(* A receipt (ack) line that is whole leaves no trace, because every       *)
(* reader of the chain skips it; what is left of a line that was cut off,  *)
(* of an event or of a receipt, is a Fragment, on which every reader       *)
(* fails.  An append is atomic (the recorder's lock) and a crash may come  *)
(* between any two steps: a crash inside an append leaves the files as a   *)
(* failed write followed by a crash does.                                  *)
(***************************************************************************)
EXTENDS ServiceHost, Sequences, TLC

CONSTANTS
  Workers,        \* pipe worker threads
  Enrolled,       \* the registry of the first start
  Buckets,        \* what the provider may say about the bucket
  Deployments,    \* audit configurations: [audit, sink]
  Requests,       \* signed requests: [id, body, nonce, agent, event, issued]
  Freshness,      \* freshness_ms
  SealInterval,   \* events between two Merkle seals
  MaxTime,        \* bound on the clock
  MaxLines,       \* bound on the log
  MaxTries,       \* bound on requests that reach the lock
  MaxFaults,      \* bound on failed writes, signatures and replications
  MaxRestarts     \* bound on restarts

ASSUME ProvenanceConstants ==
  /\ Freshness \in Nat \ {0} /\ SealInterval \in Nat \ {0, 1}
  /\ {MaxTime, MaxLines, MaxTries, MaxFaults, MaxRestarts} \subseteq Nat
  /\ Deployments \subseteq [audit : {"enterprise", "government"},
                            sink : {"none", "memory", "file", "s3", "r2"}]
  /\ Enrolled \in [Agents -> {"none", "agent", "supervisor"}]
  /\ StartAllowed(Enrolled, Hardened(AllowedSids(Enrolled)))
  /\ Requests \subseteq [id : STRING, body : Nat, nonce : STRING, agent : Agents,
                         event : {"agent", "supervisor", "internal"}, issued : Nat]
  /\ \A r \in Requests : r.id # ""   \* a UUID

VARIABLES
  config,    \* the AuditConfig in force; the manager refuses consumer mode
  log,       \* event lines of the session's file
  pushed,    \* lines the object store holds
  seals,     \* the store's seal index: segment number -> sealing line
  rec,       \* the cached ProvenanceRecorder
  orphan,    \* a recorder that was started but never cached; its heartbeat runs
  index,     \* entries of the session index file
  imem,      \* SessionIndex in memory
  receipts,  \* provenance_receipts: committed request ids
  nonces,    \* provenance_nonces
  job,       \* per worker: position in handle_record
  svc,       \* the service process and its stop sequence
  registry,  \* the enrollments loaded when the service started
  now,
  acked,     \* requests answered committed or already_committed
  tries,
  faults

recorderVars == <<log, pushed, seals, rec>>
indexVars    == <<index, imem>>
storeVars    == <<receipts, nonces>>
hostVars     == <<svc, registry>>
vars == <<config, recorderVars, orphan, indexVars, storeVars, job, hostVars, now, acked, tries, faults>>

Lost == -1
NoReq == [id |-> "", body |-> 0]
NoRecorder == [st |-> "none", state |-> "open", seq |-> 0, prev |-> 0, seg |-> 0,
               since |-> 0, beat |-> FALSE]
NoEntry == [seq |-> 0, state |-> "none"]
FreshIndex == [loaded |-> FALSE, entry |-> NoEntry, prev |-> 0]
TornEntry == [seq |-> 0, state |-> "none", linked |-> FALSE]
IdleJob == [pc |-> "idle", req |-> NoReq, at |-> 0, line |-> 0, fresh |-> FALSE]
UpService == [up |-> TRUE, pipe |-> TRUE, stop |-> "run", restarts |-> 0]

Init ==
  /\ config \in Deployments
  /\ log = <<>> /\ pushed = {} /\ seals = <<>>
  /\ rec = NoRecorder /\ orphan = NoRecorder
  /\ index = <<>> /\ imem = FreshIndex
  /\ receipts = {} /\ nonces = {}
  /\ job = [w \in Workers |-> IdleJob]
  /\ svc = UpService
  /\ registry = Enrolled
  /\ now = 1      \* a request may have been signed before the start
  /\ acked = {}
  /\ tries = 0
  /\ faults = [local |-> 0, sign |-> 0, push |-> 0]

-----------------------------------------------------------------------------
(* The recorder.  Its operators map one state of log, store and recorder   *)
(* to the next; raised is the exception the caller sees.                   *)

Recorder(r) == [rec |-> r, log |-> log, pushed |-> pushed, seals |-> seals, raised |-> FALSE]

Immutable == {"s3", "r2"}

(* _to_provenance_mode.                                                    *)
Mode == IF config.audit = "government" THEN "military" ELSE "enterprise"

(* build_provenance_recorder: government mode takes nothing but a sink     *)
(* with enforced retention, and such a sink only if its retention          *)
(* configuration was verified live.                                        *)
BuildRecorder(b) ==
  CASE config.sink = "s3" -> S3Retention(b)
    [] config.sink = "r2" -> R2Retention(b)
    [] OTHER -> config.audit # "government"

(* The seal index of the object store is written once per segment number   *)
(* (IfNoneMatch), and a different root for a known number is a fork.       *)
Forks(s, n) ==
  /\ s.log[n].seg \in DOMAIN s.seals
  /\ s.seals[s.log[n].seg] # n

Answer(s, error) == [s |-> s, error |-> error]

(* _ensure_s3_seal_index, for a seal.                                      *)
SealIndexed(s, n, o) ==
  IF s.log[n].type # "seal" THEN Answer(s, "")
  ELSE IF Forks(s, n) THEN Answer(s, "fork")
  ELSE IF o = "index" THEN Answer(s, "replication")
  ELSE Answer([s EXCEPT !.seals = (s.log[n].seg :> n) @@ @], "")

(* _push_s3_record: a push of an object that exists is fine.               *)
PushRecord(s, n, o) ==
  LET a == SealIndexed(s, n, o)
  IN IF a.error # "" THEN a
     ELSE IF o = "push" THEN Answer(a.s, "replication")
     ELSE Answer([a.s EXCEPT !.pushed = @ \cup {n}], "")

(* FileReplicationSink.push: segment files are replaced, not compared, and *)
(* the error of a failed write is an OSError.                              *)
FilePush(s, n, o) ==
  IF o = "push" THEN Answer(s, "os") ELSE Answer([s EXCEPT !.pushed = @ \cup {n}], "")

(* InMemoryWitnessSink.push: the witness lives as long as its recorder,    *)
(* whose segment numbers only grow, so it never sees a number twice.       *)
MemoryPush(s) == Answer(s, "")

(* make_replication_sink: which push it is.                                *)
Push(s, n, o) ==
  CASE config.sink \in Immutable -> PushRecord(s, n, o)
    [] config.sink = "file"      -> FilePush(s, n, o)
    [] config.sink = "memory"    -> MemoryPush(s)
    [] config.sink = "none"      -> Answer(s, "")

(* Mutant: a failed push is only logged, whatever the audit mode.          *)
ReplicateBestEffort(s, n, o) == Push(s, n, o).s

(* What a cut-off line leaves; it has no newline, so that the next line    *)
(* runs into it.                                                           *)
Fragment == [type |-> "torn", seq |-> 0, req |-> NoReq, seg |-> 0, linked |-> FALSE]

(* _replicate: a fork raises in both modes, a replication error only in    *)
(* military mode, and an error of another class is not caught.  A push     *)
(* that succeeds is followed by the local receipt, whose failed write      *)
(* raises only in military mode, whether or not some of it is in the file. *)
Replicate(s, n, o) ==
  LET a == Push(s, n, o)
      receipt == config.sink # "none" /\ a.error = ""
  IN [a.s EXCEPT !.log = IF receipt /\ o = "tornack" THEN Append(@, Fragment) ELSE @,
                 !.raised = \/ a.error \in {"fork", "os"}
                            \/ a.error = "replication" /\ Mode = "military"
                            \/ receipt /\ o \in {"ack", "tornack"} /\ Mode = "military"]

(* _append_record up to the replication.  seq moves before the signature   *)
(* and prev_hash before the write, so a line that is lost or torn leaves   *)
(* the chain pointing at it; a line whose fsync fails is in the file.      *)
Chain(s, type, r, o) ==
  LET n == Len(s.log) + 1
      line == [type |-> type, seq |-> s.rec.seq + 1, req |-> r, seg |-> s.rec.seg,
               linked |-> s.rec.prev = Len(s.log)]
      failed(prev, lines) == [s EXCEPT !.rec.seq = @ + 1, !.rec.prev = prev, !.log = lines, !.raised = TRUE]
  IN CASE o = "sign" -> failed(s.rec.prev, s.log)
       [] o = "disk" -> failed(Lost, s.log)
       [] o = "torn" -> failed(Lost, Append(s.log, Fragment))
       [] o = "sync" -> failed(n, Append(s.log, line))
       [] OTHER -> Replicate([s EXCEPT !.rec.seq = @ + 1, !.rec.prev = n, !.log = Append(@, line)], n, o)

Counted(s) == IF s.raised THEN s ELSE [s EXCEPT !.rec.since = @ + 1]

(* _write_merkle_seal: the segment number moves even if the seal fails.    *)
WriteMerkleSeal(s, o) ==
  IF s.raised THEN s
  ELSE Counted(Chain([s EXCEPT !.rec.seg = @ + 1, !.rec.since = 0], "seal", NoReq, o))

(* _append_record: at the interval, a seal follows.                        *)
AppendRecord(s, type, r, o) ==
  LET a == Counted(Chain(s, type, r, o.event))
  IN IF ~a.raised /\ a.rec.since >= SealInterval THEN WriteMerkleSeal(a, o.seal) ELSE a

(* Mutant: the chain restarts at the genesis hash.                         *)
LoadChainGenesis(lines) ==
  [NoRecorder EXCEPT !.st = "open", !.seq = IF lines = <<>> THEN 0 ELSE lines[Len(lines)].seq]

(* _load_chain_state: seq and prev_hash come back from the last event; the *)
(* segment number and the count since the last seal do not.                *)
LoadChainState(lines) ==
  [NoRecorder EXCEPT !.st = "open", !.prev = Len(lines),
                     !.seq = IF lines = <<>> THEN 0 ELSE lines[Len(lines)].seq]

(* It fails on a line that is no JSON.                                     *)
Parses(lines) == \A n \in DOMAIN lines : lines[n].type # "torn"

(* start(): SESSION_OPEN, or SESSION_RECONSTRUCTED when resuming; the      *)
(* heartbeat thread starts only if that record was written.                *)
Start(resume, o) ==
  LET loaded == [LoadChainState(log) EXCEPT !.state = IF resume THEN "reconstructed" ELSE "open"]
      s == AppendRecord(Recorder(loaded), IF resume THEN "reconstructed" ELSE "open", NoReq, o)
  IN [s EXCEPT !.rec.beat = ~s.raised]

(* interrupt(): the event, a seal that is not final, then closed.          *)
InterruptRecorder(o) ==
  LET s == WriteMerkleSeal(AppendRecord(Recorder([rec EXCEPT !.beat = FALSE, !.state = "interrupted"]),
                                        "interrupt", NoReq, o), o.last)
  IN IF s.raised THEN s ELSE [s EXCEPT !.rec.st = "closed"]

(* _verify_service_agent_attestation: a line that names a request carries  *)
(* exactly the content its agent signed.                                   *)
Attested(line) ==
  line.req = NoReq \/ \E r \in Requests :
    line.req = [id |-> r.id, body |-> r.body] /\ line.type = r.event

(* _verify_chain: every event's prev_hash is the hash of the event before; *)
(* a Fragment is never linked, so that it fails too.                       *)
VerifyChain(lines) == \A n \in DOMAIN lines : lines[n].linked /\ Attested(lines[n])

HighWater(lines) == IF lines = <<>> THEN 0 ELSE CHOOSE m \in {lines[n].seq : n \in DOMAIN lines} :
                      \A n \in DOMAIN lines : lines[n].seq <= m

Adopt(s) == log' = s.log /\ pushed' = s.pushed /\ seals' = s.seals /\ rec' = s.rec
Discard(s) == log' = s.log /\ pushed' = s.pushed /\ seals' = s.seals /\ UNCHANGED rec

(* What can go wrong in one append: the signature, the local write (no     *)
(* byte, a part of the line, or the fsync), the seal index, the push of    *)
(* the object, and its receipt (no byte, or a part of it).                 *)
LocalFaults == {"disk", "torn", "sync", "tornack"}
PushFaults == {"push", "index", "ack"}
EventFaults == LocalFaults \cup {"sign", "push", "ack"}
Outcomes == {o \in [event : EventFaults \cup {"ok"}, seal : EventFaults \cup {"ok", "index"},
                    last : EventFaults \cup {"ok", "index"}] :
               Cardinality({f \in {"event", "seal", "last"} : o[f] # "ok"}) <= 1}
Failed(o, kind) == IF \E f \in DOMAIN o : o[f] \in kind THEN 1 ELSE 0
(* Every sink can fail but the one in memory, every sink returns a         *)
(* receipt, only military mode minds its clean loss, and only the object   *)
(* store has an index of seals.                                            *)
Possible(o) ==
  /\ config.sink \notin Immutable => Failed(o, {"index"}) = 0
  /\ config.sink \in {"none", "memory"} => Failed(o, {"push"}) = 0
  /\ config.sink = "none" => Failed(o, {"tornack"}) = 0
  /\ Mode # "military" => Failed(o, {"ack"}) = 0
Bounded(f) == f.local + f.sign + f.push <= MaxFaults
Suffer(o) ==
  /\ Possible(o)
  /\ faults' = [local |-> faults.local + Failed(o, LocalFaults), sign |-> faults.sign + Failed(o, {"sign"}),
                push |-> faults.push + Failed(o, PushFaults)]
  /\ Bounded(faults')
(* A seal can fail only when one is due.                                   *)
SealDue(o) == o.seal = "ok" \/ rec.since + 1 >= SealInterval
Plain(o) == o.last = "ok" /\ SealDue(o)
Room == Len(log) + 2 <= MaxLines

-----------------------------------------------------------------------------
(* The session index: chained like the log, and like it the memory moves   *)
(* before the write.                                                       *)

IndexLoads == imem.loaded \/ \A n \in DOMAIN index : index[n].linked

LoadedIndex ==
  IF imem.loaded THEN imem
  ELSE [loaded |-> TRUE, prev |-> Len(index),
        entry |-> IF index = <<>> THEN NoEntry
                  ELSE [seq |-> index[Len(index)].seq, state |-> index[Len(index)].state]]

(* _write_entry, from open_session and update_session: the entry is        *)
(* written, lost, or torn.                                                 *)
Writes == {"ok", "lost", "torn"}
WriteEntry(m, entry, o) ==
  /\ imem' = [m EXCEPT !.entry = entry, !.prev = IF o = "ok" THEN Len(index) + 1 ELSE Lost]
  /\ index' = CASE o = "ok" -> Append(index, [seq |-> entry.seq, state |-> entry.state,
                                              linked |-> m.prev = Len(index)])
                [] o = "lost" -> index
                [] o = "torn" -> Append(index, TornEntry)
  /\ faults' = [faults EXCEPT !.local = @ + IF o = "ok" THEN 0 ELSE 1]
  /\ Bounded(faults')

(* The entries of open_session and update_session.                         *)
Opened == [seq |-> rec.seq, state |-> "open"]
Updated(state) == [seq |-> rec.seq, state |-> state]

(* verify_for_resume and the manager's second verify_log.                  *)
VerifyForResume(entry) == VerifyChain(log) /\ HighWater(log) >= entry.seq

-----------------------------------------------------------------------------
(* handle_record.                                                          *)

Locked == \E w \in Workers : job[w].pc \in {"open", "tx", "record", "note", "commit"}

Stale(r, t) == t - r.issued > Freshness \/ r.issued - t > Freshness

(* EnrollmentRegistry.get, and its one supervisor.                         *)
Registered(a) == registry[a] # "none"
Recognized(a) == Registered(a) /\ CallerMatches(a, registry)
Supervisors == {a \in Agents : registry[a] = "supervisor"}

(* verify_record_request: the caller's enrollment, then event classes.     *)
Admitted(r) ==
  /\ Recognized(r.agent)
  /\ r.event # "internal"
  /\ r.event = "supervisor" => registry[r.agent] = "supervisor"

(* _check_event_authority of the recorder, which holds the supervisor of   *)
(* the registry it was opened under.                                       *)
Authorized(r) ==
  r.event = "supervisor" => \/ r.agent \in Supervisors
                            \/ Supervisors = {} /\ Mode # "military"

(* record: an open recorder and the authority for the event.               *)
Recordable(r) == rec.st = "open" /\ Authorized(r)

StoredReceipt(r) == {x \in receipts : x.id = r.id}
SameContent(r) == \A x \in StoredReceipt(r) : x.body = r.body

(* Mutant: the log is not searched for an earlier attempt.                 *)
RecoverNothing(r) == {}

(* _recover_record: lines that carry the request's id.                     *)
RecoverRecord(r) == {n \in DOMAIN log : log[n].req.id = r.id}

(* The answer is sent; whether or not it arrives, the client may send the  *)
(* same request again at any time.                                         *)
Deliver(r) == acked' = acked \cup {r}
Release(w) == job' = [job EXCEPT ![w] = IdleJob]

(* The pipe worker reads one request and checks it before any lock.        *)
Receive(w, r) ==
  /\ svc.pipe /\ job[w].pc = "idle"
  /\ \/ /\ Recognized(r.agent) /\ StoredReceipt(r) # {} /\ SameContent(r)
        /\ Deliver(r) /\ UNCHANGED <<job, tries>>
     \/ /\ Admitted(r) /\ StoredReceipt(r) = {} /\ ~Stale(r, now)
        /\ job' = [job EXCEPT ![w] = [IdleJob EXCEPT !.pc = "wait", !.req = r, !.at = now]]
        /\ tries < MaxTries /\ tries' = tries + 1
        /\ UNCHANGED acked
     \/ /\ ~Admitted(r) \/ ~SameContent(r) \/ (StoredReceipt(r) = {} /\ Stale(r, now))
        /\ UNCHANGED <<job, acked, tries>>
  /\ UNCHANGED <<config, recorderVars, orphan, indexVars, storeVars, hostVars, now, faults>>

(* The core's lock, with the recorder already cached.                      *)
Acquire(w) ==
  /\ svc.up /\ job[w].pc = "wait" /\ ~Locked /\ rec.st # "none"
  /\ job' = [job EXCEPT ![w].pc = "tx"]
  /\ UNCHANGED <<config, recorderVars, orphan, indexVars, storeVars, hostVars, now, acked, tries, faults>>

(* ProvenanceRecorderManager.__call__ up to start().                       *)
OpenRecorder(w, o) ==
  /\ svc.up /\ job[w].pc = "wait" /\ ~Locked /\ rec.st = "none" /\ Room /\ Plain(o) /\ Suffer(o)
  /\ LET entry == LoadedIndex.entry
         resume == entry # NoEntry
         s == Start(resume, o)
     IN /\ IndexLoads /\ (resume => VerifyForResume(entry)) /\ \E b \in Buckets : BuildRecorder(b)
        /\ Parses(log)
        /\ imem' = LoadedIndex
        /\ IF s.raised THEN Discard(s) /\ Release(w)
           ELSE Adopt(s) /\ job' = [job EXCEPT ![w].pc = "open"]
  /\ UNCHANGED <<config, orphan, index, storeVars, hostVars, now, acked, tries>>

(* The index does not load, the session may not be resumed, the sink's     *)
(* retention could not be verified, or the log does not parse.             *)
RefuseRecorder(w) ==
  /\ svc.up /\ job[w].pc = "wait" /\ ~Locked /\ rec.st = "none"
  /\ \/ ~IndexLoads
     \/ LoadedIndex.entry # NoEntry /\ ~VerifyForResume(LoadedIndex.entry)
     \/ \E b \in Buckets : ~BuildRecorder(b)
     \/ ~Parses(log)
  /\ imem' = IF IndexLoads THEN LoadedIndex ELSE imem
  /\ Release(w)
  /\ UNCHANGED <<config, recorderVars, orphan, index, storeVars, hostVars, now, acked, tries, faults>>

(* open_session or update_session; on failure the started recorder is      *)
(* forgotten while its heartbeat thread goes on.                           *)
IndexRecorder(w, o) ==
  /\ job[w].pc = "open"
  /\ WriteEntry(imem, IF rec.state = "open" THEN Opened ELSE Updated("reconstructed"), o)
  /\ IF o = "ok" THEN job' = [job EXCEPT ![w].pc = "tx"] /\ UNCHANGED <<rec, orphan>>
     ELSE Release(w) /\ orphan' = rec /\ rec' = NoRecorder
  /\ UNCHANGED <<config, log, pushed, seals, storeVars, hostVars, now, acked, tries>>

Live(t) == {x \in nonces : x.expires >= t}

Used(w) == \E x \in Live(job[w].at) : x.agent = job[w].req.agent /\ x.nonce = job[w].req.nonce

(* The transaction finds the answer: a receipt, or a request it refuses.   *)
Settle(w) ==
  LET r == job[w].req
      found == RecoverRecord(r)
  IN /\ job[w].pc = "tx"
     /\ \/ /\ StoredReceipt(r) # {} /\ SameContent(r)
           /\ nonces' = Live(job[w].at) /\ Deliver(r)
        \/ /\ \/ ~SameContent(r)
              \/ StoredReceipt(r) = {} /\ ~VerifyChain(log)
              \/ StoredReceipt(r) = {} /\ (Cardinality(found) > 1 \/ \E n \in found : log[n].req.body # r.body)
              \/ StoredReceipt(r) = {} /\ found = {} /\ Used(w)
           /\ UNCHANGED <<nonces, acked>>
     /\ Release(w)
     /\ UNCHANGED <<config, recorderVars, orphan, indexVars, receipts, hostVars, now, tries, faults>>

(* An earlier attempt left the record: ensure_replicated before it counts. *)
Recover(w, o) ==
  LET r == job[w].req
      found == RecoverRecord(r)
  IN /\ job[w].pc = "tx" /\ StoredReceipt(r) = {} /\ VerifyChain(log) /\ Plain(o) /\ o.seal = "ok" /\ Suffer(o)
     /\ Cardinality(found) = 1
     /\ \A n \in found :
          LET s == Replicate(Recorder(rec), n, o.event)
          IN /\ log[n].req.body = r.body /\ o.event \in {"ok", "push", "ack", "tornack"}
             /\ Adopt(s)
             /\ IF s.raised THEN Release(w)
                ELSE job' = [job EXCEPT ![w].pc = "note", ![w].line = n]
     /\ UNCHANGED <<config, orphan, indexVars, storeVars, hostVars, now, acked, tries>>

(* No earlier attempt, and a nonce to consume.  The chain was verified     *)
(* outside the recorder's lock, which the heartbeat and the stop also take *)
(* before the record is written.                                           *)
Check(w) ==
  LET r == job[w].req
  IN /\ job[w].pc = "tx" /\ StoredReceipt(r) = {} /\ VerifyChain(log) /\ RecoverRecord(r) = {} /\ ~Used(w)
     /\ job' = [job EXCEPT ![w].pc = "record"]
     /\ UNCHANGED <<config, recorderVars, orphan, indexVars, storeVars, hostVars, now, acked, tries, faults>>

(* recorder.record.                                                        *)
Record(w, o) ==
  LET r == job[w].req
      s == AppendRecord(Recorder(rec), r.event, [id |-> r.id, body |-> r.body], o)
  IN /\ job[w].pc = "record" /\ Recordable(r) /\ Room /\ Plain(o) /\ Suffer(o)
     /\ Adopt(s)
     /\ IF s.raised THEN Release(w)
        ELSE job' = [job EXCEPT ![w].pc = "note", ![w].line = Len(log) + 1, ![w].fresh = TRUE]
     /\ UNCHANGED <<config, orphan, indexVars, storeVars, hostVars, now, acked, tries>>

(* recorder.record of a recorder that was closed in between.               *)
RecordRefused(w) ==
  /\ job[w].pc = "record" /\ ~Recordable(job[w].req)
  /\ Release(w)
  /\ UNCHANGED <<config, recorderVars, orphan, indexVars, storeVars, hostVars, now, acked, tries, faults>>

(* note_commit: the index follows before the receipt is saved.             *)
NoteCommit(w, o) ==
  /\ job[w].pc = "note"
  /\ WriteEntry(imem, Updated(rec.state), o)
  /\ IF o = "ok" THEN job' = [job EXCEPT ![w].pc = "commit"] ELSE Release(w)
  /\ UNCHANGED <<config, recorderVars, orphan, storeVars, hostVars, now, acked, tries>>

(* COMMIT: the receipt, the nonce and the pruning; then the answer.        *)
Commit(w) ==
  LET r == job[w].req IN
  /\ job[w].pc = "commit"
  /\ receipts' = receipts \cup {[id |-> r.id, body |-> r.body, line |-> job[w].line]}
  /\ nonces' = Live(job[w].at) \cup
       IF job[w].fresh THEN {[agent |-> r.agent, nonce |-> r.nonce, expires |-> r.issued + Freshness]} ELSE {}
  /\ Deliver(r) /\ Release(w)
  /\ UNCHANGED <<config, recorderVars, orphan, indexVars, hostVars, now, tries, faults>>

-----------------------------------------------------------------------------
(* Heartbeat, stop, crash, restart and the enrollment tool.                *)

(* _heartbeat_loop: a failed heartbeat is logged and forgotten.            *)
Heartbeat(o) ==
  /\ rec.st = "open" /\ rec.beat /\ Room /\ Plain(o) /\ Suffer(o)
  /\ Adopt(AppendRecord(Recorder(rec), "beat", NoReq, o))
  /\ UNCHANGED <<config, orphan, indexVars, storeVars, job, hostVars, now, acked, tries>>

OrphanHeartbeat ==
  /\ orphan.beat /\ Room
  /\ LET s == AppendRecord(Recorder(orphan), "beat", NoReq, [event |-> "ok", seal |-> "ok", last |-> "ok"])
     IN orphan' = s.rec /\ Discard(s)
  /\ UNCHANGED <<config, indexVars, storeVars, job, hostVars, now, acked, tries, faults>>

(* ProvenanceServiceRuntime.stop: interrupt_all under the manager's lock,  *)
(* while the pipe still serves.                                            *)
StopInterrupt(o) ==
  /\ svc.up /\ svc.stop = "run" /\ ~\E w \in Workers : job[w].pc = "open"
  /\ rec.st = "open" /\ Len(log) + 3 <= MaxLines /\ SealDue(o) /\ Suffer(o)
  /\ LET s == InterruptRecorder(o)
     IN Adopt(s) /\ svc' = [svc EXCEPT !.stop = IF s.raised THEN "pipe" ELSE "index"]
  /\ UNCHANGED <<config, orphan, indexVars, storeVars, job, registry, now, acked, tries>>

StopNothing ==
  /\ svc.up /\ svc.stop = "run" /\ ~\E w \in Workers : job[w].pc = "open"
  /\ rec.st = "none"
  /\ svc' = [svc EXCEPT !.stop = "pipe"]
  /\ UNCHANGED <<config, recorderVars, orphan, indexVars, storeVars, job, registry, now, acked, tries, faults>>

StopIndex(o) ==
  /\ svc.stop = "index"
  /\ WriteEntry(imem, Updated("interrupted"), o)
  /\ svc' = [svc EXCEPT !.stop = "pipe"]
  /\ UNCHANGED <<config, recorderVars, orphan, storeVars, job, registry, now, acked, tries>>

(* pipe.stop: no new connections, the workers are joined for a while.      *)
StopPipe ==
  /\ svc.stop = "pipe"
  /\ svc' = [svc EXCEPT !.pipe = FALSE, !.stop = "join"]
  /\ UNCHANGED <<config, recorderVars, orphan, indexVars, storeVars, job, registry, now, acked, tries, faults>>

Down ==
  /\ svc' = [svc EXCEPT !.up = FALSE, !.pipe = FALSE, !.stop = "down"]
  /\ rec' = NoRecorder /\ orphan' = NoRecorder /\ imem' = FreshIndex
  /\ job' = [w \in Workers |-> IdleJob]
  /\ UNCHANGED <<config, log, pushed, seals, index, storeVars, registry, now, acked, tries, faults>>

(* core.close waits for the core's lock; then the process ends.            *)
Exit == svc.stop = "join" /\ ~Locked /\ Down

Crash == svc.up /\ Down

(* provenance_admin: enroll replaces the row of an agent and leaves one    *)
(* supervisor; remove refuses an agent that is not enrolled.               *)
Enroll(file, a, role) ==
  [b \in Agents |-> IF b = a THEN role
                    ELSE IF role = "supervisor" /\ file[b] = "supervisor" THEN "agent" ELSE file[b]]

(* A new process loads the enrollment file, which nobody reads in between  *)
(* and which was edited at most once since the last start, after which the *)
(* deployment script was run again or not.  It starts only on a host that  *)
(* fits its enrollments.                                                   *)
Restart ==
  /\ ~svc.up /\ svc.restarts < MaxRestarts
  /\ svc' = [UpService EXCEPT !.restarts = svc.restarts + 1]
  /\ \/ UNCHANGED registry
     \/ \E a \in Agents, role \in {"none", "agent", "supervisor"} :
          /\ role = "none" => registry[a] # "none"
          /\ registry' = Enroll(registry, a, role)
          /\ \E clients \in {AllowedSids(registry), AllowedSids(registry')} :
               StartAllowed(registry', Hardened(clients))
  /\ UNCHANGED <<config, recorderVars, orphan, indexVars, storeVars, job, now, acked, tries, faults>>

Tick ==
  /\ now < MaxTime /\ now' = now + 1
  /\ UNCHANGED <<config, recorderVars, orphan, indexVars, storeVars, job, hostVars, acked, tries, faults>>

Next ==
  \/ \E w \in Workers : \/ \E r \in Requests : Receive(w, r)
                        \/ Acquire(w) \/ RefuseRecorder(w) \/ Settle(w) \/ Check(w) \/ RecordRefused(w) \/ Commit(w)
                        \/ \E o \in Writes : IndexRecorder(w, o) \/ NoteCommit(w, o)
                        \/ \E o \in Outcomes : OpenRecorder(w, o) \/ Recover(w, o) \/ Record(w, o)
  \/ \E o \in Outcomes : Heartbeat(o) \/ StopInterrupt(o)
  \/ \E o \in Writes : StopIndex(o)
  \/ OrphanHeartbeat \/ StopNothing \/ StopPipe \/ Exit \/ Crash \/ Restart \/ Tick

Spec == Init /\ [][Next]_vars

-----------------------------------------------------------------------------
(* A request id appears in at most one line of the log: lost answers,      *)
(* rolled-back transactions, failed replications and crashes between the   *)
(* log write and the COMMIT lead to retries that find the first record.    *)
RequestRecordedOnce ==
  \A m, n \in DOMAIN log : log[m].req # NoReq /\ log[m].req.id = log[n].req.id => m = n

(* What a client was told is committed is in the log with its content, is  *)
(* below the high-water mark of the index, and in military mode is in the  *)
(* object store; with a file replica it is there in every mode.            *)
AckedDurable ==
  \A r \in acked : \E n \in DOMAIN log :
    /\ log[n].req = [id |-> r.id, body |-> r.body]
    /\ \E k \in DOMAIN index : index[k].seq >= log[n].seq
    /\ Mode = "military" \/ config.sink = "file" => n \in pushed

(* Whenever the process is down, the session index loads and the log       *)
(* verifies (the first half of verify_for_resume), after crashes at any    *)
(* step, failed signatures, failed and forked replications, receipts that  *)
(* were not written and stops cut short.  Excepted is only what a local    *)
(* write left behind that did not end well: an event line or an index      *)
(* entry that is lost, torn or not synced, and a torn receipt, by a        *)
(* failure or by a crash in the middle of it.  The second half, that the   *)
(* log reaches the high-water mark of the index, also excepts failed       *)
(* signatures, which count a record that is never written.                 *)
ResumableAfterCrash ==
  faults.local = 0 /\ ~svc.up =>
    /\ IndexLoads /\ VerifyChain(log)
    /\ faults.sign = 0 /\ LoadedIndex.entry # NoEntry => HighWater(log) >= LoadedIndex.entry.seq
=============================================================================
