--------------------------- MODULE GovernedRuntime ---------------------------
(***************************************************************************)
(* Start and stop of a governed runtime: GovernedRuntime                   *)
(* (enterprise/governed_runtime.py) with its RuntimeOwnershipLock          *)
(* (enterprise/runtime_ownership.py) and RuntimeLifetime                   *)
(* (enterprise/runtime_lifetime.py).                                       *)
(*                                                                         *)
(* Several processes start concurrently on ledger and approval paths that  *)
(* may coincide or be hard links of one file.  Each takes advisory locks   *)
(* on path and file identities, one at a time and without waiting, binds   *)
(* the identities of the files it opened, runs governed operations on      *)
(* several threads, and on close drains them before it unlocks.            *)
(***************************************************************************)
EXTENDS Integers, FiniteSets

CONSTANTS
  Processes, Threads,
  Paths,             \* parent directory and name of a file, as numbers
  Inodes,            \* device and inode of a file, as numbers
  NoInode,           \* a path at which no file exists
  NoProcess,
  LedgerPath,        \* the ledger path each process is configured with
  ApprovalPath,      \* and its approval database
  InitialFiles,      \* file systems the first runtime may find
  MaxNested,         \* bound on nested governed calls of one operation
  MaxRotations,      \* bound on ledger rotations
  MaxSubstitutions,  \* bound on paths relinked before a runtime has bound them
  MaxCrashes         \* bound on process deaths

ASSUME RuntimeConstants ==
  /\ Paths \subseteq Nat /\ Inodes \subseteq Nat /\ NoInode \notin Inodes
  /\ NoProcess \notin Processes
  /\ LedgerPath \in [Processes -> Paths] /\ ApprovalPath \in [Processes -> Paths]
  /\ InitialFiles \subseteq [Paths -> Inodes \cup {NoInode}]
  /\ MaxNested \in Nat /\ MaxRotations \in Nat /\ MaxSubstitutions \in Nat /\ MaxCrashes \in Nat
  /\ IsFiniteSet(Threads)

VARIABLES
  file,           \* the file system: inode at each path
  used,           \* inodes that exist or existed
  owner,          \* holder of each advisory lock
  proc,           \* per process: step of the constructor, locals of _acquire_identities
  accepting,      \* RuntimeLifetime._accepting
  inFlight,       \* RuntimeLifetime._in_flight
  thread,         \* per process and thread: depth, nested calls left, step of close()
  rotations, substitutions, crashes

disk == <<file, used>>
lifetime == <<accepting, inFlight, thread>>
faults == <<rotations, substitutions, crashes>>
vars == <<disk, owner, proc, lifetime, faults>>

(* "file:dev:inode" sorts before "path:dev:inode:name".                    *)
FileIdentity(i) == <<0, i>>
PathIdentity(p) == <<1, p>>
Identities == {FileIdentity(i) : i \in Inodes} \cup {PathIdentity(p) : p \in Paths}
SortsBefore(x, y) == x[1] < y[1] \/ (x[1] = y[1] /\ x[2] < y[2])

(* _resource_identities: the path, and the file if there is one.           *)
ResourceIdentities(path) ==
  {PathIdentity(path)} \cup IF file[path] = NoInode THEN {} ELSE {FileIdentity(file[path])}

LedgerIds(p) == ResourceIdentities(LedgerPath[p])
ApprovalIds(p) == ResourceIdentities(ApprovalPath[p])
AllIds(p) == LedgerIds(p) \cup ApprovalIds(p)
Distinct(p) == LedgerIds(p) \cap ApprovalIds(p) = {}

Held(p) == {x \in Identities : owner[x] = p}

IdleThread == [depth |-> 0, left |-> 0, close |-> "no"]
Down == [pc |-> "down", todo |-> {}, before |-> {}, bound |-> FALSE]

Init ==
  /\ file \in InitialFiles
  /\ used = {file[p] : p \in Paths} \ {NoInode}
  /\ owner = [x \in Identities |-> NoProcess]
  /\ proc = [p \in Processes |-> Down]
  /\ accepting = [p \in Processes |-> TRUE]
  /\ inFlight = [p \in Processes |-> 0]
  /\ thread = [p \in Processes |-> [t \in Threads |-> IdleThread]]
  /\ rotations = 0 /\ substitutions = 0 /\ crashes = 0

-----------------------------------------------------------------------------
(* from_signed_policy.                                                     *)

Goto(p, pc) == proc' = [proc EXCEPT ![p] = [@ EXCEPT !.pc = pc]]

(* An exception in the constructor: close what is open and unlock.         *)
StartFails(p, reason) ==
  /\ proc' = [proc EXCEPT ![p] = [Down EXCEPT !.pc = reason]]
  /\ accepting' = [accepting EXCEPT ![p] = FALSE]

(* No trust root, another profile than enterprise, no verifier of operator *)
(* decisions, or a policy or identity that does not load: nothing is held. *)
RejectConfiguration(p) ==
  /\ proc[p].pc = "down"
  /\ StartFails(p, "failed")
  /\ UNCHANGED <<disk, owner, inFlight, thread, faults>>

(* RuntimeOwnershipLock: the identities are read before any is locked.     *)
Start(p) ==
  /\ proc[p].pc = "down"
  /\ IF Distinct(p)
     THEN /\ proc' = [proc EXCEPT ![p] = [Down EXCEPT !.pc = "acquire", !.todo = AllIds(p)]]
          /\ UNCHANGED accepting
     ELSE StartFails(p, "failed")
  /\ UNCHANGED <<disk, owner, inFlight, thread, faults>>

(* Mutant: the identities are taken in the order of a set.                 *)
NextToAcquireAny(p, x) == x \in proc[p].todo

NextToAcquire(p, x) ==
  /\ x \in proc[p].todo
  /\ \A y \in proc[p].todo : y = x \/ SortsBefore(x, y)

(* _ResourceLock: an exclusive, non-blocking lock, or RuntimeOwnershipError. *)
Acquire(p) ==
  /\ proc[p].pc \in {"acquire", "bindAcquire"}
  /\ \E x \in Identities :
       /\ NextToAcquire(p, x)
       /\ \/ /\ owner[x] = NoProcess
             /\ owner' = [owner EXCEPT ![x] = p]
             /\ proc' = [proc EXCEPT ![p] = [@ EXCEPT !.todo = proc[p].todo \ {x}]]
             /\ UNCHANGED accepting
          \/ /\ owner[x] # NoProcess
             /\ StartFails(p, "refused")
             /\ UNCHANGED owner
  /\ UNCHANGED <<disk, inFlight, thread, faults>>

(* The locks are held; AgentLedger verifies the ledger and opens nothing.  *)
OpenLedger(p) ==
  /\ proc[p].pc = "acquire" /\ proc[p].todo = {}
  /\ \/ Goto(p, "bind") /\ UNCHANGED accepting
     \/ StartFails(p, "failed")
  /\ UNCHANGED <<disk, owner, inFlight, thread, faults>>

(* Mutant: the files that have appeared since are not locked.              *)
BindBeforeHeld(p) ==
  /\ proc[p].pc = "bind"
  /\ proc' = [proc EXCEPT ![p] = [@ EXCEPT !.pc = "bindAcquire", !.todo = {}, !.before = AllIds(p)]]
  /\ UNCHANGED <<disk, owner, accepting, inFlight, thread, faults>>

(* bind_opened_resources: the identities as they are now, the missing      *)
(* locks, and a second look.                                               *)
BindBefore(p) ==
  /\ proc[p].pc = "bind"
  /\ IF Distinct(p)
     THEN /\ proc' = [proc EXCEPT ![p] = [@ EXCEPT !.pc = "bindAcquire", !.before = AllIds(p),
                                            !.todo = AllIds(p) \ Held(p)]]
          /\ UNCHANGED accepting
     ELSE StartFails(p, "failed")
  /\ UNCHANGED <<disk, owner, inFlight, thread, faults>>

(* The first binding comes before the queue is built, the second after it. *)
BindAfter(p) ==
  /\ proc[p].pc = "bindAcquire" /\ proc[p].todo = {}
  /\ \/ /\ Distinct(p) /\ AllIds(p) = proc[p].before
        /\ proc' = [proc EXCEPT ![p] = [Down EXCEPT !.bound = TRUE,
             !.pc = IF proc[p].bound THEN "compose" ELSE "queue"]]
        /\ UNCHANGED accepting
     \/ /\ ~(Distinct(p) /\ AllIds(p) = proc[p].before)
        /\ StartFails(p, "failed")
  /\ UNCHANGED <<disk, owner, inFlight, thread, faults>>

(* A path gets a new file: created by its first writer, or by a rotation.  *)
NewFileAt(path) ==
  \E i \in Inodes \ used :
    /\ file' = [file EXCEPT ![path] = i]
    /\ used' = used \cup {i}

Ensure(path) == IF file[path] = NoInode THEN NewFileAt(path) ELSE UNCHANGED disk

(* DurableOperatorQueue creates its database; its reconcile() may write.   *)
OpenQueue(p) ==
  /\ proc[p].pc = "queue"
  /\ Ensure(ApprovalPath[p])
  /\ \/ Goto(p, "bind") /\ UNCHANGED accepting
     \/ StartFails(p, "failed")
  /\ UNCHANGED <<owner, inFlight, thread, faults>>

(* Control plane, enforcer, replay store, dispatcher: the replay database  *)
(* or the AGT manifest may fail to open when both bindings are complete.   *)
Compose(p) ==
  /\ proc[p].pc = "compose"
  /\ \/ Goto(p, "up") /\ UNCHANGED accepting
     \/ StartFails(p, "failed")
  /\ UNCHANGED <<disk, owner, inFlight, thread, faults>>

(* Unlock one identity: of a start that failed, or by the thread that      *)
(* swapped out the list of locks in close().                               *)
Unlock(p) ==
  /\ \/ proc[p].pc \in {"refused", "failed"}
     \/ \E t \in Threads : thread[p][t].close = "unlock"
  /\ \E x \in Held(p) : owner' = [owner EXCEPT ![x] = NoProcess]
  /\ UNCHANGED <<disk, proc, lifetime, faults>>

-----------------------------------------------------------------------------
(* RuntimeLifetime.operation: governed operations on a thread.             *)

SetThread(p, t, r) == thread' = [thread EXCEPT ![p] = [@ EXCEPT ![t] = r]]

Enter(p, t) ==
  /\ proc[p].pc = "up" /\ accepting[p]
  /\ thread[p][t].close = "no" /\ thread[p][t].depth = 0
  /\ inFlight' = [inFlight EXCEPT ![p] = inFlight[p] + 1]
  /\ SetThread(p, t, [IdleThread EXCEPT !.depth = 1, !.left = MaxNested])
  /\ UNCHANGED <<disk, owner, proc, accepting, faults>>

(* A nested call is admitted by the thread's own depth.                    *)
EnterNested(p, t) ==
  /\ thread[p][t].depth > 0 /\ thread[p][t].left > 0
  /\ SetThread(p, t, [thread[p][t] EXCEPT !.depth = thread[p][t].depth + 1, !.left = thread[p][t].left - 1])
  /\ UNCHANGED <<disk, owner, proc, accepting, inFlight, faults>>

(* The first entry of a ledger creates its file.                           *)
CreateLedger(p, t) ==
  /\ thread[p][t].depth > 0
  /\ file[LedgerPath[p]] = NoInode
  /\ NewFileAt(LedgerPath[p])
  /\ UNCHANGED <<owner, proc, lifetime, faults>>

(* _rotate_if_needed moves a full segment away; the next entry creates a   *)
(* new file.                                                               *)
RotateLedger(p, t) ==
  /\ thread[p][t].depth > 0
  /\ file[LedgerPath[p]] # NoInode
  /\ rotations < MaxRotations
  /\ rotations' = rotations + 1
  /\ NewFileAt(LedgerPath[p])
  /\ UNCHANGED <<owner, proc, lifetime, substitutions, crashes>>

ExitNested(p, t) ==
  /\ thread[p][t].depth > 1
  /\ SetThread(p, t, [thread[p][t] EXCEPT !.depth = thread[p][t].depth - 1])
  /\ UNCHANGED <<disk, owner, proc, accepting, inFlight, faults>>

(* Mutant: the last operation wakes nobody.                                *)
WokenNobody(p) == {}

(* notify_all when the count drops to zero.                                *)
Woken(p) == IF inFlight[p] = 1 THEN {u \in Threads : thread[p][u].close = "wait"} ELSE {}

Exit(p, t) ==
  /\ thread[p][t].depth = 1
  /\ inFlight' = [inFlight EXCEPT ![p] = inFlight[p] - 1]
  /\ thread' = [thread EXCEPT ![p] = [u \in Threads |->
       IF u = t THEN IdleThread
       ELSE IF u \in Woken(p) THEN [thread[p][u] EXCEPT !.close = "woken"] ELSE thread[p][u]]]
  /\ UNCHANGED <<disk, owner, proc, accepting, faults>>

-----------------------------------------------------------------------------
(* close(): close_and_drain, then the replay store and the locks.  A call  *)
(* from inside an operation raises RuntimeCloseReentrantError.             *)

(* Mutant: the operations in flight are not waited for.                    *)
AfterBarrierAtOnce(p) == "unlock"

AfterBarrier(p) == IF inFlight[p] = 0 THEN "unlock" ELSE "wait"

Close(p, t) ==
  /\ proc[p].pc = "up"
  /\ thread[p][t].depth = 0 /\ thread[p][t].close = "no"
  /\ accepting' = [accepting EXCEPT ![p] = FALSE]
  /\ SetThread(p, t, [IdleThread EXCEPT !.close = AfterBarrier(p)])
  /\ UNCHANGED <<disk, owner, proc, inFlight, faults>>

(* The while loop around Condition.wait.                                   *)
Wake(p, t) ==
  /\ thread[p][t].close = "woken"
  /\ SetThread(p, t, [thread[p][t] EXCEPT !.close = AfterBarrier(p)])
  /\ UNCHANGED <<disk, owner, proc, accepting, inFlight, faults>>

CloseReturns(p, t) ==
  /\ thread[p][t].close = "unlock" /\ Held(p) = {}
  /\ SetThread(p, t, IdleThread)
  /\ Goto(p, "closed")
  /\ UNCHANGED <<disk, owner, accepting, inFlight, faults>>

(* The operating system releases the locks of a process that dies.         *)
Crash(p) ==
  /\ proc[p].pc # "down" /\ crashes < MaxCrashes
  /\ crashes' = crashes + 1
  /\ owner' = [x \in Identities |-> IF owner[x] = p THEN NoProcess ELSE owner[x]]
  /\ proc' = [proc EXCEPT ![p] = Down]
  /\ accepting' = [accepting EXCEPT ![p] = TRUE]
  /\ inFlight' = [inFlight EXCEPT ![p] = 0]
  /\ thread' = [thread EXCEPT ![p] = [t \in Threads |-> IdleThread]]
  /\ UNCHANGED <<disk, rotations, substitutions>>

(* External: a path that no runtime has bound yet is made a hard link of   *)
(* an existing file.  Once bound, the path entries are immutable, as       *)
(* RuntimeOwnershipLock requires.                                          *)
Substitute(path) ==
  /\ substitutions < MaxSubstitutions
  /\ \A p \in Processes : path \in {LedgerPath[p], ApprovalPath[p]} =>
       ~proc[p].bound /\ proc[p].pc \in {"down", "acquire", "bind", "bindAcquire"}
  /\ \E i \in used : i # file[path] /\ file' = [file EXCEPT ![path] = i]
  /\ substitutions' = substitutions + 1
  /\ UNCHANGED <<used, owner, proc, lifetime, rotations, crashes>>

StartStep(p) ==
  \/ RejectConfiguration(p) \/ Start(p) \/ Acquire(p) \/ OpenLedger(p) \/ BindBefore(p)
  \/ BindAfter(p) \/ OpenQueue(p) \/ Compose(p) \/ Unlock(p)

ThreadStep(p, t) ==
  \/ Enter(p, t) \/ EnterNested(p, t) \/ CreateLedger(p, t) \/ RotateLedger(p, t) \/ ExitNested(p, t) \/ Exit(p, t)
  \/ Close(p, t) \/ Wake(p, t) \/ CloseReturns(p, t)

Next ==
  \/ \E p \in Processes : StartStep(p) \/ Crash(p) \/ \E t \in Threads : ThreadStep(p, t)
  \/ \E path \in Paths : Substitute(path)

Spec == Init /\ [][Next]_vars

(* Operations end, a notified thread is scheduled, and close() goes on.    *)
Progress(p, t) == ExitNested(p, t) \/ Exit(p, t) \/ Wake(p, t) \/ CloseReturns(p, t)

FairSpec ==
  /\ Spec
  /\ \A p \in Processes : WF_vars(Unlock(p)) /\ \A t \in Threads : WF_vars(Progress(p, t))

-----------------------------------------------------------------------------
(* The process changes its resources: the queue's startup reconciliation,  *)
(* or an operation in flight.                                              *)
Writing(p) == proc[p].pc = "queue" \/ \E t \in Threads : thread[p][t].depth > 0

Resources(p) == {file[LedgerPath[p]], file[ApprovalPath[p]]} \ {NoInode}

(* No two processes write one ledger or approval file, through the same    *)
(* path or through hard links, while they start, run, drain, unlock or die. *)
ExclusiveWriter ==
  \A p, q \in Processes : p # q /\ Writing(p) /\ Writing(q) =>
    /\ Resources(p) \cap Resources(q) = {}
    /\ {LedgerPath[p], ApprovalPath[p]} \cap {LedgerPath[q], ApprovalPath[q]} = {}

(* The count of the barrier is the number of threads inside an operation,  *)
(* so a drained runtime really is idle, and the locks of both paths are    *)
(* held for as long as an operation runs.                                  *)
WritesUnderLock ==
  \A p \in Processes :
    /\ inFlight[p] = Cardinality({t \in Threads : thread[p][t].depth > 0})
    /\ Writing(p) => {PathIdentity(LedgerPath[p]), PathIdentity(ApprovalPath[p])} \subseteq Held(p)

(* A race of runtimes for the same resources has a winner: they do not all *)
(* refuse each other.  (If the winner dies, the loser, about to release    *)
(* what it took, may still refuse the winner's successor.)                 *)
StartupHasWinner == crashes = 0 => \E p \in Processes : proc[p].pc # "refused"

(* close() returns: the operations in flight drain and wake the closer.    *)
CloseTerminates ==
  \A p \in Processes, t \in Threads : thread[p][t].close # "no" ~> thread[p][t].close = "no"
============================================================================
