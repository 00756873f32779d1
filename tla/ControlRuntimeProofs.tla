------------------------ MODULE ControlRuntimeProofs ------------------------
(***************************************************************************)
(* Theorems about the life of a governed runtime and the control its       *)
(* operators have over its agents.                                         *)
(*                                                                         *)
(* First the start, use and close of runtimes (module GovernedRuntime), for *)
(* any number of processes, threads, paths and files, any nesting of       *)
(* operations and any number of crashes.  The invariant has one part per   *)
(* process (Local), which relates its position, the barrier of its         *)
(* lifetime, its threads and the locks it holds.  It takes that state as   *)
(* parameters, since a step of one process must be seen to leave the       *)
(* others' parts alone (Untouched).                                        *)
(*                                                                         *)
(* Then the control plane (module ControlPlane), for any number of agents, *)
(* operators, dispatchers and approvals, any policy bundle and any number  *)
(* of restarts.  The arguments share two facts about a step that is not a  *)
(* restart: a revoked agent stays revoked and a stopped one stopped        *)
(* (StatesMonotone), and an approval that was pending keeps its agent and  *)
(* never becomes pending again once it is decided (ApprovalsMonotone).     *)
(* Each concurrent loop has an invariant about what it has left to do.     *)
(***************************************************************************)
EXTENDS GovernedRuntime, ControlPlane, FiniteSetTheorems, TLAPS

ProcRecord ==
  [pc : {"down", "failed", "refused", "acquire", "bind", "bindAcquire", "queue", "compose", "up",
         "closed"},
   todo : SUBSET Identities, before : SUBSET Identities, bound : BOOLEAN]

ThreadRecord == [depth : Nat, left : Nat, close : {"no", "wait", "woken", "unlock"}]

Typed ==
  /\ file \in [Paths -> Inodes \cup {NoInode}]
  /\ used \subseteq Inodes
  /\ \A path \in Paths : file[path] \in used \cup {NoInode}
  /\ owner \in [Identities -> Processes \cup {NoProcess}]
  /\ proc \in [Processes -> ProcRecord]
  /\ accepting \in [Processes -> BOOLEAN]
  /\ inFlight \in [Processes -> Nat]
  /\ thread \in [Processes -> [Threads -> ThreadRecord]]
  /\ rotations \in Nat /\ substitutions \in Nat /\ crashes \in Nat

PathIds(p) == {PathIdentity(LedgerPath[p]), PathIdentity(ApprovalPath[p])}

HeldIn(p, own) == {x \in Identities : own[x] = p}

Busy(th) == {t \in Threads : th[t].depth > 0}

(* From the end of _acquire_identities until close() begins to unlock.     *)
Owning(pr, th) ==
  \/ pr.pc \in {"bind", "bindAcquire", "queue", "compose"}
  \/ pr.pc = "up" /\ \A t \in Threads : th[t].close # "unlock"

(* The barrier counts the busy threads; there are threads only in a        *)
(* runtime that is up; who closes it has stopped admission, and who        *)
(* unlocks has seen it idle.                                               *)
Drained(pr, ac, n, th) ==
  /\ n = Cardinality(Busy(th))
  /\ pr.pc \notin {"up", "closed"} => \A t \in Threads : th[t].depth = 0 /\ th[t].close = "no"
  /\ pr.pc = "closed" => \A t \in Threads : th[t].depth = 0
  /\ pr.pc = "closed" => ~ac
  /\ \A t \in Threads : th[t].close # "no" => th[t].depth = 0 /\ ~ac
  /\ \A t, u \in Threads : th[t].close = "unlock" => th[u].depth = 0

(* The locks of a process, at each position.                               *)
Locked(p, pr, th, own) ==
  /\ Owning(pr, th) => PathIds(p) \subseteq HeldIn(p, own)
  /\ pr.pc = "acquire" => PathIds(p) \subseteq HeldIn(p, own) \cup pr.todo
  /\ pr.pc = "bindAcquire" => pr.before \subseteq HeldIn(p, own) \cup pr.todo

Local(p, pr, ac, n, th, own) == Drained(pr, ac, n, th) /\ Locked(p, pr, th, own)

Locals == \A p \in Processes : Local(p, proc[p], accepting[p], inFlight[p], thread[p], owner)

IInv == Typed /\ Locals

-----------------------------------------------------------------------------
LEMMA PathIdsTyped ==
  ASSUME NEW p \in Processes
  PROVE  PathIds(p) \subseteq Identities
BY RuntimeConstants DEF PathIds, Identities

LEMMA IdsTyped ==
  ASSUME Typed, NEW p \in Processes
  PROVE  AllIds(p) \subseteq Identities /\ PathIds(p) \subseteq AllIds(p)
<1>1. LedgerPath[p] \in Paths /\ ApprovalPath[p] \in Paths
  BY RuntimeConstants
<1>2. \A path \in Paths : ResourceIdentities(path) \subseteq Identities
                          /\ PathIdentity(path) \in ResourceIdentities(path)
  BY DEF Typed, ResourceIdentities, Identities
<1> QED BY <1>1, <1>2 DEF AllIds, LedgerIds, ApprovalIds, PathIds

LEMMA BusyFinite ==
  ASSUME NEW th
  PROVE  IsFiniteSet(Busy(th)) /\ Cardinality(Busy(th)) \in Nat
<1>1. Busy(th) \subseteq Threads
  BY DEF Busy
<1> QED BY <1>1, RuntimeConstants, FS_Subset, FS_CardinalityType

LEMMA IdleDrained ==
  ASSUME NEW pr, NEW ac, NEW th, pr.pc # "closed",
         \A t \in Threads : th[t].depth = 0 /\ th[t].close = "no"
  PROVE  Drained(pr, ac, 0, th)
<1>1. Busy(th) = {}
  BY DEF Busy
<1>2. Cardinality(Busy(th)) = 0
  BY <1>1, FS_EmptySet
<1> QED BY <1>2 DEF Drained

(* The part of a process that a step of another one leaves alone.          *)
Untouched(q) ==
  /\ proc'[q] = proc[q] /\ accepting'[q] = accepting[q] /\ inFlight'[q] = inFlight[q]
  /\ thread'[q] = thread[q]
  /\ \A x \in Identities : owner[x] = q => owner'[x] = q

LEMMA UntouchedLocal ==
  ASSUME IInv, NEW q \in Processes, Untouched(q)
  PROVE  Local(q, proc'[q], accepting'[q], inFlight'[q], thread'[q], owner')
<1>1. Local(q, proc[q], accepting[q], inFlight[q], thread[q], owner)
  BY DEF IInv, Locals
<1>2. HeldIn(q, owner) \subseteq HeldIn(q, owner')
  BY DEF Untouched, HeldIn
<1> QED BY <1>1, <1>2 DEF Untouched, Local, Drained, Locked, Owning

(* A step of process p.                                                    *)
LEMMA ProcessInv ==
  ASSUME IInv, Typed', NEW p \in Processes, \A q \in Processes \ {p} : Untouched(q),
         Local(p, proc'[p], accepting'[p], inFlight'[p], thread'[p], owner')
  PROVE  IInv'
<1>1. \A q \in Processes : Local(q, proc'[q], accepting'[q], inFlight'[q], thread'[q], owner')
  BY UntouchedLocal
<1> QED BY <1>1 DEF IInv, Locals

LEMMA InvInit == Init => IInv
<1> SUFFICES ASSUME Init PROVE IInv
  OBVIOUS
<1>1. file \in [Paths -> Inodes \cup {NoInode}]
  BY RuntimeConstants DEF Init
<1>2. Down \in ProcRecord /\ Down.pc = "down"
  BY DEF Down, ProcRecord
<1>3. IdleThread \in ThreadRecord /\ IdleThread.depth = 0 /\ IdleThread.close = "no"
  BY DEF IdleThread, ThreadRecord
<1>4. Typed
  BY <1>1, <1>2, <1>3 DEF Init, Typed
<1>5. ASSUME NEW p \in Processes
      PROVE  Local(p, proc[p], accepting[p], inFlight[p], thread[p], owner)
  <2>1. proc[p].pc = "down" /\ inFlight[p] = 0
        /\ \A t \in Threads : thread[p][t].depth = 0 /\ thread[p][t].close = "no"
    BY <1>2, <1>3 DEF Init
  <2>2. Drained(proc[p], accepting[p], inFlight[p], thread[p])
    BY <2>1, IdleDrained
  <2> QED BY <2>1, <2>2 DEF Local, Locked, Owning
<1> QED BY <1>4, <1>5 DEF IInv, Locals

-----------------------------------------------------------------------------
(* The constructor.                                                        *)

(* A step of the constructor that moves process p to record r.             *)
LEMMA MoveInv ==
  ASSUME IInv, NEW p \in Processes, NEW r \in ProcRecord, NEW a \in BOOLEAN,
         proc' = [proc EXCEPT ![p] = r], accepting' = [accepting EXCEPT ![p] = a],
         UNCHANGED <<inFlight, thread, owner, faults>>,
         file' \in [Paths -> Inodes \cup {NoInode}], used' \subseteq Inodes,
         \A path \in Paths : file'[path] \in used' \cup {NoInode},
         proc[p].pc \notin {"up", "closed"}, r.pc # "closed",
         Locked(p, r, thread[p], owner)
  PROVE  IInv'
<1>1. Typed'
  BY DEF IInv, Typed, faults
<1>2. \A q \in Processes \ {p} : Untouched(q)
  BY DEF IInv, Typed, Untouched
<1>3. proc'[p] = r /\ accepting'[p] = a /\ inFlight'[p] = inFlight[p] /\ thread'[p] = thread[p]
  BY DEF IInv, Typed
<1>4. \A t \in Threads : thread[p][t].depth = 0 /\ thread[p][t].close = "no"
  BY DEF IInv, Locals, Local, Drained
<1>5. inFlight[p] = Cardinality(Busy(thread[p]))
  BY DEF IInv, Locals, Local, Drained
<1>6. Drained(r, a, inFlight[p], thread[p])
  BY <1>4, <1>5 DEF Drained
<1>7. Local(p, proc'[p], accepting'[p], inFlight'[p], thread'[p], owner')
  BY <1>3, <1>6 DEF Local
<1> QED BY <1>1, <1>2, <1>7, ProcessInv

LEMMA FailInv ==
  ASSUME IInv, NEW p \in Processes, NEW reason \in {"failed", "refused"}, StartFails(p, reason),
         UNCHANGED <<inFlight, thread, owner, faults>>,
         file' \in [Paths -> Inodes \cup {NoInode}], used' \subseteq Inodes,
         \A path \in Paths : file'[path] \in used' \cup {NoInode},
         proc[p].pc \notin {"up", "closed"}
  PROVE  IInv'
<1> DEFINE r == [Down EXCEPT !.pc = reason]
<1>1. r \in ProcRecord /\ r.pc = reason
  BY DEF Down, ProcRecord
<1>2. proc' = [proc EXCEPT ![p] = r] /\ accepting' = [accepting EXCEPT ![p] = FALSE]
  BY DEF StartFails
<1> HIDE DEF r
<1>3. Locked(p, r, thread[p], owner)
  BY <1>1 DEF Locked, Owning
<1> QED BY <1>1, <1>2, <1>3, MoveInv

LEMMA SameDisk ==
  ASSUME IInv, UNCHANGED disk
  PROVE  /\ file' \in [Paths -> Inodes \cup {NoInode}] /\ used' \subseteq Inodes
         /\ \A path \in Paths : file'[path] \in used' \cup {NoInode}
BY DEF IInv, Typed, disk

LEMMA NewFile ==
  ASSUME IInv, NEW path \in Paths, NewFileAt(path)
  PROVE  /\ file' \in [Paths -> Inodes \cup {NoInode}] /\ used' \subseteq Inodes
         /\ \A q \in Paths : file'[q] \in used' \cup {NoInode}
         /\ \A q \in Paths \ {path} : file'[q] = file[q]
         /\ file'[path] \in Inodes /\ \A q \in Paths \ {path} : file'[path] # file'[q]
<1>1. PICK i \in Inodes \ used : file' = [file EXCEPT ![path] = i] /\ used' = used \cup {i}
  BY DEF NewFileAt
<1>2. i # NoInode
  BY RuntimeConstants
<1> QED BY <1>1, <1>2 DEF IInv, Typed

(* The same, for a step that does not fail.                                *)
LEMMA GoOnInv ==
  ASSUME IInv, NEW p \in Processes, NEW r \in ProcRecord, proc' = [proc EXCEPT ![p] = r],
         UNCHANGED <<accepting, inFlight, thread, owner, faults>>,
         file' \in [Paths -> Inodes \cup {NoInode}], used' \subseteq Inodes,
         \A path \in Paths : file'[path] \in used' \cup {NoInode},
         proc[p].pc \notin {"up", "closed"}, r.pc # "closed",
         Locked(p, r, thread[p], owner)
  PROVE  IInv'
<1>1. accepting[p] \in BOOLEAN /\ accepting' = [accepting EXCEPT ![p] = accepting[p]]
  BY DEF IInv, Typed
<1> QED BY <1>1, MoveInv

LEMMA StartInv ==
  ASSUME IInv, NEW p \in Processes, RejectConfiguration(p) \/ Start(p)
  PROVE  IInv'
<1> DEFINE r == [Down EXCEPT !.pc = "acquire", !.todo = AllIds(p)]
<1>1. proc[p].pc = "down" /\ UNCHANGED <<disk, owner, inFlight, thread, faults>>
  BY DEF RejectConfiguration, Start
<1>2. /\ file' \in [Paths -> Inodes \cup {NoInode}] /\ used' \subseteq Inodes
      /\ \A path \in Paths : file'[path] \in used' \cup {NoInode}
  BY <1>1, SameDisk
<1>3. CASE StartFails(p, "failed")
  BY <1>1, <1>2, <1>3, FailInv
<1>4. CASE proc' = [proc EXCEPT ![p] = r] /\ UNCHANGED accepting
  <2>1. AllIds(p) \subseteq Identities /\ PathIds(p) \subseteq AllIds(p)
    BY IdsTyped DEF IInv
  <2>2. r \in ProcRecord /\ r.pc = "acquire" /\ r.todo = AllIds(p)
    BY <2>1 DEF Down, ProcRecord
  <2> HIDE DEF r
  <2>3. Locked(p, r, thread[p], owner)
    BY <2>1, <2>2 DEF Locked, Owning
  <2> QED BY <1>1, <1>2, <1>4, <2>2, <2>3, GoOnInv
<1> QED BY <1>3, <1>4 DEF RejectConfiguration, Start

LEMMA AcquireInv ==
  ASSUME IInv, NEW p \in Processes, Acquire(p)
  PROVE  IInv'
<1>1. /\ proc[p].pc \in {"acquire", "bindAcquire"} /\ UNCHANGED <<disk, inFlight, thread, faults>>
      /\ proc[p] \in ProcRecord
  BY DEF Acquire, IInv, Typed
<1>2. /\ file' \in [Paths -> Inodes \cup {NoInode}] /\ used' \subseteq Inodes
      /\ \A path \in Paths : file'[path] \in used' \cup {NoInode}
  BY <1>1, SameDisk
<1>3. CASE StartFails(p, "refused") /\ UNCHANGED owner
  BY <1>1, <1>2, <1>3, FailInv
<1>4. ASSUME NEW x \in Identities, owner[x] = NoProcess, owner' = [owner EXCEPT ![x] = p],
             proc' = [proc EXCEPT ![p] = [@ EXCEPT !.todo = proc[p].todo \ {x}]],
             UNCHANGED accepting
      PROVE  IInv'
  <2> DEFINE r == [proc[p] EXCEPT !.todo = proc[p].todo \ {x}]
  <2>1. /\ r \in ProcRecord /\ r.pc = proc[p].pc /\ r.todo = proc[p].todo \ {x}
        /\ r.before = proc[p].before
    BY <1>1 DEF ProcRecord
  <2>2. proc' = [proc EXCEPT ![p] = r]
    BY <1>4
  <2> HIDE DEF r
  <2>3. Typed'
    BY <1>1, <1>2, <1>4, <2>1, <2>2 DEF IInv, Typed, faults
  <2>4. \A y \in Identities : owner'[y] = (IF y = x THEN p ELSE owner[y])
    BY <1>4 DEF IInv, Typed
  <2>5. \A q \in Processes \ {p} : Untouched(q)
    BY <1>1, <1>4, <2>2, <2>4, RuntimeConstants DEF IInv, Typed, Untouched
  <2>6. proc'[p] = r /\ accepting'[p] = accepting[p] /\ inFlight'[p] = inFlight[p]
        /\ thread'[p] = thread[p]
    BY <1>1, <1>4, <2>2 DEF IInv, Typed
  <2>7. Local(p, proc[p], accepting[p], inFlight[p], thread[p], owner)
    BY DEF IInv, Locals
  <2>8. HeldIn(p, owner') = HeldIn(p, owner) \cup {x}
    BY <2>4 DEF HeldIn
  <2>9. Locked(p, r, thread[p], owner')
    BY <1>1, <2>1, <2>7, <2>8 DEF Local, Locked, Owning
  <2>10. Drained(r, accepting[p], inFlight[p], thread[p])
    BY <1>1, <2>1, <2>7 DEF Local, Drained
  <2>11. Local(p, proc'[p], accepting'[p], inFlight'[p], thread'[p], owner')
    BY <2>6, <2>9, <2>10 DEF Local
  <2> QED BY <2>3, <2>5, <2>11, ProcessInv
<1> QED BY <1>3, <1>4 DEF Acquire

LEMMA OpenLedgerInv ==
  ASSUME IInv, NEW p \in Processes, OpenLedger(p)
  PROVE  IInv'
<1> DEFINE r == [proc[p] EXCEPT !.pc = "bind"]
<1>1. /\ proc[p].pc = "acquire" /\ proc[p].todo = {} /\ proc[p] \in ProcRecord
      /\ UNCHANGED <<disk, owner, inFlight, thread, faults>>
  BY DEF OpenLedger, IInv, Typed
<1>2. /\ file' \in [Paths -> Inodes \cup {NoInode}] /\ used' \subseteq Inodes
      /\ \A path \in Paths : file'[path] \in used' \cup {NoInode}
  BY <1>1, SameDisk
<1>3. CASE StartFails(p, "failed")
  BY <1>1, <1>2, <1>3, FailInv
<1>4. CASE proc' = [proc EXCEPT ![p] = r] /\ UNCHANGED accepting
  <2>1. r \in ProcRecord /\ r.pc = "bind"
    BY <1>1 DEF ProcRecord
  <2> HIDE DEF r
  <2>2. Locked(p, proc[p], thread[p], owner)
    BY DEF IInv, Locals, Local
  <2>3. Locked(p, r, thread[p], owner)
    BY <1>1, <2>1, <2>2 DEF Locked, Owning
  <2> QED BY <1>1, <1>2, <1>4, <2>1, <2>3, GoOnInv
<1> QED BY <1>3, <1>4 DEF OpenLedger, Goto

LEMMA BindBeforeInv ==
  ASSUME IInv, NEW p \in Processes, BindBefore(p)
  PROVE  IInv'
<1> DEFINE r == [proc[p] EXCEPT !.pc = "bindAcquire", !.before = AllIds(p), !.todo = AllIds(p) \ Held(p)]
<1>1. /\ proc[p].pc = "bind" /\ proc[p] \in ProcRecord
      /\ UNCHANGED <<disk, owner, inFlight, thread, faults>>
  BY DEF BindBefore, IInv, Typed
<1>2. /\ file' \in [Paths -> Inodes \cup {NoInode}] /\ used' \subseteq Inodes
      /\ \A path \in Paths : file'[path] \in used' \cup {NoInode}
  BY <1>1, SameDisk
<1>3. CASE StartFails(p, "failed")
  BY <1>1, <1>2, <1>3, FailInv
<1>4. CASE proc' = [proc EXCEPT ![p] = r] /\ UNCHANGED accepting
  <2>1. AllIds(p) \subseteq Identities
    BY IdsTyped DEF IInv
  <2>2. r \in ProcRecord /\ r.pc = "bindAcquire" /\ r.before = AllIds(p) /\ r.todo = AllIds(p) \ Held(p)
    BY <1>1, <2>1 DEF ProcRecord
  <2> HIDE DEF r
  <2>3. Locked(p, proc[p], thread[p], owner)
    BY DEF IInv, Locals, Local
  <2>4. Locked(p, r, thread[p], owner)
    BY <1>1, <2>2, <2>3 DEF Locked, Owning, Held, HeldIn
  <2> QED BY <1>1, <1>2, <1>4, <2>2, <2>4, GoOnInv
<1> QED BY <1>3, <1>4 DEF BindBefore

LEMMA BindAfterInv ==
  ASSUME IInv, NEW p \in Processes, BindAfter(p)
  PROVE  IInv'
<1> DEFINE r == [Down EXCEPT !.bound = TRUE, !.pc = IF proc[p].bound THEN "compose" ELSE "queue"]
<1>1. /\ proc[p].pc = "bindAcquire" /\ proc[p].todo = {} /\ proc[p] \in ProcRecord
      /\ UNCHANGED <<disk, owner, inFlight, thread, faults>>
  BY DEF BindAfter, IInv, Typed
<1>2. /\ file' \in [Paths -> Inodes \cup {NoInode}] /\ used' \subseteq Inodes
      /\ \A path \in Paths : file'[path] \in used' \cup {NoInode}
  BY <1>1, SameDisk
<1>3. CASE StartFails(p, "failed")
  BY <1>1, <1>2, <1>3, FailInv
<1>4. CASE proc' = [proc EXCEPT ![p] = r] /\ UNCHANGED accepting
  <2>1. r \in ProcRecord /\ r.pc \in {"compose", "queue"}
    BY DEF Down, ProcRecord
  <2> HIDE DEF r
  <2>2. Locked(p, proc[p], thread[p], owner)
    BY DEF IInv, Locals, Local
  <2>3. Locked(p, r, thread[p], owner)
    BY <1>1, <2>1, <2>2 DEF Locked, Owning
  <2> QED BY <1>1, <1>2, <1>4, <2>1, <2>3, GoOnInv
<1> QED BY <1>3, <1>4 DEF BindAfter

LEMMA OpenQueueInv ==
  ASSUME IInv, NEW p \in Processes, OpenQueue(p) \/ Compose(p)
  PROVE  IInv'
<1> DEFINE r1 == [proc[p] EXCEPT !.pc = "bind"]
           r2 == [proc[p] EXCEPT !.pc = "up"]
<1>1. /\ proc[p].pc \in {"queue", "compose"} /\ proc[p] \in ProcRecord
      /\ UNCHANGED <<owner, inFlight, thread, faults>>
  BY DEF OpenQueue, Compose, IInv, Typed
<1>2. /\ file' \in [Paths -> Inodes \cup {NoInode}] /\ used' \subseteq Inodes
      /\ \A path \in Paths : file'[path] \in used' \cup {NoInode}
  <2>1. ApprovalPath[p] \in Paths
    BY RuntimeConstants
  <2>2. UNCHANGED disk \/ NewFileAt(ApprovalPath[p])
    BY DEF OpenQueue, Ensure, Compose
  <2> QED BY <2>1, <2>2, SameDisk, NewFile
<1>3. CASE StartFails(p, "failed")
  BY <1>1, <1>2, <1>3, FailInv
<1>4. CASE /\ proc' = [proc EXCEPT ![p] = r1] \/ proc' = [proc EXCEPT ![p] = r2]
           /\ UNCHANGED accepting
  <2>1. r1 \in ProcRecord /\ r1.pc = "bind" /\ r2 \in ProcRecord /\ r2.pc = "up"
    BY <1>1 DEF ProcRecord
  <2> HIDE DEF r1, r2
  <2>2. Locked(p, proc[p], thread[p], owner)
    BY DEF IInv, Locals, Local
  <2>3. Locked(p, r1, thread[p], owner) /\ Locked(p, r2, thread[p], owner)
    BY <1>1, <2>1, <2>2 DEF Locked, Owning
  <2> QED BY <1>1, <1>2, <1>4, <2>1, <2>3, GoOnInv
<1> QED BY <1>3, <1>4 DEF OpenQueue, Compose, Goto

(* Unlocking happens only where the locks are no longer needed.            *)
LEMMA UnlockInv ==
  ASSUME IInv, NEW p \in Processes, Unlock(p)
  PROVE  IInv'
<1>1. PICK x \in Held(p) : owner' = [owner EXCEPT ![x] = NoProcess]
  BY DEF Unlock
<1>2. UNCHANGED <<disk, proc, accepting, inFlight, thread, faults>>
  BY DEF Unlock, lifetime
<1>3. Typed'
  BY <1>1, <1>2 DEF IInv, Typed, disk, faults
<1>4. \A q \in Processes \ {p} : Untouched(q)
  BY <1>1, <1>2 DEF IInv, Typed, Untouched, Held
<1>5. Local(p, proc[p], accepting[p], inFlight[p], thread[p], owner)
  BY DEF IInv, Locals
<1>6. \/ proc[p].pc \in {"refused", "failed", "closed"}
      \/ proc[p].pc = "up" /\ \E t \in Threads : thread[p][t].close = "unlock"
  BY <1>5 DEF Unlock, Local, Drained
<1>7. Locked(p, proc[p], thread[p], owner')
  BY <1>6 DEF Locked, Owning
<1>8. Local(p, proc'[p], accepting'[p], inFlight'[p], thread'[p], owner')
  BY <1>2, <1>5, <1>7 DEF Local
<1> QED BY <1>3, <1>4, <1>8, ProcessInv

-----------------------------------------------------------------------------
(* The lifetime: operations and close().                                   *)

LEMMA LifetimeInv ==
  ASSUME IInv, NEW p \in Processes, NEW th \in [Threads -> ThreadRecord], NEW a \in BOOLEAN, NEW n \in Nat,
         thread' = [thread EXCEPT ![p] = th], accepting' = [accepting EXCEPT ![p] = a],
         inFlight' = [inFlight EXCEPT ![p] = n], UNCHANGED <<disk, owner, proc, faults>>,
         Drained(proc[p], a, n, th),
         Owning(proc[p], th) => Owning(proc[p], thread[p])
  PROVE  IInv'
<1>1. Typed'
  BY DEF IInv, Typed, faults, disk
<1>2. \A q \in Processes \ {p} : Untouched(q)
  BY DEF IInv, Typed, Untouched
<1>3. /\ proc'[p] = proc[p] /\ accepting'[p] = a /\ inFlight'[p] = n /\ thread'[p] = th
  BY DEF IInv, Typed
<1>4. Locked(p, proc[p], thread[p], owner)
  BY DEF IInv, Locals, Local
<1>5. Locked(p, proc[p], th, owner)
  BY <1>4 DEF Locked
<1>6. Local(p, proc'[p], accepting'[p], inFlight'[p], thread'[p], owner')
  BY <1>3, <1>5 DEF Local
<1> QED BY <1>1, <1>2, <1>6, ProcessInv

(* One thread changes, and neither admission nor the count does.           *)
LEMMA ThreadInv ==
  ASSUME IInv, NEW p \in Processes, NEW t \in Threads, NEW r \in ThreadRecord, SetThread(p, t, r),
         UNCHANGED <<disk, owner, proc, accepting, inFlight, faults>>,
         Drained(proc[p], accepting[p], inFlight[p], [thread[p] EXCEPT ![t] = r]),
         thread[p][t].close = "unlock" => r.close = "unlock"
  PROVE  IInv'
<1> DEFINE th == [thread[p] EXCEPT ![t] = r]
<1>1. thread[p] \in [Threads -> ThreadRecord] /\ th \in [Threads -> ThreadRecord]
  BY DEF IInv, Typed
<1>2. thread' = [thread EXCEPT ![p] = th]
  BY DEF SetThread
<1>3. /\ accepting[p] \in BOOLEAN /\ inFlight[p] \in Nat
      /\ accepting' = [accepting EXCEPT ![p] = accepting[p]]
      /\ inFlight' = [inFlight EXCEPT ![p] = inFlight[p]]
  BY DEF IInv, Typed
<1>4. Owning(proc[p], th) => Owning(proc[p], thread[p])
  BY <1>1 DEF Owning
<1> QED BY <1>1, <1>2, <1>3, <1>4, LifetimeInv

LEMMA DrainedNow ==
  ASSUME IInv, NEW p \in Processes
  PROVE  /\ Drained(proc[p], accepting[p], inFlight[p], thread[p])
         /\ thread[p] \in [Threads -> ThreadRecord]
         /\ accepting[p] \in BOOLEAN /\ inFlight[p] \in Nat
BY DEF IInv, Typed, Locals, Local

LEMMA EnterInv ==
  ASSUME IInv, NEW p \in Processes, NEW t \in Threads, Enter(p, t)
  PROVE  IInv'
<1> DEFINE r == [IdleThread EXCEPT !.depth = 1, !.left = MaxNested]
           th == [thread[p] EXCEPT ![t] = r]
<1>1. /\ Drained(proc[p], accepting[p], inFlight[p], thread[p])
      /\ thread[p] \in [Threads -> ThreadRecord]
      /\ accepting[p] \in BOOLEAN /\ inFlight[p] \in Nat
  BY DrainedNow
<1>2. /\ proc[p].pc = "up" /\ accepting[p] /\ thread[p][t].close = "no" /\ thread[p][t].depth = 0
      /\ inFlight' = [inFlight EXCEPT ![p] = inFlight[p] + 1]
      /\ UNCHANGED <<disk, owner, proc, accepting, faults>>
      /\ thread' = [thread EXCEPT ![p] = th]
  BY DEF Enter, SetThread
<1>3. r \in ThreadRecord /\ r.depth = 1 /\ r.close = "no"
  BY RuntimeConstants DEF IdleThread, ThreadRecord
<1> HIDE DEF r
<1>4. th \in [Threads -> ThreadRecord] /\ th[t] = r /\ \A u \in Threads \ {t} : th[u] = thread[p][u]
  BY <1>1, <1>3
<1> HIDE DEF th
<1>5. Busy(th) = Busy(thread[p]) \cup {t} /\ t \notin Busy(thread[p])
  BY <1>2, <1>3, <1>4 DEF Busy
<1>6. Cardinality(Busy(th)) = Cardinality(Busy(thread[p])) + 1
  BY <1>5, BusyFinite, FS_AddElement
<1>7. \A u \in Threads : thread[p][u].close = "no"
  BY <1>1, <1>2 DEF Drained
<1>8. Drained(proc[p], accepting[p], inFlight[p] + 1, th)
  BY <1>1, <1>2, <1>3, <1>4, <1>6, <1>7 DEF Drained
<1>9. Owning(proc[p], thread[p])
  BY <1>2, <1>7 DEF Owning
<1>10. accepting' = [accepting EXCEPT ![p] = accepting[p]] /\ inFlight[p] + 1 \in Nat
  BY <1>1, <1>2 DEF IInv, Typed
<1> QED BY <1>1, <1>2, <1>4, <1>8, <1>9, <1>10, LifetimeInv

(* The thread stays inside its operation.                                  *)
LEMMA NestedInv ==
  ASSUME IInv, NEW p \in Processes, NEW t \in Threads, EnterNested(p, t) \/ ExitNested(p, t)
  PROVE  IInv'
<1>1. /\ Drained(proc[p], accepting[p], inFlight[p], thread[p])
      /\ thread[p] \in [Threads -> ThreadRecord]
  BY DrainedNow
<1>2. thread[p][t] \in ThreadRecord /\ thread[p][t].depth \in Nat
  BY <1>1 DEF ThreadRecord
<1>3. PICK r \in ThreadRecord : /\ SetThread(p, t, r) /\ r.depth > 0 /\ r.close = thread[p][t].close
  <2> DEFINE d == thread[p][t].depth
             n == thread[p][t].left
             r1 == [thread[p][t] EXCEPT !.depth = d + 1, !.left = n - 1]
             r2 == [thread[p][t] EXCEPT !.depth = d - 1]
  <2>1. CASE EnterNested(p, t)
    <3>1. d > 0 /\ n > 0 /\ SetThread(p, t, r1)
      BY <2>1 DEF EnterNested
    <3>2. n \in Nat /\ d + 1 \in Nat /\ d + 1 > 0 /\ n - 1 \in Nat
      BY <1>2, <3>1 DEF ThreadRecord
    <3>3. r1.depth = d + 1 /\ r1.close = thread[p][t].close
      BY <1>2 DEF ThreadRecord
    <3>4. r1 \in ThreadRecord
      BY <1>2, <3>2 DEF ThreadRecord
    <3> HIDE DEF r1
    <3> QED BY <3>1, <3>2, <3>3, <3>4
  <2>2. CASE ExitNested(p, t)
    <3>1. d > 1 /\ SetThread(p, t, r2)
      BY <2>2 DEF ExitNested
    <3>2. r2 \in ThreadRecord /\ r2.depth > 0 /\ r2.close = thread[p][t].close
      BY <1>2, <3>1 DEF ThreadRecord
    <3> HIDE DEF r2
    <3> QED BY <3>1, <3>2
  <2> QED BY <2>1, <2>2
<1>4. thread[p][t].depth > 0
  BY <1>2 DEF EnterNested, ExitNested
<1> DEFINE th == [thread[p] EXCEPT ![t] = r]
<1>5. th[t] = r /\ \A u \in Threads \ {t} : th[u] = thread[p][u]
  BY <1>1
<1>6. Busy(th) = Busy(thread[p])
  BY <1>3, <1>4, <1>5 DEF Busy
<1>7. thread[p][t].close = "no"
  BY <1>1, <1>2, <1>4 DEF Drained
<1>8. \A u \in Threads : thread[p][u].close # "unlock"
  BY <1>1, <1>2, <1>4 DEF Drained
<1>9. proc[p].pc = "up"
  BY <1>1, <1>2, <1>4 DEF Drained
<1>10. Drained(proc[p], accepting[p], inFlight[p], th)
  <2> HIDE DEF th
  <2> QED BY <1>1, <1>3, <1>5, <1>6, <1>7, <1>8, <1>9 DEF Drained
<1>11. UNCHANGED <<disk, owner, proc, accepting, inFlight, faults>>
  BY DEF EnterNested, ExitNested
<1> QED BY <1>3, <1>7, <1>10, <1>11, ThreadInv

(* The last exit notifies the closers, which check the count again.        *)
LEMMA ExitInv ==
  ASSUME IInv, NEW p \in Processes, NEW t \in Threads, Exit(p, t)
  PROVE  IInv'
<1> DEFINE next(u) == IF u = t THEN IdleThread
                      ELSE IF u \in Woken(p) THEN [thread[p][u] EXCEPT !.close = "woken"]
                      ELSE thread[p][u]
           th == [u \in Threads |-> next(u)]
<1>1. /\ Drained(proc[p], accepting[p], inFlight[p], thread[p])
      /\ thread[p] \in [Threads -> ThreadRecord]
      /\ accepting[p] \in BOOLEAN /\ inFlight[p] \in Nat
  BY DrainedNow
<1>2. /\ thread[p][t].depth = 1
      /\ inFlight' = [inFlight EXCEPT ![p] = inFlight[p] - 1]
      /\ UNCHANGED <<disk, owner, proc, accepting, faults>>
      /\ thread' = [thread EXCEPT ![p] = th]
  BY DEF Exit
<1>3. IdleThread \in ThreadRecord /\ IdleThread.depth = 0 /\ IdleThread.close = "no"
  BY DEF IdleThread, ThreadRecord
<1>4. ASSUME NEW u \in Threads, u # t
      PROVE  /\ next(u) \in ThreadRecord /\ next(u).depth = thread[p][u].depth
             /\ next(u).close = thread[p][u].close
                \/ (thread[p][u].close = "wait" /\ next(u).close = "woken")
  <2>1. thread[p][u] \in ThreadRecord
    BY <1>1
  <2>2. CASE u \in Woken(p)
    <3> DEFINE r == [thread[p][u] EXCEPT !.close = "woken"]
    <3>1. r \in ThreadRecord /\ r.depth = thread[p][u].depth /\ r.close = "woken"
      BY <2>1 DEF ThreadRecord
    <3>2. next(u) = r /\ thread[p][u].close = "wait"
      BY <1>4, <2>2 DEF Woken
    <3> HIDE DEF r, next
    <3> QED BY <3>1, <3>2
  <2>3. CASE u \notin Woken(p)
    BY <1>4, <2>1, <2>3
  <2> QED BY <2>2, <2>3
<1>5. next(t) = IdleThread
  OBVIOUS
<1> HIDE DEF next
<1>6. th \in [Threads -> ThreadRecord] /\ \A u \in Threads : th[u] = next(u)
  BY <1>3, <1>4, <1>5
<1> HIDE DEF th
<1>7. Busy(th) = Busy(thread[p]) \ {t} /\ t \in Busy(thread[p])
  BY <1>2, <1>3, <1>4, <1>5, <1>6 DEF Busy
<1>8. Cardinality(Busy(th)) = Cardinality(Busy(thread[p])) - 1
  BY <1>7, BusyFinite, FS_RemoveElement
<1>9. inFlight[p] = Cardinality(Busy(thread[p])) /\ inFlight[p] - 1 \in Nat
  <2>1. inFlight[p] = Cardinality(Busy(thread[p]))
    BY <1>1 DEF Drained
  <2> QED BY <1>8, <2>1, BusyFinite
<1>10. /\ proc[p].pc = "up" /\ \A u \in Threads : thread[p][u].close # "unlock"
  BY <1>1, <1>2 DEF Drained
<1>11. Drained(proc[p], accepting[p], inFlight[p] - 1, th)
  BY <1>1, <1>3, <1>4, <1>5, <1>6, <1>8, <1>9, <1>10 DEF Drained
<1>12. Owning(proc[p], thread[p])
  BY <1>10 DEF Owning
<1>13. accepting' = [accepting EXCEPT ![p] = accepting[p]]
  BY <1>2 DEF IInv, Typed
<1> QED BY <1>1, <1>2, <1>6, <1>9, <1>11, <1>12, <1>13, LifetimeInv

LEMMA DiskInv ==
  ASSUME IInv, NEW p \in Processes, NEW t \in Threads, CreateLedger(p, t) \/ RotateLedger(p, t)
  PROVE  IInv'
<1>1. LedgerPath[p] \in Paths
  BY RuntimeConstants
<1>2. NewFileAt(LedgerPath[p]) /\ UNCHANGED <<owner, proc, accepting, inFlight, thread>>
  BY DEF CreateLedger, RotateLedger, lifetime
<1>3. rotations' \in Nat /\ substitutions' \in Nat /\ crashes' \in Nat
  BY DEF CreateLedger, RotateLedger, faults, IInv, Typed
<1>4. Typed'
  BY <1>1, <1>2, <1>3, NewFile DEF IInv, Typed
<1> QED BY <1>2, <1>4 DEF IInv, Locals

LEMMA CloseInv ==
  ASSUME IInv, NEW p \in Processes, NEW t \in Threads, Close(p, t) \/ Wake(p, t)
  PROVE  IInv'
<1>1. /\ Drained(proc[p], accepting[p], inFlight[p], thread[p])
      /\ thread[p] \in [Threads -> ThreadRecord]
      /\ accepting[p] \in BOOLEAN /\ inFlight[p] \in Nat
  BY DrainedNow
<1>2. PICK r \in ThreadRecord : /\ SetThread(p, t, r) /\ r.depth = 0 /\ r.close = AfterBarrier(p)
  <2> DEFINE r1 == [IdleThread EXCEPT !.close = AfterBarrier(p)]
             r2 == [thread[p][t] EXCEPT !.close = AfterBarrier(p)]
  <2>1. AfterBarrier(p) \in {"unlock", "wait"}
    BY DEF AfterBarrier
  <2>2. CASE Close(p, t)
    <3>1. SetThread(p, t, r1)
      BY <2>2 DEF Close
    <3>2. r1 \in ThreadRecord /\ r1.depth = 0 /\ r1.close = AfterBarrier(p)
      BY <2>1 DEF IdleThread, ThreadRecord
    <3> HIDE DEF r1
    <3> QED BY <3>1, <3>2
  <2>3. CASE Wake(p, t)
    <3>1. SetThread(p, t, r2) /\ thread[p][t].depth = 0
      BY <1>1, <2>3 DEF Wake, Drained
    <3>2. r2 \in ThreadRecord /\ r2.depth = 0 /\ r2.close = AfterBarrier(p)
      BY <1>1, <2>1, <3>1 DEF ThreadRecord
    <3> HIDE DEF r2
    <3> QED BY <3>1, <3>2
  <2> QED BY <2>2, <2>3
<1> DEFINE th == [thread[p] EXCEPT ![t] = r]
<1>3. /\ accepting' = [accepting EXCEPT ![p] = FALSE]
      /\ UNCHANGED <<disk, owner, proc, inFlight, faults>>
  <2>1. CASE Close(p, t)
    BY <2>1 DEF Close
  <2>2. CASE Wake(p, t)
    <3>1. accepting[p] = FALSE
      BY <1>1, <2>2 DEF Wake, Drained
    <3> QED BY <2>2, <3>1 DEF Wake, IInv, Typed
  <2> QED BY <2>1, <2>2
<1>4. /\ th \in [Threads -> ThreadRecord] /\ th[t] = r /\ \A u \in Threads \ {t} : th[u] = thread[p][u]
      /\ thread' = [thread EXCEPT ![p] = th]
  BY <1>1, <1>2 DEF SetThread
<1>5. thread[p][t].depth = 0 /\ thread[p][t].close # "unlock" /\ proc[p].pc \in {"up", "closed"}
  BY <1>1 DEF Close, Wake, Drained
<1> HIDE DEF th
<1>6. Busy(th) = Busy(thread[p])
  BY <1>2, <1>4, <1>5 DEF Busy
<1>7. AfterBarrier(p) = "unlock" => \A u \in Threads : thread[p][u].depth = 0
  <2>1. inFlight[p] = 0 => Busy(thread[p]) = {}
    BY <1>1, BusyFinite, FS_EmptySet DEF Drained
  <2>2. \A u \in Threads : thread[p][u].depth \in Nat
    BY <1>1 DEF ThreadRecord
  <2> QED BY <2>1, <2>2 DEF AfterBarrier, Busy
<1>8. Drained(proc[p], FALSE, inFlight[p], th)
  BY <1>1, <1>2, <1>4, <1>5, <1>6, <1>7 DEF Drained
<1>9. Owning(proc[p], th) => Owning(proc[p], thread[p])
  BY <1>4, <1>5 DEF Owning
<1>10. inFlight' = [inFlight EXCEPT ![p] = inFlight[p]]
  BY <1>3 DEF IInv, Typed
<1> QED BY <1>1, <1>3, <1>4, <1>8, <1>9, <1>10, LifetimeInv

LEMMA CloseReturnsInv ==
  ASSUME IInv, NEW p \in Processes, NEW t \in Threads, CloseReturns(p, t)
  PROVE  IInv'
<1> DEFINE th == [thread[p] EXCEPT ![t] = IdleThread]
           r == [proc[p] EXCEPT !.pc = "closed"]
<1>1. /\ Drained(proc[p], accepting[p], inFlight[p], thread[p])
      /\ thread[p] \in [Threads -> ThreadRecord] /\ proc[p] \in ProcRecord
  BY DrainedNow DEF IInv, Typed
<1>2. /\ thread[p][t].close = "unlock" /\ thread' = [thread EXCEPT ![p] = th]
      /\ proc' = [proc EXCEPT ![p] = r] /\ UNCHANGED <<disk, owner, accepting, inFlight, faults>>
  BY DEF CloseReturns, SetThread, Goto
<1>3. r \in ProcRecord /\ r.pc = "closed"
  BY <1>1 DEF ProcRecord
<1>4. IdleThread \in ThreadRecord /\ IdleThread.depth = 0 /\ IdleThread.close = "no"
  BY DEF IdleThread, ThreadRecord
<1> HIDE DEF r
<1>5. /\ th \in [Threads -> ThreadRecord] /\ th[t] = IdleThread
      /\ \A u \in Threads \ {t} : th[u] = thread[p][u]
  BY <1>1, <1>4
<1> HIDE DEF th
<1>6. (\A u \in Threads : thread[p][u].depth = 0) /\ ~accepting[p]
  BY <1>1, <1>2 DEF Drained
<1>7. Busy(th) = Busy(thread[p])
  BY <1>4, <1>5, <1>6 DEF Busy
<1>8. Drained(r, accepting[p], inFlight[p], th)
  BY <1>1, <1>3, <1>4, <1>5, <1>6, <1>7 DEF Drained
<1>9. Locked(p, r, th, owner)
  BY <1>3 DEF Locked, Owning
<1>10. Typed'
  BY <1>2, <1>3, <1>5 DEF IInv, Typed, disk, faults
<1>11. \A q \in Processes \ {p} : Untouched(q)
  BY <1>2 DEF IInv, Typed, Untouched
<1>12. proc'[p] = r /\ thread'[p] = th
  BY <1>2 DEF IInv, Typed
<1>13. Local(p, proc'[p], accepting'[p], inFlight'[p], thread'[p], owner')
  BY <1>2, <1>8, <1>9, <1>12 DEF Local
<1> QED BY <1>10, <1>11, <1>13, ProcessInv

LEMMA CrashInv ==
  ASSUME IInv, NEW p \in Processes, Crash(p)
  PROVE  IInv'
<1> DEFINE th == [t \in Threads |-> IdleThread]
<1>1. /\ owner' = [x \in Identities |-> IF owner[x] = p THEN NoProcess ELSE owner[x]]
      /\ proc' = [proc EXCEPT ![p] = Down] /\ accepting' = [accepting EXCEPT ![p] = TRUE]
      /\ inFlight' = [inFlight EXCEPT ![p] = 0] /\ thread' = [thread EXCEPT ![p] = th]
      /\ UNCHANGED disk /\ rotations' = rotations /\ substitutions' = substitutions
      /\ crashes' = crashes + 1
  BY DEF Crash
<1>2. Down \in ProcRecord /\ Down.pc = "down"
  BY DEF Down, ProcRecord
<1>3. IdleThread \in ThreadRecord /\ IdleThread.depth = 0 /\ IdleThread.close = "no"
  BY DEF IdleThread, ThreadRecord
<1>4. th \in [Threads -> ThreadRecord] /\ \A t \in Threads : th[t].depth = 0 /\ th[t].close = "no"
  BY <1>3
<1> HIDE DEF th
<1>5. owner' \in [Identities -> Processes \cup {NoProcess}]
  BY <1>1 DEF IInv, Typed
<1>6. Typed'
  BY <1>1, <1>2, <1>4, <1>5 DEF IInv, Typed, disk
<1>7. \A q \in Processes \ {p} : Untouched(q)
  BY <1>1 DEF IInv, Typed, Untouched
<1>8. proc'[p] = Down /\ accepting'[p] = TRUE /\ inFlight'[p] = 0 /\ thread'[p] = th
  BY <1>1 DEF IInv, Typed
<1>9. Drained(Down, TRUE, 0, th)
  BY <1>2, <1>4, IdleDrained
<1>10. Locked(p, Down, th, owner')
  BY <1>2 DEF Locked, Owning
<1>11. Local(p, proc'[p], accepting'[p], inFlight'[p], thread'[p], owner')
  BY <1>8, <1>9, <1>10 DEF Local
<1> QED BY <1>6, <1>7, <1>11, ProcessInv

LEMMA SubstituteInv ==
  ASSUME IInv, NEW path \in Paths, Substitute(path)
  PROVE  IInv'
<1>1. UNCHANGED <<used, owner, proc, accepting, inFlight, thread, rotations, crashes>>
      /\ substitutions' = substitutions + 1
  BY DEF Substitute, lifetime
<1>2. PICK i \in used : file' = [file EXCEPT ![path] = i]
  BY DEF Substitute
<1>3. Typed'
  BY <1>1, <1>2 DEF IInv, Typed
<1> QED BY <1>1, <1>3 DEF IInv, Locals

LEMMA InvNext ==
  ASSUME IInv, [Next]_vars
  PROVE  IInv'
<1>1. ASSUME NEW p \in Processes, StartStep(p) PROVE IInv'
  BY <1>1, StartInv, AcquireInv, OpenLedgerInv, BindBeforeInv, BindAfterInv, OpenQueueInv, UnlockInv
     DEF StartStep
<1>2. ASSUME NEW p \in Processes, NEW t \in Threads, ThreadStep(p, t) PROVE IInv'
  BY <1>2, EnterInv, NestedInv, ExitInv, DiskInv, CloseInv, CloseReturnsInv DEF ThreadStep
<1>3. ASSUME UNCHANGED vars PROVE IInv'
  BY <1>3 DEF vars, disk, lifetime, faults, IInv, Typed, Locals
<1> QED BY <1>1, <1>2, <1>3, CrashInv, SubstituteInv DEF Next

LEMMA Invariance == Spec => []IInv
BY InvInit, InvNext, PTL DEF Spec

(* A process that writes holds what Locked says.                           *)
LEMMA WriterOwns ==
  ASSUME IInv, NEW p \in Processes, Writing(p)
  PROVE  Owning(proc[p], thread[p]) /\ PathIds(p) \subseteq Held(p)
         /\ proc[p].pc \in {"queue", "up"}
<1>1. Local(p, proc[p], accepting[p], inFlight[p], thread[p], owner)
  BY DEF IInv, Locals
<1>2. \A t \in Threads : thread[p][t].depth \in Nat
  BY DEF IInv, Typed, ThreadRecord
<1>3. CASE proc[p].pc = "queue"
  BY <1>1, <1>3 DEF Local, Locked, Owning, Held, HeldIn
<1>4. ASSUME NEW t \in Threads, thread[p][t].depth > 0
      PROVE  Owning(proc[p], thread[p]) /\ PathIds(p) \subseteq Held(p) /\ proc[p].pc = "up"
  <2>1. thread[p][t].depth # 0
    BY <1>2, <1>4
  <2>2. proc[p].pc = "up" /\ \A u \in Threads : thread[p][u].close # "unlock"
    BY <1>1, <2>1 DEF Local, Drained
  <2> QED BY <1>1, <2>2 DEF Local, Locked, Owning, Held, HeldIn
<1> QED BY <1>3, <1>4 DEF Writing

(* The barrier of RuntimeLifetime is exact, and both path locks are held   *)
(* while the queue reconciles or an operation runs: close() unlocks only   *)
(* what is drained and can admit nothing any more.                         *)
THEOREM OperationsRunUnderLock == Spec => []WritesUnderLock
<1>1. IInv => WritesUnderLock
  <2> SUFFICES ASSUME IInv, NEW p \in Processes
               PROVE  /\ inFlight[p] = Cardinality({t \in Threads : thread[p][t].depth > 0})
                      /\ Writing(p) => PathIds(p) \subseteq Held(p)
    BY DEF WritesUnderLock, PathIds
  <2>1. inFlight[p] = Cardinality({t \in Threads : thread[p][t].depth > 0})
    BY DrainedNow DEF Drained, Busy
  <2> QED BY <2>1, WriterOwns
<1> QED BY <1>1, Invariance, PTL

-----------------------------------------------------------------------------
(* ExclusiveWriter.  How the locks and the file system may move in a step. *)

LEMMA OthersUntouched ==
  ASSUME IInv, NEW p \in Processes, NEW q \in Processes \ {p},
         StartStep(p) \/ Crash(p) \/ \E t \in Threads : ThreadStep(p, t)
  PROVE  Untouched(q)
<1> USE DEF IInv, Typed, Untouched
<1>1. CASE Acquire(p)
  <2>1. \/ owner' = owner
        \/ \E x \in Identities : owner[x] = NoProcess /\ owner' = [owner EXCEPT ![x] = p]
    BY <1>1 DEF Acquire
  <2>2. \A x \in Identities : owner[x] = q => owner'[x] = q
    BY <2>1, RuntimeConstants
  <2> QED BY <1>1, <2>2 DEF Acquire, StartFails
<1>2. CASE Unlock(p)
  BY <1>2 DEF Unlock, Held, lifetime
<1>3. CASE Crash(p)
  BY <1>3 DEF Crash
<1>4. CASE RejectConfiguration(p) \/ Start(p) \/ OpenLedger(p) \/ BindBefore(p) \/ BindAfter(p)
           \/ OpenQueue(p) \/ Compose(p)
  BY <1>4 DEF RejectConfiguration, Start, OpenLedger, BindBefore, BindAfter, OpenQueue, Compose,
       StartFails, Goto
<1>5. ASSUME NEW t \in Threads, ThreadStep(p, t) PROVE Untouched(q)
  BY <1>5 DEF ThreadStep, Enter, EnterNested, CreateLedger, RotateLedger, ExitNested, Exit, Close, Wake,
       CloseReturns, SetThread, Goto, lifetime
<1> QED BY <1>1, <1>2, <1>3, <1>4, <1>5 DEF StartStep

(* Both bindings of the resources are behind the process.                  *)
Bound(pr, th) == Owning(pr, th) /\ pr.pc \in {"queue", "compose", "up"}

LockMoves(q) ==
  \/ ~Owning(proc'[q], thread'[q]) /\ proc'[q].pc # "acquire"
  \/ /\ proc'[q].pc = "acquire" /\ proc'[q].todo = AllIds(q) /\ UNCHANGED file
  \/ /\ \A x \in Identities : owner[x] = q => owner'[x] = q
     /\ proc'[q].pc = "acquire" =>
          proc[q].pc = "acquire" /\ \A x \in proc[q].todo : x \in proc'[q].todo \/ owner'[x] = q
     /\ Owning(proc'[q], thread'[q]) =>
          Owning(proc[q], thread[q]) \/ (proc[q].pc = "acquire" /\ proc[q].todo = {})
     /\ Bound(proc'[q], thread'[q]) =>
          \/ Bound(proc[q], thread[q])
          \/ proc[q].pc = "bindAcquire" /\ proc[q].todo = {} /\ AllIds(q) = proc[q].before /\ UNCHANGED file

LEMMA UntouchedLocks ==
  ASSUME NEW q \in Processes, Untouched(q)
  PROVE  LockMoves(q)
BY DEF Untouched, LockMoves, Owning, Bound

(* The process goes on with record r, and its locks stay.                  *)
LEMMA MovedLocks ==
  ASSUME IInv, NEW q \in Processes, NEW r, proc' = [proc EXCEPT ![q] = r],
         UNCHANGED <<owner, thread>>, r.pc \notin {"acquire", "up"},
         proc[q].pc \in {"bind", "bindAcquire", "queue"}
           \/ (proc[q].pc = "acquire" /\ proc[q].todo = {}) \/ ~Owning(r, thread[q]),
         r.pc \in {"queue", "compose"} =>
           proc[q].pc = "bindAcquire" /\ proc[q].todo = {} /\ AllIds(q) = proc[q].before /\ UNCHANGED file
  PROVE  LockMoves(q)
<1>1. proc'[q] = r /\ thread'[q] = thread[q]
  BY DEF IInv, Typed
<1> QED BY <1>1 DEF LockMoves, Owning, Bound

LEMMA FailedLocks ==
  ASSUME IInv, NEW q \in Processes, NEW reason \in {"failed", "refused"}, StartFails(q, reason)
  PROVE  LockMoves(q)
<1>1. proc'[q].pc = reason
  BY DEF StartFails, Down, IInv, Typed
<1> QED BY <1>1 DEF LockMoves, Owning

LEMMA StartLocks ==
  ASSUME IInv, NEW q \in Processes, StartStep(q)
  PROVE  LockMoves(q)
<1>0. proc[q] \in ProcRecord
  BY DEF IInv, Typed
<1>1. CASE RejectConfiguration(q)
  BY <1>1, FailedLocks DEF RejectConfiguration
<1>2. CASE Start(q)
  <2> DEFINE r == [Down EXCEPT !.pc = "acquire", !.todo = AllIds(q)]
  <2>1. CASE proc' = [proc EXCEPT ![q] = r]
    <3>1. r.pc = "acquire" /\ r.todo = AllIds(q) /\ proc'[q] = r /\ UNCHANGED file
      BY <1>2, <2>1 DEF Down, IInv, Typed, Start, disk
    <3> HIDE DEF r
    <3> QED BY <3>1 DEF LockMoves
  <2> QED BY <1>2, <2>1, FailedLocks DEF Start
<1>3. CASE Acquire(q)
  <2>1. ASSUME NEW x \in Identities, owner' = [owner EXCEPT ![x] = q],
               proc' = [proc EXCEPT ![q] = [@ EXCEPT !.todo = proc[q].todo \ {x}]], UNCHANGED thread
        PROVE  LockMoves(q)
    <3> DEFINE r == [proc[q] EXCEPT !.todo = proc[q].todo \ {x}]
    <3>1. r.pc = proc[q].pc /\ r.todo = proc[q].todo \ {x} /\ proc' = [proc EXCEPT ![q] = r]
      BY <1>0, <2>1 DEF ProcRecord
    <3> HIDE DEF r
    <3>2. proc'[q] = r /\ thread'[q] = thread[q] /\ owner'[x] = q
          /\ \A y \in Identities : owner[y] = q => owner'[y] = q
      BY <2>1, <3>1 DEF IInv, Typed
    <3> QED BY <1>3, <3>1, <3>2 DEF LockMoves, Owning, Bound, Acquire
  <2> QED BY <1>3, <2>1, FailedLocks DEF Acquire
<1>4. CASE OpenLedger(q)
  <2> DEFINE r == [proc[q] EXCEPT !.pc = "bind"]
  <2>1. CASE proc' = [proc EXCEPT ![q] = r]
    <3>1. r.pc = "bind"
      BY <1>0 DEF ProcRecord
    <3> HIDE DEF r
    <3> QED BY <1>4, <2>1, <3>1, MovedLocks DEF OpenLedger
  <2> QED BY <1>4, <2>1, FailedLocks DEF OpenLedger, Goto
<1>5. CASE BindBefore(q)
  <2> DEFINE r == [proc[q] EXCEPT !.pc = "bindAcquire", !.before = AllIds(q), !.todo = AllIds(q) \ Held(q)]
  <2>1. CASE proc' = [proc EXCEPT ![q] = r]
    <3>1. r.pc = "bindAcquire"
      BY <1>0 DEF ProcRecord
    <3> HIDE DEF r
    <3> QED BY <1>5, <2>1, <3>1, MovedLocks DEF BindBefore
  <2> QED BY <1>5, <2>1, FailedLocks DEF BindBefore
<1>6. CASE BindAfter(q)
  <2> DEFINE r == [Down EXCEPT !.bound = TRUE, !.pc = IF proc[q].bound THEN "compose" ELSE "queue"]
  <2>1. CASE AllIds(q) = proc[q].before /\ proc' = [proc EXCEPT ![q] = r]
    <3>1. r.pc \in {"compose", "queue"}
      BY DEF Down
    <3> HIDE DEF r
    <3> QED BY <1>6, <2>1, <3>1, MovedLocks DEF BindAfter, disk
  <2> QED BY <1>6, <2>1, FailedLocks DEF BindAfter
<1>7. CASE OpenQueue(q)
  <2> DEFINE r == [proc[q] EXCEPT !.pc = "bind"]
  <2>1. CASE proc' = [proc EXCEPT ![q] = r]
    <3>1. r.pc = "bind"
      BY <1>0 DEF ProcRecord
    <3> HIDE DEF r
    <3> QED BY <1>7, <2>1, <3>1, MovedLocks DEF OpenQueue
  <2> QED BY <1>7, <2>1, FailedLocks DEF OpenQueue, Goto
<1>8. CASE Compose(q)
  <2> DEFINE r == [proc[q] EXCEPT !.pc = "up"]
  <2>1. CASE proc' = [proc EXCEPT ![q] = r]
    <3>1. r.pc = "up"
      BY <1>0 DEF ProcRecord
    <3> HIDE DEF r
    <3>2. proc'[q] = r /\ UNCHANGED <<thread, owner>> /\ proc[q].pc = "compose"
      BY <1>8, <2>1 DEF Compose, IInv, Typed
    <3> QED BY <3>1, <3>2 DEF LockMoves, Owning, Bound
  <2> QED BY <1>8, <2>1, FailedLocks DEF Compose, Goto
<1>9. CASE Unlock(q)
  <2>1. Local(q, proc[q], accepting[q], inFlight[q], thread[q], owner)
    BY DEF IInv, Locals
  <2>2. \/ proc[q].pc \in {"refused", "failed", "closed"}
        \/ proc[q].pc = "up" /\ \E t \in Threads : thread[q][t].close = "unlock"
    BY <1>9, <2>1 DEF Unlock, Local, Drained
  <2>3. proc' = proc /\ thread' = thread
    BY <1>9 DEF Unlock, lifetime
  <2> QED BY <2>2, <2>3 DEF LockMoves, Owning
<1> QED BY <1>1, <1>2, <1>3, <1>4, <1>5, <1>6, <1>7, <1>8, <1>9 DEF StartStep

(* Threads run in a runtime that is up, so only close() matters here.      *)
LEMMA ThreadLocks ==
  ASSUME IInv, NEW q \in Processes, NEW t \in Threads, ThreadStep(q, t)
  PROVE  LockMoves(q)
<1>0. /\ Drained(proc[q], accepting[q], inFlight[q], thread[q])
      /\ thread[q] \in [Threads -> ThreadRecord] /\ proc[q] \in ProcRecord
  BY DrainedNow DEF IInv, Typed
<1>1. CASE CloseReturns(q, t)
  <2>1. proc'[q].pc = "closed"
    BY <1>0, <1>1 DEF CloseReturns, Goto, IInv, Typed, ProcRecord
  <2> QED BY <2>1 DEF LockMoves, Owning
<1>2. CASE CreateLedger(q, t) \/ RotateLedger(q, t)
  <2>1. UNCHANGED <<owner, proc, thread>>
    BY <1>2 DEF CreateLedger, RotateLedger, lifetime
  <2> QED BY <2>1 DEF LockMoves, Owning, Bound
<1>3. ASSUME UNCHANGED <<owner, proc>>, proc[q].pc = "up",
             \A u \in Threads : thread[q][u].close = "unlock" => thread'[q][u].close = "unlock"
      PROVE  LockMoves(q)
  BY <1>3 DEF LockMoves, Owning, Bound
<1>4. ASSUME UNCHANGED <<owner, proc>>, proc[q].pc = "closed" PROVE LockMoves(q)
  BY <1>4 DEF LockMoves, Owning
<1>5. CASE Enter(q, t) \/ EnterNested(q, t) \/ ExitNested(q, t) \/ Exit(q, t)
  <2>1. proc[q].pc = "up" /\ UNCHANGED <<owner, proc>>
    BY <1>0, <1>5 DEF Enter, EnterNested, ExitNested, Exit, Drained, ThreadRecord
  <2>2. \A u \in Threads : thread[q][u].close # "unlock"
    BY <1>0, <1>5 DEF Enter, EnterNested, ExitNested, Exit, Drained, ThreadRecord
  <2> QED BY <1>3, <2>1, <2>2
<1>6. CASE Close(q, t) \/ Wake(q, t)
  <2>1. proc[q].pc \in {"up", "closed"} /\ UNCHANGED <<owner, proc>> /\ thread[q][t].close # "unlock"
    BY <1>0, <1>6 DEF Close, Wake, Drained
  <2>2. \A u \in Threads \ {t} : thread'[q][u] = thread[q][u]
    BY <1>0, <1>6 DEF Close, Wake, SetThread, IInv, Typed
  <2> QED BY <1>3, <1>4, <2>1, <2>2
<1> QED BY <1>1, <1>2, <1>5, <1>6 DEF ThreadStep

LEMMA LocksNext ==
  ASSUME IInv, [Next]_vars, NEW q \in Processes
  PROVE  LockMoves(q)
<1>1. ASSUME Crash(q) PROVE LockMoves(q)
  <2>1. proc'[q].pc = "down"
    BY <1>1 DEF Crash, Down, IInv, Typed
  <2> QED BY <2>1 DEF LockMoves, Owning
<1>2. ASSUME UNCHANGED <<owner, proc, thread>> PROVE LockMoves(q)
  BY <1>2 DEF LockMoves, Owning, Bound
<1>3. ASSUME NEW path \in Paths, Substitute(path) PROVE LockMoves(q)
  BY <1>2, <1>3 DEF Substitute, lifetime
<1>4. ASSUME UNCHANGED vars PROVE LockMoves(q)
  BY <1>2, <1>4 DEF vars, lifetime
<1> QED BY <1>1, <1>3, <1>4, StartLocks, ThreadLocks, OthersUntouched, UntouchedLocks DEF Next

(* The file system changes by a ledger's writer, by a queue that creates   *)
(* its database, or from outside.                                          *)
FileMoves ==
  \/ UNCHANGED file
  \/ \E p \in Processes : /\ NewFileAt(LedgerPath[p])
                          /\ file[LedgerPath[p]] = NoInode \/ rotations < MaxRotations
  \/ \E p \in Processes : /\ proc[p].pc = "queue" /\ NewFileAt(ApprovalPath[p])
                          /\ ~Bound(proc'[p], thread'[p])
  \/ \E path \in Paths : Substitute(path)

LEMMA FilesNext ==
  ASSUME IInv, [Next]_vars
  PROVE  FileMoves
<1>1. ASSUME NEW p \in Processes, StartStep(p) PROVE FileMoves
  <2>1. CASE OpenQueue(p)
    <3>1. proc'[p].pc \in {"bind", "failed"}
      BY <2>1 DEF OpenQueue, Goto, StartFails, Down, IInv, Typed, ProcRecord
    <3>2. ~Bound(proc'[p], thread'[p])
      BY <3>1 DEF Bound
    <3>3. proc[p].pc = "queue" /\ (NewFileAt(ApprovalPath[p]) \/ UNCHANGED file)
      BY <2>1 DEF OpenQueue, Ensure, disk
    <3> QED BY <3>2, <3>3 DEF FileMoves
  <2>2. CASE UNCHANGED file
    BY <2>2 DEF FileMoves
  <2> QED BY <1>1, <2>1, <2>2
          DEF StartStep, RejectConfiguration, Start, Acquire, OpenLedger, BindBefore, BindAfter,
              Compose, Unlock, disk
<1>2. ASSUME NEW p \in Processes, NEW t \in Threads, ThreadStep(p, t) PROVE FileMoves
  <2>1. CASE CreateLedger(p, t) \/ RotateLedger(p, t)
    BY <2>1 DEF CreateLedger, RotateLedger, FileMoves
  <2>2. CASE UNCHANGED file
    BY <2>2 DEF FileMoves
  <2> QED BY <1>2, <2>1, <2>2
          DEF ThreadStep, Enter, EnterNested, ExitNested, Exit, Close, Wake, CloseReturns, disk
<1>3. ASSUME NEW p \in Processes, Crash(p) PROVE FileMoves
  BY <1>3 DEF Crash, disk, FileMoves
<1>4. ASSUME UNCHANGED vars PROVE FileMoves
  BY <1>4 DEF vars, disk, FileMoves
<1>5. ASSUME NEW path \in Paths, Substitute(path) PROVE FileMoves
  BY <1>5 DEF FileMoves
<1> QED BY <1>1, <1>2, <1>3, <1>4, <1>5 DEF Next

PathsOf(q) == {LedgerPath[q], ApprovalPath[q]}

LEMMA PathsTyped ==
  ASSUME NEW q \in Processes
  PROVE  PathsOf(q) \subseteq Paths
BY RuntimeConstants DEF PathsOf

LEMMA IdsOfPaths ==
  ASSUME NEW q \in Processes, NEW a \in PathsOf(q), file[a] # NoInode
  PROVE  FileIdentity(file[a]) \in AllIds(q)
BY DEF PathsOf, AllIds, LedgerIds, ApprovalIds, ResourceIdentities

(* Two processes that own their resources are configured with different    *)
(* paths.                                                                  *)
LEMMA OwnersApart ==
  ASSUME IInv, NEW p \in Processes, NEW q \in Processes, p # q,
         Owning(proc[p], thread[p]), Owning(proc[q], thread[q])
  PROVE  PathsOf(p) \cap PathsOf(q) = {}
<1>1. PathIds(p) \subseteq HeldIn(p, owner) /\ PathIds(q) \subseteq HeldIn(q, owner)
  BY DEF IInv, Locals, Local, Locked
<1>2. \A a \in PathsOf(p) : owner[PathIdentity(a)] = p
  BY <1>1 DEF PathsOf, PathIds, HeldIn
<1>3. \A a \in PathsOf(q) : owner[PathIdentity(a)] = q
  BY <1>1 DEF PathsOf, PathIds, HeldIn
<1> QED BY <1>2, <1>3

(* First case: no path is relinked.  Then hard links are only those of the *)
(* initial file system; who owns a path that is one has locked its file.   *)
Links(q) ==
  \A a \in PathsOf(q) : \A b \in Paths \ {a} : file[a] # NoInode /\ file[a] = file[b] =>
    /\ Owning(proc[q], thread[q]) => owner[FileIdentity(file[a])] = q
    /\ proc[q].pc = "acquire" => \/ owner[FileIdentity(file[a])] = q
                                 \/ FileIdentity(file[a]) \in proc[q].todo

LinksLocked == \A q \in Processes : Links(q)

LEMMA LinksInit == Init => LinksLocked
<1> SUFFICES ASSUME Init, NEW q \in Processes PROVE Links(q)
  BY DEF LinksLocked
<1>1. proc[q].pc = "down"
  BY DEF Init, Down
<1> QED BY <1>1 DEF Links, Owning

LEMMA LinksNext ==
  ASSUME IInv, LinksLocked, [Next]_vars, MaxSubstitutions = 0
  PROVE  LinksLocked'
<1> SUFFICES ASSUME NEW q \in Processes PROVE Links(q)'
  BY DEF LinksLocked
<1> SUFFICES ASSUME NEW a \in PathsOf(q), NEW b \in Paths \ {a}, file'[a] # NoInode, file'[a] = file'[b]
             PROVE  /\ Owning(proc'[q], thread'[q]) => owner'[FileIdentity(file'[a])] = q
                    /\ proc'[q].pc = "acquire" => \/ owner'[FileIdentity(file'[a])] = q
                                                  \/ FileIdentity(file'[a]) \in proc'[q].todo
  BY DEF Links, PathsOf, Owning
<1>1. a \in Paths
  BY PathsTyped
<1>2. \A path \in Paths : ~Substitute(path)
  BY DEF Substitute, IInv, Typed
<1>3. file'[a] = file[a] /\ file'[b] = file[b]
  <2>1. CASE UNCHANGED file
    BY <2>1
  <2>2. ASSUME NEW path \in Paths, NewFileAt(path) PROVE a # path /\ b # path
    <3>1. \A c \in Paths \ {path} : file'[path] # file'[c]
      BY <2>2, NewFile
    <3> QED BY <1>1, <3>1
  <2>3. ASSUME NEW path \in Paths, NewFileAt(path) PROVE file'[a] = file[a] /\ file'[b] = file[b]
    <3>1. \A c \in Paths \ {path} : file'[c] = file[c]
      BY <2>3, NewFile
    <3> QED BY <1>1, <2>2, <2>3, <3>1
  <2> QED BY <1>2, <2>1, <2>3, FilesNext, RuntimeConstants DEF FileMoves
<1>4. /\ Owning(proc[q], thread[q]) => owner[FileIdentity(file[a])] = q
      /\ proc[q].pc = "acquire" => \/ owner[FileIdentity(file[a])] = q
                                   \/ FileIdentity(file[a]) \in proc[q].todo
  BY <1>3 DEF LinksLocked, Links
<1>5. FileIdentity(file[a]) \in AllIds(q) /\ FileIdentity(file[a]) \in Identities
  BY <1>3, IdsOfPaths, IdsTyped DEF IInv
<1>6. LockMoves(q)
  BY LocksNext
<1>7. proc'[q].pc = "acquire" => ~Owning(proc'[q], thread'[q])
  BY DEF Owning
<1> QED BY <1>3, <1>4, <1>5, <1>6, <1>7 DEF LockMoves

(* Second case: the ledgers exist and are not rotated.  Then a file of a   *)
(* process that has bound its resources is a file it has locked.           *)
FilesLocked ==
  /\ \A q \in Processes : file[LedgerPath[q]] # NoInode
  /\ \A q \in Processes : Bound(proc[q], thread[q]) => AllIds(q) \subseteq Held(q)

LedgersExist == \A f \in InitialFiles, q \in Processes : f[LedgerPath[q]] # NoInode

LEMMA FilesLockedInit == LedgersExist /\ Init => FilesLocked
<1> SUFFICES ASSUME LedgersExist, Init PROVE FilesLocked
  OBVIOUS
<1>1. \A q \in Processes : proc[q].pc = "down"
  BY DEF Init, Down
<1>2. \A q \in Processes : file[LedgerPath[q]] # NoInode
  BY DEF LedgersExist, Init
<1> QED BY <1>1, <1>2 DEF FilesLocked, Bound

LEMMA FilesLockedNext ==
  ASSUME IInv, FilesLocked, [Next]_vars, MaxRotations = 0
  PROVE  FilesLocked'
<1>1. ASSUME NEW p \in Processes PROVE file[LedgerPath[p]] # NoInode /\ ~(rotations < MaxRotations)
  BY DEF FilesLocked, IInv, Typed
<1>2. ASSUME NEW path \in Paths, NEW q \in Processes, Substitute(path), path \in PathsOf(q)
      PROVE  ~Bound(proc[q], thread[q])
  BY <1>2 DEF Substitute, PathsOf, Bound
<1>3. ASSUME NEW q \in Processes PROVE file'[LedgerPath[q]] # NoInode
  <2>1. LedgerPath[q] \in Paths
    BY RuntimeConstants
  <2>2. ASSUME NEW path \in Paths, NewFileAt(path) PROVE file'[LedgerPath[q]] # NoInode
    BY <1>1, <2>1, <2>2, NewFile, RuntimeConstants
  <2>3. ASSUME NEW path \in Paths, Substitute(path) PROVE file'[LedgerPath[q]] # NoInode
    <3>1. PICK i \in used : file' = [file EXCEPT ![path] = i]
      BY <2>3 DEF Substitute
    <3> QED BY <1>1, <2>1, <3>1, RuntimeConstants DEF IInv, Typed
  <2> QED BY <1>1, <2>2, <2>3, FilesNext, RuntimeConstants DEF FileMoves
<1>4. ASSUME NEW q \in Processes, Bound(proc'[q], thread'[q])
      PROVE  AllIds(q)' \subseteq Held(q)'
  <2>1. /\ \A x \in Identities : owner[x] = q => owner'[x] = q
        /\ \/ Bound(proc[q], thread[q])
           \/ proc[q].pc = "bindAcquire" /\ proc[q].todo = {} /\ AllIds(q) = proc[q].before /\ UNCHANGED file
    <3>1. Owning(proc'[q], thread'[q]) /\ proc'[q].pc # "acquire"
      BY <1>4 DEF Bound
    <3> QED BY <1>4, <3>1, LocksNext DEF LockMoves
  <2>2. AllIds(q) \subseteq Held(q)
    <3>1. CASE Bound(proc[q], thread[q])
      BY <3>1 DEF FilesLocked
    <3>2. CASE proc[q].pc = "bindAcquire" /\ proc[q].todo = {} /\ AllIds(q) = proc[q].before
      BY <3>2 DEF IInv, Locals, Local, Locked, HeldIn, Held
    <3> QED BY <2>1, <3>1, <3>2
  <2>3. \A a \in PathsOf(q) : file'[a] = file[a]
    <3>1. CASE UNCHANGED file
      BY <3>1
    <3>2. CASE Bound(proc[q], thread[q])
      <4>1. ASSUME NEW p \in Processes, proc[p].pc = "queue", NewFileAt(ApprovalPath[p]),
                   ~Bound(proc'[p], thread'[p])
            PROVE  \A a \in PathsOf(q) : file'[a] = file[a]
        <5>1. p # q /\ Owning(proc[p], thread[p]) /\ Owning(proc[q], thread[q])
          BY <1>4, <3>2, <4>1 DEF Bound, Owning
        <5>2. ApprovalPath[p] \notin PathsOf(q) /\ ApprovalPath[p] \in Paths
          BY <5>1, OwnersApart, RuntimeConstants DEF PathsOf
        <5> QED BY <4>1, <5>2, NewFile, PathsTyped
      <4>2. ASSUME NEW path \in Paths, Substitute(path)
            PROVE  \A a \in PathsOf(q) : file'[a] = file[a]
        <5>1. PICK i \in used : file' = [file EXCEPT ![path] = i]
          BY <4>2 DEF Substitute
        <5>2. path \notin PathsOf(q)
          BY <1>2, <3>2, <4>2
        <5> QED BY <5>1, <5>2, PathsTyped DEF IInv, Typed
      <4> QED BY <1>1, <3>1, <4>1, <4>2, FilesNext DEF FileMoves
    <3> QED BY <2>1, <3>1, <3>2
  <2>4. AllIds(q)' = AllIds(q)
    BY <2>3 DEF AllIds, LedgerIds, ApprovalIds, ResourceIdentities, PathsOf
  <2> QED BY <2>1, <2>2, <2>4 DEF Held
<1> QED BY <1>3, <1>4 DEF FilesLocked, Bound, Owning

(* Relinking a path and a file that replaces a locked one do not happen in *)
(* one history: no path is relinked behind the runtimes' backs, or every   *)
(* ledger exists when the first runtime starts and none is rotated.        *)
StableFiles == MaxSubstitutions = 0 \/ (MaxRotations = 0 /\ LedgersExist)

LEMMA WritersApart ==
  ASSUME IInv, LinksLocked \/ FilesLocked
  PROVE  ExclusiveWriter
<1> SUFFICES ASSUME NEW p \in Processes, NEW q \in Processes, p # q, Writing(p), Writing(q)
             PROVE  Resources(p) \cap Resources(q) = {} /\ PathsOf(p) \cap PathsOf(q) = {}
  BY DEF ExclusiveWriter, PathsOf
<1>1. /\ Owning(proc[p], thread[p]) /\ proc[p].pc \in {"queue", "up"}
      /\ Owning(proc[q], thread[q]) /\ proc[q].pc \in {"queue", "up"}
  BY WriterOwns
<1>2. PathsOf(p) \cap PathsOf(q) = {}
  BY <1>1, OwnersApart
<1>3. ASSUME NEW a \in PathsOf(p), NEW b \in PathsOf(q), file[a] # NoInode, file[a] = file[b]
      PROVE  FALSE
  <2>1. a # b /\ a \in Paths /\ b \in Paths
    BY <1>2, PathsTyped
  <2>2. CASE LinksLocked
    <3>1. owner[FileIdentity(file[a])] = p /\ owner[FileIdentity(file[b])] = q
      BY <1>1, <1>3, <2>1, <2>2 DEF LinksLocked, Links
    <3> QED BY <1>3, <3>1
  <2>3. CASE FilesLocked
    <3>1. FileIdentity(file[a]) \in Held(p) /\ FileIdentity(file[b]) \in Held(q)
      BY <1>1, <1>3, <2>3, IdsOfPaths DEF FilesLocked, Bound
    <3> QED BY <1>3, <3>1 DEF Held
  <2> QED BY <2>2, <2>3
<1> QED BY <1>2, <1>3 DEF Resources, PathsOf

(* Two runtimes never write one ledger or approval database at a time,     *)
(* whether through one path or through hard links, in every interleaving   *)
(* of their starts, operations, closes and crashes, as long as relinking   *)
(* and replacing files are not combined (StableFiles): the locks of        *)
(* RuntimeOwnershipLock on path and file identities are enough.            *)
THEOREM OneWriterPerFile == StableFiles => (Spec => []ExclusiveWriter)
<1>1. CASE MaxSubstitutions = 0
  <2>1. IInv /\ LinksLocked /\ [Next]_vars => LinksLocked'
    BY <1>1, LinksNext
  <2>2. IInv /\ LinksLocked => ExclusiveWriter
    BY WritersApart
  <2> QED BY <2>1, <2>2, LinksInit, Invariance, PTL DEF Spec
<1>2. CASE MaxRotations = 0 /\ LedgersExist
  <2>1. Init => FilesLocked
    BY <1>2, FilesLockedInit
  <2>2. IInv /\ FilesLocked /\ [Next]_vars => FilesLocked'
    BY <1>2, FilesLockedNext
  <2>3. IInv /\ FilesLocked => ExclusiveWriter
    BY WritersApart
  <2> QED BY <2>1, <2>2, <2>3, Invariance, PTL DEF Spec
<1> QED BY <1>1, <1>2 DEF StableFiles

-----------------------------------------------------------------------------
(* StartupHasWinner.  Until some runtime is up, or gives up for a reason   *)
(* of its own, no file appears, so each runtime takes exactly the locks it *)
(* read at its start, in the one sorted order.  Then a runtime that is     *)
(* refused a lock has found one ahead of it: among those that refuse each  *)
(* other the one with the last lock is not refused (Leader).               *)

(* A runtime is up, or was, or has failed other than on a lock.            *)
Won == \E p \in Processes : proc[p].pc \in {"failed", "up", "closed"}

Binding == {"bind", "bindAcquire", "queue", "compose"}

Ordered(p, pr, held) ==
  /\ pr.pc = "down" => held = {}
  /\ pr.pc = "acquire" =>
       /\ AllIds(p) = held \cup pr.todo
       /\ \A x \in held, y \in pr.todo : SortsBefore(x, y)
  /\ pr.pc \in Binding => AllIds(p) \subseteq held
  /\ pr.pc = "bindAcquire" => pr.todo = {}

(* The locks that refused runtimes have not returned yet all sort before x. *)
Behind(x) == \A p \in Processes : proc[p].pc = "refused" => \A y \in Held(p) : SortsBefore(y, x)

Leader ==
  \/ \A p \in Processes : proc[p].pc # "refused"
  \/ \E q \in Processes : proc[q].pc \in Binding
  \/ \E q \in Processes : proc[q].pc = "acquire" /\ \E x \in Held(q) : Behind(x)

Race == (\A p \in Processes : Ordered(p, proc[p], Held(p))) /\ Leader

ApprovalsThere == \A p \in Processes : file[ApprovalPath[p]] # NoInode

RaceInv == ApprovalsThere /\ (crashes = 0 => Won \/ Race)

ApprovalsExist == \A f \in InitialFiles, p \in Processes : f[ApprovalPath[p]] # NoInode

LEMMA IdentitiesSorted ==
  /\ \A x \in Identities : ~SortsBefore(x, x)
  /\ \A x, y \in Identities : x = y \/ SortsBefore(x, y) \/ SortsBefore(y, x)
  /\ \A x, y, z \in Identities : SortsBefore(x, y) /\ SortsBefore(y, z) => SortsBefore(x, z)
<1>1. ASSUME NEW x \in Identities
      PROVE  x[1] \in Nat /\ x[2] \in Nat /\ x = <<x[1], x[2]>>
  BY RuntimeConstants DEF Identities, FileIdentity, PathIdentity
<1>2. \A x \in Identities : ~SortsBefore(x, x)
  BY <1>1 DEF SortsBefore
<1>3. \A x, y \in Identities : x = y \/ SortsBefore(x, y) \/ SortsBefore(y, x)
  BY <1>1 DEF SortsBefore
<1>4. \A x, y, z \in Identities : SortsBefore(x, y) /\ SortsBefore(y, z) => SortsBefore(x, z)
  BY <1>1 DEF SortsBefore
<1> QED BY <1>2, <1>3, <1>4

LEMMA RaceInit == ApprovalsExist /\ Init => RaceInv
<1> SUFFICES ASSUME ApprovalsExist, Init PROVE ApprovalsThere /\ Race
  BY DEF RaceInv
<1>1. \A p \in Processes : proc[p].pc = "down"
  BY DEF Init, Down
<1>2. \A p \in Processes : Held(p) = {}
  BY RuntimeConstants DEF Init, Held
<1>3. \A p \in Processes : Ordered(p, proc[p], Held(p))
  BY <1>1, <1>2 DEF Ordered, Binding
<1> QED BY <1>1, <1>3 DEF Race, Leader, ApprovalsThere, ApprovalsExist, Init

LEMMA ApprovalsNext ==
  ASSUME IInv, ApprovalsThere, [Next]_vars, MaxSubstitutions = 0
  PROVE  ApprovalsThere'
<1> SUFFICES ASSUME NEW q \in Processes PROVE file'[ApprovalPath[q]] # NoInode
  BY DEF ApprovalsThere
<1>1. ApprovalPath[q] \in Paths /\ file[ApprovalPath[q]] # NoInode
  BY RuntimeConstants DEF ApprovalsThere
<1>2. ASSUME NEW path \in Paths, NewFileAt(path) PROVE file'[ApprovalPath[q]] # NoInode
  BY <1>1, <1>2, NewFile, RuntimeConstants
<1>3. \A path \in Paths : ~Substitute(path)
  BY DEF Substitute, IInv, Typed
<1> QED BY <1>1, <1>2, <1>3, FilesNext, RuntimeConstants DEF FileMoves

(* Threads run only in a runtime that is up.                               *)
LEMMA NoThreadSteps ==
  ASSUME IInv, NEW p \in Processes, proc[p].pc \notin {"up", "closed"}, NEW t \in Threads
  PROVE  ~ThreadStep(p, t)
<1>1. thread[p][t].depth = 0 /\ thread[p][t].close = "no"
  BY DrainedNow DEF Drained
<1> QED BY <1>1 DEF ThreadStep, Enter, EnterNested, CreateLedger, RotateLedger, ExitNested, Exit, Close,
            Wake, CloseReturns

LEMMA CrashCounts ==
  ASSUME IInv, [Next]_vars, crashes' = 0
  PROVE  crashes = 0 /\ \A p \in Processes : ~Crash(p)
<1>1. crashes \in Nat
  BY DEF IInv, Typed
<1>2. \A p \in Processes : ~Crash(p)
  BY <1>1 DEF Crash
<1>3. ASSUME NEW p \in Processes, StartStep(p) PROVE crashes' = crashes
  BY <1>3 DEF StartStep, RejectConfiguration, Start, Acquire, OpenLedger, BindBefore, BindAfter, OpenQueue,
       Compose, Unlock, faults
<1>4. ASSUME NEW p \in Processes, NEW t \in Threads, ThreadStep(p, t) PROVE crashes' = crashes
  BY <1>4 DEF ThreadStep, Enter, EnterNested, CreateLedger, RotateLedger, ExitNested, Exit, Close, Wake,
       CloseReturns, faults
<1>5. ASSUME NEW path \in Paths, Substitute(path) PROVE crashes' = crashes
  BY <1>5 DEF Substitute
<1> QED BY <1>2, <1>3, <1>4, <1>5 DEF Next, vars, faults

(* Who has won, or failed for its own reason, is never refused later.      *)
LEMMA WonStays ==
  ASSUME IInv, Won, [Next]_vars, crashes' = 0
  PROVE  Won'
<1>1. PICK p \in Processes : proc[p].pc \in {"failed", "up", "closed"}
  BY DEF Won
<1> SUFFICES proc'[p].pc \in {"failed", "up", "closed"}
  BY DEF Won
<1>2. CASE StartStep(p)
  <2>1. proc' = proc
    BY <1>1, <1>2 DEF StartStep, RejectConfiguration, Start, Acquire, OpenLedger, BindBefore, BindAfter,
         OpenQueue, Compose, Unlock
  <2> QED BY <1>1, <2>1
<1>3. ASSUME NEW t \in Threads, ThreadStep(p, t) PROVE proc'[p].pc \in {"failed", "up", "closed"}
  <2>1. CASE CloseReturns(p, t)
    BY <2>1 DEF CloseReturns, Goto, IInv, Typed, ProcRecord
  <2>2. CASE proc' = proc
    BY <1>1, <2>2
  <2> QED BY <1>3, <2>1, <2>2 DEF ThreadStep, Enter, EnterNested, CreateLedger, RotateLedger, ExitNested,
            Exit, Close, Wake
<1>4. ASSUME NEW q \in Processes \ {p}, StartStep(q) \/ \E t \in Threads : ThreadStep(q, t)
      PROVE  proc'[p].pc \in {"failed", "up", "closed"}
  BY <1>1, <1>4, OthersUntouched DEF Untouched
<1>5. ASSUME NEW path \in Paths, Substitute(path) PROVE proc' = proc
  BY <1>5 DEF Substitute
<1> QED BY <1>1, <1>2, <1>3, <1>4, <1>5, CrashCounts DEF Next, vars

(* A step of the constructor that leaves the locks alone and goes on.      *)
LEMMA MoveRace ==
  ASSUME IInv, Race, NEW p \in Processes, NEW r, proc' = [proc EXCEPT ![p] = r],
         UNCHANGED <<file, owner>>,
         proc[p].pc # "refused", r.pc # "refused", Ordered(p, r, Held(p)),
         proc[p].pc \in Binding \cup {"acquire"} => r.pc \in Binding
  PROVE  Race'
<1>1. proc'[p] = r /\ \A q \in Processes \ {p} : proc'[q] = proc[q]
  BY DEF IInv, Typed
<1>2. \A q \in Processes : Held(q)' = Held(q) /\ AllIds(q)' = AllIds(q)
  BY DEF Held, AllIds, LedgerIds, ApprovalIds, ResourceIdentities
<1>3. \A q \in Processes : Ordered(q, proc[q], Held(q))
  BY DEF Race
<1>4. \A q \in Processes : Ordered(q, proc[q], Held(q))'
  BY <1>1, <1>2, <1>3 DEF Ordered
<1>5. \A x : Behind(x) => Behind(x)'
  BY <1>1, <1>2 DEF Behind
<1>6. Leader'
  <2>1. CASE \A q \in Processes : proc[q].pc # "refused"
    BY <1>1, <2>1 DEF Leader
  <2>2. ASSUME NEW q \in Processes, proc[q].pc \in Binding PROVE Leader'
    BY <1>1, <2>2 DEF Leader
  <2>3. ASSUME NEW q \in Processes, proc[q].pc = "acquire", NEW x \in Held(q), Behind(x) PROVE Leader'
    <3>1. CASE q = p
      BY <1>1, <2>3, <3>1 DEF Leader
    <3>2. CASE q # p
      BY <1>1, <1>2, <1>5, <2>3, <3>2 DEF Leader
    <3> QED BY <3>1, <3>2
  <2> QED BY <2>1, <2>2, <2>3 DEF Race, Leader
<1> QED BY <1>4, <1>6 DEF Race

LEMMA TakeRace ==
  ASSUME IInv, Race, NEW p \in Processes, proc[p].pc = "acquire", NEW x \in Identities,
         NextToAcquire(p, x), owner[x] = NoProcess, owner' = [owner EXCEPT ![x] = p],
         proc' = [proc EXCEPT ![p] = [@ EXCEPT !.todo = proc[p].todo \ {x}]], UNCHANGED file
  PROVE  Race'
<1> DEFINE r == [proc[p] EXCEPT !.todo = proc[p].todo \ {x}]
<1>1. r.pc = "acquire" /\ r.todo = proc[p].todo \ {x} /\ proc'[p] = r
  BY DEF IInv, Typed, ProcRecord
<1> HIDE DEF r
<1>2. \A q \in Processes \ {p} : proc'[q] = proc[q]
  BY DEF IInv, Typed
<1>3. Held(p)' = Held(p) \cup {x} /\ \A q \in Processes \ {p} : Held(q)' = Held(q)
  BY RuntimeConstants DEF IInv, Typed, Held
<1>4. \A q \in Processes : AllIds(q)' = AllIds(q)
  BY DEF AllIds, LedgerIds, ApprovalIds, ResourceIdentities
<1>5. /\ AllIds(p) = Held(p) \cup proc[p].todo
      /\ \A y \in Held(p), z \in proc[p].todo : SortsBefore(y, z)
  BY DEF Race, Ordered
<1>6. x \in proc[p].todo /\ \A z \in proc[p].todo : z = x \/ SortsBefore(x, z)
  BY DEF NextToAcquire
<1>7. Ordered(p, proc[p], Held(p))'
  <2>1. AllIds(p) = Held(p)' \cup r.todo
    BY <1>1, <1>3, <1>5, <1>6
  <2>2. \A y \in Held(p)', z \in r.todo : SortsBefore(y, z)
    BY <1>1, <1>3, <1>5, <1>6
  <2> QED BY <1>1, <1>4, <2>1, <2>2 DEF Ordered, Binding
<1>8. ASSUME NEW q \in Processes \ {p} PROVE Ordered(q, proc[q], Held(q))'
  <2>1. Ordered(q, proc[q], Held(q))
    BY DEF Race
  <2> QED BY <1>2, <1>3, <1>4, <2>1 DEF Ordered
<1>9. \A q \in Processes : proc'[q].pc = proc[q].pc
  BY <1>1, <1>2
<1>10. \A y : Behind(y) => Behind(y)'
  BY <1>3, <1>9 DEF Behind
<1>11. Leader'
  BY <1>3, <1>9, <1>10 DEF Race, Leader
<1> QED BY <1>7, <1>8, <1>11 DEF Race

(* The runtime that is refused lock x leaves the lead to the owner of x,   *)
(* or to the leader there was, if its lock sorts after x.                  *)
LEMMA RefusedRace ==
  ASSUME IInv, Race, ~Won, NEW p \in Processes, proc[p].pc = "acquire", NEW x \in Identities,
         NextToAcquire(p, x), owner[x] # NoProcess, StartFails(p, "refused"), UNCHANGED <<file, owner>>
  PROVE  Race'
<1>1. proc'[p].pc = "refused" /\ \A q \in Processes \ {p} : proc'[q] = proc[q]
  BY DEF StartFails, Down, IInv, Typed
<1>2. \A q \in Processes : Held(q)' = Held(q) /\ AllIds(q)' = AllIds(q)
  BY DEF Held, AllIds, LedgerIds, ApprovalIds, ResourceIdentities
<1>3. \A q \in Processes : Ordered(q, proc[q], Held(q))
  BY DEF Race
<1>4. ASSUME NEW q \in Processes PROVE Ordered(q, proc[q], Held(q))'
  <2>1. CASE q = p
    BY <1>1, <2>1 DEF Ordered, Binding
  <2>2. CASE q # p
    BY <1>1, <1>2, <1>3, <2>2 DEF Ordered
  <2> QED BY <2>1, <2>2
<1>5. x \in proc[p].todo /\ \A y \in Held(p) : SortsBefore(y, x)
  BY <1>3 DEF Ordered, NextToAcquire
<1>6. PICK o \in Processes : x \in Held(o) /\ o # p
  BY <1>5, IdentitiesSorted DEF IInv, Typed, Held
<1>7. \A q \in Processes : Held(q) \subseteq Identities
  BY DEF Held
<1>8. proc[o].pc \in Binding \cup {"acquire", "refused"}
  <2>1. proc[o].pc # "down"
    BY <1>3, <1>6 DEF Ordered
  <2>2. proc[o] \in ProcRecord /\ proc[o].pc \notin {"failed", "up", "closed"}
    BY <1>6 DEF IInv, Typed, Won
  <2> QED BY <2>1, <2>2 DEF ProcRecord, Binding
  (* What is ahead of all refused runtimes, and of x, is ahead of p too.   *)
<1>9. ASSUME NEW m \in Identities, m = x \/ SortsBefore(x, m),
             \A q \in Processes : proc[q].pc = "refused" => \A y \in Held(q) : SortsBefore(y, m)
      PROVE  Behind(m)'
  <2>1. \A y \in Held(p) : SortsBefore(y, m)
    BY <1>5, <1>7, <1>9, IdentitiesSorted
  <2> QED BY <1>1, <1>2, <1>9, <2>1 DEF Behind
<1>10. ASSUME proc[o].pc = "acquire",
              \A q \in Processes : proc[q].pc = "refused" => \A y \in Held(q) : SortsBefore(y, x)
       PROVE  Leader'
  <2>1. Behind(x)'
    BY <1>9, <1>10
  <2>2. proc'[o].pc = "acquire" /\ x \in Held(o)'
    BY <1>1, <1>2, <1>6, <1>10
  <2> QED BY <1>6, <2>1, <2>2 DEF Leader
<1>11. CASE \E q \in Processes : proc[q].pc \in Binding
  <2>1. PICK q \in Processes : proc[q].pc \in Binding
    BY <1>11
  <2>2. q # p
    BY <2>1 DEF Binding
  <2> QED BY <1>1, <1>4, <2>1, <2>2 DEF Race, Leader
<1>12. CASE \A q \in Processes : proc[q].pc # "refused"
  <2>1. CASE proc[o].pc \in Binding
    BY <1>6, <1>11, <2>1
  <2>2. CASE proc[o].pc = "acquire"
    BY <1>4, <1>10, <1>12, <2>2 DEF Race
  <2> QED BY <1>6, <1>8, <1>12, <2>1, <2>2
<1>13. ASSUME NEW q \in Processes, proc[q].pc = "acquire", NEW m \in Held(q), Behind(m)
       PROVE  Race'
  <2>1. m \in Identities
    BY <1>7
  <2>2. CASE SortsBefore(x, m)
    <3>1. q # p
      BY <1>5, <2>1, <2>2, IdentitiesSorted
    <3>2. Behind(m)'
      BY <1>9, <1>13, <2>1, <2>2 DEF Behind
    <3>3. proc'[q].pc = "acquire" /\ m \in Held(q)'
      BY <1>1, <1>2, <1>13, <3>1
    <3> QED BY <1>4, <3>2, <3>3 DEF Race, Leader
  <2>3. CASE m = x \/ SortsBefore(m, x)
    <3>1. \A u \in Processes : proc[u].pc = "refused" => \A y \in Held(u) : SortsBefore(y, x)
      BY <1>7, <1>13, <2>1, <2>3, IdentitiesSorted DEF Behind
    <3>2. proc[o].pc # "refused"
      BY <1>6, <3>1, IdentitiesSorted
    <3>3. CASE proc[o].pc = "acquire"
      BY <1>4, <1>10, <3>1, <3>3 DEF Race
    <3> QED BY <1>6, <1>8, <1>11, <3>2, <3>3
  <2> QED BY <2>1, <2>2, <2>3, IdentitiesSorted
<1> QED BY <1>11, <1>12, <1>13 DEF Race, Leader

LEMMA UnlockRace ==
  ASSUME IInv, Race, NEW p \in Processes, proc[p].pc = "refused", Unlock(p)
  PROVE  Race'
<1>1. proc' = proc /\ UNCHANGED file
  BY DEF Unlock, disk
<1>2. Held(p)' \subseteq Held(p) /\ \A q \in Processes \ {p} : Held(q)' = Held(q)
  BY RuntimeConstants DEF Unlock, Held, IInv, Typed
<1>3. \A q \in Processes : AllIds(q)' = AllIds(q)
  BY <1>1 DEF AllIds, LedgerIds, ApprovalIds, ResourceIdentities
<1>4. ASSUME NEW q \in Processes PROVE Ordered(q, proc[q], Held(q))'
  <2>1. Ordered(q, proc[q], Held(q))
    BY DEF Race
  <2>2. CASE q = p
    BY <1>1, <2>2 DEF Ordered, Binding
  <2>3. CASE q # p
    BY <1>1, <1>2, <1>3, <2>1, <2>3 DEF Ordered
  <2> QED BY <2>2, <2>3
<1>5. \A x : Behind(x) => Behind(x)'
  BY <1>1, <1>2 DEF Behind
<1>6. Leader'
  BY <1>1, <1>2, <1>5 DEF Race, Leader
<1> QED BY <1>4, <1>6 DEF Race

(* A step of the constructor while nobody has won.                         *)
LEMMA StartStepRace ==
  ASSUME IInv, ApprovalsThere, Race, ~Won, ~Won', NEW p \in Processes, StartStep(p)
  PROVE  Race'
<1>1. /\ proc[p] \in ProcRecord /\ proc[p].pc \notin {"failed", "up", "closed"}
      /\ proc'[p].pc \notin {"failed", "up", "closed"}
      /\ Ordered(p, proc[p], Held(p))
  BY DEF IInv, Typed, Won, Race
<1>2. ~StartFails(p, "failed")
  BY <1>1 DEF StartFails, Down, IInv, Typed
<1>3. CASE RejectConfiguration(p)
  BY <1>2, <1>3 DEF RejectConfiguration
<1>4. CASE Start(p)
  <2> DEFINE r == [Down EXCEPT !.pc = "acquire", !.todo = AllIds(p)]
  <2>1. /\ proc' = [proc EXCEPT ![p] = r] /\ proc[p].pc = "down" /\ UNCHANGED <<file, owner>>
        /\ r.pc = "acquire" /\ r.todo = AllIds(p)
    BY <1>2, <1>4 DEF Start, Down, disk
  <2> HIDE DEF r
  <2>2. Held(p) = {}
    BY <1>1, <2>1 DEF Ordered
  <2>3. Ordered(p, r, Held(p))
    BY <2>1, <2>2 DEF Ordered, Binding
  <2> QED BY <2>1, <2>3, MoveRace DEF Binding
<1>5. CASE Acquire(p)
  <2>1. PICK x \in Identities :
          /\ NextToAcquire(p, x)
          /\ \/ /\ owner[x] = NoProcess
                /\ owner' = [owner EXCEPT ![x] = p]
                /\ proc' = [proc EXCEPT ![p] = [@ EXCEPT !.todo = proc[p].todo \ {x}]]
             \/ owner[x] # NoProcess /\ StartFails(p, "refused") /\ UNCHANGED owner
    BY <1>5 DEF Acquire
  <2>2. proc[p].pc = "acquire" /\ UNCHANGED file
    BY <1>1, <1>5, <2>1 DEF Acquire, Ordered, NextToAcquire, disk
  <2> QED BY <2>1, <2>2, TakeRace, RefusedRace
<1>6. CASE OpenLedger(p)
  <2> DEFINE r == [proc[p] EXCEPT !.pc = "bind"]
  <2>1. /\ proc' = [proc EXCEPT ![p] = r] /\ proc[p].pc = "acquire" /\ proc[p].todo = {}
        /\ UNCHANGED <<file, owner>> /\ r.pc = "bind"
    BY <1>1, <1>2, <1>6 DEF OpenLedger, Goto, disk, ProcRecord
  <2> HIDE DEF r
  <2>2. Ordered(p, r, Held(p))
    BY <1>1, <2>1 DEF Ordered
  <2> QED BY <2>1, <2>2, MoveRace DEF Binding
<1>7. CASE BindBefore(p)
  <2> DEFINE r == [proc[p] EXCEPT !.pc = "bindAcquire", !.before = AllIds(p), !.todo = AllIds(p) \ Held(p)]
  <2>1. /\ proc' = [proc EXCEPT ![p] = r] /\ proc[p].pc = "bind" /\ UNCHANGED <<file, owner>>
        /\ r.pc = "bindAcquire" /\ r.todo = AllIds(p) \ Held(p)
    BY <1>1, <1>2, <1>7 DEF BindBefore, disk, ProcRecord
  <2> HIDE DEF r
  <2>2. Ordered(p, r, Held(p))
    BY <1>1, <2>1 DEF Ordered, Binding
  <2> QED BY <2>1, <2>2, MoveRace DEF Binding
<1>8. CASE BindAfter(p)
  <2> DEFINE r == [Down EXCEPT !.bound = TRUE, !.pc = IF proc[p].bound THEN "compose" ELSE "queue"]
  <2>1. /\ proc' = [proc EXCEPT ![p] = r] /\ proc[p].pc = "bindAcquire" /\ UNCHANGED <<file, owner>>
        /\ r.pc \in {"compose", "queue"}
    BY <1>2, <1>8 DEF BindAfter, disk, Down
  <2> HIDE DEF r
  <2>2. Ordered(p, r, Held(p))
    BY <1>1, <2>1 DEF Ordered, Binding
  <2> QED BY <2>1, <2>2, MoveRace DEF Binding
<1>9. CASE OpenQueue(p)
  <2> DEFINE r == [proc[p] EXCEPT !.pc = "bind"]
  <2>1. /\ proc' = [proc EXCEPT ![p] = r] /\ proc[p].pc = "queue" /\ UNCHANGED <<file, owner>>
        /\ r.pc = "bind"
    BY <1>1, <1>2, <1>9 DEF OpenQueue, Goto, Ensure, ApprovalsThere, disk, ProcRecord
  <2> HIDE DEF r
  <2>2. Ordered(p, r, Held(p))
    BY <1>1, <2>1 DEF Ordered, Binding
  <2> QED BY <2>1, <2>2, MoveRace DEF Binding
<1>10. CASE Compose(p)
  BY <1>1, <1>2, <1>10 DEF Compose, Goto, IInv, Typed, ProcRecord
<1>11. CASE Unlock(p)
  <2>1. thread[p] \in [Threads -> ThreadRecord] /\ \A t \in Threads : thread[p][t].close = "no"
    BY <1>1, DrainedNow DEF Drained
  <2>2. proc[p].pc = "refused"
    BY <1>1, <1>11, <2>1 DEF Unlock
  <2> QED BY <1>11, <2>2, UnlockRace
<1> QED BY <1>3, <1>4, <1>5, <1>6, <1>7, <1>8, <1>9, <1>10, <1>11 DEF StartStep

LEMMA RaceNext ==
  ASSUME IInv, RaceInv, [Next]_vars, MaxSubstitutions = 0
  PROVE  RaceInv'
<1>1. ApprovalsThere'
  BY ApprovalsNext DEF RaceInv
<1>2. ASSUME crashes' = 0, ~Won' PROVE Race'
  <2>1. crashes = 0 /\ ~Won /\ Race /\ ApprovalsThere /\ \A p \in Processes : ~Crash(p)
    BY <1>2, CrashCounts, WonStays DEF RaceInv
  <2>2. \A p \in Processes, t \in Threads : ~ThreadStep(p, t)
    BY <2>1, NoThreadSteps DEF Won
  <2>3. \A path \in Paths : ~Substitute(path)
    BY DEF Substitute, IInv, Typed
  <2>4. CASE UNCHANGED vars
    BY <2>1, <2>4 DEF vars, disk, Race, Ordered, Leader, Behind, Held, AllIds, LedgerIds, ApprovalIds,
         ResourceIdentities
  <2> QED BY <1>2, <2>1, <2>2, <2>3, <2>4, StartStepRace DEF Next
<1> QED BY <1>1, <1>2 DEF RaceInv

(* Runtimes that start on common resources never all refuse each other,    *)
(* however many they are and however their paths overlap, as long as none  *)
(* dies: RuntimeOwnershipLock takes its locks in sorted order.  A process  *)
(* that must create the approval database first (ApprovalsExist fails), or *)
(* whose paths are relinked, takes a lock out of that order.               *)
THEOREM SomeRuntimeIsNotRefused ==
  Processes # {} /\ ApprovalsExist /\ MaxSubstitutions = 0 => (Spec => []StartupHasWinner)
<1> SUFFICES ASSUME Processes # {}, ApprovalsExist, MaxSubstitutions = 0
             PROVE  Spec => []StartupHasWinner
  OBVIOUS
<1>1. Init => RaceInv
  BY RaceInit
<1>2. IInv /\ RaceInv /\ [Next]_vars => RaceInv'
  BY RaceNext
<1>3. RaceInv => StartupHasWinner
  BY DEF RaceInv, Race, Leader, Won, Binding, StartupHasWinner
<1> QED BY <1>1, <1>2, <1>3, Invariance, PTL DEF Spec
(***************************************************************************)
(* The control plane                                                       *)
(***************************************************************************)

Controls == {"active", "paused", "quarantined", "revoked"}

Entry == [agent : Agents, from : Controls, to : Controls]

OperatorRecord ==
  [pc : {"idle", "kill", "drain", "deny", "raised"}, agent : Agents \cup {"none"},
   targets : SUBSET Agents, items : SUBSET Approvals, revokedAny : BOOLEAN,
   atStart : SUBSET Agents, pendingAtStart : SUBSET Approvals]

CallRecord ==
  [pc : {"idle", "is_active", "policy", "consume", "route"}, agent : Agents \cup {"none"},
   approval : Approvals \cup {NoApproval}, stoppedAtStart : BOOLEAN]

ControlTyped ==
  /\ states \in [Agents -> Controls \cup {"unknown"}]
  /\ log \in Seq(Entry)
  /\ boot \in Nat /\ boot <= Len(log)
  /\ approvals \in [Approvals -> [status : Statuses, agent : Agents \cup {"none"}]]
  /\ operator \in [Operators -> OperatorRecord]
  /\ call \in [Dispatchers -> CallRecord]
  /\ restarts \in Nat

(* A call under way is a registered agent's, and one that consumes an      *)
(* approval names it.                                                      *)
CallTyped ==
  \A d \in Dispatchers :
    /\ call[d].pc # "idle" => call[d].agent \in Agents
    /\ call[d].pc = "consume" => call[d].approval \in Approvals

-----------------------------------------------------------------------------
(* _TRANSITIONS.                                                           *)

LEMMA TransitionTable ==
  ASSUME NEW current \in Controls, NEW command \in Commands,
         NextState(current, command) # "none"
  PROVE  /\ NextState(current, command) \in Controls
         /\ current # "revoked"
         /\ current \in Stopped => NextState(current, command) = "revoked"
<1>1. CASE command = "pause"
  BY <1>1 DEF NextState, Controls, Stopped
<1>2. CASE command = "resume"
  BY <1>2 DEF NextState, Controls, Stopped
<1>3. CASE command = "quarantine"
  BY <1>3 DEF NextState, Controls, Stopped
<1>4. CASE command = "revoke"
  BY <1>4 DEF NextState, Controls, Stopped
<1> QED BY <1>1, <1>2, <1>3, <1>4 DEF Commands

LEMMA RevokePermitted ==
  ASSUME NEW current \in Controls
  PROVE  /\ NextState(current, "revoke") = "none" <=> current = "revoked"
         /\ NextState(current, "revoke") # "none" => NextState(current, "revoke") = "revoked"
BY DEF NextState, Controls

LEMMA StateRead ==
  ASSUME ControlTyped, NEW a \in Agents
  PROVE  GetState(a) \in Controls
BY DEF ControlTyped, GetState, Controls

(* What one transition does to the states and to the ledger.               *)
LEMMA TransitionEffect ==
  ASSUME ControlTyped, NEW a \in Agents, NEW command \in Commands, Transition(a, command)
  PROVE  /\ states' \in [Agents -> Controls \cup {"unknown"}]
         /\ log' \in Seq(Entry)
         /\ Len(log') = Len(log) + 1
         /\ \A i \in 1 .. Len(log) : log'[i] = log[i]
         /\ log'[Len(log) + 1].agent = a
         /\ log'[Len(log) + 1].from = GetState(a)
         /\ log'[Len(log) + 1].to = GetState(a)'
         /\ GetState(a)' = NextState(GetState(a), command)
         /\ \A b \in Agents \ {a} : states'[b] = states[b]
         /\ states[a] # "revoked"
         /\ GetState(a) \in Stopped => states'[a] = "revoked"
<1> DEFINE s == NextState(GetState(a), command)
           e == [agent |-> a, from |-> GetState(a), to |-> s]
<1>1. GetState(a) \in Controls
  BY StateRead
<1>2. s # "none"
  BY DEF Transition, Permitted
<1>3. /\ s \in Controls
      /\ GetState(a) # "revoked"
      /\ GetState(a) \in Stopped => s = "revoked"
  BY <1>1, <1>2, TransitionTable
<1>4. states' = [states EXCEPT ![a] = s] /\ log' = Append(log, e)
  BY DEF Transition
<1> HIDE DEF s
<1>5. e \in Entry
  BY <1>1, <1>3 DEF Entry
<1>6. e.agent = a /\ e.from = GetState(a) /\ e.to = s
  OBVIOUS
<1> HIDE DEF e
<1>7. states'[a] = s /\ \A b \in Agents \ {a} : states'[b] = states[b]
  BY <1>4 DEF ControlTyped
<1>8. states' \in [Agents -> Controls \cup {"unknown"}]
  BY <1>3, <1>4 DEF ControlTyped
<1>9. GetState(a)' = s
  BY <1>3, <1>7 DEF GetState, Controls
<1>10. /\ log' \in Seq(Entry) /\ Len(log') = Len(log) + 1
       /\ \A i \in 1 .. Len(log) : log'[i] = log[i]
       /\ log'[Len(log) + 1] = e
  BY <1>4, <1>5 DEF ControlTyped
<1>11. states[a] # "revoked"
  BY <1>3 DEF GetState
<1> QED BY <1>3, <1>6, <1>7, <1>8, <1>9, <1>10, <1>11 DEF s

-----------------------------------------------------------------------------
(* Types.                                                                  *)

LEMMA IdleOperatorTyped == IdleOperator \in OperatorRecord
BY DEF IdleOperator, OperatorRecord

LEMMA IdleCallTyped == IdleCall \in CallRecord
BY DEF IdleCall, CallRecord

LEMMA TypedInit == ControlInit => ControlTyped /\ CallTyped
<1> SUFFICES ASSUME ControlInit PROVE ControlTyped /\ CallTyped
  OBVIOUS
<1>1. states \in [Agents -> Controls \cup {"unknown"}] /\ restarts \in Nat
  BY DEF ControlInit
<1>2. log \in Seq(Entry) /\ boot \in Nat /\ boot <= Len(log)
  BY DEF ControlInit
<1>3. approvals \in [Approvals -> [status : Statuses, agent : Agents \cup {"none"}]]
  BY DEF ControlInit, Statuses
<1>4. operator \in [Operators -> OperatorRecord] /\ call \in [Dispatchers -> CallRecord]
  BY IdleOperatorTyped, IdleCallTyped DEF ControlInit
<1>5. CallTyped
  BY DEF ControlInit, CallTyped, IdleCall
<1> QED BY <1>1, <1>2, <1>3, <1>4, <1>5 DEF ControlTyped

(* A step of an operator, in the terms the invariants need: what happens   *)
(* to the states and the ledger is nothing or one transition, and to the   *)
(* approvals nothing or a denial.                                          *)
OperatorStep(o, r) ==
  /\ operator' = [operator EXCEPT ![o] = r]
  /\ UNCHANGED <<boot, call, restarts>>

LEMMA OperatorTyped ==
  ASSUME ControlTyped, CallTyped, NEW o \in Operators, NEW r \in OperatorRecord, OperatorStep(o, r)
  PROVE  /\ operator' \in [Operators -> OperatorRecord]
         /\ call' \in [Dispatchers -> CallRecord]
         /\ boot' \in Nat /\ restarts' \in Nat
         /\ CallTyped'
BY DEF ControlTyped, CallTyped, OperatorStep

LEMMA CommandTyped ==
  ASSUME ControlTyped, CallTyped, NEW o \in Operators, NEW a \in Agents, NEW command \in Commands,
         Command(o, a, command)
  PROVE  ControlTyped' /\ CallTyped'
<1>1. Transition(a, command)
  BY DEF Command
<1>2. states' \in [Agents -> Controls \cup {"unknown"}] /\ log' \in Seq(Entry) /\ Len(log') = Len(log) + 1
  BY <1>1, TransitionEffect
<1>3. UNCHANGED <<boot, approvals, operator, call, restarts>>
  BY DEF Command
<1>4. Len(log) \in Nat
  BY DEF ControlTyped
<1> QED BY <1>2, <1>3, <1>4 DEF ControlTyped, CallTyped

LEMMA QuarantineTyped ==
  ASSUME ControlTyped, CallTyped, NEW o \in Operators, NEW a \in Agents, Quarantine(o, a)
  PROVE  ControlTyped' /\ CallTyped'
<1> DEFINE r == [IdleOperator EXCEPT !.pc = "drain", !.agent = a,
                   !.pendingAtStart = {p \in PendingApprovals : approvals[p].agent = a}]
<1>1. Transition(a, "quarantine")
  BY DEF Quarantine
<1>2. states' \in [Agents -> Controls \cup {"unknown"}] /\ log' \in Seq(Entry) /\ Len(log') = Len(log) + 1
  BY <1>1, TransitionEffect DEF Commands
<1>3. r \in OperatorRecord
  BY DEF OperatorRecord, IdleOperator, PendingApprovals
<1>4. OperatorStep(o, r) /\ approvals' = approvals
  BY DEF OperatorStep, Quarantine
<1> HIDE DEF r
<1>5. Len(log) \in Nat /\ boot' = boot
  BY <1>4 DEF ControlTyped, OperatorStep
<1> QED BY <1>2, <1>3, <1>4, <1>5, OperatorTyped DEF ControlTyped

LEMMA KillOneTyped ==
  ASSUME ControlTyped, CallTyped, NEW o \in Operators, NEW a \in Agents, KillOne(o, a)
  PROVE  ControlTyped' /\ CallTyped'
<1>0. operator[o] \in OperatorRecord
  BY DEF ControlTyped
<1>1. CASE Transition(a, "revoke") /\ operator' = [operator EXCEPT ![o] = [@ EXCEPT
                !.targets = operator[o].targets \ {a}, !.revokedAny = TRUE]]
  <2> DEFINE r == [operator[o] EXCEPT !.targets = operator[o].targets \ {a}, !.revokedAny = TRUE]
  <2>2. states' \in [Agents -> Controls \cup {"unknown"}] /\ log' \in Seq(Entry) /\ Len(log') = Len(log) + 1
    BY <1>1, TransitionEffect DEF Commands
  <2>3. r \in OperatorRecord
    BY <1>0 DEF OperatorRecord
  <2>4. OperatorStep(o, r) /\ approvals' = approvals
    BY <1>1 DEF OperatorStep, KillOne
  <2> HIDE DEF r
  <2>5. Len(log) \in Nat /\ boot' = boot
    BY <2>4 DEF ControlTyped, OperatorStep
  <2> QED BY <2>2, <2>3, <2>4, <2>5, OperatorTyped DEF ControlTyped
<1>2. CASE /\ operator' = [operator EXCEPT ![o] = [@ EXCEPT !.targets = operator[o].targets \ {a}]]
           /\ UNCHANGED <<states, log>>
  <2> DEFINE r == [operator[o] EXCEPT !.targets = operator[o].targets \ {a}]
  <2>3. r \in OperatorRecord
    BY <1>0 DEF OperatorRecord
  <2>4. OperatorStep(o, r) /\ approvals' = approvals
    BY <1>2 DEF OperatorStep, KillOne
  <2> HIDE DEF r
  <2>5. boot' = boot
    BY <2>4 DEF OperatorStep
  <2> QED BY <1>2, <2>3, <2>4, <2>5, OperatorTyped DEF ControlTyped
<1> QED BY <1>1, <1>2 DEF KillOne

LEMMA OperatorOnlyTyped ==
  ASSUME ControlTyped, CallTyped, NEW o \in Operators, NEW r \in OperatorRecord, OperatorStep(o, r),
         UNCHANGED <<states, log, approvals>>
  PROVE  ControlTyped' /\ CallTyped'
<1>1. boot' = boot
  BY DEF OperatorStep
<1> QED BY <1>1, OperatorTyped DEF ControlTyped

LEMMA DenyItemTyped ==
  ASSUME ControlTyped, CallTyped, NEW o \in Operators, NEW p \in Approvals, DenyItem(o, p)
  PROVE  ControlTyped' /\ CallTyped'
<1> DEFINE r == [operator[o] EXCEPT !.items = operator[o].items \ {p}]
<1>1. operator[o] \in OperatorRecord
  BY DEF ControlTyped
<1>2. r \in OperatorRecord
  BY <1>1 DEF OperatorRecord
<1>3. OperatorStep(o, r) /\ states' = states /\ log' = log
  BY DEF OperatorStep, DenyItem
<1> HIDE DEF r
<1>4. approvals' \in [Approvals -> [status : Statuses, agent : Agents \cup {"none"}]]
  BY DEF ControlTyped, DenyItem, Statuses
<1>5. boot' = boot
  BY <1>3 DEF OperatorStep
<1> QED BY <1>2, <1>3, <1>4, <1>5, OperatorTyped DEF ControlTyped

LEMMA OperateTyped ==
  ASSUME ControlTyped, CallTyped, NEW o \in Operators, Operate(o)
  PROVE  ControlTyped' /\ CallTyped'
<1>0. operator[o] \in OperatorRecord /\ IdleOperator \in OperatorRecord
  BY IdleOperatorTyped DEF ControlTyped
<1>1. ASSUME KillAll(o) PROVE ControlTyped' /\ CallTyped'
  <2> DEFINE targets == {a \in Agents : states[a] \notin {"unknown", "revoked"}}
             r == [IdleOperator EXCEPT !.pc = "kill", !.targets = targets, !.atStart = targets,
                     !.pendingAtStart = PendingApprovals]
  <2>1. r \in OperatorRecord
    BY DEF OperatorRecord, IdleOperator, PendingApprovals
  <2>2. OperatorStep(o, r) /\ UNCHANGED <<states, log, approvals>>
    BY <1>1 DEF OperatorStep, KillAll
  <2> HIDE DEF r
  <2> QED BY <2>1, <2>2, OperatorOnlyTyped
<1>2. ASSUME KillLoopEnds(o) PROVE ControlTyped' /\ CallTyped'
  <2> DEFINE r == IF operator[o].revokedAny THEN [operator[o] EXCEPT !.pc = "drain"] ELSE IdleOperator
  <2>1. r \in OperatorRecord
    BY <1>0 DEF OperatorRecord
  <2>2. OperatorStep(o, r) /\ UNCHANGED <<states, log, approvals>>
    BY <1>2 DEF OperatorStep, KillLoopEnds
  <2> HIDE DEF r
  <2> QED BY <2>1, <2>2, OperatorOnlyTyped
<1>3. ASSUME DrainSnapshot(o) PROVE ControlTyped' /\ CallTyped'
  <2> DEFINE r == [operator[o] EXCEPT !.pc = "deny", !.items = Drainable(o)]
  <2>1. r \in OperatorRecord
    BY <1>0 DEF OperatorRecord, Drainable, PendingApprovals
  <2>2. OperatorStep(o, r) /\ UNCHANGED <<states, log, approvals>>
    BY <1>3 DEF OperatorStep, DrainSnapshot
  <2> HIDE DEF r
  <2> QED BY <2>1, <2>2, OperatorOnlyTyped
<1>4. ASSUME DrainReturns(o) \/ OperatorResumes(o) PROVE ControlTyped' /\ CallTyped'
  <2>1. OperatorStep(o, IdleOperator) /\ UNCHANGED <<states, log, approvals>>
    BY <1>4 DEF OperatorStep, DrainReturns, OperatorResumes
  <2> QED BY <1>0, <2>1, OperatorOnlyTyped
<1>5. ASSUME CommandRaises(o) PROVE ControlTyped' /\ CallTyped'
  <2> DEFINE r == [IdleOperator EXCEPT !.pc = "raised"]
  <2>1. r \in OperatorRecord
    BY <1>0 DEF OperatorRecord
  <2>2. OperatorStep(o, r) /\ UNCHANGED <<states, log, approvals>>
    BY <1>5 DEF OperatorStep, CommandRaises
  <2> HIDE DEF r
  <2> QED BY <2>1, <2>2, OperatorOnlyTyped
<1> QED BY <1>1, <1>2, <1>3, <1>4, <1>5, CommandTyped, QuarantineTyped, KillOneTyped, DenyItemTyped
        DEF Operate

(* A step of a dispatcher.                                                 *)
DispatchStep(d, r) ==
  /\ call' = [call EXCEPT ![d] = r]
  /\ UNCHANGED <<states, log, boot, operator, restarts>>

LEMMA DispatchTyped ==
  ASSUME ControlTyped, CallTyped, NEW d \in Dispatchers, NEW r \in CallRecord, DispatchStep(d, r),
         approvals' \in [Approvals -> [status : Statuses, agent : Agents \cup {"none"}]],
         r.pc # "idle" => r.agent \in Agents,
         r.pc = "consume" => r.approval \in Approvals
  PROVE  ControlTyped' /\ CallTyped'
BY DEF ControlTyped, CallTyped, DispatchStep

(* r is call[d] at another position.                                       *)
Moved(d, r) ==
  r.agent = call[d].agent /\ r.approval = call[d].approval /\ r.stoppedAtStart = call[d].stoppedAtStart

(* The positions a dispatcher can move to, and what it has read when it    *)
(* does.                                                                   *)
Moves(d, r) ==
  \/ r = IdleCall
  \/ r.pc = "is_active" /\ r.agent \in Agents /\ (r.stoppedAtStart => GetState(r.agent) \in Stopped)
  \/ Moved(d, r) /\ call[d].pc = "is_active" /\ r.pc = "policy" /\ GetState(r.agent) = "active"
  \/ /\ Moved(d, r) /\ call[d].pc = "policy" /\ r.pc \in {"route", "consume"}
     /\ r.agent \in DOMAIN Bundle.agents
     /\ r.pc = "consume" => r.approval # NoApproval
  \/ Moved(d, r) /\ call[d].pc = "consume" /\ r.pc = "route"

LEMMA PolicyListsAgent ==
  ASSUME NEW a, NEW request, NEW state, NEW t, Check(a, request, state, t) # "denied"
  PROVE  a \in DOMAIN Bundle.agents
BY DEF Check, BundleGate

LEMMA DispatchMoves ==
  ASSUME ControlTyped, NEW d \in Dispatchers, Dispatch(d)
  PROVE  \E r \in CallRecord : DispatchStep(d, r) /\ Moves(d, r)
<1>0. call[d] \in CallRecord /\ IdleCall \in CallRecord
  BY IdleCallTyped DEF ControlTyped
<1>1. ASSUME NEW a \in Agents, NEW p \in Approvals \cup {NoApproval}, StartCall(d, a, p)
      PROVE  \E r \in CallRecord : DispatchStep(d, r) /\ Moves(d, r)
  <2> DEFINE r == [pc |-> "is_active", agent |-> a, approval |-> p,
                   stoppedAtStart |-> GetState(a) \in Stopped]
  <2>1. r \in CallRecord
    BY DEF CallRecord
  <2>2. DispatchStep(d, r)
    BY <1>1 DEF StartCall, DispatchStep
  <2>3. r.pc = "is_active" /\ r.agent \in Agents /\ (r.stoppedAtStart => GetState(r.agent) \in Stopped)
    OBVIOUS
  <2> HIDE DEF r
  <2> QED BY <2>1, <2>2, <2>3 DEF Moves
<1>2. ASSUME CheckActive(d)
      PROVE  \E r \in CallRecord : DispatchStep(d, r) /\ Moves(d, r)
  <2> DEFINE r == [call[d] EXCEPT !.pc = "policy"]
  <2>1. r \in CallRecord /\ Moved(d, r) /\ r.pc = "policy"
    BY <1>0 DEF CallRecord, Moved
  <2>2. CASE GetState(call[d].agent) = "active"
    <3>1. DispatchStep(d, r)
      BY <1>2, <2>2 DEF CheckActive, DispatchStep
    <3>2. call[d].pc = "is_active"
      BY <1>2 DEF CheckActive
    <3>3. r.agent = call[d].agent
      BY <2>1 DEF Moved
    <3> HIDE DEF r
    <3> QED BY <2>1, <2>2, <3>1, <3>2, <3>3 DEF Moves
  <2>3. CASE GetState(call[d].agent) # "active"
    <3>1. DispatchStep(d, IdleCall)
      BY <1>2, <2>3 DEF CheckActive, DispatchStep
    <3> QED BY <1>0, <3>1 DEF Moves
  <2> QED BY <2>2, <2>3
<1>3. ASSUME CheckPolicy(d)
      PROVE  \E r \in CallRecord : DispatchStep(d, r) /\ Moves(d, r)
  <2> DEFINE agent == call[d].agent
             decisions == {Check(agent, q, GetState(agent), t) : q \in Requests, t \in Times}
             route == [call[d] EXCEPT !.pc = "route"]
             consume == [call[d] EXCEPT !.pc = "consume"]
  <2>1. PICK decision \in decisions \cup {"denied"} :
          \/ call' = [call EXCEPT ![d] = IdleCall]
          \/ /\ decision # "denied" /\ call[d].approval # NoApproval
             /\ call' = [call EXCEPT ![d] = consume]
          \/ decision # "denied" /\ call' = [call EXCEPT ![d] = route]
    BY <1>3 DEF CheckPolicy
  <2>2. decision # "denied" => agent \in DOMAIN Bundle.agents
    BY <2>1, PolicyListsAgent
  <2>3. /\ route \in CallRecord /\ Moved(d, route) /\ route.pc = "route" /\ route.agent = agent
        /\ consume \in CallRecord /\ Moved(d, consume) /\ consume.pc = "consume"
        /\ consume.agent = agent /\ consume.approval = call[d].approval
    BY <1>0 DEF CallRecord, Moved
  <2>4. call[d].pc = "policy" /\ UNCHANGED <<states, log, boot, operator, restarts>>
    BY <1>3 DEF CheckPolicy
  <2> HIDE DEF route, consume, agent
  <2> QED BY <1>0, <2>2, <2>1, <2>3, <2>4 DEF Moves, DispatchStep
<1>4. ASSUME ConsumeApproval(d)
      PROVE  \E r \in CallRecord : DispatchStep(d, r) /\ Moves(d, r)
  <2> DEFINE r == [call[d] EXCEPT !.pc = "route"]
  <2>1. r \in CallRecord /\ Moved(d, r) /\ r.pc = "route"
    BY <1>0 DEF CallRecord, Moved
  <2>2. call[d].pc = "consume"
    BY <1>4 DEF ConsumeApproval
  <2>3. DispatchStep(d, r) \/ DispatchStep(d, IdleCall)
    BY <1>4 DEF ConsumeApproval, DispatchStep
  <2> HIDE DEF r
  <2> QED BY <1>0, <2>1, <2>2, <2>3 DEF Moves
<1>5. ASSUME Route(d)
      PROVE  \E r \in CallRecord : DispatchStep(d, r) /\ Moves(d, r)
  <2>1. DispatchStep(d, IdleCall)
    BY <1>5 DEF Route, DispatchStep
  <2> QED BY <1>0, <2>1 DEF Moves
<1> QED BY <1>1, <1>2, <1>3, <1>4, <1>5 DEF Dispatch

(* An approval keeps its agent once it is submitted, and is never pending  *)
(* again once it is decided or consumed.                                   *)
Decided == {"approved", "denied", "consumed"}

ApprovalMoves(p) ==
  /\ approvals[p].status # "absent" => approvals'[p].agent = approvals[p].agent
  /\ approvals[p].status \in Decided => approvals'[p].status \in Decided
  /\ approvals[p].status = "pending" => approvals'[p].status \in Decided \cup {"pending"}

LEMMA SetStatus ==
  ASSUME ControlTyped, NEW p \in Approvals, NEW s \in Statuses, approvals' = [approvals EXCEPT ![p].status = s]
  PROVE  /\ approvals' \in [Approvals -> [status : Statuses, agent : Agents \cup {"none"}]]
         /\ approvals'[p].status = s
         /\ approvals'[p].agent = approvals[p].agent
         /\ \A q \in Approvals \ {p} : approvals'[q] = approvals[q]
BY DEF ControlTyped

LEMMA ConsumeEffect ==
  ASSUME ControlTyped, CallTyped, NEW d \in Dispatchers, ConsumeApproval(d)
  PROVE  /\ approvals' \in [Approvals -> [status : Statuses, agent : Agents \cup {"none"}]]
         /\ \A q \in Approvals : ApprovalMoves(q)
<1> DEFINE p == call[d].approval
<1>1. p \in Approvals
  BY DEF CallTyped, ConsumeApproval
<1>2. CASE approvals' = approvals
  BY <1>2 DEF ControlTyped, ApprovalMoves, Decided
<1>3. CASE approvals[p].status = "approved" /\ approvals' = [approvals EXCEPT ![p].status = "consumed"]
  <2> HIDE DEF p
  <2>1. "consumed" \in Statuses
    BY DEF Statuses
  <2> QED BY <1>1, <1>3, <2>1, SetStatus DEF ApprovalMoves, Decided
<1> QED BY <1>2, <1>3 DEF ConsumeApproval

LEMMA DispatchApprovals ==
  ASSUME ControlTyped, CallTyped, NEW d \in Dispatchers, Dispatch(d)
  PROVE  /\ approvals' \in [Approvals -> [status : Statuses, agent : Agents \cup {"none"}]]
         /\ \A q \in Approvals : ApprovalMoves(q)
<1>1. CASE approvals' = approvals
  BY <1>1 DEF ControlTyped, ApprovalMoves
<1>2. CASE ConsumeApproval(d)
  BY <1>2, ConsumeEffect
<1> QED BY <1>1, <1>2 DEF Dispatch, StartCall, CheckActive, CheckPolicy, Route

LEMMA QueueEffect ==
  ASSUME ControlTyped, Queue
  PROVE  /\ approvals' \in [Approvals -> [status : Statuses, agent : Agents \cup {"none"}]]
         /\ \A q \in Approvals : ApprovalMoves(q)
         /\ UNCHANGED <<states, log, boot, operator, call, restarts>>
<1>1. PICK p \in Approvals : Audited(p) \/ Approve(p) \/ \E a \in Agents : Submit(p, a)
  BY DEF Queue
<1>2. CASE Audited(p)
  <2>1. "pending" \in Statuses /\ approvals[p].status = "audit_pending"
        /\ approvals' = [approvals EXCEPT ![p].status = "pending"]
    BY <1>2 DEF Audited, Statuses
  <2> QED BY <1>2, <2>1, SetStatus DEF ApprovalMoves, Decided, Audited
<1>3. CASE Approve(p)
  <2>1. "approved" \in Statuses /\ approvals[p].status = "pending"
        /\ approvals' = [approvals EXCEPT ![p].status = "approved"]
    BY <1>3 DEF Approve, Statuses
  <2> QED BY <1>3, <2>1, SetStatus DEF ApprovalMoves, Decided, Approve
<1>4. ASSUME NEW a \in Agents, Submit(p, a)
      PROVE  /\ approvals' \in [Approvals -> [status : Statuses, agent : Agents \cup {"none"}]]
             /\ \A q \in Approvals : ApprovalMoves(q)
             /\ UNCHANGED <<states, log, boot, operator, call, restarts>>
  BY <1>4 DEF Submit, ControlTyped, ApprovalMoves, Decided, Statuses
<1> QED BY <1>1, <1>2, <1>3, <1>4

LEMMA OperateApprovals ==
  ASSUME ControlTyped, NEW o \in Operators, Operate(o)
  PROVE  \A q \in Approvals : ApprovalMoves(q)
<1>1. CASE approvals' = approvals
  BY <1>1 DEF ControlTyped, ApprovalMoves
<1>2. ASSUME NEW p \in Approvals, DenyItem(o, p)
      PROVE  \A q \in Approvals : ApprovalMoves(q)
  <2>1. CASE approvals[p].status = "pending"
    <3>1. "denied" \in Statuses /\ approvals' = [approvals EXCEPT ![p].status = "denied"]
      BY <1>2, <2>1 DEF DenyItem, Statuses
    <3> QED BY <2>1, <3>1, SetStatus DEF ApprovalMoves, Decided
  <2>2. CASE approvals[p].status # "pending"
    BY <1>1, <1>2, <2>2 DEF DenyItem
  <2> QED BY <2>1, <2>2
<1> QED BY <1>1, <1>2 DEF Operate, Command, Quarantine, KillOne, KillAll, KillLoopEnds,
             DrainSnapshot, DrainReturns, CommandRaises, OperatorResumes

LEMMA TypedNext ==
  ASSUME ControlTyped, CallTyped, [ControlNext]_controlVars
  PROVE  ControlTyped' /\ CallTyped'
<1>1. ASSUME NEW a \in Agents, Register(a) PROVE ControlTyped' /\ CallTyped'
  BY <1>1 DEF Register, ControlTyped, CallTyped, Controls
<1>2. ASSUME NEW o \in Operators, Operate(o) PROVE ControlTyped' /\ CallTyped'
  BY <1>2, OperateTyped
<1>3. ASSUME Queue PROVE ControlTyped' /\ CallTyped'
  <2>1. /\ approvals' \in [Approvals -> [status : Statuses, agent : Agents \cup {"none"}]]
        /\ UNCHANGED <<states, log, boot, operator, call, restarts>>
    BY <1>3, QueueEffect
  <2> QED BY <2>1 DEF ControlTyped, CallTyped
<1>4. ASSUME NEW d \in Dispatchers, Dispatch(d) PROVE ControlTyped' /\ CallTyped'
  <2>1. PICK r \in CallRecord : DispatchStep(d, r) /\ Moves(d, r)
    BY <1>4, DispatchMoves
  <2>2. r.pc # "idle" => r.agent \in Agents
    BY <2>1 DEF Moves, Moved, CallTyped, IdleCall
  <2>3. r.pc = "consume" => r.approval \in Approvals
    BY <2>1 DEF Moves, Moved, CallTyped, IdleCall, CallRecord
  <2>4. approvals' \in [Approvals -> [status : Statuses, agent : Agents \cup {"none"}]]
    BY <1>4, DispatchApprovals
  <2> QED BY <2>1, <2>2, <2>3, <2>4, DispatchTyped
<1>5. ASSUME Restart PROVE ControlTyped' /\ CallTyped'
  <2>1. operator' \in [Operators -> OperatorRecord] /\ call' \in [Dispatchers -> CallRecord]
    BY <1>5, IdleOperatorTyped, IdleCallTyped DEF Restart
  <2>2. CallTyped'
    BY <1>5 DEF Restart, CallTyped, IdleCall
  <2>3. /\ states' \in [Agents -> Controls \cup {"unknown"}]
        /\ log' \in Seq(Entry) /\ boot' \in Nat /\ boot' <= Len(log') /\ restarts' \in Nat
    BY <1>5 DEF Restart, ControlTyped
  <2> QED BY <1>5, <2>1, <2>2, <2>3 DEF ControlTyped, Restart
<1>6. ASSUME UNCHANGED controlVars PROVE ControlTyped' /\ CallTyped'
  BY <1>6 DEF controlVars, ControlTyped, CallTyped
<1> QED BY <1>1, <1>2, <1>3, <1>4, <1>5, <1>6 DEF ControlNext

-----------------------------------------------------------------------------
(* The states of the agents and the ledger move together: a step that is   *)
(* not a restart leaves both, registers an agent, or is one transition.    *)

LEMMA StateMoves ==
  ASSUME ControlTyped, [ControlNext]_controlVars
  PROVE  \/ UNCHANGED <<states, log, boot>>
         \/ UNCHANGED <<log, boot>> /\ \E a \in Agents : Register(a)
         \/ boot' = boot /\ \E a \in Agents, command \in Commands : Transition(a, command)
         \/ Restart
<1>1. ASSUME NEW o \in Operators, Operate(o)
      PROVE  \/ UNCHANGED <<states, log, boot>>
             \/ boot' = boot /\ \E a \in Agents, command \in Commands : Transition(a, command)
  BY <1>1 DEF Operate, Command, Quarantine, KillOne, KillAll, KillLoopEnds, DrainSnapshot,
       DrainReturns, CommandRaises, OperatorResumes, DenyItem, Commands
<1>2. ASSUME NEW d \in Dispatchers, Dispatch(d) PROVE UNCHANGED <<states, log, boot>>
  BY <1>2 DEF Dispatch, StartCall, CheckActive, CheckPolicy, ConsumeApproval, Route
<1>3. ASSUME Queue PROVE UNCHANGED <<states, log, boot>>
  BY <1>3, QueueEffect
<1>4. ASSUME UNCHANGED controlVars PROVE UNCHANGED <<states, log, boot>>
  BY <1>4 DEF controlVars
<1> QED BY <1>1, <1>2, <1>3, <1>4 DEF ControlNext, Register

LEMMA StatesMonotone ==
  ASSUME ControlTyped, [ControlNext]_controlVars, NEW a \in Agents
  PROVE  \/ Restart
         \/ /\ states[a] = "revoked" => states'[a] = "revoked"
            /\ GetState(a) \in Stopped => GetState(a)' \in Stopped
<1>1. CASE UNCHANGED <<states, log, boot>>
  BY <1>1 DEF GetState
<1>2. ASSUME NEW b \in Agents, Register(b)
      PROVE  /\ states[a] = "revoked" => states'[a] = "revoked"
             /\ GetState(a) \in Stopped => GetState(a)' \in Stopped
  BY <1>2 DEF Register, ControlTyped, GetState, Stopped
<1>3. ASSUME NEW b \in Agents, NEW command \in Commands, Transition(b, command)
      PROVE  /\ states[a] = "revoked" => states'[a] = "revoked"
             /\ GetState(a) \in Stopped => GetState(a)' \in Stopped
  <2>1. CASE a = b
    BY <1>3, <2>1, TransitionEffect DEF GetState, Stopped
  <2>2. CASE a # b
    <3>1. states'[a] = states[a]
      BY <1>3, <2>2, TransitionEffect
    <3> QED BY <3>1 DEF GetState
  <2> QED BY <2>1, <2>2
<1> QED BY <1>1, <1>2, <1>3, StateMoves

-----------------------------------------------------------------------------
(* AuditMatchesState, which is inductive as it stands.                     *)

LEMMA AuditInit == ControlInit => AuditMatchesState
<1> SUFFICES ASSUME ControlInit PROVE AuditMatchesState
  OBVIOUS
<1>1. \A a \in Agents : EntriesFor(a) = {} /\ GetState(a) = "active"
  <2>1. boot = 0 /\ Len(log) = 0 /\ \A a \in Agents : states[a] = "unknown"
    BY DEF ControlInit
  <2>2. boot + 1 .. Len(log) = {}
    BY <2>1
  <2>3. \A a \in Agents : EntriesFor(a) = {}
    BY <2>2 DEF EntriesFor
  <2> QED BY <2>1, <2>3 DEF GetState
<1> QED BY <1>1 DEF AuditMatchesState

LEMMA AuditStutter ==
  ASSUME AuditMatchesState, UNCHANGED <<log, boot>>, \A a \in Agents : GetState(a)' = GetState(a)
  PROVE  AuditMatchesState'
<1>1. \A a \in Agents : EntriesFor(a)' = EntriesFor(a)
  BY DEF EntriesFor
<1> QED BY <1>1 DEF AuditMatchesState

LEMMA AuditTransition ==
  ASSUME ControlTyped, AuditMatchesState, boot' = boot,
         NEW b \in Agents, NEW command \in Commands, Transition(b, command)
  PROVE  AuditMatchesState'
<1> DEFINE n == Len(log)
<1>1. /\ Len(log') = n + 1
      /\ \A i \in 1 .. n : log'[i] = log[i]
      /\ log'[n + 1].agent = b
      /\ log'[n + 1].from = GetState(b)
      /\ log'[n + 1].to = GetState(b)'
      /\ \A a \in Agents \ {b} : states'[a] = states[a]
  BY TransitionEffect
<1>2. n \in Nat /\ boot \in Nat /\ boot <= n
  BY DEF ControlTyped
<1> SUFFICES ASSUME NEW a \in Agents
             PROVE  /\ EntriesFor(a)' = {} => GetState(a)' = "active"
                    /\ \A i \in EntriesFor(a)' :
                         (\A j \in EntriesFor(a)' : j <= i) => log'[i].to = GetState(a)'
                    /\ \A i, j \in EntriesFor(a)' :
                         (i < j /\ \A k \in EntriesFor(a)' : k <= i \/ j <= k) => log'[i].to = log'[j].from
  BY DEF AuditMatchesState
<1>3. /\ EntriesFor(a) = {} => GetState(a) = "active"
      /\ \A i \in EntriesFor(a) : (\A j \in EntriesFor(a) : j <= i) => log[i].to = GetState(a)
      /\ \A i, j \in EntriesFor(a) :
           (i < j /\ \A k \in EntriesFor(a) : k <= i \/ j <= k) => log[i].to = log[j].from
  BY DEF AuditMatchesState
<1>4. EntriesFor(a) \subseteq 1 .. n
  BY <1>2 DEF EntriesFor
<1>5. CASE a # b
  <2>1. EntriesFor(a)' = EntriesFor(a)
    BY <1>1, <1>2, <1>5 DEF EntriesFor
  <2>2. GetState(a)' = GetState(a)
    BY <1>1, <1>5 DEF GetState
  <2>3. \A i \in EntriesFor(a) : log'[i] = log[i]
    BY <1>1, <1>4
  <2> QED BY <1>3, <2>1, <2>2, <2>3, Zenon
<1>6. CASE a = b
  <2>1. EntriesFor(a)' = EntriesFor(a) \cup {n + 1}
    BY <1>1, <1>2, <1>6 DEF EntriesFor
  <2>2. \A i \in EntriesFor(a) : log'[i] = log[i] /\ i \in Int /\ i < n + 1
    BY <1>1, <1>2, <1>4
  <2>3. \A i \in EntriesFor(a)' : (\A j \in EntriesFor(a)' : j <= i) => log'[i].to = GetState(a)'
    BY <1>1, <1>2, <1>6, <2>1, <2>2
  <2>4. ASSUME NEW i \in EntriesFor(a)', NEW j \in EntriesFor(a)', i < j,
               \A k \in EntriesFor(a)' : k <= i \/ j <= k
        PROVE  log'[i].to = log'[j].from
    <3>1. i \in EntriesFor(a)
      BY <1>2, <2>1, <2>2, <2>4
    <3>2. CASE j = n + 1
      <4>1. \A k \in EntriesFor(a) : k <= i
        BY <1>2, <2>1, <2>2, <2>4, <3>2
      <4> QED BY <1>1, <1>3, <1>6, <2>2, <3>1, <3>2, <4>1
    <3>3. CASE j \in EntriesFor(a)
      <4>1. \A k \in EntriesFor(a) : k <= i \/ j <= k
        BY <2>1, <2>4
      <4> QED BY <1>3, <2>2, <2>4, <3>1, <3>3, <4>1
    <3> QED BY <2>1, <3>2, <3>3
  <2> QED BY <2>1, <2>3, <2>4
<1> QED BY <1>5, <1>6

LEMMA AuditStep ==
  ASSUME ControlTyped, AuditMatchesState, [ControlNext]_controlVars
  PROVE  AuditMatchesState'
<1>1. CASE UNCHANGED <<states, log, boot>>
  <2>1. \A a \in Agents : GetState(a)' = GetState(a)
    BY <1>1 DEF GetState
  <2> QED BY <1>1, <2>1, AuditStutter
<1>2. ASSUME NEW b \in Agents, Register(b), UNCHANGED <<log, boot>> PROVE AuditMatchesState'
  <2>1. \A a \in Agents : GetState(a)' = GetState(a)
    BY <1>2 DEF GetState, Register, ControlTyped
  <2> QED BY <1>2, <2>1, AuditStutter
<1>3. ASSUME Restart PROVE AuditMatchesState'
  <2>1. boot' = Len(log') /\ Len(log') \in Nat
    BY <1>3 DEF Restart, ControlTyped
  <2>2. \A a \in Agents : EntriesFor(a)' = {} /\ GetState(a)' = "active"
    BY <1>3, <2>1 DEF EntriesFor, GetState, Restart
  <2> QED BY <2>2 DEF AuditMatchesState
<1> QED BY <1>1, <1>2, <1>3, AuditTransition, StateMoves

(* The signed ledger accounts for every agent's state, at every moment and *)
(* in every process: _transition appends under the lock before it assigns, *)
(* and register publishes nothing get_state did not already say.           *)
THEOREM LedgerAccountsForStates == ControlSpec => []AuditMatchesState
<1> DEFINE ControlInv == ControlTyped /\ CallTyped /\ AuditMatchesState
<1>1. ControlInit => ControlInv
  BY TypedInit, AuditInit
<1>2. ControlInv /\ [ControlNext]_controlVars => ControlInv'
  BY TypedNext, AuditStep
<1> QED BY <1>1, <1>2, PTL DEF ControlSpec

-----------------------------------------------------------------------------
(* NoActionAfterStop: a call that began when its agent was stopped finds   *)
(* it stopped at is_active, since only a restart, which ends every call,   *)
(* makes the agent active again; so it never gets past that check.         *)

CallInv ==
  \A d \in Dispatchers :
    /\ call[d].pc # "idle" /\ call[d].stoppedAtStart =>
         call[d].pc = "is_active" /\ GetState(call[d].agent) \in Stopped
    /\ call[d].pc \in {"consume", "route"} => call[d].agent \in DOMAIN Bundle.agents

LEMMA CallInit == ControlInit => CallInv
BY DEF ControlInit, CallInv, IdleCall

LEMMA CallStep ==
  ASSUME ControlTyped, CallTyped, CallInv, [ControlNext]_controlVars
  PROVE  CallInv'
<1>1. ASSUME Restart PROVE CallInv'
  BY <1>1 DEF Restart, CallInv, IdleCall
<1>2. ASSUME ~Restart, call' = call PROVE CallInv'
  <2>1. \A a \in Agents : GetState(a) \in Stopped => GetState(a)' \in Stopped
    BY <1>2, StatesMonotone
  <2> SUFFICES ASSUME NEW d \in Dispatchers
               PROVE  /\ call'[d].pc # "idle" /\ call'[d].stoppedAtStart =>
                           call'[d].pc = "is_active" /\ GetState(call[d].agent)' \in Stopped
                      /\ call'[d].pc \in {"consume", "route"} => call'[d].agent \in DOMAIN Bundle.agents
    BY <1>2 DEF CallInv
  <2>2. call'[d].pc # "idle" /\ GetState(call[d].agent) \in Stopped => GetState(call[d].agent)' \in Stopped
    BY <1>2, <2>1 DEF CallTyped, GetState
  <2> QED BY <1>2, <2>2 DEF CallInv
<1>3. ASSUME NEW d \in Dispatchers, Dispatch(d) PROVE CallInv'
  <2>1. PICK r \in CallRecord : DispatchStep(d, r) /\ Moves(d, r)
    BY <1>3, DispatchMoves
  <2>2. /\ r.pc # "idle" /\ r.stoppedAtStart => r.pc = "is_active" /\ GetState(r.agent) \in Stopped
        /\ r.pc \in {"consume", "route"} => r.agent \in DOMAIN Bundle.agents
    BY <2>1 DEF Moves, Moved, CallInv, IdleCall, Stopped
  <2>3. call' = [call EXCEPT ![d] = r] /\ states' = states
    BY <2>1 DEF DispatchStep
  <2> QED BY <2>2, <2>3 DEF CallInv, ControlTyped, GetState
<1>4. call' = call \/ Restart \/ \E d \in Dispatchers : Dispatch(d)
  BY QueueEffect DEF ControlNext, controlVars, Register, Operate, Command, Quarantine, KillOne, KillAll,
       KillLoopEnds, DrainSnapshot, DrainReturns, CommandRaises, OperatorResumes, DenyItem
<1> QED BY <1>1, <1>2, <1>3, <1>4

(* Within one process lifetime a tool call that begins with its agent      *)
(* quarantined or revoked is never routed: _require_execution_authorization*)
(* reads the state after the call arrived, and no command makes a stopped  *)
(* agent active.  A restart does, and ends the calls that were under way.  *)
THEOREM StoppedAgentsDoNotAct == ControlSpec => []NoActionAfterStop
<1> DEFINE ControlInv == ControlTyped /\ CallTyped /\ CallInv
<1>1. ControlInit => ControlInv
  BY TypedInit, CallInit
<1>2. ControlInv /\ [ControlNext]_controlVars => ControlInv'
  BY TypedNext, CallStep
<1>3. ControlInv => NoActionAfterStop
  BY DEF CallInv, NoActionAfterStop
<1> QED BY <1>1, <1>2, <1>3, PTL DEF ControlSpec

-----------------------------------------------------------------------------
LEMMA OperatorIdleSteps ==
  ASSUME ControlTyped, [ControlNext]_controlVars
  PROVE  operator' = operator \/ Restart \/ \E o \in Operators : Operate(o)
<1>1. ASSUME NEW d \in Dispatchers, Dispatch(d) PROVE operator' = operator
  BY <1>1, DispatchMoves DEF DispatchStep
<1>2. ASSUME Queue PROVE operator' = operator
  BY <1>2, QueueEffect
<1> QED BY <1>1, <1>2 DEF ControlNext, controlVars, Register

(* KillAllRevokes: an agent of the snapshot is still a target or revoked.  *)

KillInv ==
  \A o \in Operators : operator[o].pc = "kill" =>
    \A a \in operator[o].atStart : a \in operator[o].targets \/ states[a] = "revoked"

LEMMA KillInit == ControlInit => KillInv
<1> SUFFICES ASSUME ControlInit PROVE KillInv
  OBVIOUS
<1>1. \A o \in Operators : operator[o].pc = "idle"
  BY DEF ControlInit, IdleOperator
<1> QED BY <1>1 DEF KillInv

LEMMA KillStep ==
  ASSUME ControlTyped, KillInv, [ControlNext]_controlVars
  PROVE  KillInv'
<1>1. ASSUME Restart PROVE KillInv'
  BY <1>1 DEF Restart, KillInv, IdleOperator
<1>2. ASSUME ~Restart PROVE \A a \in Agents : states[a] = "revoked" => states'[a] = "revoked"
  BY <1>2, StatesMonotone
<1>3. ASSUME ~Restart, operator' = operator PROVE KillInv'
  BY <1>2, <1>3 DEF KillInv, ControlTyped, OperatorRecord
<1>4. ASSUME NEW o \in Operators, NEW r, operator' = [operator EXCEPT ![o] = r], ~Restart,
             r.pc = "kill" => \A a \in r.atStart : a \in r.targets \/ states'[a] = "revoked"
      PROVE  KillInv'
  BY <1>2, <1>4 DEF KillInv, ControlTyped, OperatorRecord
<1>5. ASSUME NEW o \in Operators, NEW a \in Agents, KillOne(o, a), ~Restart PROVE KillInv'
  <2>1. operator[o] \in OperatorRecord
    BY DEF ControlTyped
  <2>2. /\ operator[o].pc = "kill"
        /\ \A b \in operator[o].atStart : b \in operator[o].targets \/ states[b] = "revoked"
        /\ operator[o].atStart \subseteq Agents
    BY <1>5, <2>1 DEF KillOne, KillInv, OperatorRecord
  <2>3. GetState(a) \in Controls
    BY StateRead
  <2>4. CASE Transition(a, "revoke") /\ operator' = [operator EXCEPT ![o] = [@ EXCEPT
                !.targets = operator[o].targets \ {a}, !.revokedAny = TRUE]]
    <3> DEFINE r == [operator[o] EXCEPT !.targets = operator[o].targets \ {a}, !.revokedAny = TRUE]
    <3>1. r.atStart = operator[o].atStart /\ r.targets = operator[o].targets \ {a}
      BY <2>1 DEF OperatorRecord
    <3>2. operator' = [operator EXCEPT ![o] = r]
      BY <2>4
    <3> HIDE DEF r
    <3>3. NextState(GetState(a), "revoke") = "revoked"
      BY <2>3, <2>4, RevokePermitted DEF Transition, Permitted
    <3>4. states'[a] = "revoked"
      BY <2>4, <3>3 DEF Transition, ControlTyped
    <3> QED BY <1>2, <1>4, <1>5, <2>2, <3>1, <3>2, <3>4
  <2>5. CASE ~Permitted(a, "revoke") /\ states' = states
             /\ operator' = [operator EXCEPT ![o] = [@ EXCEPT !.targets = operator[o].targets \ {a}]]
    <3> DEFINE r == [operator[o] EXCEPT !.targets = operator[o].targets \ {a}]
    <3>1. r.atStart = operator[o].atStart /\ r.targets = operator[o].targets \ {a}
      BY <2>1 DEF OperatorRecord
    <3>2. operator' = [operator EXCEPT ![o] = r]
      BY <2>5
    <3> HIDE DEF r
    <3>3. GetState(a) = "revoked"
      BY <2>3, <2>5, RevokePermitted DEF Permitted
    <3>4. states'[a] = "revoked"
      BY <2>5, <3>3 DEF GetState
    <3> QED BY <1>2, <1>4, <1>5, <2>2, <3>1, <3>2, <3>4
  <2> QED BY <1>5, <2>4, <2>5 DEF KillOne
<1>6. ASSUME NEW o \in Operators, KillAll(o), ~Restart PROVE KillInv'
  <2> DEFINE targets == {a \in Agents : states[a] \notin {"unknown", "revoked"}}
             r == [IdleOperator EXCEPT !.pc = "kill", !.targets = targets, !.atStart = targets,
                     !.pendingAtStart = PendingApprovals]
  <2>1. r.atStart = targets /\ r.targets = targets
    BY DEF IdleOperator
  <2>2. operator' = [operator EXCEPT ![o] = r]
    BY <1>6 DEF KillAll
  <2> HIDE DEF r, targets
  <2> QED BY <1>4, <1>6, <2>1, <2>2
<1>7. ASSUME NEW o \in Operators, Operate(o), ~Restart PROVE KillInv'
  <2>1. ASSUME NEW r, operator' = [operator EXCEPT ![o] = r], r.pc # "kill" PROVE KillInv'
    BY <1>4, <1>7, <2>1
  <2>2. operator[o] \in OperatorRecord
    BY DEF ControlTyped
  <2>3. ASSUME NEW a \in Agents, Quarantine(o, a) PROVE KillInv'
    <3> DEFINE r == [IdleOperator EXCEPT !.pc = "drain", !.agent = a,
                       !.pendingAtStart = {p \in PendingApprovals : approvals[p].agent = a}]
    <3>1. operator' = [operator EXCEPT ![o] = r] /\ r.pc = "drain"
      BY <2>3 DEF Quarantine, IdleOperator
    <3> HIDE DEF r
    <3> QED BY <2>1, <3>1
  <2>4. ASSUME KillLoopEnds(o) PROVE KillInv'
    <3> DEFINE r == [operator[o] EXCEPT !.pc = "drain"]
    <3>1. /\ \/ operator' = [operator EXCEPT ![o] = r]
             \/ operator' = [operator EXCEPT ![o] = IdleOperator]
          /\ r.pc = "drain" /\ IdleOperator.pc = "idle"
      BY <2>2, <2>4 DEF KillLoopEnds, IdleOperator, OperatorRecord
    <3> HIDE DEF r
    <3> QED BY <2>1, <3>1
  <2>5. ASSUME DrainSnapshot(o) PROVE KillInv'
    <3> DEFINE r == [operator[o] EXCEPT !.pc = "deny", !.items = Drainable(o)]
    <3>1. operator' = [operator EXCEPT ![o] = r] /\ r.pc = "deny"
      BY <2>2, <2>5 DEF DrainSnapshot, OperatorRecord
    <3> HIDE DEF r
    <3> QED BY <2>1, <3>1
  <2>6. ASSUME NEW p \in Approvals, DenyItem(o, p) PROVE KillInv'
    <3> DEFINE r == [operator[o] EXCEPT !.items = operator[o].items \ {p}]
    <3>1. operator' = [operator EXCEPT ![o] = r] /\ r.pc = "deny"
      BY <2>2, <2>6 DEF DenyItem, OperatorRecord
    <3> HIDE DEF r
    <3> QED BY <2>1, <3>1
  <2>7. ASSUME DrainReturns(o) \/ OperatorResumes(o) PROVE KillInv'
    BY <2>1, <2>7 DEF DrainReturns, OperatorResumes, IdleOperator
  <2>8. ASSUME CommandRaises(o) PROVE KillInv'
    <3> DEFINE r == [IdleOperator EXCEPT !.pc = "raised"]
    <3>1. operator' = [operator EXCEPT ![o] = r] /\ r.pc = "raised"
      BY <2>8 DEF CommandRaises, IdleOperator
    <3> HIDE DEF r
    <3> QED BY <2>1, <3>1
  <2>9. ASSUME NEW a \in Agents, NEW command \in Commands, Command(o, a, command) PROVE KillInv'
    BY <1>3, <1>7, <2>9 DEF Command
  <2> QED BY <1>5, <1>6, <1>7, <2>3, <2>4, <2>5, <2>6, <2>7, <2>8, <2>9 DEF Operate
<1>8. operator' = operator \/ Restart \/ \E o \in Operators : Operate(o)
  BY OperatorIdleSteps
<1> QED BY <1>1, <1>3, <1>7, <1>8

(* kill_all leaves its loop only with every agent of its snapshot revoked, *)
(* by itself or by a concurrent command whose ValueError it swallowed.     *)
THEOREM KillAllReachesEveryone == ControlSpec => []KillAllRevokes
<1> DEFINE ControlInv == ControlTyped /\ CallTyped /\ KillInv
<1>1. ControlInit => ControlInv
  BY TypedInit, KillInit
<1>2. ControlInv /\ [ControlNext]_controlVars => ControlInv'
  BY TypedNext, KillStep
<1>3. ControlInv => KillAllRevokes
  BY DEF KillInv, KillAllRevokes
<1> QED BY <1>1, <1>2, <1>3, PTL DEF ControlSpec

-----------------------------------------------------------------------------
(* ReturnsDrained: what was pending when the command began keeps its       *)
(* agent, so the drain's snapshot holds it if it is still pending then,    *)
(* and until the item is worked off it is in the snapshot or decided.      *)

DrainInv ==
  \A o \in Operators : operator[o].pc \in {"kill", "drain", "deny"} =>
    /\ operator[o].pc = "kill" => operator[o].agent = "none"
    /\ \A p \in operator[o].pendingAtStart :
         /\ approvals[p].status \in Decided \cup {"pending"}
         /\ operator[o].agent = "none" \/ approvals[p].agent = operator[o].agent
         /\ operator[o].pc = "deny" /\ approvals[p].status = "pending" => p \in operator[o].items

(* The part of DrainInv about one operator record, in the next state.      *)
DrainsNext(r) ==
  r.pc \in {"kill", "drain", "deny"} =>
    /\ r.pc = "kill" => r.agent = "none"
    /\ \A p \in r.pendingAtStart :
         /\ approvals'[p].status \in Decided \cup {"pending"}
         /\ r.agent = "none" \/ approvals'[p].agent = r.agent
         /\ r.pc = "deny" /\ approvals'[p].status = "pending" => p \in r.items

LEMMA DrainInit == ControlInit => DrainInv
<1> SUFFICES ASSUME ControlInit PROVE DrainInv
  OBVIOUS
<1>1. \A o \in Operators : operator[o].pc = "idle"
  BY DEF ControlInit, IdleOperator
<1> QED BY <1>1 DEF DrainInv

LEMMA DrainKept ==
  ASSUME ControlTyped, DrainInv, NEW o \in Operators, \A p \in Approvals : ApprovalMoves(p)
  PROVE  DrainsNext(operator[o])
BY DEF DrainInv, DrainsNext, ControlTyped, OperatorRecord, ApprovalMoves, Decided

LEMMA DrainOperator ==
  ASSUME ControlTyped, DrainInv, \A p \in Approvals : ApprovalMoves(p),
         NEW o \in Operators, NEW r, operator' = [operator EXCEPT ![o] = r], DrainsNext(r)
  PROVE  DrainInv'
<1>1. \A n \in Operators : DrainsNext(operator'[n])
  BY DrainKept DEF ControlTyped
<1> QED BY <1>1 DEF DrainInv, DrainsNext

LEMMA DrainOperate ==
  ASSUME ControlTyped, DrainInv, NEW o \in Operators, Operate(o)
  PROVE  DrainInv'
<1>0. \A p \in Approvals : ApprovalMoves(p)
  BY OperateApprovals
<1>1. operator[o] \in OperatorRecord /\ DrainsNext(operator[o])
  BY <1>0, DrainKept DEF ControlTyped
<1>2. ASSUME NEW r, operator' = [operator EXCEPT ![o] = r], DrainsNext(r) PROVE DrainInv'
  BY <1>0, <1>2, DrainOperator
<1>3. ASSUME NEW a \in Agents, NEW command \in Commands, Command(o, a, command) PROVE DrainInv'
  <2>1. operator' = [operator EXCEPT ![o] = operator[o]]
    BY <1>3 DEF Command, ControlTyped
  <2> QED BY <1>1, <1>2, <2>1
<1>4. ASSUME NEW a \in Agents, Quarantine(o, a) PROVE DrainInv'
  <2> DEFINE r == [IdleOperator EXCEPT !.pc = "drain", !.agent = a,
                     !.pendingAtStart = {p \in PendingApprovals : approvals[p].agent = a}]
  <2>1. operator' = [operator EXCEPT ![o] = r] /\ approvals' = approvals
    BY <1>4 DEF Quarantine
  <2>2. /\ r.pc = "drain" /\ r.agent = a
        /\ r.pendingAtStart = {p \in PendingApprovals : approvals[p].agent = a}
    BY DEF IdleOperator
  <2> HIDE DEF r
  <2>3. DrainsNext(r)
    BY <2>1, <2>2 DEF DrainsNext, PendingApprovals
  <2> QED BY <1>2, <2>1, <2>3
<1>5. ASSUME NEW a \in Agents, KillOne(o, a) PROVE DrainInv'
  <2> DEFINE r1 == [operator[o] EXCEPT !.targets = operator[o].targets \ {a}, !.revokedAny = TRUE]
             r2 == [operator[o] EXCEPT !.targets = operator[o].targets \ {a}]
  <2>1. \/ operator' = [operator EXCEPT ![o] = r1]
        \/ operator' = [operator EXCEPT ![o] = r2]
    BY <1>5 DEF KillOne
  <2>2. /\ r1.pc = operator[o].pc /\ r1.agent = operator[o].agent /\ r1.items = operator[o].items
        /\ r1.pendingAtStart = operator[o].pendingAtStart
        /\ r2.pc = operator[o].pc /\ r2.agent = operator[o].agent /\ r2.items = operator[o].items
        /\ r2.pendingAtStart = operator[o].pendingAtStart
    BY <1>1 DEF OperatorRecord
  <2> HIDE DEF r1, r2
  <2>3. DrainsNext(r1) /\ DrainsNext(r2)
    BY <1>1, <2>2 DEF DrainsNext
  <2> QED BY <1>2, <2>1, <2>3
<1>6. ASSUME KillAll(o) PROVE DrainInv'
  <2> DEFINE targets == {a \in Agents : states[a] \notin {"unknown", "revoked"}}
             r == [IdleOperator EXCEPT !.pc = "kill", !.targets = targets, !.atStart = targets,
                     !.pendingAtStart = PendingApprovals]
  <2>1. operator' = [operator EXCEPT ![o] = r] /\ approvals' = approvals
    BY <1>6 DEF KillAll
  <2>2. r.pc = "kill" /\ r.agent = "none" /\ r.pendingAtStart = PendingApprovals
    BY DEF IdleOperator
  <2> HIDE DEF r, targets
  <2>3. DrainsNext(r)
    BY <2>1, <2>2 DEF DrainsNext, PendingApprovals
  <2> QED BY <1>2, <2>1, <2>3
<1>7. DrainsNext(IdleOperator)
  BY DEF DrainsNext, IdleOperator
<1>8. ASSUME KillLoopEnds(o) PROVE DrainInv'
  <2> DEFINE r == [operator[o] EXCEPT !.pc = "drain"]
  <2>1. \/ operator' = [operator EXCEPT ![o] = r]
        \/ operator' = [operator EXCEPT ![o] = IdleOperator]
    BY <1>8 DEF KillLoopEnds
  <2>2. /\ r.pc = "drain" /\ r.agent = operator[o].agent /\ operator[o].pc = "kill"
        /\ r.pendingAtStart = operator[o].pendingAtStart
    BY <1>1, <1>8 DEF OperatorRecord, KillLoopEnds
  <2> HIDE DEF r
  <2>3. DrainsNext(r)
    BY <1>1, <2>2 DEF DrainsNext
  <2> QED BY <1>2, <1>7, <2>1, <2>3
<1>9. ASSUME DrainSnapshot(o) PROVE DrainInv'
  <2> DEFINE r == [operator[o] EXCEPT !.pc = "deny", !.items = Drainable(o)]
  <2>1. operator' = [operator EXCEPT ![o] = r] /\ approvals' = approvals /\ operator[o].pc = "drain"
    BY <1>9 DEF DrainSnapshot
  <2>2. /\ r.pc = "deny" /\ r.agent = operator[o].agent /\ r.items = Drainable(o)
        /\ r.pendingAtStart = operator[o].pendingAtStart /\ r.pendingAtStart \subseteq Approvals
    BY <1>1 DEF OperatorRecord
  <2> HIDE DEF r
  <2>3. DrainsNext(r)
    BY <1>1, <2>1, <2>2 DEF DrainsNext, Drainable, PendingApprovals
  <2> QED BY <1>2, <2>1, <2>3
<1>10. ASSUME NEW p \in Approvals, DenyItem(o, p) PROVE DrainInv'
  <2> DEFINE r == [operator[o] EXCEPT !.items = operator[o].items \ {p}]
  <2>1. operator' = [operator EXCEPT ![o] = r] /\ approvals'[p].status # "pending"
    BY <1>10 DEF DenyItem, ControlTyped
  <2>2. /\ r.pc = operator[o].pc /\ r.agent = operator[o].agent /\ r.items = operator[o].items \ {p}
        /\ r.pendingAtStart = operator[o].pendingAtStart
    BY <1>1 DEF OperatorRecord
  <2> HIDE DEF r
  <2>3. DrainsNext(r)
    BY <1>1, <2>1, <2>2 DEF DrainsNext
  <2> QED BY <1>2, <2>1, <2>3
<1>11. ASSUME DrainReturns(o) \/ OperatorResumes(o) PROVE DrainInv'
  BY <1>2, <1>7, <1>11 DEF DrainReturns, OperatorResumes
<1>12. ASSUME CommandRaises(o) PROVE DrainInv'
  <2> DEFINE r == [IdleOperator EXCEPT !.pc = "raised"]
  <2>1. operator' = [operator EXCEPT ![o] = r] /\ r.pc = "raised"
    BY <1>12 DEF CommandRaises, IdleOperator
  <2> HIDE DEF r
  <2> QED BY <1>2, <2>1 DEF DrainsNext
<1> QED BY <1>3, <1>4, <1>5, <1>6, <1>8, <1>9, <1>10, <1>11, <1>12 DEF Operate

LEMMA DrainStep ==
  ASSUME ControlTyped, CallTyped, DrainInv, [ControlNext]_controlVars
  PROVE  DrainInv'
<1>1. ASSUME operator' = operator, \A p \in Approvals : ApprovalMoves(p) PROVE DrainInv'
  <2>1. \A o \in Operators : DrainsNext(operator'[o])
    BY <1>1, DrainKept
  <2> QED BY <2>1 DEF DrainInv, DrainsNext
<1>2. ASSUME operator' = operator, approvals' = approvals PROVE DrainInv'
  BY <1>1, <1>2 DEF ApprovalMoves
<1>3. ASSUME NEW d \in Dispatchers, Dispatch(d) PROVE DrainInv'
  BY <1>1, <1>3, DispatchMoves, DispatchApprovals DEF DispatchStep
<1>4. ASSUME Queue PROVE DrainInv'
  BY <1>1, <1>4, QueueEffect
<1>5. ASSUME Restart PROVE DrainInv'
  <2>1. \A o \in Operators : operator'[o].pc = "idle"
    BY <1>5 DEF Restart, IdleOperator
  <2> QED BY <2>1 DEF DrainInv
<1> QED BY <1>2, <1>3, <1>4, <1>5, DrainOperate DEF ControlNext, controlVars, Register

(* A command that returns leaves through the end of the drain, or, as a    *)
(* kill_all that revoked nobody, through the end of its loop.              *)
LEMMA CommandReturnsOnly ==
  ASSUME ControlTyped, DrainInv, [ControlNext]_controlVars, NEW o \in Operators, CommandReturns(o)
  PROVE  \/ operator[o].pc = "deny" /\ operator[o].items = {}
         \/ operator[o].agent = "none" /\ ~operator[o].revokedAny
<1>1. ~Restart
  BY DEF Restart, ControlTyped, CommandReturns
<1>2. PICK n \in Operators : Operate(n)
  <2>1. operator' # operator
    BY DEF CommandReturns
  <2> QED BY <1>1, <2>1, OperatorIdleSteps
<1>3. ASSUME NEW r, operator' = [operator EXCEPT ![n] = r] PROVE n = o /\ r.pc = "idle"
  BY <1>3 DEF ControlTyped, CommandReturns
<1>4. operator[n] \in OperatorRecord
  BY DEF ControlTyped
<1>5. n = o
  BY <1>2 DEF ControlTyped, CommandReturns, Operate, Command, Quarantine, KillOne, KillAll, KillLoopEnds,
       DrainSnapshot, DrainReturns, CommandRaises, OperatorResumes, DenyItem
<1>6. ASSUME NEW r \in OperatorRecord, r.pc # "idle", operator' = [operator EXCEPT ![o] = r] PROVE FALSE
  BY <1>3, <1>5, <1>6
<1>7. ASSUME NEW p \in Approvals, DenyItem(o, p) PROVE FALSE
  <2> DEFINE r == [operator[o] EXCEPT !.items = operator[o].items \ {p}]
  <2>1. operator' = [operator EXCEPT ![o] = r] /\ r \in OperatorRecord /\ r.pc = "deny"
    BY <1>4, <1>5, <1>7 DEF DenyItem, OperatorRecord
  <2> HIDE DEF r
  <2> QED BY <1>6, <2>1
<1>8. ASSUME CommandRaises(o) PROVE FALSE
  <2> DEFINE r == [IdleOperator EXCEPT !.pc = "raised"]
  <2>1. operator' = [operator EXCEPT ![o] = r] /\ r.pc = "raised"
    BY <1>8 DEF CommandRaises, IdleOperator
  <2> HIDE DEF r
  <2> QED BY <1>3, <1>5, <2>1
<1>9. ASSUME NEW a \in Agents, KillOne(o, a) PROVE FALSE
  <2> DEFINE r1 == [operator[o] EXCEPT !.targets = operator[o].targets \ {a}, !.revokedAny = TRUE]
             r2 == [operator[o] EXCEPT !.targets = operator[o].targets \ {a}]
  <2>1. operator[o].pc = "kill" /\ (operator' = [operator EXCEPT ![o] = r1] \/ operator' = [operator EXCEPT ![o] = r2])
    BY <1>9 DEF KillOne
  <2>2. r1 \in OperatorRecord /\ r2 \in OperatorRecord /\ r1.pc = operator[o].pc /\ r2.pc = operator[o].pc
    BY <1>4, <1>5 DEF OperatorRecord
  <2> HIDE DEF r1, r2
  <2> QED BY <1>6, <2>1, <2>2
<1>10. ASSUME DrainSnapshot(o) PROVE FALSE
  <2> DEFINE r == [operator[o] EXCEPT !.pc = "deny", !.items = Drainable(o)]
  <2>1. operator' = [operator EXCEPT ![o] = r]
    BY <1>10 DEF DrainSnapshot
  <2>2. r.pc = "deny"
    BY <1>4, <1>5 DEF OperatorRecord
  <2> HIDE DEF r
  <2> QED BY <1>3, <2>1, <2>2, <1>5
<1>11. CASE DrainReturns(o)
  BY <1>11 DEF DrainReturns
<1>12. CASE KillLoopEnds(o)
  <2>1. CASE operator[o].revokedAny
    <3> DEFINE r == [operator[o] EXCEPT !.pc = "drain"]
    <3>1. operator' = [operator EXCEPT ![o] = r]
      BY <1>12, <2>1 DEF KillLoopEnds
    <3>2. r.pc = "drain"
      BY <1>4, <1>5 DEF OperatorRecord
    <3> HIDE DEF r
    <3> QED BY <1>3, <3>1, <3>2, <1>5
  <2>2. CASE ~operator[o].revokedAny
    BY <1>12, <2>2 DEF KillLoopEnds, DrainInv
  <2> QED BY <2>1, <2>2
<1>13. operator[o].pc \in {"kill", "drain", "deny"}
  BY DEF CommandReturns
<1> QED BY <1>2, <1>5, <1>7, <1>8, <1>9, <1>10, <1>11, <1>12, <1>13 DEF Operate, Command, Quarantine,
       KillAll, OperatorResumes

(* quarantine, and a kill_all that revoked somebody, return only when      *)
(* nothing is pending any more that was pending when they began, whatever  *)
(* was submitted, approved or denied in between.                           *)
THEOREM DrainLeavesNothingPending == ControlSpec => ReturnsDrained
<1> DEFINE ControlInv == ControlTyped /\ CallTyped /\ DrainInv
<1>1. ControlInit => ControlInv
  BY TypedInit, DrainInit
<1>2. ControlInv /\ [ControlNext]_controlVars => ControlInv'
  BY TypedNext, DrainStep
<1>3. ControlInv /\ [ControlNext]_controlVars =>
        [\A o \in Operators :
           CommandReturns(o) /\ (operator[o].agent # "none" \/ operator[o].revokedAny) =>
             \A p \in operator[o].pendingAtStart : approvals[p].status # "pending"]_controlVars
  BY CommandReturnsOnly DEF DrainInv
<1> QED BY <1>1, <1>2, <1>3, PTL DEF ControlSpec, ReturnsDrained
=============================================================================
