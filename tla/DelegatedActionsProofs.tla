----------------------- MODULE DelegatedActionsProofs -----------------------
(***************************************************************************)
(* Theorems about DelegatedActions, for every number of threads, sessions, *)
(* grants, action ids and crashes.                                         *)
(***************************************************************************)
EXTENDS DelegatedActions, TLAPS

(* A thread in the middle of a call carries the call's proof.              *)
ProofHeld == \A w \in Workers : worker[w].pc \in Steps => worker[w].proof \in Proofs

Typed == TypeOK /\ ProofHeld

(* The thread has claimed its action id and not yet left finish().         *)
Holding(w) == worker[w].pc \in {"actuator", "begin", "route", "finish"}

(* The claim is on record, nobody else holds it, and it has not been       *)
(* actuated before its holder passes the actuator.                         *)
HeldAlone ==
  \A w \in Workers : Holding(w) =>
    /\ store[worker[w].proof.action].outcome # "absent"
    /\ \A v \in Workers : Holding(v) /\ worker[v].proof.action = worker[w].proof.action => v = w
    /\ worker[w].pc # "finish" => actuated[worker[w].proof.action] = 0

UnclaimedUntouched == \A a \in Actions : store[a].outcome = "absent" => actuated[a] = 0

OnceInv == HeldAlone /\ UnclaimedUntouched /\ ActuatedAtMostOnce

-----------------------------------------------------------------------------
LEMMA IdleWorkerTyped == IdleWorker \in WorkerType /\ IdleWorker.pc = "idle"
BY DEF IdleWorker, WorkerType

LEMMA InitTyped == Init => Typed
<1> SUFFICES ASSUME Init PROVE Typed
  OBVIOUS
<1>1. sessions \in [Sessions -> SessionType] /\ store \in [Actions -> RowType]
  BY DEF Init, NewSession, SessionType, AbsentRow, RowType
<1>2. worker \in [Workers -> WorkerType] /\ ProofHeld
  BY IdleWorkerTyped DEF Init, ProofHeld, Steps
<1>3. watcher \in WatcherType
  BY DEF Init, IdleWatcher, WatcherType
<1>4. crashes \in 0..MaxCrashes /\ lapses \in 0..MaxLapses
  BY DelegationConstants DEF Init
<1>5. QED BY <1>1, <1>2, <1>3, <1>4 DEF Init, Typed, TypeOK, NotIssued

(* A thread moves on within its call.                                      *)
LEMMA AdvanceTyped ==
  ASSUME Typed, NEW w \in Workers, NEW pc \in Steps, worker[w].pc \in Steps, Advance(w, pc)
  PROVE  worker' \in [Workers -> WorkerType] /\ ProofHeld'
<1>1. [worker[w] EXCEPT !.pc = pc] \in WorkerType
  BY DEF Typed, TypeOK, WorkerType
<1>2. worker' \in [Workers -> WorkerType]
  BY <1>1 DEF Advance, Typed, TypeOK
<1>3. ProofHeld'
  BY DEF Typed, TypeOK, ProofHeld, Advance, WorkerType
<1>4. QED BY <1>2, <1>3

(* A thread leaves its call.                                               *)
LEMMA ReturnTyped ==
  ASSUME Typed, NEW w \in Workers, Return(w)
  PROVE  worker' \in [Workers -> WorkerType] /\ ProofHeld'
<1>1. worker' \in [Workers -> WorkerType]
  BY IdleWorkerTyped DEF Return, Typed, TypeOK
<1>2. ProofHeld'
  BY IdleWorkerTyped DEF Return, Typed, TypeOK, ProofHeld, Steps
<1>3. QED BY <1>1, <1>2

LEMMA EndTyped ==
  ASSUME Typed, NEW ss
  PROVE  End(ss) \in [Sessions -> SessionType]
<1>1. \A s \in Sessions : [sessions[s] EXCEPT !.state = "ended"] \in SessionType
  BY DEF Typed, TypeOK, SessionType
<1>2. QED BY <1>1 DEF Typed, TypeOK, End

(* One session's record is replaced.                                       *)
LEMMA SessionUpdateTyped ==
  ASSUME Typed, NEW s \in Sessions, NEW r \in SessionType, sessions' = [sessions EXCEPT ![s] = r]
  PROVE  sessions' \in [Sessions -> SessionType]
BY DEF Typed, TypeOK

-----------------------------------------------------------------------------
(* Steps outside a call.                                                   *)

LEMMA AuthorityTyped ==
  ASSUME Typed,
         \/ \E g \in Grants : Issue(g) \/ Expire(g)
         \/ \E x \in Agents \cup Grants : Revoke(x)
         \/ Deactivate \/ Enroll \/ Initialize
  PROVE  Typed'
<1>1. ASSUME NEW g \in Grants, Issue(g) PROVE Typed'
  BY <1>1 DEF Issue, Typed, TypeOK, ProofHeld, registry, faults, history
<1>2. ASSUME NEW g \in Grants, Expire(g) PROVE Typed'
  BY <1>2 DEF Expire, Typed, TypeOK, ProofHeld, registry, faults, history
<1>3. ASSUME NEW x \in Agents \cup Grants, Revoke(x) PROVE Typed'
  <2>1. doomed' \in SUBSET Sessions /\ epoch' \in Nat /\ revoked' \in SUBSET (Agents \cup Grants)
    BY <1>3 DEF Revoke, Typed, TypeOK
  <2>2. QED BY <1>3, <2>1 DEF Revoke, Typed, TypeOK, ProofHeld, authority, faults
<1>4. CASE Deactivate
  <2>1. lapses' \in 0..MaxLapses
    BY <1>4, DelegationConstants DEF Deactivate, Typed, TypeOK
  <2>2. QED BY <1>4, <2>1 DEF Deactivate, Typed, TypeOK, ProofHeld, registry, history
<1>5. CASE Enroll
  BY <1>5 DEF Enroll, Typed, TypeOK, ProofHeld, registry, faults, history
<1>6. CASE Initialize
  BY <1>6 DEF Initialize, Typed, TypeOK, ProofHeld, registry, faults, history
<1>7. QED BY <1>1, <1>2, <1>3, <1>4, <1>5, <1>6

LEMMA SessionStepTyped ==
  ASSUME Typed, NEW s \in Sessions, NewSessionOpens(s) \/ Cancel(s)
  PROVE  Typed'
<1>1. /\ [sessions[s] EXCEPT !.state = "open"] \in SessionType
      /\ [sessions[s] EXCEPT !.cancelled = TRUE] \in SessionType
  BY DEF Typed, TypeOK, SessionType
<1>2. sessions' \in [Sessions -> SessionType]
  BY <1>1 DEF NewSessionOpens, Cancel, Typed, TypeOK
<1>3. QED BY <1>2 DEF NewSessionOpens, Cancel, Typed, TypeOK, ProofHeld, registry, authority, faults, history

LEMMA WatchTyped ==
  ASSUME Typed, Watch
  PROVE  Typed'
<1>1. CASE WatchEpoch
  <2>1. watcher' \in WatcherType
    BY <1>1 DEF WatchEpoch, Typed, TypeOK, WatcherType
  <2>2. QED BY <1>1, <2>1 DEF WatchEpoch, Typed, TypeOK, ProofHeld, registry, authority, faults, history
<1>2. CASE WatchRows
  <2>1. watcher' \in WatcherType
    BY <1>2 DEF WatchRows, Typed, TypeOK, WatcherType
  <2>2. QED BY <1>2, <2>1 DEF WatchRows, Typed, TypeOK, ProofHeld, registry, authority, faults, history
<1>3. CASE WatchApply
  <2>1. watcher' \in WatcherType
    BY <1>3 DEF WatchApply, IdleWatcher, Typed, TypeOK, WatcherType
  <2>2. sessions' \in [Sessions -> SessionType]
    BY <1>3, EndTyped DEF WatchApply
  <2>3. QED BY <1>3, <2>1, <2>2 DEF WatchApply, Typed, TypeOK, ProofHeld, registry, authority, faults, history
<1>4. QED BY <1>1, <1>2, <1>3 DEF Watch

LEMMA CrashTyped ==
  ASSUME Typed, Crash
  PROVE  Typed'
<1>1. watcher' \in WatcherType
  BY DEF Crash, IdleWatcher, WatcherType
<1>2. sessions' \in [Sessions -> SessionType]
  BY EndTyped DEF Crash
<1>3. worker' \in [Workers -> WorkerType] /\ ProofHeld'
  BY IdleWorkerTyped DEF Crash, ProofHeld, Steps
<1>4. crashes' \in 0..MaxCrashes
  BY DelegationConstants DEF Crash, Typed, TypeOK
<1>5. QED BY <1>1, <1>2, <1>3, <1>4 DEF Crash, Typed, TypeOK, registry, authority, history

-----------------------------------------------------------------------------
(* Steps of a call.                                                        *)

LEMMA PromptTyped ==
  ASSUME Typed, NEW w \in Workers, NEW p \in Proofs, Prompt(w, p)
  PROVE  Typed'
<1> DEFINE r == [IdleWorker EXCEPT !.pc = "acp", !.proof = p,
                   !.late = p.grant \in revoked \/ Subject[p.grant] \in revoked]
<1>1. p.session \in Sessions
  BY DEF Proofs
<1>2. sessions[p.session] \in SessionType
  BY <1>1 DEF Typed, TypeOK
<1>3. r \in WorkerType /\ r.proof = p
  BY <1>2 DEF IdleWorker, WorkerType, SessionType, Steps
<1>4. \/ worker' = worker
      \/ worker' = [worker EXCEPT ![w] = r]
  BY DEF Prompt
<1>. HIDE DEF r
<1>5. worker' \in [Workers -> WorkerType] /\ ProofHeld'
  BY <1>3, <1>4 DEF Typed, TypeOK, ProofHeld
<1>6. [sessions[p.session] EXCEPT !.cancelled = FALSE] \in SessionType
  BY <1>2 DEF SessionType
<1>7. sessions' \in [Sessions -> SessionType]
  BY <1>1, <1>6, EndTyped DEF Prompt, Typed, TypeOK
<1>8. QED BY <1>5, <1>7 DEF Prompt, Typed, TypeOK, registry, authority, faults, history

LEMMA AcpVerifyTyped ==
  ASSUME Typed, NEW w \in Workers, AcpVerify(w)
  PROVE  Typed'
<1>1. worker' \in [Workers -> WorkerType] /\ ProofHeld'
  BY AdvanceTyped, ReturnTyped DEF AcpVerify, Steps
<1>2. sessions' \in [Sessions -> SessionType]
  BY EndTyped DEF AcpVerify, Typed, TypeOK
<1>3. QED BY <1>1, <1>2 DEF AcpVerify, Typed, TypeOK, registry, authority, faults, history

LEMMA LookupTyped ==
  ASSUME Typed, NEW w \in Workers, Lookup(w)
  PROVE  Typed'
<1>1. worker' \in [Workers -> WorkerType] /\ ProofHeld'
  BY AdvanceTyped, ReturnTyped DEF Lookup, Steps
<1>2. answers' \in [Actions -> SUBSET {"succeeded", "failed"}]
  BY DEF Lookup, Recoverable, Typed, TypeOK
<1>3. QED BY <1>1, <1>2 DEF Lookup, Typed, TypeOK, registry, authority, faults

LEMMA ChecksTyped ==
  ASSUME Typed, NEW w \in Workers, DispatchVerify(w) \/ ActuatorVerify(w)
  PROVE  Typed'
<1>1. worker' \in [Workers -> WorkerType] /\ ProofHeld'
  BY AdvanceTyped, ReturnTyped DEF DispatchVerify, ActuatorVerify, Steps
<1>2. QED BY <1>1 DEF DispatchVerify, ActuatorVerify, Typed, TypeOK, registry, authority, faults, history

LEMMA ClaimTyped ==
  ASSUME Typed, NEW w \in Workers, Claim(w)
  PROVE  Typed'
<1> DEFINE p == worker[w].proof
           r == [AbsentRow EXCEPT !.outcome = "admitted", !.proof = p]
<1>1. p \in Proofs /\ p.action \in Actions
  BY DEF Claim, Typed, ProofHeld, Steps, Proofs
<1>2. r \in RowType
  BY <1>1 DEF AbsentRow, RowType
<1>3. store' = store \/ store' = [store EXCEPT ![p.action] = r]
  BY DEF Claim
<1>4. worker' \in [Workers -> WorkerType] /\ ProofHeld'
  BY AdvanceTyped, ReturnTyped DEF Claim, Steps
<1>. HIDE DEF r
<1>5. store' \in [Actions -> RowType]
  BY <1>2, <1>3 DEF Typed, TypeOK
<1>6. QED BY <1>4, <1>5 DEF Claim, Typed, TypeOK, registry, authority, faults, history

LEMMA BeginTyped ==
  ASSUME Typed, NEW w \in Workers, Begin(w)
  PROVE  Typed'
<1>1. worker[w].proof \in Proofs /\ worker[w].proof.action \in Actions
  BY DEF Begin, Typed, ProofHeld, Steps, Proofs
<1>2. worker' \in [Workers -> WorkerType] /\ ProofHeld'
  BY AdvanceTyped DEF Begin, Steps
<1>3. store[worker[w].proof.action] \in RowType
  BY <1>1 DEF Typed, TypeOK
<1> DEFINE r == [store[worker[w].proof.action] EXCEPT !.started = TRUE]
<1>3a. r \in RowType
  BY <1>3 DEF RowType
<1>3b. store' = store \/ store' = [store EXCEPT ![worker[w].proof.action] = r]
  BY DEF Begin
<1>. HIDE DEF r
<1>4. store' \in [Actions -> RowType]
  BY <1>1, <1>3a, <1>3b DEF Typed, TypeOK
<1>5. QED BY <1>2, <1>4 DEF Begin, Typed, TypeOK, registry, authority, faults, history

LEMMA ActuateTyped ==
  ASSUME Typed, NEW w \in Workers, Actuate(w)
  PROVE  Typed'
<1>1. worker' \in [Workers -> WorkerType] /\ ProofHeld'
  <2>1. CASE Advance(w, "finish")
    BY <2>1, AdvanceTyped DEF Actuate, Steps
  <2>2. ASSUME NEW ok \in BOOLEAN,
               worker' = [worker EXCEPT ![w] = [@ EXCEPT !.pc = "finish", !.ok = ok]]
        PROVE  worker' \in [Workers -> WorkerType] /\ ProofHeld'
    <3>1. [worker[w] EXCEPT !.pc = "finish", !.ok = ok] \in WorkerType
      BY DEF Typed, TypeOK, WorkerType, Steps
    <3>2. worker[w].proof \in Proofs
      BY DEF Actuate, Typed, ProofHeld, Steps
    <3>3. ASSUME NEW u \in Workers, worker'[u].pc \in Steps
          PROVE  worker'[u].proof \in Proofs
      <4>1. CASE u = w
        <5>1. worker'[w] = [worker[w] EXCEPT !.pc = "finish", !.ok = ok]
          BY <2>2 DEF Typed, TypeOK
        <5>2. worker'[w].proof = worker[w].proof
          BY <5>1
        <5>3. QED BY <4>1, <5>2, <3>2
      <4>2. CASE u # w
        <5>1. worker'[u] = worker[u]
          BY <2>2, <4>2 DEF Typed, TypeOK
        <5>2. QED BY <5>1, <3>3 DEF Typed, ProofHeld
      <4>3. QED BY <4>1, <4>2
    <3>4. ProofHeld'
      BY <3>3 DEF ProofHeld
    <3>5. QED BY <2>2, <3>1, <3>4 DEF Typed, TypeOK
  <2>3. QED BY <2>1, <2>2 DEF Actuate
<1>2. actuated' \in [Actions -> Nat]
  <2>1. worker[w].proof.action \in Actions
    BY DEF Actuate, Typed, ProofHeld, Steps, Proofs
  <2>2. actuated[worker[w].proof.action] + 1 \in Nat
    BY <2>1 DEF Typed, TypeOK
  <2>3. \/ actuated' = actuated
        \/ actuated' = [actuated EXCEPT ![worker[w].proof.action] = actuated[worker[w].proof.action] + 1]
    BY DEF Actuate
  <2>4. QED BY <2>1, <2>2, <2>3 DEF Typed, TypeOK
<1>3. QED BY <1>1, <1>2 DEF Actuate, Typed, TypeOK, registry, authority, faults

LEMMA FinishTyped ==
  ASSUME Typed, NEW w \in Workers, Finish(w)
  PROVE  Typed'
<1>1. worker[w].proof \in Proofs /\ worker[w].proof.action \in Actions
  BY DEF Finish, Typed, ProofHeld, Steps, Proofs
<1>2. worker' \in [Workers -> WorkerType] /\ ProofHeld'
  BY AdvanceTyped, ReturnTyped DEF Finish, Steps
<1>3. Status(w) \in {"succeeded", "failed"}
  BY DEF Status
<1>4. [store[worker[w].proof.action] EXCEPT !.outcome = Status(w)] \in RowType
  BY <1>1, <1>3 DEF Typed, TypeOK, RowType
<1>5. store' \in [Actions -> RowType]
  BY <1>1, <1>4 DEF Finish, Typed, TypeOK
<1>6. answers' \in [Actions -> SUBSET {"succeeded", "failed"}]
  BY <1>3 DEF Finish, Typed, TypeOK
<1>7. QED BY <1>2, <1>5, <1>6 DEF Finish, Typed, TypeOK, registry, authority, faults

LEMMA BindTyped ==
  ASSUME Typed, NEW w \in Workers, Bind(w)
  PROVE  Typed'
<1> DEFINE p == worker[w].proof
           r == [sessions[p.session] EXCEPT !.agents = sessions[p.session].agents \cup {Subject[p.grant]}]
<1>1. p.session \in Sessions /\ Subject[p.grant] \in Agents
  BY DelegationConstants DEF Bind, Typed, ProofHeld, Steps, Proofs
<1>2. r \in SessionType
  BY <1>1 DEF Typed, TypeOK, SessionType
<1>3. sessions' = sessions \/ sessions' = [sessions EXCEPT ![p.session] = r]
  BY DEF Bind
<1>4. worker' \in [Workers -> WorkerType] /\ ProofHeld'
  BY ReturnTyped DEF Bind
<1>. HIDE DEF r
<1>5. sessions' \in [Sessions -> SessionType]
  BY <1>1, <1>2, <1>3 DEF Typed, TypeOK
<1>6. QED BY <1>4, <1>5 DEF Bind, Typed, TypeOK, registry, authority, faults, history

LEMMA StepTyped == Typed /\ [Next]_vars => Typed'
<1> SUFFICES ASSUME Typed, [Next]_vars PROVE Typed'
  OBVIOUS
<1>1. ASSUME NEW w \in Workers, Call(w) PROVE Typed'
  BY <1>1, PromptTyped, AcpVerifyTyped, LookupTyped, ChecksTyped, ClaimTyped, BeginTyped,
     ActuateTyped, FinishTyped, BindTyped DEF Call
<1>2. CASE UNCHANGED vars
  BY <1>2 DEF vars, registry, authority, faults, history, Typed, TypeOK, ProofHeld
<1>3. QED BY <1>1, <1>2, AuthorityTyped, SessionStepTyped, WatchTyped, CrashTyped DEF Next

(* Type correctness of the sessions, the replay store, the registry and    *)
(* the threads, with what a thread inside a call holds.                    *)
THEOREM TypeCorrect == Spec => [](TypeOK /\ ProofHeld)
BY InitTyped, StepTyped, PTL DEF Spec, Typed

-----------------------------------------------------------------------------
(* At most one actuation.                                                  *)

(* A step that actuates nothing, forgets no claim and makes nobody a       *)
(* holder keeps the invariant.                                             *)
LEMMA OnceStable ==
  ASSUME OnceInv,
         actuated' = actuated,
         \A a \in Actions : store'[a].outcome = "absent" <=> store[a].outcome = "absent",
         \A w \in Workers : Holding(w)' =>
            /\ Holding(w)
            /\ worker'[w].proof = worker[w].proof
            /\ worker[w].proof.action \in Actions
            /\ worker'[w].pc # "finish" => worker[w].pc # "finish"
  PROVE  OnceInv'
<1>1. HeldAlone'
  BY DEF OnceInv, HeldAlone, Holding
<1>2. UnclaimedUntouched' /\ ActuatedAtMostOnce'
  BY DEF OnceInv, UnclaimedUntouched, ActuatedAtMostOnce
<1>3. QED BY <1>1, <1>2 DEF OnceInv

(* A holder's action id is an action id.                                   *)
LEMMA HolderAction ==
  ASSUME Typed, NEW w \in Workers, worker[w].pc \in Steps
  PROVE  worker[w].proof.action \in Actions
BY DEF Typed, ProofHeld, Proofs

LEMMA QuietOnce ==
  ASSUME Typed, OnceInv, UNCHANGED <<store, actuated>>,
         \/ UNCHANGED worker
         \/ worker' = [w \in Workers |-> IdleWorker]
         \/ \E w \in Workers : Return(w)
  PROVE  OnceInv'
<1>1. \A w \in Workers : Holding(w)' => Holding(w) /\ worker'[w] = worker[w]
  BY IdleWorkerTyped DEF Holding, Return, Typed, TypeOK
<1>2. \A w \in Workers : Holding(w) => worker[w].proof.action \in Actions
  BY HolderAction DEF Holding, Steps
<1>3. QED BY <1>1, <1>2, OnceStable

(* A thread that moves on without passing the claim.                       *)
LEMMA AdvanceOnce ==
  ASSUME Typed, OnceInv, UNCHANGED actuated,
         \A a \in Actions : store'[a].outcome = "absent" <=> store[a].outcome = "absent",
         NEW w \in Workers, NEW pc \in Steps, Advance(w, pc), worker[w].pc \in Steps,
         pc \in {"actuator", "begin", "route", "finish"} =>
            worker[w].pc \in {"actuator", "begin", "route"}
  PROVE  OnceInv'
<1>1. /\ worker'[w].pc = pc /\ worker'[w].proof = worker[w].proof
      /\ \A v \in Workers : v # w => worker'[v] = worker[v]
  BY DEF Advance, Typed, TypeOK, WorkerType
<1>2. \A v \in Workers : Holding(v) => worker[v].proof.action \in Actions
  BY HolderAction DEF Holding, Steps
<1>3. \A v \in Workers : Holding(v)' =>
         /\ Holding(v) /\ worker'[v].proof = worker[v].proof
         /\ worker'[v].pc # "finish" => worker[v].pc # "finish"
  BY <1>1 DEF Holding
<1>4. QED BY <1>2, <1>3, OnceStable

LEMMA PromptOnce ==
  ASSUME Typed, OnceInv, NEW w \in Workers, NEW p \in Proofs, Prompt(w, p)
  PROVE  OnceInv'
<1>1. \/ worker' = worker
      \/ worker'[w].pc = "acp" /\ \A v \in Workers : v # w => worker'[v] = worker[v]
  BY DEF Prompt, Typed, TypeOK, IdleWorker
<1>2. \A v \in Workers : Holding(v)' => Holding(v) /\ worker'[v] = worker[v]
  BY <1>1 DEF Holding
<1>3. \A v \in Workers : Holding(v) => worker[v].proof.action \in Actions
  BY HolderAction DEF Holding, Steps
<1>4. QED BY <1>2, <1>3, OnceStable DEF Prompt, history

(* Only an unclaimed id is claimed, so its claimant is the only holder and *)
(* it has never been actuated.                                             *)
LEMMA ClaimOnce ==
  ASSUME Typed, OnceInv, NEW w \in Workers, Claim(w)
  PROVE  OnceInv'
<1> DEFINE a == worker[w].proof.action
<1>1. a \in Actions /\ UNCHANGED actuated
  BY HolderAction DEF Claim, Steps, history
<1>2. CASE store[a].outcome = "absent"
  <2>1. /\ store'[a].outcome = "admitted"
        /\ \A b \in Actions : b # a => store'[b] = store[b]
    BY <1>1, <1>2 DEF Claim, AbsentRow, Typed, TypeOK
  <2>2. /\ worker'[w].pc = "actuator" /\ worker'[w].proof = worker[w].proof
        /\ \A v \in Workers : v # w => worker'[v] = worker[v]
    BY <1>2 DEF Claim, Advance, Typed, TypeOK, WorkerType
  <2>3. \A v \in Workers : Holding(v) => worker[v].proof.action \in Actions /\ worker[v].proof.action # a
    BY <1>2, HolderAction DEF OnceInv, HeldAlone, Holding, Steps
  <2>4. actuated[a] = 0
    BY <1>1, <1>2 DEF OnceInv, UnclaimedUntouched
  <2>5. HeldAlone'
    BY <1>1, <2>1, <2>2, <2>3, <2>4 DEF OnceInv, HeldAlone, Holding
  <2>6. UnclaimedUntouched' /\ ActuatedAtMostOnce'
    BY <1>1, <2>1 DEF OnceInv, UnclaimedUntouched, ActuatedAtMostOnce
  <2>7. QED BY <2>5, <2>6 DEF OnceInv
<1>3. CASE store[a].outcome # "absent"
  <2>1. Return(w) /\ UNCHANGED <<store, actuated>>
    BY <1>1, <1>3 DEF Claim
  <2>2. QED BY <2>1, QuietOnce
<1>4. QED BY <1>2, <1>3

(* The only holder actuates an id that has not been actuated, and leaves   *)
(* the steps from which it could be actuated again.                        *)
LEMMA ActuateOnce ==
  ASSUME Typed, OnceInv, NEW w \in Workers, Actuate(w)
  PROVE  OnceInv'
<1> DEFINE a == worker[w].proof.action
<1>1. a \in Actions /\ UNCHANGED store /\ worker[w].pc = "route"
  BY HolderAction DEF Actuate, Steps
<1>2. /\ worker'[w].pc = "finish" /\ worker'[w].proof = worker[w].proof
      /\ \A v \in Workers : v # w => worker'[v] = worker[v]
  <2>1. worker \in [Workers -> WorkerType] /\ worker[w] \in WorkerType
    BY DEF Typed, TypeOK
  <2>2. CASE Advance(w, "finish")
    BY <2>1, <2>2 DEF Advance, WorkerType
  <2>3. ASSUME NEW ok \in BOOLEAN,
               worker' = [worker EXCEPT ![w] = [worker[w] EXCEPT !.pc = "finish", !.ok = ok]]
        PROVE  /\ worker'[w].pc = "finish" /\ worker'[w].proof = worker[w].proof
               /\ \A v \in Workers : v # w => worker'[v] = worker[v]
    <3> DEFINE r == [worker[w] EXCEPT !.pc = "finish", !.ok = ok]
    <3>1. r.pc = "finish" /\ r.proof = worker[w].proof
      BY <2>1 DEF WorkerType
    <3> HIDE DEF r
    <3>2. worker' = [worker EXCEPT ![w] = r]
      BY <2>3 DEF r
    <3>3. QED BY <2>1, <3>1, <3>2
  <2>4. QED BY <2>2, <2>3 DEF Actuate
<1>3. /\ actuated[a] = 0 /\ store[a].outcome # "absent"
      /\ \A v \in Workers : Holding(v) /\ v # w => worker[v].proof.action # a
  BY <1>1 DEF OnceInv, HeldAlone, Holding
<1>4. /\ \A b \in Actions : b # a => actuated'[b] = actuated[b]
      /\ actuated'[a] \in {0, 1}
  <2>1. \/ actuated' = actuated
        \/ actuated' = [actuated EXCEPT ![a] = actuated[a] + 1]
    BY DEF Actuate
  <2>2. actuated \in [Actions -> Nat]
    BY DEF Typed, TypeOK
  <2>3. QED BY <1>1, <1>3, <2>1, <2>2
<1>5. \A v \in Workers : Holding(v) => worker[v].proof.action \in Actions
  BY HolderAction DEF Holding, Steps
<1>6. HeldAlone'
  BY <1>1, <1>2, <1>3, <1>4, <1>5 DEF OnceInv, HeldAlone, Holding
<1>7. UnclaimedUntouched'
  BY <1>1, <1>3, <1>4 DEF OnceInv, UnclaimedUntouched
<1>8. ActuatedAtMostOnce'
  BY <1>1, <1>4 DEF OnceInv, ActuatedAtMostOnce
<1>9. QED BY <1>6, <1>7, <1>8 DEF OnceInv

(* begin() and finish() update a claimed row; the outcome stays recorded.  *)
LEMMA StoreOnce ==
  ASSUME Typed, OnceInv, NEW w \in Workers, Begin(w) \/ Finish(w)
  PROVE  OnceInv'
<1> DEFINE a == worker[w].proof.action
<1>1. a \in Actions /\ UNCHANGED actuated /\ worker[w].pc \in {"begin", "finish"}
  BY HolderAction DEF Begin, Finish, Steps, history
<1>2. Holding(w) /\ store[a].outcome # "absent"
  BY <1>1 DEF OnceInv, HeldAlone, Holding
<1>3. \A b \in Actions : store'[b].outcome = "absent" <=> store[b].outcome = "absent"
  BY <1>1, <1>2 DEF Begin, Finish, Status, Typed, TypeOK, RowType
<1>4. CASE Begin(w)
  BY <1>1, <1>3, <1>4, AdvanceOnce DEF Begin, Steps
<1>5. CASE Finish(w)
  <2>1. CASE Advance(w, "bind")
    BY <1>1, <1>3, <2>1, AdvanceOnce DEF Steps
  <2>2. CASE Return(w) /\ UNCHANGED store
    BY <1>1, <2>2, QuietOnce
  <2>3. QED BY <1>5, <2>1, <2>2 DEF Finish
<1>6. QED BY <1>4, <1>5

(* The checks of a call hold nothing that was not held before.             *)
LEMMA ChecksOnce ==
  ASSUME Typed, OnceInv, NEW w \in Workers,
         AcpVerify(w) \/ Lookup(w) \/ DispatchVerify(w) \/ ActuatorVerify(w) \/ Bind(w)
  PROVE  OnceInv'
<1>1. UNCHANGED <<store, actuated>>
  BY DEF AcpVerify, Lookup, DispatchVerify, ActuatorVerify, Bind, history
<1>2. CASE Return(w)
  BY <1>1, <1>2, QuietOnce
<1>3. ASSUME NEW pc \in Steps, Advance(w, pc), worker[w].pc \in Steps,
             pc \in {"actuator", "begin", "route", "finish"} => worker[w].pc = "actuator"
      PROVE  OnceInv'
  BY <1>1, <1>3, AdvanceOnce
<1>4. QED BY <1>2, <1>3 DEF AcpVerify, Lookup, DispatchVerify, ActuatorVerify, Bind, Steps

LEMMA InitOnce == Init => OnceInv
BY IdleWorkerTyped
   DEF Init, OnceInv, HeldAlone, Holding, UnclaimedUntouched, ActuatedAtMostOnce, AbsentRow

LEMMA StepOnce == Typed /\ OnceInv /\ [Next]_vars => OnceInv'
<1> SUFFICES ASSUME Typed, OnceInv, [Next]_vars PROVE OnceInv'
  OBVIOUS
<1>1. ASSUME NEW w \in Workers, Call(w) PROVE OnceInv'
  BY <1>1, PromptOnce, ChecksOnce, ClaimOnce, ActuateOnce, StoreOnce DEF Call
<1>2. ASSUME \/ \E g \in Grants : Issue(g) \/ Expire(g)
             \/ \E x \in Agents \cup Grants : Revoke(x)
             \/ Deactivate \/ Enroll \/ Initialize
             \/ \E s \in Sessions : NewSessionOpens(s) \/ Cancel(s)
             \/ Watch \/ UNCHANGED vars
      PROVE  OnceInv'
  <2>1. UNCHANGED <<store, actuated, worker>>
    BY <1>2 DEF Issue, Expire, Revoke, Deactivate, Enroll, Initialize, NewSessionOpens, Cancel, Watch,
                WatchEpoch, WatchRows, WatchApply, vars, history
  <2>2. QED BY <2>1, QuietOnce
<1>3. CASE Crash
  BY <1>3, QuietOnce DEF Crash, history
<1>4. QED BY <1>1, <1>2, <1>3 DEF Next

(* SQLiteActionReplayStore.claim admits an action id once, and what is     *)
(* admitted once is actuated at most once: whatever threads, proofs,       *)
(* sessions and crashes there are.                                         *)
THEOREM OneShotActuation == Spec => []ActuatedAtMostOnce
<1>1. Init => Typed /\ OnceInv
  BY InitTyped, InitOnce
<1>2. Typed /\ OnceInv /\ [Next]_vars => (Typed /\ OnceInv)'
  BY StepTyped, StepOnce
<1>3. Typed /\ OnceInv => ActuatedAtMostOnce
  BY DEF OnceInv
<1>4. QED BY <1>1, <1>2, <1>3, PTL DEF Spec

-----------------------------------------------------------------------------
(***************************************************************************)
(* Everyone is told the same outcome.  The store's row is the only place   *)
(* an outcome lives: once claimed it keeps its proof, once finished it     *)
(* keeps its outcome, and a success is written only by a thread that has   *)
(* actuated.                                                               *)
(***************************************************************************)
OwnedRows ==
  \A w \in Workers : Holding(w) \/ worker[w].pc = "bind" =>
    /\ store[worker[w].proof.action].outcome # "absent"
    /\ store[worker[w].proof.action].proof = worker[w].proof

OkActuated ==
  \A w \in Workers : worker[w].ok =>
    worker[w].pc \in {"finish", "bind"} /\ actuated[worker[w].proof.action] = 1

SucceededActuated == \A a \in Actions : store[a].outcome = "succeeded" => actuated[a] = 1

AnswersStored == \A a \in Actions : \A r \in answers[a] : store[a].outcome = r

AnswerInv == OwnedRows /\ OkActuated /\ SucceededActuated /\ AnswersStored

(* A claimed row keeps its proof and a finished one its outcome.           *)
LEMMA RowHistory ==
  ASSUME Typed, [Next]_vars, NEW a \in Actions
  PROVE  /\ store[a].outcome # "absent" =>
              store'[a].outcome # "absent" /\ store'[a].proof = store[a].proof
         /\ store[a].outcome \in {"succeeded", "failed"} => store'[a].outcome = store[a].outcome
<1>1. CASE UNCHANGED store
  BY <1>1
<1>2. ASSUME NEW w \in Workers, Claim(w) PROVE store[a].outcome # "absent" => store'[a] = store[a]
  BY <1>2 DEF Claim, Typed, TypeOK
<1>3. ASSUME NEW w \in Workers, Begin(w)
      PROVE store'[a].outcome = store[a].outcome /\ store'[a].proof = store[a].proof
  BY <1>3 DEF Begin, Typed, TypeOK, RowType
<1>4. ASSUME NEW w \in Workers, Finish(w)
      PROVE  /\ store'[a].proof = store[a].proof
             /\ store'[a].outcome = store[a].outcome
                \/ (store[a].outcome = "admitted" /\ store'[a].outcome \in {"succeeded", "failed"})
  BY <1>4 DEF Finish, Status, Typed, TypeOK, RowType
<1>5. ASSUME NEW w \in Workers,
             \/ \E p \in Proofs : Prompt(w, p)
             \/ AcpVerify(w) \/ Lookup(w) \/ DispatchVerify(w) \/ ActuatorVerify(w)
             \/ Actuate(w) \/ Bind(w)
      PROVE  UNCHANGED store
  BY <1>5 DEF Prompt, AcpVerify, Lookup, DispatchVerify, ActuatorVerify, Actuate, Bind
<1>6. CASE \E w \in Workers : Call(w)
  BY <1>1, <1>2, <1>3, <1>4, <1>5, <1>6 DEF Call
<1>7. CASE ~(\E w \in Workers : Call(w))
  BY <1>1, <1>7 DEF Next, Issue, Expire, Revoke, Deactivate, Enroll, Initialize, NewSessionOpens,
                    Cancel, Watch, WatchEpoch, WatchRows, WatchApply, Crash, vars
<1>8. QED BY <1>6, <1>7

(* A step after which no thread owns a row, or has an outcome to report,   *)
(* that it did not own or have before, and that answers nobody.            *)
LEMMA AnswerStable ==
  ASSUME Typed, Typed', [Next]_vars, AnswerInv, UNCHANGED <<actuated, answers>>,
         \A a \in Actions : store'[a].outcome = "succeeded" => store[a].outcome = "succeeded",
         \A w \in Workers : Holding(w)' \/ worker'[w].pc = "bind" =>
            /\ Holding(w) \/ worker[w].pc = "bind"
            /\ worker'[w].proof = worker[w].proof,
         \A w \in Workers : worker'[w].ok =>
            worker[w].ok /\ worker'[w].pc \in {"finish", "bind"} /\ worker'[w].proof = worker[w].proof
  PROVE  AnswerInv'
<1>1. OwnedRows'
  <2> SUFFICES ASSUME NEW w \in Workers, Holding(w)' \/ worker'[w].pc = "bind"
               PROVE  /\ store'[worker'[w].proof.action].outcome # "absent"
                      /\ store'[worker'[w].proof.action].proof = worker'[w].proof
    BY DEF OwnedRows, Holding
  <2>1. worker[w].proof.action \in Actions
    BY HolderAction DEF Holding, Steps
  <2>2. QED BY <2>1, RowHistory DEF AnswerInv, OwnedRows
<1>2. OkActuated' /\ SucceededActuated'
  BY DEF AnswerInv, OkActuated, SucceededActuated
<1>3. AnswersStored'
  <2> SUFFICES ASSUME NEW a \in Actions, NEW r \in answers[a] PROVE store'[a].outcome = r
    BY DEF AnswersStored
  <2>1. store[a].outcome = r /\ r \in {"succeeded", "failed"}
    BY DEF AnswerInv, AnswersStored, Typed, TypeOK
  <2>2. QED BY <2>1, RowHistory
<1>4. QED BY <1>1, <1>2, <1>3 DEF AnswerInv

LEMMA AnswerQuiet ==
  ASSUME Typed, Typed', [Next]_vars, AnswerInv, UNCHANGED <<store, actuated, answers>>,
         \/ UNCHANGED worker
         \/ worker' = [w \in Workers |-> IdleWorker]
         \/ \E w \in Workers : Return(w)
  PROVE  AnswerInv'
<1>1. \A w \in Workers : worker'[w] = worker[w] \/ worker'[w] = IdleWorker
  BY DEF Return, Typed, TypeOK
<1>2. IdleWorker.pc = "idle" /\ IdleWorker.ok = FALSE
  BY DEF IdleWorker
<1>3. \A w \in Workers : Holding(w)' \/ worker'[w].pc = "bind" => worker'[w] = worker[w]
  BY <1>1, <1>2 DEF Holding
<1>4. \A w \in Workers : worker'[w].ok => worker'[w] = worker[w]
  BY <1>1, <1>2
<1>5. QED BY <1>3, <1>4, AnswerStable DEF Holding, AnswerInv, OkActuated

(* A thread moves on without claiming, beginning or finishing a row.       *)
LEMMA AnswerAdvance ==
  ASSUME Typed, Typed', [Next]_vars, AnswerInv, UNCHANGED <<actuated, answers>>,
         \A a \in Actions : store'[a].outcome = store[a].outcome,
         NEW w \in Workers, NEW pc \in Steps, Advance(w, pc), worker[w].pc \notin {"finish", "bind"},
         pc \in {"actuator", "begin", "route", "finish", "bind"} => Holding(w)
  PROVE  AnswerInv'
<1>1. /\ worker'[w].pc = pc /\ worker'[w].proof = worker[w].proof /\ worker'[w].ok = worker[w].ok
      /\ \A v \in Workers : v # w => worker'[v] = worker[v]
  BY DEF Advance, Typed, TypeOK, WorkerType
<1>2. ~worker[w].ok
  BY DEF AnswerInv, OkActuated
<1>3. \A v \in Workers : Holding(v)' \/ worker'[v].pc = "bind" =>
         (Holding(v) \/ worker[v].pc = "bind") /\ worker'[v].proof = worker[v].proof
  BY <1>1 DEF Holding
<1>4. \A v \in Workers : worker'[v].ok =>
         worker[v].ok /\ worker'[v].pc \in {"finish", "bind"} /\ worker'[v].proof = worker[v].proof
  BY <1>1, <1>2 DEF AnswerInv, OkActuated
<1>5. QED BY <1>3, <1>4, AnswerStable

LEMMA PromptAnswer ==
  ASSUME Typed, Typed', [Next]_vars, AnswerInv, NEW w \in Workers, NEW p \in Proofs, Prompt(w, p)
  PROVE  AnswerInv'
<1>1. \/ worker' = worker
      \/ /\ worker'[w].pc = "acp" /\ worker'[w].ok = FALSE
         /\ \A v \in Workers : v # w => worker'[v] = worker[v]
  <2> DEFINE r == [IdleWorker EXCEPT !.pc = "acp", !.proof = p,
                     !.late = p.grant \in revoked \/ Subject[p.grant] \in revoked]
  <2>1. r.pc = "acp" /\ r.ok = FALSE
    BY DEF IdleWorker
  <2>2. worker' = worker \/ worker' = [worker EXCEPT ![w] = r]
    BY DEF Prompt
  <2> HIDE DEF r
  <2>3. QED BY <2>1, <2>2 DEF Typed, TypeOK
<1>2. \A v \in Workers : Holding(v)' \/ worker'[v].pc = "bind" => worker'[v] = worker[v]
  BY <1>1 DEF Holding
<1>3. \A v \in Workers : worker'[v].ok => worker'[v] = worker[v]
  BY <1>1
<1>4. UNCHANGED <<store, actuated, answers>>
  BY DEF Prompt, history
<1>5. QED BY <1>2, <1>3, <1>4, AnswerStable DEF Holding, AnswerInv, OkActuated

LEMMA ChecksAnswer ==
  ASSUME Typed, Typed', [Next]_vars, AnswerInv, NEW w \in Workers,
         AcpVerify(w) \/ DispatchVerify(w) \/ ActuatorVerify(w) \/ Bind(w)
  PROVE  AnswerInv'
<1>1. UNCHANGED <<store, actuated, answers>>
  BY DEF AcpVerify, DispatchVerify, ActuatorVerify, Bind, history
<1>2. CASE Return(w)
  BY <1>1, <1>2, AnswerQuiet
<1>3. ASSUME NEW pc \in Steps, Advance(w, pc), worker[w].pc \notin {"finish", "bind"},
             pc \in {"actuator", "begin", "route", "finish", "bind"} => worker[w].pc = "actuator"
      PROVE  AnswerInv'
  BY <1>1, <1>3, AnswerAdvance DEF Holding
<1>4. QED BY <1>2, <1>3 DEF AcpVerify, DispatchVerify, ActuatorVerify, Bind, Steps

(* An answer from the store is the outcome of the caller's own row.        *)
LEMMA LookupAnswer ==
  ASSUME Typed, Typed', [Next]_vars, AnswerInv, NEW w \in Workers, Lookup(w)
  PROVE  AnswerInv'
<1> DEFINE p == worker[w].proof
           a == p.action
<1>1. a \in Actions /\ UNCHANGED <<store, actuated>> /\ worker[w].pc = "lookup"
  BY HolderAction DEF Lookup, Steps
<1>2. CASE UNCHANGED answers
  <2>1. CASE Return(w)
    BY <1>1, <1>2, <2>1, AnswerQuiet
  <2>2. CASE Advance(w, "verify")
    BY <1>1, <1>2, <2>2, AnswerAdvance DEF Steps
  <2>3. CASE Recoverable(p) /\ Advance(w, "bind")
    <3>1. /\ worker'[w].pc = "bind" /\ worker'[w].proof = p /\ worker'[w].ok = worker[w].ok
          /\ \A v \in Workers : v # w => worker'[v] = worker[v]
      BY <2>3 DEF Advance, Typed, TypeOK, WorkerType
    <3>2. store[a].outcome # "absent" /\ store[a].proof = p
      BY <2>3 DEF Recoverable
    <3>3. OwnedRows'
      BY <1>1, <3>1, <3>2 DEF AnswerInv, OwnedRows, Holding
    <3>4. OkActuated'
      BY <1>1, <3>1 DEF AnswerInv, OkActuated
    <3>5. QED BY <1>1, <1>2, <3>3, <3>4 DEF AnswerInv, SucceededActuated, AnswersStored
  <2>4. QED BY <2>1, <2>2, <2>3 DEF Lookup
<1>3. CASE ~UNCHANGED answers
  <2>1. /\ Recoverable(p) /\ Advance(w, "bind")
        /\ answers' = [answers EXCEPT ![a] = answers[a] \cup {store[a].outcome}]
    BY <1>3 DEF Lookup
  <2>2. /\ worker'[w].pc = "bind" /\ worker'[w].proof = p /\ worker'[w].ok = worker[w].ok
        /\ \A v \in Workers : v # w => worker'[v] = worker[v]
    BY <2>1 DEF Advance, Typed, TypeOK, WorkerType
  <2>3. store[a].outcome # "absent" /\ store[a].proof = p
    BY <2>1 DEF Recoverable
  <2>4. OwnedRows'
    BY <1>1, <2>2, <2>3 DEF AnswerInv, OwnedRows, Holding
  <2>5. OkActuated'
    BY <1>1, <2>2 DEF AnswerInv, OkActuated
  <2>6. AnswersStored'
    BY <1>1, <2>1 DEF AnswerInv, AnswersStored, Typed, TypeOK
  <2>7. QED BY <1>1, <2>4, <2>5, <2>6 DEF AnswerInv, SucceededActuated
<1>4. QED BY <1>2, <1>3

LEMMA ClaimAnswer ==
  ASSUME Typed, Typed', [Next]_vars, AnswerInv, NEW w \in Workers, Claim(w)
  PROVE  AnswerInv'
<1> DEFINE p == worker[w].proof
           a == p.action
<1>1. a \in Actions /\ UNCHANGED <<actuated, answers>> /\ worker[w].pc = "claim"
  BY HolderAction DEF Claim, Steps, history
<1>2. CASE store[a].outcome # "absent"
  BY <1>1, <1>2, AnswerQuiet DEF Claim
<1>3. CASE store[a].outcome = "absent"
  <2>1. /\ store'[a].outcome = "admitted" /\ store'[a].proof = p
        /\ \A b \in Actions : b # a => store'[b] = store[b]
    <3> DEFINE r == [AbsentRow EXCEPT !.outcome = "admitted", !.proof = p]
    <3>1. r.outcome = "admitted" /\ r.proof = p
      BY DEF AbsentRow
    <3>2. store' = [store EXCEPT ![a] = r]
      BY <1>3 DEF Claim
    <3> HIDE DEF r
    <3>3. QED BY <1>1, <3>1, <3>2 DEF Typed, TypeOK
  <2>2. /\ worker'[w].pc = "actuator" /\ worker'[w].proof = p /\ worker'[w].ok = worker[w].ok
        /\ \A v \in Workers : v # w => worker'[v] = worker[v]
    BY <1>3 DEF Claim, Advance, Typed, TypeOK, WorkerType
  <2>3. OwnedRows'
    <3> SUFFICES ASSUME NEW v \in Workers, Holding(v)' \/ worker'[v].pc = "bind"
                 PROVE  /\ store'[worker'[v].proof.action].outcome # "absent"
                        /\ store'[worker'[v].proof.action].proof = worker'[v].proof
      BY DEF OwnedRows, Holding
    <3>1. CASE v = w
      BY <2>1, <2>2, <3>1
    <3>2. CASE v # w
      <4>1. worker'[v] = worker[v] /\ worker[v].proof.action \in Actions
        BY <2>2, <3>2, HolderAction DEF Holding, Steps
      <4>2. QED BY <4>1, RowHistory DEF AnswerInv, OwnedRows, Holding
    <3>3. QED BY <3>1, <3>2
  <2>4. OkActuated'
    BY <1>1, <2>2 DEF AnswerInv, OkActuated
  <2>5. SucceededActuated' /\ AnswersStored'
    <3>1. answers[a] = {}
      BY <1>1, <1>3 DEF AnswerInv, AnswersStored, Typed, TypeOK
    <3>2. QED BY <1>1, <2>1, <3>1 DEF AnswerInv, SucceededActuated, AnswersStored
  <2>6. QED BY <2>3, <2>4, <2>5 DEF AnswerInv
<1>4. QED BY <1>2, <1>3

LEMMA BeginAnswer ==
  ASSUME Typed, Typed', [Next]_vars, AnswerInv, NEW w \in Workers, Begin(w)
  PROVE  AnswerInv'
<1>1. UNCHANGED <<actuated, answers>> /\ worker[w].pc = "begin"
  BY DEF Begin, history
<1>2. \A a \in Actions : store'[a].outcome = store[a].outcome
  BY DEF Begin, Typed, TypeOK, RowType
<1>3. Advance(w, "route") \/ Advance(w, "finish")
  BY DEF Begin
<1>4. QED BY <1>1, <1>2, <1>3, AnswerAdvance DEF Holding, Steps

(* The holder actuates an id whose row is not finished.                    *)
LEMMA ActuateAnswer ==
  ASSUME Typed, Typed', [Next]_vars, OnceInv, AnswerInv, NEW w \in Workers, Actuate(w)
  PROVE  AnswerInv'
<1> DEFINE a == worker[w].proof.action
<1>1. a \in Actions /\ UNCHANGED <<store, answers>> /\ worker[w].pc = "route"
  BY HolderAction DEF Actuate, Steps
<1>2. CASE UNCHANGED actuated /\ Advance(w, "finish")
  BY <1>1, <1>2, AnswerAdvance DEF Holding, Steps
<1>3. CASE ~(UNCHANGED actuated /\ Advance(w, "finish"))
  <2>1. PICK ok \in BOOLEAN :
          worker' = [worker EXCEPT ![w] = [worker[w] EXCEPT !.pc = "finish", !.ok = ok]]
    BY <1>3 DEF Actuate
  <2>2. /\ worker'[w].pc = "finish" /\ worker'[w].proof = worker[w].proof
        /\ \A v \in Workers : v # w => worker'[v] = worker[v]
    BY <2>1 DEF Typed, TypeOK, WorkerType
  <2>3. /\ actuated[a] = 0
        /\ \A v \in Workers : Holding(v) /\ v # w => worker[v].proof.action # a
    BY <1>1 DEF OnceInv, HeldAlone, Holding
  <2>4. actuated'[a] = 1 /\ \A b \in Actions : b # a => actuated'[b] = actuated[b]
    <3>1. actuated' = [actuated EXCEPT ![a] = actuated[a] + 1]
      BY <1>3 DEF Actuate
    <3>2. QED BY <1>1, <2>3, <3>1 DEF Typed, TypeOK
  <2>5. OwnedRows'
    BY <1>1, <2>2 DEF AnswerInv, OwnedRows, Holding
  <2>6. OkActuated'
    <3> SUFFICES ASSUME NEW v \in Workers, worker'[v].ok
                 PROVE  worker'[v].pc \in {"finish", "bind"} /\ actuated'[worker'[v].proof.action] = 1
      BY DEF OkActuated
    <3>1. CASE v = w
      BY <2>2, <2>4, <3>1
    <3>2. CASE v # w
      <4>1. /\ worker[v].pc \in {"finish", "bind"} /\ actuated[worker[v].proof.action] = 1
            /\ worker'[v] = worker[v]
        BY <2>2, <3>2 DEF AnswerInv, OkActuated
      <4>2. worker[v].proof.action \in Actions
        BY <4>1, HolderAction DEF Steps
      <4>3. QED BY <2>3, <2>4, <4>1, <4>2
    <3>3. QED BY <3>1, <3>2
  <2>7. SucceededActuated'
    BY <1>1, <2>4 DEF AnswerInv, SucceededActuated
  <2>8. QED BY <1>1, <2>5, <2>6, <2>7 DEF AnswerInv, AnswersStored
<1>4. QED BY <1>2, <1>3

(* The outcome is written, once, by the thread that owns the row.          *)
LEMMA FinishAnswer ==
  ASSUME Typed, Typed', [Next]_vars, AnswerInv, NEW w \in Workers, Finish(w)
  PROVE  AnswerInv'
<1> DEFINE p == worker[w].proof
           a == p.action
<1>1. a \in Actions /\ UNCHANGED actuated /\ worker[w].pc = "finish"
  BY HolderAction DEF Finish, Steps
<1>2. CASE Return(w) /\ UNCHANGED <<store, answers>>
  BY <1>1, <1>2, AnswerQuiet
<1>3. CASE ~(Return(w) /\ UNCHANGED <<store, answers>>)
  <2>1. /\ store[a].outcome = "admitted"
        /\ store' = [store EXCEPT ![a] = [store[a] EXCEPT !.outcome = Status(w)]]
        /\ answers' = [answers EXCEPT ![a] = answers[a] \cup {Status(w)}]
        /\ Advance(w, "bind")
    BY <1>3 DEF Finish
  <2>2. /\ worker'[w].pc = "bind" /\ worker'[w].proof = p /\ worker'[w].ok = worker[w].ok
        /\ \A v \in Workers : v # w => worker'[v] = worker[v]
    BY <2>1 DEF Advance, Typed, TypeOK, WorkerType
  <2>3. /\ store'[a].outcome = Status(w) /\ store'[a].proof = store[a].proof
        /\ \A b \in Actions : b # a => store'[b] = store[b]
    BY <1>1, <2>1 DEF Typed, TypeOK, RowType
  <2>4. OwnedRows'
    <3> SUFFICES ASSUME NEW v \in Workers, Holding(v)' \/ worker'[v].pc = "bind"
                 PROVE  /\ store'[worker'[v].proof.action].outcome # "absent"
                        /\ store'[worker'[v].proof.action].proof = worker'[v].proof
      BY DEF OwnedRows, Holding
    <3>1. (Holding(v) \/ worker[v].pc = "bind") /\ worker'[v].proof = worker[v].proof
      BY <1>1, <2>2 DEF Holding
    <3>2. worker[v].proof.action \in Actions
      BY <3>1, HolderAction DEF Holding, Steps
    <3>3. QED BY <3>1, <3>2, RowHistory DEF AnswerInv, OwnedRows
  <2>5. OkActuated'
    BY <1>1, <2>2 DEF AnswerInv, OkActuated
  <2>6. SucceededActuated'
    <3>1. Status(w) = "succeeded" => actuated[a] = 1
      BY DEF Status, AnswerInv, OkActuated
    <3>2. QED BY <1>1, <2>3, <3>1 DEF AnswerInv, SucceededActuated
  <2>7. AnswersStored'
    <3>1. answers[a] = {}
      BY <1>1, <2>1 DEF AnswerInv, AnswersStored, Typed, TypeOK
    <3>2. answers'[a] = {Status(w)} /\ \A b \in Actions : b # a => answers'[b] = answers[b]
      BY <1>1, <2>1, <3>1 DEF Typed, TypeOK
    <3>3. QED BY <2>3, <3>2 DEF AnswerInv, AnswersStored
  <2>8. QED BY <2>4, <2>5, <2>6, <2>7 DEF AnswerInv
<1>4. QED BY <1>2, <1>3

LEMMA InitAnswer == Init => AnswerInv
<1> SUFFICES ASSUME Init PROVE AnswerInv
  OBVIOUS
<1>1. \A w \in Workers : worker[w].pc = "idle" /\ worker[w].ok = FALSE
  BY DEF Init, IdleWorker
<1>2. \A a \in Actions : store[a].outcome = "absent" /\ answers[a] = {}
  BY DEF Init, AbsentRow
<1>3. QED BY <1>1, <1>2 DEF AnswerInv, OwnedRows, OkActuated, SucceededActuated, AnswersStored, Holding

LEMMA StepAnswer == Typed /\ OnceInv /\ AnswerInv /\ [Next]_vars => AnswerInv'
<1> SUFFICES ASSUME Typed, Typed', OnceInv, AnswerInv, [Next]_vars PROVE AnswerInv'
  BY StepTyped
<1>1. ASSUME NEW w \in Workers, Call(w) PROVE AnswerInv'
  BY <1>1, PromptAnswer, ChecksAnswer, LookupAnswer, ClaimAnswer, BeginAnswer, ActuateAnswer,
     FinishAnswer DEF Call
<1>2. ASSUME \/ \E g \in Grants : Issue(g) \/ Expire(g)
             \/ \E x \in Agents \cup Grants : Revoke(x)
             \/ Deactivate \/ Enroll \/ Initialize
             \/ \E s \in Sessions : NewSessionOpens(s) \/ Cancel(s)
             \/ Watch \/ UNCHANGED vars
      PROVE  AnswerInv'
  <2>1. UNCHANGED <<store, actuated, answers, worker>>
    BY <1>2 DEF Issue, Expire, Revoke, Deactivate, Enroll, Initialize, NewSessionOpens, Cancel, Watch,
                WatchEpoch, WatchRows, WatchApply, vars, history
  <2>2. QED BY <2>1, AnswerQuiet
<1>3. CASE Crash
  BY <1>3, AnswerQuiet DEF Crash, history
<1>4. QED BY <1>1, <1>2, <1>3 DEF Next

(* call_delegated_tool tells every caller of an action id the same         *)
(* outcome, the one the replay store holds; it reports success only for an *)
(* action that was actuated exactly once; and it answers nobody but the    *)
(* call that owns the row.                                                 *)
THEOREM EveryoneToldTheSame == Spec => []OneAnswer
<1>1. Init => Typed /\ OnceInv /\ AnswerInv
  BY InitTyped, InitOnce, InitAnswer
<1>2. Typed /\ OnceInv /\ AnswerInv /\ [Next]_vars => (Typed /\ OnceInv /\ AnswerInv)'
  BY StepTyped, StepOnce, StepAnswer
<1>3. AnswerInv => OneAnswer
  BY DEF AnswerInv, OwnedRows, SucceededActuated, AnswersStored, OneAnswer
<1>4. QED BY <1>1, <1>2, <1>3, PTL DEF Spec

-----------------------------------------------------------------------------
(***************************************************************************)
(* No actuation after a revocation.  Nothing leaves the registry, so a     *)
(* call that began after its agent or grant was revoked fails the shim's   *)
(* own check and never gets past it.                                       *)
(***************************************************************************)
LateInv ==
  \A w \in Workers : worker[w].late =>
    /\ worker[w].pc = "acp"
    /\ worker[w].proof.grant \in revoked \/ Subject[worker[w].proof.grant] \in revoked

LEMMA LateStable ==
  ASSUME LateInv, revoked \subseteq revoked',
         \A w \in Workers : worker'[w].late => worker'[w] = worker[w]
  PROVE  LateInv'
BY DEF LateInv

LEMMA RevokedGrows ==
  ASSUME [Next]_vars
  PROVE  revoked \subseteq revoked'
BY DEF Next, vars, registry, Issue, Expire, Revoke, Deactivate, Enroll, Initialize, NewSessionOpens,
       Cancel, Watch, WatchEpoch, WatchRows, WatchApply, Crash, Call, Prompt, AcpVerify, Lookup,
       DispatchVerify, Claim, ActuatorVerify, Begin, Actuate, Finish, Bind

LEMMA StepLate == Typed /\ LateInv /\ [Next]_vars => LateInv'
<1> SUFFICES ASSUME Typed, LateInv, [Next]_vars PROVE LateInv'
  OBVIOUS
<1>0. IdleWorker.late = FALSE
  BY DEF IdleWorker
<1>1. ASSUME NEW w \in Workers, NEW p \in Proofs, Prompt(w, p) PROVE LateInv'
  <2> DEFINE r == [IdleWorker EXCEPT !.pc = "acp", !.proof = p,
                     !.late = p.grant \in revoked \/ Subject[p.grant] \in revoked]
  <2>1. /\ r.pc = "acp" /\ r.proof = p
        /\ r.late => p.grant \in revoked \/ Subject[p.grant] \in revoked
    BY DEF IdleWorker
  <2>2. worker' = worker \/ worker' = [worker EXCEPT ![w] = r]
    BY <1>1 DEF Prompt
  <2>3. revoked' = revoked
    BY <1>1 DEF Prompt, registry
  <2> HIDE DEF r
  <2>4. QED BY <2>1, <2>2, <2>3 DEF LateInv, Typed, TypeOK
<1>2. ASSUME NEW w \in Workers, Return(w) PROVE LateInv'
  <2>1. \A v \in Workers : worker'[v] = worker[v] \/ worker'[v] = IdleWorker
    BY <1>2 DEF Return, Typed, TypeOK
  <2>2. QED BY <1>0, <2>1, LateStable, RevokedGrows
<1>3. ASSUME NEW w \in Workers, NEW pc, ~worker[w].late, Advance(w, pc) PROVE LateInv'
  <2>1. \A v \in Workers : worker'[v].late => worker'[v] = worker[v]
    BY <1>3 DEF Advance, Typed, TypeOK, WorkerType
  <2>2. QED BY <2>1, LateStable, RevokedGrows
<1>4. ASSUME NEW w \in Workers, AcpVerify(w) PROVE LateInv'
  <2>1. CASE Return(w)
    BY <1>2, <2>1
  <2>2. CASE Verified(worker[w].proof) /\ Advance(w, "lookup")
    <3>1. ~worker[w].late
      BY <2>2 DEF LateInv, Verified
    <3>2. QED BY <1>3, <2>2, <3>1
  <2>3. QED BY <1>4, <2>1, <2>2 DEF AcpVerify
<1>5. ASSUME NEW w \in Workers, worker[w].pc # "acp",
             Lookup(w) \/ DispatchVerify(w) \/ Claim(w) \/ ActuatorVerify(w) \/ Begin(w)
             \/ Finish(w) \/ Bind(w)
      PROVE  LateInv'
  <2>1. ~worker[w].late
    BY <1>5 DEF LateInv
  <2>2. Return(w) \/ \E pc \in Steps : Advance(w, pc)
    BY <1>5 DEF Lookup, DispatchVerify, Claim, ActuatorVerify, Begin, Finish, Bind, Steps
  <2>3. QED BY <1>2, <1>3, <2>1, <2>2
<1>6. ASSUME NEW w \in Workers, Actuate(w) PROVE LateInv'
  <2>1. ~worker[w].late
    BY <1>6 DEF LateInv, Actuate
  <2>2. CASE Advance(w, "finish")
    BY <1>3, <2>1, <2>2
  <2>3. ASSUME NEW ok \in BOOLEAN,
               worker' = [worker EXCEPT ![w] = [worker[w] EXCEPT !.pc = "finish", !.ok = ok]]
        PROVE  LateInv'
    <3>1. \A v \in Workers : worker'[v].late => worker'[v] = worker[v]
      BY <2>1, <2>3 DEF Typed, TypeOK, WorkerType
    <3>2. QED BY <3>1, LateStable, RevokedGrows
  <2>4. QED BY <1>6, <2>2, <2>3 DEF Actuate
<1>7. ASSUME NEW w \in Workers, Call(w) PROVE LateInv'
  BY <1>1, <1>4, <1>5, <1>6, <1>7
     DEF Call, Lookup, DispatchVerify, Claim, ActuatorVerify, Begin, Finish, Bind
<1>8. CASE Crash
  <2>1. \A v \in Workers : worker'[v] = IdleWorker
    BY <1>8 DEF Crash
  <2>2. QED BY <1>0, <2>1 DEF LateInv
<1>9. CASE UNCHANGED worker
  BY <1>9, LateStable, RevokedGrows
<1>10. QED
  BY <1>7, <1>8, <1>9 DEF Next, vars, Issue, Expire, Revoke, Deactivate, Enroll, Initialize,
     NewSessionOpens, Cancel, Watch, WatchEpoch, WatchRows, WatchApply

(* A call that starts after revoke_agent or revoke_grant has committed     *)
(* never reaches the actuator, for any number of threads and grants.       *)
THEOREM RevokedNeverActuated == Spec => []NoActuationAfterRevocation
<1>1. Init => LateInv
  BY DEF Init, LateInv, IdleWorker
<1>2. Spec => [](Typed /\ LateInv)
  BY <1>1, InitTyped, StepTyped, StepLate, PTL DEF Spec
<1>3. LateInv => NoActuationAfterRevocation
  BY DEF LateInv, NoActuationAfterRevocation
<1>4. QED BY <1>2, <1>3, PTL

-----------------------------------------------------------------------------
(***************************************************************************)
(* The watcher ends every session that was bound at a revocation.  The     *)
(* epoch is read before the rows, so rows that belong to an epoch the      *)
(* watcher will remember are never older than that epoch: a poll that has  *)
(* read its rows either sees every doomed session's agent in them or       *)
(* remembers an epoch that is behind already, and polls again.             *)
(***************************************************************************)
DoomedRevoked == \A s \in doomed : Open(s) => sessions[s].agents \cap revoked # {}

EpochsBehind == watcher.last <= epoch /\ watcher.epoch <= epoch

RowsCurrent ==
  watcher.pc = "apply" /\ watcher.epoch = epoch =>
    \A s \in doomed : Open(s) => sessions[s].agents \cap watcher.rows # {}

WatchInv == DoomedRevoked /\ EpochsBehind /\ RowsCurrent /\ BoundSessionEnds

(* A step that opens no doomed session and takes no agent from one.        *)
LEMMA WatchStable ==
  ASSUME WatchInv, UNCHANGED <<revoked, epoch, watcher, doomed>>,
         \A s \in doomed : Open(s)' => Open(s) /\ sessions[s].agents \subseteq sessions'[s].agents
  PROVE  WatchInv'
<1>1. DoomedRevoked'
  BY DEF WatchInv, DoomedRevoked
<1>2. RowsCurrent'
  BY DEF WatchInv, RowsCurrent
<1>3. EpochsBehind' /\ BoundSessionEnds'
  BY DEF WatchInv, EpochsBehind, BoundSessionEnds
<1>4. QED BY <1>1, <1>2, <1>3 DEF WatchInv

(* A doomed session was open once, and ids are not reused.                 *)
DoomedKnown == \A s \in doomed : sessions[s].state # "new"

LEMMA EndClosed ==
  ASSUME Typed, NEW ss, NEW s \in Sessions
  PROVE  /\ End(ss)[s].agents = sessions[s].agents
         /\ s \in ss => End(ss)[s].state = "ended"
         /\ s \notin ss => End(ss)[s] = sessions[s]
BY DEF End, Typed, TypeOK, SessionType

(* Sessions only move forward, and keep the agents bound to them.          *)
LEMMA SessionHistory ==
  ASSUME Typed, [Next]_vars, NEW s \in Sessions
  PROVE  /\ sessions[s].state # "new" => sessions'[s].state # "new"
         /\ sessions[s].state # "new" /\ sessions'[s].state = "open" => sessions[s].state = "open"
         /\ sessions[s].agents \subseteq sessions'[s].agents
<1>1. CASE UNCHANGED sessions
  BY <1>1
<1>2. ASSUME NEW ss, sessions' = End(ss) PROVE
         /\ sessions[s].state # "new" => sessions'[s].state # "new"
         /\ sessions[s].state # "new" /\ sessions'[s].state = "open" => sessions[s].state = "open"
         /\ sessions[s].agents \subseteq sessions'[s].agents
  BY <1>2, EndClosed
<1>3. ASSUME NEW t \in Sessions, NewSessionOpens(t) \/ Cancel(t)
      PROVE  /\ sessions[s].state # "new" => sessions'[s].state = sessions[s].state
             /\ sessions'[s].agents = sessions[s].agents
  BY <1>3 DEF NewSessionOpens, Cancel, Open, Typed, TypeOK, SessionType
<1>4. ASSUME NEW w \in Workers, NEW p \in Proofs, Prompt(w, p)
      PROVE  \/ \E ss : sessions' = End(ss)
             \/ sessions'[s].state = sessions[s].state /\ sessions'[s].agents = sessions[s].agents
  BY <1>4 DEF Prompt, Typed, TypeOK, SessionType
<1>5. ASSUME NEW w \in Workers, Bind(w)
      PROVE  sessions'[s].state = sessions[s].state /\ sessions[s].agents \subseteq sessions'[s].agents
  BY <1>5 DEF Bind, Typed, TypeOK, SessionType
<1>6. ASSUME NEW w \in Workers, AcpVerify(w) PROVE UNCHANGED sessions \/ \E ss : sessions' = End(ss)
  BY <1>6 DEF AcpVerify
<1>7. CASE WatchApply \/ Crash
  BY <1>2, <1>7 DEF WatchApply, Crash
<1>8. ASSUME NEW w \in Workers,
             Lookup(w) \/ DispatchVerify(w) \/ Claim(w) \/ ActuatorVerify(w) \/ Begin(w)
             \/ Actuate(w) \/ Finish(w)
      PROVE  UNCHANGED sessions
  BY <1>8 DEF Lookup, DispatchVerify, Claim, ActuatorVerify, Begin, Actuate, Finish
<1>9. CASE \E w \in Workers : Call(w)
  BY <1>1, <1>2, <1>4, <1>5, <1>6, <1>8, <1>9 DEF Call
<1>10. CASE \/ \E g \in Grants : Issue(g) \/ Expire(g)
            \/ \E x \in Agents \cup Grants : Revoke(x)
            \/ Deactivate \/ Enroll \/ Initialize \/ WatchEpoch \/ WatchRows \/ UNCHANGED vars
  BY <1>1, <1>10 DEF Issue, Expire, Revoke, Deactivate, Enroll, Initialize, WatchEpoch, WatchRows, vars
<1>11. QED BY <1>3, <1>7, <1>9, <1>10 DEF Next, Watch

LEMMA StepKnown == Typed /\ DoomedKnown /\ [Next]_vars => DoomedKnown'
<1> SUFFICES ASSUME Typed, DoomedKnown, [Next]_vars PROVE DoomedKnown'
  OBVIOUS
<1>1. \A s \in doomed : sessions'[s].state # "new"
  BY SessionHistory DEF DoomedKnown, Typed, TypeOK
<1>2. CASE UNCHANGED doomed
  BY <1>1, <1>2 DEF DoomedKnown
<1>3. ASSUME NEW x \in Agents \cup Grants, Revoke(x) PROVE DoomedKnown'
  BY <1>1, <1>3 DEF Revoke, DoomedKnown, Open
<1>4. QED
  BY <1>2, <1>3 DEF Next, vars, history, Issue, Expire, Deactivate, Enroll, Initialize,
     NewSessionOpens, Cancel, Watch, WatchEpoch, WatchRows, WatchApply, Crash, Call, Prompt, AcpVerify,
     Lookup, DispatchVerify, Claim, ActuatorVerify, Begin, Actuate, Finish, Bind

LEMMA StepWatch == Typed /\ DoomedKnown /\ WatchInv /\ [Next]_vars => WatchInv'
<1> SUFFICES ASSUME Typed, DoomedKnown, WatchInv, [Next]_vars PROVE WatchInv'
  OBVIOUS
<1>0. \A s \in doomed : Open(s)' => Open(s) /\ sessions[s].agents \subseteq sessions'[s].agents
  BY SessionHistory DEF DoomedKnown, Open, Typed, TypeOK
<1>1. CASE UNCHANGED <<revoked, epoch, watcher, doomed>>
  BY <1>0, <1>1, WatchStable
<1>2. ASSUME NEW x \in Agents \cup Grants, Revoke(x) PROVE WatchInv'
  <2>1. /\ revoked' = revoked \cup {x} /\ epoch' = epoch + 1 /\ UNCHANGED <<watcher, sessions>>
        /\ doomed' = doomed \cup {s \in Sessions : Open(s) /\ x \in sessions[s].agents}
    BY <1>2 DEF Revoke
  <2>2. DoomedRevoked'
    BY <2>1 DEF WatchInv, DoomedRevoked, Open
  <2>3. watcher.last < epoch' /\ watcher.epoch < epoch'
    BY <2>1 DEF WatchInv, EpochsBehind, Typed, TypeOK, WatcherType
  <2>4. QED BY <2>1, <2>2, <2>3 DEF WatchInv, EpochsBehind, RowsCurrent, BoundSessionEnds, Typed, TypeOK,
                                    WatcherType
<1>3. CASE WatchEpoch
  <2>1. /\ watcher'.pc = "rows" /\ watcher'.epoch = epoch /\ watcher'.last = watcher.last
        /\ UNCHANGED <<revoked, epoch, doomed, sessions>>
    BY <1>3 DEF WatchEpoch, registry, history, Typed, TypeOK, WatcherType
  <2>2. QED BY <2>1 DEF WatchInv, DoomedRevoked, EpochsBehind, RowsCurrent, BoundSessionEnds, Open,
                        Typed, TypeOK
<1>4. CASE WatchRows
  <2>1. /\ watcher'.pc = "apply" /\ watcher'.epoch = watcher.epoch /\ watcher'.last = watcher.last
        /\ watcher'.rows = revoked /\ UNCHANGED <<revoked, epoch, doomed, sessions>>
    BY <1>4 DEF WatchRows, registry, history, Typed, TypeOK, WatcherType
  <2>2. QED BY <2>1 DEF WatchInv, DoomedRevoked, EpochsBehind, RowsCurrent, BoundSessionEnds, Open
<1>5. CASE WatchApply
  <2>1. /\ watcher'.pc = "idle" /\ watcher'.epoch = -1 /\ watcher'.last = watcher.epoch
        /\ sessions' = End(BoundTo(watcher.rows)) /\ UNCHANGED <<revoked, epoch, doomed>>
    BY <1>5 DEF WatchApply, IdleWatcher, registry, history
  <2>2. DoomedRevoked'
    BY <1>0, <2>1 DEF WatchInv, DoomedRevoked
  <2>3. EpochsBehind' /\ RowsCurrent'
    BY <2>1 DEF WatchInv, EpochsBehind, RowsCurrent, Typed, TypeOK, WatcherType
  <2>4. ASSUME watcher.epoch = epoch, NEW s \in doomed PROVE ~Open(s)'
    <3>1. s \in Sessions
      BY DEF Typed, TypeOK
    <3>2. CASE Open(s)
      <4>1. s \in BoundTo(watcher.rows)
        BY <1>5, <2>4, <3>1, <3>2 DEF WatchInv, RowsCurrent, BoundTo, WatchApply
      <4>2. QED BY <2>1, <3>1, <4>1, EndClosed DEF Open
    <3>3. QED BY <1>0, <3>2
  <2>5. BoundSessionEnds'
    BY <2>1, <2>4 DEF BoundSessionEnds
  <2>6. QED BY <2>2, <2>3, <2>5 DEF WatchInv
<1>6. CASE Crash
  <2>1. /\ watcher'.pc = "idle" /\ watcher'.epoch = -1 /\ watcher'.last = -1
        /\ sessions' = End({s \in Sessions : Open(s)}) /\ UNCHANGED <<revoked, epoch, doomed>>
    BY <1>6 DEF Crash, IdleWatcher, registry, history
  <2>2. \A s \in doomed : ~Open(s)'
    <3> SUFFICES ASSUME NEW s \in doomed, Open(s)' PROVE FALSE
      OBVIOUS
    <3>1. s \in {t \in Sessions : Open(t)}
      BY <1>0 DEF Typed, TypeOK
    <3>2. QED BY <2>1, <3>1, EndClosed DEF Open
  <2>3. QED BY <2>1, <2>2 DEF WatchInv, DoomedRevoked, EpochsBehind, RowsCurrent, BoundSessionEnds,
                              Typed, TypeOK
<1>7. QED
  BY <1>1, <1>2, <1>3, <1>4, <1>5, <1>6 DEF Next, vars, registry, history, Issue, Expire, Deactivate,
     Enroll, Initialize, NewSessionOpens, Cancel, Watch, Call, Prompt, AcpVerify, Lookup,
     DispatchVerify, Claim, ActuatorVerify, Begin, Actuate, Finish, Bind

(* RevocationWatcher.poll_once skips no epoch: whenever it has caught up   *)
(* with the registry, every session that was bound to an agent when the    *)
(* agent was revoked is closed, for any number of sessions, revocations,   *)
(* polls in progress and crashes.                                          *)
THEOREM WatcherSkipsNothing == Spec => []BoundSessionEnds
<1>1. Init => DoomedKnown /\ WatchInv
  BY DEF Init, IdleWatcher, DoomedKnown, WatchInv, DoomedRevoked, EpochsBehind, RowsCurrent,
         BoundSessionEnds
<1>2. Spec => [](Typed /\ DoomedKnown /\ WatchInv)
  BY <1>1, InitTyped, StepTyped, StepKnown, StepWatch, PTL DEF Spec
<1>3. WatchInv => BoundSessionEnds
  BY DEF WatchInv
<1>4. QED BY <1>2, <1>3, PTL

-----------------------------------------------------------------------------
(***************************************************************************)
(* The refinement.  An action id is a one-shot permit, whose state is the  *)
(* id's row.  What is missing so far is that a thread at the actuator has  *)
(* a row that is begun and not finished; the row was begun by this thread, *)
(* and only its holder finishes it.                                        *)
(***************************************************************************)
Begun(row) == row.outcome = "admitted" /\ row.started

RouteBegun == \A w \in Workers : worker[w].pc = "route" => Begun(store[worker[w].proof.action])

Whole == Typed /\ OnceInv /\ AnswerInv /\ RouteBegun

(* A begun row changes only when its holder finishes.                      *)
LEMMA BegunKept ==
  ASSUME Whole, [Next]_vars, NEW w \in Workers, worker[w].pc = "route", worker'[w] = worker[w]
  PROVE  Begun(store'[worker[w].proof.action])
<1> DEFINE a == worker[w].proof.action
<1>1. a \in Actions /\ Begun(store[a])
  BY HolderAction DEF Whole, RouteBegun, Steps
<1>2. CASE UNCHANGED store
  BY <1>1, <1>2
<1>3. ASSUME NEW v \in Workers, Claim(v) PROVE Begun(store'[a])
  BY <1>1, <1>3 DEF Claim, Begun, Whole, Typed, TypeOK
<1>4. ASSUME NEW v \in Workers, Begin(v) PROVE Begun(store'[a])
  BY <1>1, <1>4 DEF Begin, Begun, Whole, Typed, TypeOK, RowType
<1>5. ASSUME NEW v \in Workers, Finish(v), store' # store PROVE Begun(store'[a])
  <2>1. v # w /\ worker[v].pc = "finish" /\ worker[v].proof.action # a
    BY <1>5 DEF Finish, Whole, OnceInv, HeldAlone, Holding
  <2>2. store'[a] = store[a]
    BY <1>1, <1>5, <2>1 DEF Finish, Whole, Typed, TypeOK
  <2> QED BY <1>1, <2>2
<1>6. CASE \E v \in Workers : Call(v)
  <2>1. PICK v \in Workers : Call(v)
    BY <1>6
  <2>2. CASE Claim(v) \/ Begin(v) \/ Finish(v)
    BY <1>2, <1>3, <1>4, <1>5, <2>2
  <2>3. CASE ~(Claim(v) \/ Begin(v) \/ Finish(v))
    BY <1>2, <2>1, <2>3
       DEF Call, Prompt, AcpVerify, Lookup, DispatchVerify, ActuatorVerify, Actuate, Bind
  <2> QED BY <2>2, <2>3
<1>7. CASE ~(\E v \in Workers : Call(v))
  BY <1>2, <1>7 DEF Next, Issue, Expire, Revoke, Deactivate, Enroll, Initialize, NewSessionOpens,
                    Cancel, Watch, WatchEpoch, WatchRows, WatchApply, Crash, vars
<1> QED BY <1>6, <1>7

(* A thread comes to the actuator through begin() only.                    *)
LEMMA StepRouteBegun == Whole /\ [Next]_vars => RouteBegun'
<1> SUFFICES ASSUME Whole, [Next]_vars, NEW w \in Workers, worker'[w].pc = "route"
             PROVE  Begun(store'[worker'[w].proof.action])
  BY DEF RouteBegun, Begun
<1>1. CASE worker'[w] = worker[w]
  BY <1>1, BegunKept
<1>2. CASE worker'[w] # worker[w]
  <2>1. PICK v \in Workers : Call(v)
    BY <1>2, IdleWorkerTyped
       DEF Next, Issue, Expire, Revoke, Deactivate, Enroll, Initialize, NewSessionOpens,
           Cancel, Watch, WatchEpoch, WatchRows, WatchApply, Crash, vars, Whole, Typed, TypeOK
  <2>2. Begin(v)
    <3>1. ASSUME NEW pc \in Steps \ {"route"}, Advance(v, pc) PROVE FALSE
      BY <1>2, <3>1 DEF Advance, Whole, Typed, TypeOK, WorkerType
    <3>2. ASSUME Return(v) PROVE FALSE
      BY <1>2, <3>2, IdleWorkerTyped DEF Return, Whole, Typed, TypeOK
    <3>3. ASSUME NEW p \in Proofs, Prompt(v, p) PROVE FALSE
      BY <1>2, <3>3 DEF Prompt, Whole, Typed, TypeOK, IdleWorker
    <3>4. ASSUME Actuate(v) PROVE FALSE
      <4>1. CASE Advance(v, "finish")
        BY <3>1, <4>1 DEF Steps
      <4>2. CASE ~Advance(v, "finish")
        <5>1. PICK ok \in BOOLEAN :
                worker' = [worker EXCEPT ![v] = [worker[v] EXCEPT !.pc = "finish", !.ok = ok]]
          BY <3>4, <4>2 DEF Actuate
        <5> QED BY <1>2, <5>1 DEF Whole, Typed, TypeOK, WorkerType
      <4> QED BY <4>1, <4>2
    <3>5. ASSUME AcpVerify(v) \/ Lookup(v) \/ DispatchVerify(v) \/ Claim(v) \/ ActuatorVerify(v)
                 \/ Finish(v) \/ Bind(v)
          PROVE  FALSE
      BY <3>1, <3>2, <3>5
         DEF AcpVerify, Lookup, DispatchVerify, Claim, ActuatorVerify, Finish, Bind, Steps
    <3> QED BY <2>1, <3>3, <3>4, <3>5 DEF Call
  <2>3. v = w /\ worker[w].pc = "begin" /\ worker'[w].proof = worker[w].proof
        /\ worker[w].proof.action \in Actions
    BY <1>2, <2>2, HolderAction DEF Begin, Advance, Whole, Typed, TypeOK, WorkerType, Steps
  <2>4. /\ store[worker[w].proof.action].outcome = "admitted"
        /\ store' = [store EXCEPT ![worker[w].proof.action] =
                       [store[worker[w].proof.action] EXCEPT !.started = TRUE]]
    BY <2>2, <2>3 DEF Begin, Advance, Whole, Typed, TypeOK, WorkerType
  <2> QED BY <2>3, <2>4 DEF Begun, Whole, Typed, TypeOK, RowType
<1> QED BY <1>1, <1>2

(* The row of one action id changes, and with it its permit only.          *)
LEMMA RowStep ==
  ASSUME Typed, NEW a \in Actions, NEW row, store' = [store EXCEPT ![a] = row]
  PROVE  /\ Phases' = [Phases EXCEPT ![a] = Phase(row)] /\ Phases[a] = Phase(store[a])
         /\ Claimants' = [Claimants EXCEPT ![a] = row.proof] /\ Claimants[a] = store[a].proof
<1>1. /\ Phases' = [b \in Actions |-> Phase(store'[b])] /\ Claimants' = [b \in Actions |-> store'[b].proof]
      /\ \A b \in Actions : store'[b] = IF b = a THEN row ELSE store[b]
  BY DEF Typed, TypeOK, Phases, Claimants, Phase
<1>2. Phases' = [Phases EXCEPT ![a] = Phase(row)]
  <2>1. \A b \in Actions : Phase(store'[b]) = IF b = a THEN Phase(row) ELSE Phase(store[b])
    BY <1>1
  <2>2. Phases' = [b \in Actions |-> IF b = a THEN Phase(row) ELSE Phase(store[b])]
    BY <1>1, <2>1
  <2> QED BY <2>2 DEF Phases
<1>3. Claimants' = [Claimants EXCEPT ![a] = row.proof]
  <2>1. Claimants' = [b \in Actions |-> IF b = a THEN row.proof ELSE store[b].proof]
    BY <1>1
  <2> QED BY <2>1 DEF Claimants
<1> QED BY <1>2, <1>3 DEF Phases, Claimants

LEMMA ClaimTakes ==
  ASSUME Whole, NEW w \in Workers, Claim(w), store' # store
  PROVE  Permit!Next
<1> DEFINE p == worker[w].proof
           row == [AbsentRow EXCEPT !.outcome = "admitted", !.proof = p]
<1>1. p \in Proofs /\ p.action \in Actions
  BY HolderAction DEF Claim, Whole, Typed, ProofHeld, Steps
<1>2. store[p.action].outcome = "absent" /\ store' = [store EXCEPT ![p.action] = row]
      /\ UNCHANGED <<actuated, answers>>
  BY DEF Claim, history
<1>3. Phase(row) = "taken" /\ row.proof = p
  BY DEF Phase, AbsentRow
<1>4. Phase(store[p.action]) = "absent"
  BY <1>2 DEF Phase
<1> HIDE DEF row, p
<1>5. Permit!Take(p.action, p)
  <2>1. Typed /\ p.action \in Actions /\ store' = [store EXCEPT ![p.action] = row]
    BY <1>1, <1>2 DEF Whole
  <2>2. /\ Phases' = [Phases EXCEPT ![p.action] = Phase(row)] /\ Phases[p.action] = Phase(store[p.action])
        /\ Claimants' = [Claimants EXCEPT ![p.action] = row.proof]
    BY <2>1, RowStep
  <2>3. /\ Phases' = [Phases EXCEPT ![p.action] = "taken"] /\ Phases[p.action] = "absent"
        /\ Claimants' = [Claimants EXCEPT ![p.action] = p]
    BY <1>3, <1>4, <2>2
  <2> QED BY <1>2, <2>3 DEF Permit!Take, Permit!Enter
<1>6. \E h \in Proofs : Permit!Take(p.action, h)
  BY <1>1, <1>5
<1> QED BY <1>1, <1>6 DEF Permit!Next

LEMMA BeginBegins ==
  ASSUME Whole, NEW w \in Workers, Begin(w), store' # store
  PROVE  Permit!Next
<1> DEFINE a == worker[w].proof.action
           row == [store[a] EXCEPT !.started = TRUE]
<1>1. a \in Actions
  BY HolderAction DEF Begin, Whole, Steps
<1>2. store[a].outcome = "admitted" /\ ~store[a].started /\ store' = [store EXCEPT ![a] = row]
      /\ UNCHANGED <<actuated, answers>>
  BY DEF Begin, history
<1>3. Phase(row) = "begun" /\ row.proof = store[a].proof /\ Phase(store[a]) = "taken"
  BY <1>1, <1>2 DEF Phase, Whole, Typed, TypeOK, RowType
<1> HIDE DEF row, a
<1>4. UNCHANGED Claimants
  BY <1>1, <1>2, <1>3 DEF Whole, Typed, TypeOK, Claimants
<1>5. Permit!Begin(a)
  <2>1. Typed /\ a \in Actions /\ store' = [store EXCEPT ![a] = row]
    BY <1>1, <1>2 DEF Whole
  <2>2. Phases' = [Phases EXCEPT ![a] = Phase(row)] /\ Phases[a] = Phase(store[a])
    BY <2>1, RowStep
  <2>3. Phases' = [Phases EXCEPT ![a] = "begun"] /\ Phases[a] = "taken"
    BY <1>3, <2>2
  <2> QED BY <1>2, <1>4, <2>3 DEF Permit!Begin, Permit!Enter
<1> QED BY <1>1, <1>5 DEF Permit!Next

LEMMA ActuateUses ==
  ASSUME Whole, NEW w \in Workers, Actuate(w), actuated' # actuated
  PROVE  Permit!Next
<1> DEFINE a == worker[w].proof.action
<1>1. a \in Actions /\ worker[w].pc = "route" /\ UNCHANGED <<store, answers>>
  BY HolderAction DEF Actuate, Whole, Steps
<1>2. actuated[a] = 0 /\ Phase(store[a]) = "begun"
  BY <1>1 DEF Whole, OnceInv, HeldAlone, Holding, RouteBegun, Begun, Phase
<1>3. actuated' = [actuated EXCEPT ![a] = 1]
  <2>1. actuated' = [actuated EXCEPT ![a] = actuated[a] + 1]
    BY DEF Actuate
  <2> QED BY <1>2, <2>1
<1> HIDE DEF a
<1>4. Permit!Use(a)
  BY <1>1, <1>2, <1>3 DEF Permit!Use, Phases, Claimants
<1> QED BY <1>1, <1>4 DEF Permit!Next

LEMMA FinishSettles ==
  ASSUME Whole, NEW w \in Workers, Finish(w), ~UNCHANGED <<store, answers>>
  PROVE  Permit!Next
<1> DEFINE a == worker[w].proof.action
           row == [store[a] EXCEPT !.outcome = Status(w)]
<1>1. a \in Actions /\ UNCHANGED actuated
  BY HolderAction DEF Finish, Whole, Steps
<1>2. /\ store[a].outcome = "admitted" /\ store[a].started /\ store' = [store EXCEPT ![a] = row]
      /\ answers' = [answers EXCEPT ![a] = answers[a] \cup {Status(w)}]
  BY DEF Finish
<1>3. Status(w) \in {"succeeded", "failed"} /\ (Status(w) = "succeeded" => actuated[a] = 1)
  BY DEF Status, Whole, AnswerInv, OkActuated
<1>4. Phase(row) = Status(w) /\ row.proof = store[a].proof /\ Phase(store[a]) = "begun"
  BY <1>1, <1>2, <1>3 DEF Phase, Whole, Typed, TypeOK, RowType
<1> HIDE DEF row, a
<1>5. UNCHANGED Claimants
  BY <1>1, <1>2, <1>4 DEF Whole, Typed, TypeOK, Claimants
<1>6. Permit!Settle(a, Status(w))
  <2>1. Typed /\ a \in Actions /\ store' = [store EXCEPT ![a] = row]
    BY <1>1, <1>2 DEF Whole
  <2>2. Phases' = [Phases EXCEPT ![a] = Phase(row)] /\ Phases[a] = Phase(store[a])
    BY <2>1, RowStep
  <2>3. Phases' = [Phases EXCEPT ![a] = Status(w)] /\ Phases[a] = "begun"
    BY <1>4, <2>2
  <2> QED BY <1>1, <1>2, <1>3, <1>5, <2>3 DEF Permit!Settle, Permit!Enter, Permit!Tell
<1> QED BY <1>1, <1>3, <1>6 DEF Permit!Next, Permit!Outcomes

LEMMA LookupAsks ==
  ASSUME Whole, NEW w \in Workers, Lookup(w), answers' # answers
  PROVE  Permit!Next
<1> DEFINE a == worker[w].proof.action
<1>1. a \in Actions /\ UNCHANGED <<store, actuated>>
  BY HolderAction DEF Lookup, Whole, Steps
<1>2. /\ store[a].outcome \in {"succeeded", "failed"}
      /\ answers' = [answers EXCEPT ![a] = answers[a] \cup {store[a].outcome}]
  BY DEF Lookup, Recoverable
<1>3. Phase(store[a]) = store[a].outcome
  BY <1>2 DEF Phase
<1> HIDE DEF a
<1>4. Permit!Ask(a)
  BY <1>1, <1>2, <1>3 DEF Permit!Ask, Permit!Tell, Permit!Outcomes, Phases, Claimants
<1> QED BY <1>1, <1>4 DEF Permit!Next

LEMMA PermitStep == Whole /\ [Next]_vars => [Permit!Next]_(Permit!vars)
<1> SUFFICES ASSUME Whole, [Next]_vars PROVE Permit!Next \/ UNCHANGED Permit!vars
  OBVIOUS
<1>1. CASE UNCHANGED <<store, actuated, answers>>
  BY <1>1 DEF Permit!vars, Phases, Claimants, Phase
<1>2. CASE ~UNCHANGED <<store, actuated, answers>>
  <2>1. PICK w \in Workers : Call(w)
    BY <1>2 DEF Next, Issue, Expire, Revoke, Deactivate, Enroll, Initialize, NewSessionOpens,
                Cancel, Watch, WatchEpoch, WatchRows, WatchApply, Crash, vars, history
  <2>2. CASE Claim(w) \/ Begin(w)
    BY <1>2, <2>2, ClaimTakes, BeginBegins DEF Claim, Begin, history
  <2>3. CASE Actuate(w) \/ Finish(w) \/ Lookup(w)
    BY <1>2, <2>3, ActuateUses, FinishSettles, LookupAsks DEF Actuate, Finish, Lookup
  <2> QED BY <1>2, <2>1, <2>2, <2>3
          DEF Call, Prompt, AcpVerify, DispatchVerify, ActuatorVerify, Bind, history
<1> QED BY <1>1, <1>2

(* The replay store and the final boundary implement the one-shot permit:  *)
(* an action id belongs to the proof that claimed it for good, is actuated *)
(* at most once, only while its row is durably begun and nobody has been   *)
(* told an outcome, and its outcome never changes, whichever calls race    *)
(* and wherever the process dies.                                          *)
THEOREM ActionIdsAreOneShot == Spec => ImplementsOneShotPermit
<1>1. Init => Whole /\ Permit!Init
  <2> SUFFICES ASSUME Init PROVE RouteBegun /\ Permit!Init
    BY InitTyped, InitOnce, InitAnswer DEF Whole
  <2>1. RouteBegun
    BY DEF Init, RouteBegun, IdleWorker
  <2>2. \A a \in Actions : Phase(store[a]) = "absent" /\ store[a].proof = NoProof
    BY DEF Init, AbsentRow, Phase
  <2> QED BY <2>1, <2>2 DEF Init, Permit!Init, Phases, Claimants
<1>2. Whole /\ [Next]_vars => Whole'
  BY StepTyped, StepOnce, StepAnswer, StepRouteBegun DEF Whole
<1>3. Whole /\ [Next]_vars => [Permit!Next]_(Permit!vars)
  BY PermitStep
<1> QED BY <1>1, <1>2, <1>3, PTL DEF Spec, ImplementsOneShotPermit, Permit!Spec
=============================================================================
