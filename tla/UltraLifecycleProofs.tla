------------------------ MODULE UltraLifecycleProofs ------------------------
(***************************************************************************)
(* Theorems about UltraLifecycle, for any number of gates, requests in      *)
(* flight, keys, counters and mishaps.                                      *)
(*                                                                         *)
(* The inductive invariant IInv has four parts.  Tidy: a handler and the    *)
(* gate that waits for it agree on the call.  Works: what a handler has     *)
(* found at an earlier await still holds, since rows only grow.  Alone:     *)
(* what it has found missing under a resource lock is still missing, since  *)
(* nobody else holds that lock.  Shelved: what the tables then show.        *)
(***************************************************************************)
EXTENDS UltraLifecycle, FiniteSetTheorems, WellFoundedInduction, TLAPS

(***************************************************************************)
(* Types                                                                   *)
(***************************************************************************)

Ops    == ClaimOps \cup {"idle", "resume", "commit", "verify", "patch"}
Places == {"start", "list", "insert", "done", "map", "swap", "revoke", "set"}
Calls  == Booting \cup {"ready", "prepare", "commit", "verify"}

KeyMap    == [label : Labels, of : 0 .. MaxKeys, status : Statuses, counter : Nat]
Row       == [state : {"none", "processing", "complete"}, response : Nat, counter : Nat]
Handling  == [op : Ops, at : Places, from : Gates \cup {NoGate}, arg : 0 .. MaxKeys, new : Nat,
              status : Statuses \cup {"same"}, seen : Nat, map : KeyMap]
GateState == [at : Calls, tsk : 0 .. MaxKeys, counter : Nat, cand : 0 .. MaxKeys, candCounter : Nat]

\* the values in the tables; the bounds of the model on counters play no part
Tables ==
  /\ pairs \in Nat
  /\ keys \in [Clients -> KeyMap]
  /\ binding \in 0 .. MaxKeys
  /\ idem \in [IdemKeys -> Row]
  /\ spent \subseteq Clients \X Nat
  /\ mishaps \in [Mishaps -> Nat]

\* a gate past its first answer with a key has one
Keyed(r) == /\ r.at \notin {"register", "resume", "provision"} => r.tsk \in Clients
            /\ r.at = "commit" => r.cand \in Clients

\* a gate waits for one handler, which works on the call the gate is at
Linked ==
  /\ \A s \in Slots : handlers[s].from # NoGate => gates[handlers[s].from].at = handlers[s].op
  /\ \A s, t \in Slots : s # t /\ handlers[s].from # NoGate => handlers[s].from # handlers[t].from

Tidy ==
  /\ handlers \in [Slots -> Handling]
  /\ gates \in [Gates -> GateState]
  /\ \A g \in Gates : Keyed(gates[g])
  /\ Linked

(***************************************************************************)
(* What a handler has found, and relies on                                 *)
(***************************************************************************)

Used(k) == keys[k].label # "none"

Fetches(h) == h.op = "patch" \/ (h.op = "commit" /\ h.at = "set")

Works(h) ==
  /\ h.op \in ClaimOps => h.at \in {"start", "list", "insert", "done"}
  /\ h.op \in {"register", "provision"} => h.arg = 0
  /\ h.op \in {"bind", "prepare", "commit", "verify", "patch"} => h.arg \in Clients
  /\ h.op = "resume" /\ h.at = "map" => h.seen \in Clients
  /\ h.op = "register" /\ h.at = "done" => h.seen \in 1 .. pairs
  /\ h.op = "provision" /\ h.at = "done" => h.seen \in AgentKeys
  /\ h.op = "prepare" /\ h.at = "done" => h.seen \in Candidates(h.arg)
  /\ h.op = "prepare" /\ h.at # "start" => Used(h.arg)
  /\ h.op = "bind" /\ h.at \in {"insert", "done"} => h.arg \in AgentKeys
  /\ h.op = "verify" /\ h.at = "done" => Used(h.arg)
  /\ h.op = "commit" /\ h.at \in {"swap", "revoke", "set"} => h.new \in Candidates(h.arg)
  /\ h.op = "commit" /\ h.at \in {"revoke", "set"} => h.arg < binding
  /\ Fetches(h) => Used(h.arg) /\ h.map.label = keys[h.arg].label /\ h.map.of = keys[h.arg].of

Vacant(h) ==
  /\ h.op = "register" /\ h.at = "insert" => pairs = 0
  /\ h.op = "provision" /\ h.at = "insert" => AgentKeys = {}
  /\ h.op = "prepare" /\ h.at = "insert" => Candidates(h.arg) = {}

Alone ==
  /\ \A s \in Slots : Vacant(handlers[s])
  /\ \A s, t \in Slots : s # t /\ Holding(handlers[s]) /\ Holding(handlers[t]) =>
                             ~SameLock(handlers[s], handlers[t])

Working == \A s \in Slots : Works(handlers[s])

(***************************************************************************)
(* What the tables show                                                    *)
(***************************************************************************)

\* ids are given out in the order of creation, so a candidate is younger than
\* the key it is to replace, and a binding only moves to a younger key
InOrder ==
  /\ \A c, d \in Clients : c < d /\ Used(d) => Used(c)
  /\ \A c \in Clients : keys[c].label = "rotation" => keys[c].of < c
  /\ binding # NoClient => Used(binding)

Single ==
  /\ pairs <= 1
  /\ \A c, d \in AgentKeys : c = d
  /\ \A k \in Clients : \A c, d \in Candidates(k) : c = d

Answered ==
  /\ idem[<<"register", 0>>].state = "complete" => idem[<<"register", 0>>].response \in 1 .. pairs
  /\ idem[<<"provision", 0>>].state = "complete" => idem[<<"provision", 0>>].response \in AgentKeys
  /\ \A k \in Clients : idem[<<"prepare", k>>].state = "complete" =>
         idem[<<"prepare", k>>].response \in Candidates(k)

Passed == \A u \in spent : Used(u[1]) /\ keys[u[1]].counter > u[2]

\* without an operator's edit, a key that is not active is older than the bound one
Retired ==
  mishaps["patch"] = 0 =>
    /\ \A k \in Clients : Active(k) \/ k < binding
    /\ \A s \in Slots : handlers[s].op # "patch"

Shelved == InOrder /\ Single /\ Answered /\ Passed /\ Retired

IInv == Tables /\ Tidy /\ Working /\ Alone /\ Shelved

(***************************************************************************)
(* Steps of a handler                                                      *)
(***************************************************************************)

Others(s) == \A t \in Slots \ {s} : handlers'[t] = handlers[t]

Kept(s) == /\ Others(s)
           /\ handlers'[s].op = handlers[s].op /\ handlers'[s].from = handlers[s].from
           /\ handlers'[s].arg = handlers[s].arg /\ handlers'[s].new = handlers[s].new

Ended(s) == Others(s) /\ handlers'[s] = Idle

Cleared == \A t \in Slots : handlers'[t] = Idle

LEMMA LeastExists ==
  ASSUME NEW S \in SUBSET Nat, S # {}
  PROVE  \E x \in S : \A y \in S : x <= y
<1> DEFINE R == OpToRel(<, Nat)
<1>1. PICK x \in S : \A y \in S : <<y, x>> \notin R
  <2>1. IsWellFoundedOn(R, Nat)
    BY NatLessThanWellFounded
  <2> HIDE DEF R
  <2> QED BY <2>1, WFMin
<1>2. \A y \in S : ~(y < x)
  BY <1>1 DEF OpToRel
<1> QED BY <1>2

LEMMA FirstIdleSlot ==
  ASSUME IdleSlots # {}
  PROVE  FirstIdle \in Slots /\ handlers[FirstIdle].op = "idle"
<1>1. IdleSlots \in SUBSET Nat
  BY LifecycleConstants DEF IdleSlots, Slots
<1>2. \E s \in IdleSlots : \A t \in IdleSlots : s <= t
  BY <1>1, LeastExists
<1>3. FirstIdle \in IdleSlots
  BY <1>2 DEF FirstIdle
<1> QED BY <1>3 DEF IdleSlots

LEMMA NextClient ==
  ASSUME NEW k, k = CHOOSE c \in Unused : \A d \in Unused : c <= d, Unused # {}
  PROVE  k \in Unused /\ \A d \in Unused : k <= d
<1>1. Unused \in SUBSET Nat
  BY LifecycleConstants DEF Unused, Clients
<1> QED BY <1>1, LeastExists

LEMMA IdleHandler ==
  /\ Idle \in Handling /\ Idle.op = "idle" /\ Idle.at = "start" /\ Idle.from = NoGate
  /\ Idle.arg = 0 /\ Idle.new = 0 /\ Idle.map = NoMap /\ Idle.seen = 0 /\ Idle.status = "same"
  /\ NoMap \in KeyMap /\ NoMap.counter = 0
<1>1. NoMap \in KeyMap /\ NoMap.counter = 0
  BY LifecycleConstants DEF NoMap, KeyMap, NoClient, Labels, Statuses
<1> QED BY <1>1, LifecycleConstants DEF Idle, Handling, Ops, Places

LEMMA FreshGate == Fresh \in GateState /\ Keyed(Fresh) /\ Fresh.at = "register"
BY LifecycleConstants DEF Fresh, GateState, Calls, Booting, NoClient, Keyed

LEMMA GoMoves ==
  ASSUME Tidy, NEW s \in Slots, NEW where \in Places, Go(s, where)
  PROVE  /\ handlers' \in [Slots -> Handling] /\ Kept(s) /\ handlers'[s].at = where
         /\ handlers'[s].seen = handlers[s].seen /\ handlers'[s].map = handlers[s].map
<1> DEFINE r == [handlers[s] EXCEPT !.at = where]
<1>1. /\ r \in Handling /\ r.op = handlers[s].op /\ r.from = handlers[s].from /\ r.arg = handlers[s].arg
      /\ r.new = handlers[s].new /\ r.at = where /\ r.seen = handlers[s].seen /\ r.map = handlers[s].map
  BY DEF Tidy, Handling
<1>2. handlers' = [handlers EXCEPT ![s] = r]
  BY DEF Go
<1> HIDE DEF r
<1> QED BY <1>1, <1>2 DEF Tidy, Kept, Others

LEMMA GoWithMoves ==
  ASSUME Tidy, NEW s \in Slots, NEW where \in Places, NEW v \in Nat, GoWith(s, where, v)
  PROVE  /\ handlers' \in [Slots -> Handling] /\ Kept(s) /\ handlers'[s].at = where
         /\ handlers'[s].seen = v /\ handlers'[s].map = handlers[s].map
<1> DEFINE r == [[handlers[s] EXCEPT !.at = where] EXCEPT !.seen = v]
<1>1. /\ r \in Handling /\ r.op = handlers[s].op /\ r.from = handlers[s].from /\ r.arg = handlers[s].arg
      /\ r.new = handlers[s].new /\ r.at = where /\ r.seen = v /\ r.map = handlers[s].map
  BY DEF Tidy, Handling
<1>2. handlers' = [handlers EXCEPT ![s] = r]
  BY DEF GoWith, Tidy
<1> HIDE DEF r
<1> QED BY <1>1, <1>2 DEF Tidy, Kept, Others

LEMMA GoMapMoves ==
  ASSUME Tidy, NEW s \in Slots, NEW where \in Places, NEW k \in Clients, keys[k] \in KeyMap,
         GoMap(s, where, k)
  PROVE  /\ handlers' \in [Slots -> Handling] /\ Kept(s) /\ handlers'[s].at = where
         /\ handlers'[s].map = keys[k]
<1> DEFINE r == [[handlers[s] EXCEPT !.at = where] EXCEPT !.map = keys[k]]
<1>1. /\ r \in Handling /\ r.op = handlers[s].op /\ r.from = handlers[s].from /\ r.arg = handlers[s].arg
      /\ r.new = handlers[s].new /\ r.at = where /\ r.map = keys[k]
  BY DEF Tidy, Handling
<1>2. handlers' = [handlers EXCEPT ![s] = r]
  BY DEF GoMap, Tidy
<1> HIDE DEF r
<1> QED BY <1>1, <1>2 DEF Tidy, Kept, Others

LEMMA KeptLinked ==
  ASSUME Tidy, NEW s \in Slots, handlers' \in [Slots -> Handling], Kept(s), UNCHANGED gates
  PROVE  Tidy'
BY DEF Tidy, Linked, Kept, Others, Keyed

LEMMA RespondMoves ==
  ASSUME Tidy, NEW s \in Slots, NEW then, Respond(s, then),
         handlers[s].from # NoGate => then \in GateState /\ Keyed(then)
  PROVE  Tidy' /\ Ended(s)
<1>1. handlers' \in [Slots -> Handling] /\ Ended(s) /\ handlers'[s].from = NoGate
  BY IdleHandler DEF Respond, Tidy, Ended, Others
<1>2. CASE handlers[s].from = NoGate
  <2>1. gates' = gates
    BY <1>2 DEF Respond
  <2> QED BY <1>1, <2>1 DEF Tidy, Linked, Ended, Others, Keyed
<1>3. CASE handlers[s].from # NoGate
  <2>1. PICK g \in Gates : g = handlers[s].from
    BY <1>3 DEF Tidy, Handling
  <2>2. gates' = [gates EXCEPT ![g] = then]
    BY <1>3, <2>1 DEF Respond
  <2>3. gates'[g] = then /\ \A f \in Gates \ {g} : gates'[f] = gates[f]
    BY <2>2 DEF Tidy
  <2>4. gates' \in [Gates -> GateState]
    BY <1>3, <2>2 DEF Tidy
  <2>5. \A f \in Gates : Keyed(gates'[f])
    BY <1>3, <2>3 DEF Tidy
  <2>6. \A t \in Slots \ {s} : handlers[t].from # g
    BY <1>3, <2>1 DEF Tidy, Linked
  <2>7. \A t \in Slots : handlers[t].from \in Gates \cup {NoGate}
    BY DEF Tidy, Handling
  <2>8. Linked'
    BY <1>1, <2>3, <2>6, <2>7 DEF Tidy, Linked, Ended, Others
  <2> QED BY <1>1, <2>4, <2>5, <2>8 DEF Tidy, Keyed
<1> QED BY <1>2, <1>3

LEMMA ErrorGate ==
  ASSUME Tidy, NEW g \in Gates
  PROVE  AfterError(g) \in GateState /\ Keyed(AfterError(g))
<1>0. g # NoGate /\ gates[g] \in GateState /\ Keyed(gates[g])
  BY LifecycleConstants DEF Tidy
<1>1. CASE gates[g].at \in Booting
  BY <1>0, <1>1, FreshGate DEF AfterError
<1>2. CASE gates[g].at \notin Booting
  <2> DEFINE r == [gates[g] EXCEPT !.at = "ready", !.cand = NoClient, !.candCounter = 0]
  <2>1. AfterError(g) = r
    BY <1>0, <1>2 DEF AfterError
  <2>2. r \in GateState /\ r.at = "ready" /\ r.tsk = gates[g].tsk
    <3>1. NoClient \in 0 .. MaxKeys
      BY LifecycleConstants DEF NoClient
    <3>2. PICK was : was = gates[g]
      OBVIOUS
    <3>3. was \in GateState /\ r = [was EXCEPT !.at = "ready", !.cand = NoClient, !.candCounter = 0]
      BY <1>0, <3>2
    <3> QED BY <3>1, <3>2, <3>3 DEF GateState, Calls
  <2>3. gates[g].tsk \in Clients
    BY <1>0, <1>2 DEF Keyed, Booting
  <2> HIDE DEF r
  <2> QED BY <2>1, <2>2, <2>3 DEF Keyed
<1> QED BY <1>1, <1>2

LEMMA FailMoves ==
  ASSUME Tidy, NEW s \in Slots, Fail(s)
  PROVE  Tidy' /\ Ended(s)
<1>1. handlers[s].from \in Gates \cup {NoGate}
  BY DEF Tidy, Handling
<1> QED BY <1>1, ErrorGate, RespondMoves DEF Fail

\* the gate that a handler answers
Was(s) == IF handlers[s].from = NoGate THEN Fresh ELSE gates[handlers[s].from]

LEMMA AnswerMoves ==
  ASSUME Tidy, NEW s \in Slots, NEW value, NEW counter \in Nat, Answer(s, value, counter),
         handlers[s].op \in {"resume", "provision", "prepare"} => value \in Clients
  PROVE  Tidy' /\ Ended(s)
<1> DEFINE was == Was(s)
           op  == handlers[s].op
           key == parse_provision_payload(was, value, counter)
           r1 == [was EXCEPT !.at = "resume"]
           r2 == [key EXCEPT !.at = "ready"]
           r3 == [key EXCEPT !.at = "bind"]
           r4 == [was EXCEPT !.at = "ready"]
           r5 == [was EXCEPT !.at = "commit", !.cand = value, !.candCounter = counter]
           r6 == [was EXCEPT !.at = "ready", !.tsk = was.cand, !.counter = was.candCounter,
                             !.cand = NoClient, !.candCounter = 0]
           r7 == [commit_hotp_counter(was) EXCEPT !.at = "ready"]
           then == CASE op = "register"  -> r1
                     [] op = "resume"    -> r2
                     [] op = "provision" -> r3
                     [] op = "bind"      -> r4
                     [] op = "prepare"   -> r5
                     [] op = "commit"    -> r6
                     [] op = "verify"    -> r7
                     [] OTHER            -> was
<1>1. Respond(s, then)
  BY DEF Answer, Was
<1>2. ASSUME handlers[s].from # NoGate
      PROVE  then \in GateState /\ Keyed(then)
  <2>1. was \in GateState /\ Keyed(was) /\ was.at = op
    <3>1. handlers[s].from \in Gates
      BY <1>2 DEF Tidy, Handling
    <3> QED BY <1>2, <3>1 DEF Tidy, Linked, Was
  <2>2. NoClient \in 0 .. MaxKeys /\ Clients \subseteq 0 .. MaxKeys
    BY LifecycleConstants DEF NoClient, Clients
  <2> HIDE DEF was
  <2>3. CASE op = "register"
    <3>1. r1 \in GateState /\ r1.at = "resume"
      BY <2>1 DEF GateState, Calls, Booting
    <3>2. then = r1
      BY <2>3
    <3> HIDE DEF r1, then
    <3> QED BY <3>1, <3>2 DEF Keyed
  <2>4. CASE op = "resume"
    <3>1. r2 \in GateState /\ r2.at = "ready" /\ r2.tsk = value /\ value \in Clients
      BY <2>1, <2>2, <2>4 DEF GateState, Calls, parse_provision_payload
    <3>2. then = r2
      BY <2>4
    <3> HIDE DEF r2, then
    <3> QED BY <3>1, <3>2 DEF Keyed
  <2>5. CASE op = "provision"
    <3>1. r3 \in GateState /\ r3.at = "bind" /\ r3.tsk = value /\ value \in Clients
      BY <2>1, <2>2, <2>5 DEF GateState, Calls, Booting, parse_provision_payload
    <3>2. then = r3
      BY <2>5
    <3> HIDE DEF r3, then
    <3> QED BY <3>1, <3>2 DEF Keyed
  <2>6. CASE op = "bind"
    <3>1. r4 \in GateState /\ r4.at = "ready" /\ r4.tsk = was.tsk /\ was.tsk \in Clients
      BY <2>1, <2>6 DEF GateState, Calls, Keyed
    <3>2. then = r4
      BY <2>6
    <3> HIDE DEF r4, then
    <3> QED BY <3>1, <3>2 DEF Keyed
  <2>7. CASE op = "prepare"
    <3>1. /\ r5 \in GateState /\ r5.at = "commit" /\ r5.tsk = was.tsk /\ was.tsk \in Clients
          /\ r5.cand = value /\ value \in Clients
      BY <2>1, <2>2, <2>7 DEF GateState, Calls, Keyed
    <3>2. then = r5
      BY <2>7
    <3> HIDE DEF r5, then
    <3> QED BY <3>1, <3>2 DEF Keyed
  <2>8. CASE op = "commit"
    <3>1. r6 \in GateState /\ r6.at = "ready" /\ r6.tsk = was.cand /\ was.cand \in Clients
      BY <2>1, <2>2, <2>8 DEF GateState, Calls, Keyed
    <3>2. then = r6
      BY <2>8
    <3> HIDE DEF r6, then
    <3> QED BY <3>1, <3>2 DEF Keyed
  <2>9. CASE op = "verify"
    <3>1. r7 \in GateState /\ r7.at = "ready" /\ r7.tsk = was.tsk /\ was.tsk \in Clients
      <4>1. was.counter + 1 \in Nat /\ was.tsk \in Clients
        BY <2>1, <2>9 DEF GateState, Keyed
      <4>2. PICK n \in Nat : n = was.counter + 1
        BY <4>1
      <4>3. r7 = [[was EXCEPT !.counter = n] EXCEPT !.at = "ready"]
        BY <4>2 DEF commit_hotp_counter
      <4> QED BY <2>1, <4>1, <4>3 DEF GateState, Calls
    <3>2. then = r7
      BY <2>9
    <3> HIDE DEF r7, then
    <3> QED BY <3>1, <3>2 DEF Keyed
  <2>10. CASE op \notin {"register", "resume", "provision", "bind", "prepare", "commit", "verify"}
    <3>1. then = was
      BY <2>10
    <3> HIDE DEF then
    <3> QED BY <2>1, <3>1
  <2> QED BY <2>3, <2>4, <2>5, <2>6, <2>7, <2>8, <2>9, <2>10
<1> HIDE DEF then
<1> QED BY <1>1, <1>2, RespondMoves

LEMMA DownMoves == ASSUME Tidy, Down PROVE Tidy' /\ Cleared
<1>1. handlers' \in [Slots -> Handling] /\ Cleared
  BY IdleHandler DEF Down, Cleared
<1>2. \A g \in Gates : gates'[g] \in {AfterError(g), gates[g]}
  BY DEF Down
<1>3. \A g \in Gates : gates'[g] \in GateState /\ Keyed(gates'[g])
  BY <1>2, ErrorGate DEF Tidy
<1>4. gates' \in [Gates -> GateState]
  BY <1>3 DEF Down
<1>5. Linked'
  BY <1>1, IdleHandler DEF Linked, Cleared
<1> QED BY <1>1, <1>3, <1>4, <1>5 DEF Tidy, Keyed

\* nobody waits for the handler of g any more
Orphaned(g) ==
  \A t \in Slots : /\ handlers'[t].op = handlers[t].op /\ handlers'[t].at = handlers[t].at
                   /\ handlers'[t].arg = handlers[t].arg /\ handlers'[t].new = handlers[t].new
                   /\ handlers'[t].seen = handlers[t].seen /\ handlers'[t].map = handlers[t].map
                   /\ handlers'[t].from = IF handlers[t].from = g THEN NoGate ELSE handlers[t].from

LEMMA OrphanMoves ==
  ASSUME Tidy, NEW g \in Gates, handlers' = Orphan(g), NEW r \in GateState, Keyed(r),
         gates' = [gates EXCEPT ![g] = r]
  PROVE  Tidy' /\ Orphaned(g)
<1>1. ASSUME NEW t \in Slots
      PROVE  /\ handlers'[t] \in Handling
             /\ handlers'[t].op = handlers[t].op /\ handlers'[t].at = handlers[t].at
             /\ handlers'[t].arg = handlers[t].arg /\ handlers'[t].new = handlers[t].new
             /\ handlers'[t].seen = handlers[t].seen /\ handlers'[t].map = handlers[t].map
             /\ handlers'[t].from = IF handlers[t].from = g THEN NoGate ELSE handlers[t].from
  <2>1. handlers[t] \in Handling
    BY DEF Tidy
  <2>2. handlers'[t] = IF handlers[t].from = g THEN [handlers[t] EXCEPT !.from = NoGate] ELSE handlers[t]
    BY DEF Orphan
  <2>3. CASE handlers[t].from = g
    <3>1. handlers'[t] = [handlers[t] EXCEPT !.from = NoGate]
      BY <2>2, <2>3
    <3> QED BY <2>1, <2>3, <3>1 DEF Handling
  <2> QED BY <2>1, <2>2, <2>3
<1>2. handlers' \in [Slots -> Handling] /\ Orphaned(g)
  BY <1>1 DEF Orphan, Orphaned
<1>3. gates' \in [Gates -> GateState] /\ gates'[g] = r /\ \A f \in Gates \ {g} : gates'[f] = gates[f]
  BY DEF Tidy
<1>4. \A f \in Gates : Keyed(gates'[f])
  BY <1>3 DEF Tidy
<1>5. \A t \in Slots : handlers[t].from \in Gates \cup {NoGate}
  BY DEF Tidy, Handling
<1>6. Linked'
  BY <1>2, <1>3, <1>5 DEF Tidy, Linked, Orphaned
<1> QED BY <1>2, <1>3, <1>4, <1>6 DEF Tidy, Keyed

LEMMA CallMoves ==
  ASSUME Tidy, NEW g \in Gates, Call(g)
  PROVE  Tidy' /\ \E s \in Slots : /\ Others(s) /\ handlers[s].op = "idle"
                                   /\ handlers'[s].op = gates[g].at /\ handlers'[s].at = "start"
                                   /\ handlers'[s].arg = Request(g).arg
<1>1. PICK s \in Slots : s = FirstIdle /\ handlers[s].op = "idle"
  BY FirstIdleSlot DEF Call
<1>2. gates[g] \in GateState /\ gates[g].at # "ready" /\ gates' = gates /\ ~Waiting(g) /\ g # NoGate
  BY LifecycleConstants DEF Tidy, Call
<1>3. Request(g).arg \in 0 .. MaxKeys /\ Request(g).new \in Nat
  BY <1>2, LifecycleConstants DEF Request, GateState, build_injection_request, generate_tsk_key
<1>4. PICK p, a, n : p = gates[g].at /\ a = Request(g).arg /\ n = Request(g).new
  OBVIOUS
<1> DEFINE r == [Idle EXCEPT !.op = p, !.from = g, !.arg = a, !.new = n]
<1>5. p \in Ops /\ a \in 0 .. MaxKeys /\ n \in Nat
  BY <1>2, <1>3, <1>4 DEF GateState, Calls, Booting, Ops, ClaimOps
<1>6. r \in Handling /\ r.op = p /\ r.at = "start" /\ r.arg = a /\ r.from = g
  BY <1>5, IdleHandler DEF Handling
<1>7. handlers' = [handlers EXCEPT ![s] = r]
  BY <1>1, <1>4 DEF Call
<1> HIDE DEF r
<1>8. handlers' \in [Slots -> Handling] /\ handlers'[s] = r /\ Others(s)
  BY <1>6, <1>7 DEF Tidy, Others
<1>9. \A t \in Slots : handlers[t].from # g
  BY <1>2 DEF Waiting
<1>10. Linked'
  BY <1>2, <1>4, <1>6, <1>8, <1>9 DEF Tidy, Linked, Others
<1> QED BY <1>1, <1>2, <1>4, <1>6, <1>8, <1>10 DEF Tidy, Keyed

LEMMA PatchMoves ==
  ASSUME Tidy, Tables, PatchRead
  PROVE  Tidy' /\ \E s \in Slots, k \in Clients :
                     /\ Others(s) /\ handlers'[s].op = "patch" /\ handlers'[s].at = "set"
                     /\ handlers'[s].arg = k /\ Used(k) /\ handlers'[s].map = keys[k]
<1>1. PICK s \in Slots : s = FirstIdle /\ handlers[s].op = "idle"
  BY FirstIdleSlot DEF PatchRead
<1>2. PICK k \in Clients, status \in Statuses \cup {"same"} :
        /\ Used(k)
        /\ handlers' = [handlers EXCEPT ![s] = [Idle EXCEPT !.op = "patch", !.at = "set", !.arg = k,
                                                            !.status = status, !.map = keys[k]]]
  BY <1>1 DEF PatchRead, Unused, Used
<1>3. PICK m \in KeyMap : m = keys[k]
  BY DEF Tables
<1> DEFINE r == [Idle EXCEPT !.op = "patch", !.at = "set", !.arg = k, !.status = status, !.map = m]
<1>4. k \in 0 .. MaxKeys
  BY LifecycleConstants DEF Clients
<1>5. r \in Handling /\ r.op = "patch" /\ r.at = "set" /\ r.arg = k /\ r.from = NoGate /\ r.map = m
  BY <1>4, IdleHandler DEF Handling, Ops, Places
<1>6. handlers' = [handlers EXCEPT ![s] = r]
  BY <1>2, <1>3
<1> HIDE DEF r
<1>7. handlers' \in [Slots -> Handling] /\ handlers'[s] = r /\ Others(s) /\ gates' = gates
  BY <1>5, <1>6 DEF Tidy, Others, PatchRead
<1>8. Linked'
  BY <1>5, <1>7 DEF Tidy, Linked, Others
<1>9. Tidy'
  BY <1>7, <1>8 DEF Tidy, Keyed
<1> QED BY <1>2, <1>3, <1>5, <1>7, <1>9

LEMMA GateTurns ==
  ASSUME Tidy, NEW g \in Gates, RotateTsk(g) \/ AuthorizeInjection(g)
  PROVE  Tidy'
<1>1. PICK w \in {"prepare", "verify"} : gates' = [gates EXCEPT ![g].at = w]
  BY DEF RotateTsk, AuthorizeInjection
<1>2. gates[g] \in GateState /\ gates[g].at = "ready" /\ gates[g].tsk \in Clients
  BY DEF RotateTsk, AuthorizeInjection, Tidy, Keyed
<1> DEFINE r == [gates[g] EXCEPT !.at = w]
<1>3. r \in GateState /\ r.at = w /\ r.tsk = gates[g].tsk
  BY <1>2 DEF GateState, Calls
<1>4. gates' = [gates EXCEPT ![g] = r]
  BY <1>1
<1> HIDE DEF r
<1>5. gates' \in [Gates -> GateState] /\ gates'[g] = r /\ \A f \in Gates \ {g} : gates'[f] = gates[f]
  BY <1>3, <1>4 DEF Tidy
<1>6. \A f \in Gates : Keyed(gates'[f])
  BY <1>2, <1>3, <1>5 DEF Tidy, Keyed
<1>7. handlers' = handlers
  BY DEF RotateTsk, AuthorizeInjection
<1>8. \A t \in Slots : handlers[t].from \in Gates \cup {NoGate} /\ handlers[t].op # "ready"
  BY DEF Tidy, Handling, Ops, ClaimOps
<1>9. Linked'
  BY <1>2, <1>5, <1>7, <1>8 DEF Tidy, Linked
<1> QED BY <1>5, <1>6, <1>7, <1>9 DEF Tidy, Keyed

(***************************************************************************)
(* What a step leaves of the findings of the other handlers                *)
(***************************************************************************)

Grows ==
  /\ pairs <= pairs' /\ binding <= binding'
  /\ \A k \in Clients : Used(k) => keys'[k].label = keys[k].label /\ keys'[k].of = keys[k].of

SameRows ==
  /\ pairs' = pairs
  /\ \A k \in Clients : keys'[k].label = keys[k].label /\ keys'[k].of = keys[k].of

LEMMA SameRowsSets ==
  ASSUME SameRows
  PROVE  AgentKeys' = AgentKeys /\ \A k : Candidates(k)' = Candidates(k)
BY DEF SameRows, AgentKeys, Candidates

LEMMA WorksGrows ==
  ASSUME Tables, Tables', Grows, NEW h \in Handling, Works(h)
  PROVE  Works(h)'
<1>1. pairs \in Nat /\ pairs' \in Nat /\ pairs <= pairs'
  BY DEF Tables, Grows
<1>2. /\ binding \in Nat /\ binding' \in Nat /\ binding <= binding' /\ h.arg \in Nat
  BY LifecycleConstants DEF Tables, Grows, Handling
<1>3. AgentKeys \subseteq AgentKeys' /\ \A k : Candidates(k) \subseteq Candidates(k)'
  BY DEF AgentKeys, Candidates, Grows, Used
<1>4. \A k \in Clients : Used(k) => Used(k)' /\ keys'[k].label = keys[k].label /\ keys'[k].of = keys[k].of
  BY DEF Grows, Used
<1>5. h.seen \in 1 .. pairs => h.seen \in 1 .. pairs'
  BY <1>1 DEF Handling
<1>6. h.arg < binding => h.arg < binding'
  BY <1>2
<1> QED BY <1>3, <1>4, <1>5, <1>6 DEF Works, Fetches, ClaimOps

LEMMA WorkingNext ==
  ASSUME Tables, Tidy, Working, Tables', Grows, NEW s \in Slots, Others(s), Works(handlers[s])'
  PROVE  Working'
<1>1. ASSUME NEW t \in Slots, t # s PROVE Works(handlers[t])'
  <2>1. PICK h \in Handling : h = handlers[t]
    BY DEF Tidy
  <2>2. Works(h)'
    BY <2>1, WorksGrows DEF Working
  <2>3. h = handlers'[t]
    BY <1>1, <2>1 DEF Others
  <2> QED BY <2>2, <2>3 DEF Works, Fetches
<1> QED BY <1>1 DEF Working

LEMMA AloneNext ==
  ASSUME Alone, SameRows, NEW s \in Slots, Others(s), Vacant(handlers[s])',
         Holding(handlers'[s]) => /\ handlers'[s].op = handlers[s].op /\ handlers'[s].arg = handlers[s].arg
                                  /\ Holding(handlers[s]) \/ LockFree(s)
  PROVE  Alone'
<1>1. \A t \in Slots \ {s} : Vacant(handlers[t])'
  BY SameRowsSets DEF Alone, Vacant, Others, SameRows
<1>2. ASSUME NEW t \in Slots \ {s}, Holding(handlers'[s]), Holding(handlers'[t])
      PROVE  ~SameLock(handlers'[s], handlers'[t]) /\ ~SameLock(handlers'[t], handlers'[s])
  BY <1>2 DEF Others, Alone, LockFree, SameLock
<1>3. ASSUME NEW t \in Slots, NEW u \in Slots, t # u, Holding(handlers'[t]), Holding(handlers'[u])
      PROVE  ~SameLock(handlers'[t], handlers'[u])
  <2>1. CASE t = s
    BY <1>2, <1>3, <2>1
  <2>2. CASE u = s
    BY <1>2, <1>3, <2>2
  <2>3. CASE t # s /\ u # s
    BY <1>3, <2>3 DEF Others, Alone
  <2> QED BY <2>1, <2>2, <2>3
<1> QED BY <1>1, <1>3 DEF Alone, Holding, SameLock

LEMMA EndedNext ==
  ASSUME Tables, Tidy, Working, Alone, Tables', SameRows, binding <= binding', NEW s \in Slots, Ended(s)
  PROVE  Working' /\ Alone'
<1>1. Grows
  BY DEF Grows, SameRows, Tables
<1>2. Works(handlers[s])' /\ Vacant(handlers[s])' /\ ~Holding(handlers'[s])
  BY IdleHandler DEF Ended, Holding, Works, Vacant, ClaimOps, Fetches
<1> QED BY <1>1, <1>2, WorkingNext, AloneNext DEF Ended

LEMMA ClearedNext == ASSUME Cleared PROVE Working' /\ Alone'
BY IdleHandler DEF Cleared, Working, Alone, Holding, Works, Vacant, ClaimOps, Fetches

LEMMA OrphanedNext ==
  ASSUME Working, Alone, UNCHANGED <<pairs, keys, binding>>, NEW g \in Gates, Orphaned(g)
  PROVE  Working' /\ Alone'
<1>1. ASSUME NEW t \in Slots PROVE Works(handlers[t])'
  BY DEF Working, Orphaned, Works, Fetches, AgentKeys, Candidates, Used
<1>2. ASSUME NEW t \in Slots PROVE Vacant(handlers[t])'
  BY DEF Alone, Orphaned, Vacant, AgentKeys, Candidates
<1>3. \A t, u \in Slots : /\ Holding(handlers'[t]) = Holding(handlers[t])
                          /\ SameLock(handlers'[t], handlers'[u]) = SameLock(handlers[t], handlers[u])
  BY DEF Orphaned, Holding, SameLock
<1> QED BY <1>1, <1>2, <1>3 DEF Working, Alone, Holding, SameLock

(***************************************************************************)
(* Steps that write no pair, key or binding                                *)
(***************************************************************************)

LEMMA ShelfSame ==
  ASSUME Tables, Tables', Shelved, SameRows, Answered', binding <= binding',
         \A u \in spent' \ spent : Used(u[1]) /\ u[2] < keys'[u[1]].counter,
         \A k \in Clients : keys[k].counter <= keys'[k].counter,
         binding' # NoClient => Used(binding'),
         mishaps'["patch"] = 0 =>
            /\ mishaps["patch"] = 0
            /\ \A k \in Clients : Active(k) => Active(k)' \/ k < binding'
            /\ \A t \in Slots : handlers'[t].op \in {handlers[t].op, "idle"}
  PROVE  Shelved'
<1>1. /\ binding \in Nat /\ binding' \in Nat
      /\ \A k \in Clients : k \in Nat /\ keys[k].counter \in Nat /\ keys'[k].counter \in Nat
  BY LifecycleConstants DEF Tables, KeyMap, Clients
<1>2. \A k \in Clients : Used(k)' = Used(k)
  BY DEF SameRows, Used
<1>3. binding' # NoClient => binding' \in Clients
  BY LifecycleConstants DEF Tables, NoClient, Clients
<1>4. InOrder'
  BY <1>2, <1>3 DEF Shelved, InOrder, SameRows, Used
<1>5. Single'
  BY SameRowsSets DEF Shelved, Single, SameRows
<1>6. Passed'
  <2>1. \A u \in spent' : u[1] \in Clients /\ u[2] \in Nat
    BY DEF Tables
  <2> QED BY <1>1, <1>2, <2>1 DEF Shelved, Passed
<1>7. Retired'
  BY <1>1 DEF Shelved, Retired
<1> QED BY <1>4, <1>5, <1>6, <1>7 DEF Shelved

LEMMA AnsweredSame == ASSUME Answered, SameRows, UNCHANGED idem PROVE Answered'
BY SameRowsSets DEF Answered, SameRows

\* a step that changes handlers, gates and at most an idempotency row
LEMMA QuietNext ==
  ASSUME IInv, Tidy', Working', Alone', Answered', idem' \in [IdemKeys -> Row],
         UNCHANGED <<pairs, keys, binding, spent, mishaps>>,
         \A t \in Slots : handlers'[t].op \in {handlers[t].op, "idle"}
  PROVE  IInv'
<1>1. Tables'
  BY DEF IInv, Tables
<1>2. SameRows
  BY DEF SameRows
<1>3. binding <= binding' /\ \A k \in Clients : keys[k].counter <= keys'[k].counter
  BY LifecycleConstants DEF IInv, Tables, KeyMap
<1>4. binding' # NoClient => Used(binding')
  BY DEF IInv, Shelved, InOrder
<1>5. Shelved'
  BY <1>1, <1>2, <1>3, <1>4, ShelfSame DEF IInv, Active
<1> QED BY <1>1, <1>5 DEF IInv

LEMMA EndQuiet ==
  ASSUME IInv, Tidy', NEW s \in Slots, Ended(s), Answered', idem' \in [IdemKeys -> Row],
         UNCHANGED <<pairs, keys, binding, spent, mishaps>>
  PROVE  IInv'
<1>1. Tables' /\ SameRows /\ binding <= binding'
  BY LifecycleConstants DEF IInv, Tables, SameRows
<1>2. \A t \in Slots : handlers'[t].op \in {handlers[t].op, "idle"}
  BY IdleHandler DEF Ended, Others
<1> QED BY <1>1, <1>2, EndedNext, QuietNext DEF IInv

LEMMA EndNothing ==
  ASSUME IInv, Tidy', NEW s \in Slots, Ended(s),
         UNCHANGED <<pairs, keys, binding, idem, spent, mishaps>>
  PROVE  IInv'
<1>1. SameRows
  BY DEF SameRows
<1> QED BY <1>1, AnsweredSame, EndQuiet DEF IInv, Tables, Shelved

LEMMA FailNothing ==
  ASSUME IInv, NEW s \in Slots, Fail(s), UNCHANGED <<pairs, keys, binding, idem, spent, mishaps>>
  PROVE  IInv'
BY FailMoves, EndNothing DEF IInv

LEMMA DownNothing ==
  ASSUME IInv, Down, UNCHANGED <<pairs, keys, binding, idem, spent, mishaps>>
  PROVE  IInv'
<1>1. SameRows
  BY DEF SameRows
<1>2. \A t \in Slots : handlers'[t].op \in {handlers[t].op, "idle"}
  BY DownMoves, IdleHandler DEF IInv, Cleared
<1> QED BY <1>1, <1>2, AnsweredSame, DownMoves, ClearedNext, QuietNext DEF IInv, Tables, Shelved

LEMMA MoveQuiet ==
  ASSUME IInv, NEW s \in Slots, handlers' \in [Slots -> Handling], Kept(s), UNCHANGED gates,
         Answered', idem' \in [IdemKeys -> Row],
         UNCHANGED <<pairs, keys, binding, spent, mishaps>>,
         Works(handlers[s])', Vacant(handlers[s])',
         Holding(handlers'[s]) => Holding(handlers[s]) \/ LockFree(s)
  PROVE  IInv'
<1>1. Tidy'
  BY KeptLinked DEF IInv
<1>2. SameRows /\ Grows /\ Tables'
  BY LifecycleConstants DEF IInv, SameRows, Grows, Tables
<1>3. Others(s) /\ \A t \in Slots : handlers'[t].op \in {handlers[t].op, "idle"}
  BY DEF Kept, Others
<1>4. Working'
  BY <1>2, <1>3, WorkingNext DEF IInv
<1>5. Alone'
  BY <1>2, <1>3, AloneNext DEF IInv, Kept
<1> QED BY <1>1, <1>3, <1>4, <1>5, QuietNext

LEMMA MoveNothing ==
  ASSUME IInv, NEW s \in Slots, handlers' \in [Slots -> Handling], Kept(s), UNCHANGED gates,
         UNCHANGED <<pairs, keys, binding, idem, spent, mishaps>>,
         Works(handlers[s])', Vacant(handlers[s])',
         Holding(handlers'[s]) => Holding(handlers[s]) \/ LockFree(s)
  PROVE  IInv'
<1>1. SameRows
  BY DEF SameRows
<1> QED BY <1>1, AnsweredSame, MoveQuiet DEF IInv, Tables, Shelved

LEMMA IdemKeyTyped ==
  ASSUME Tidy, NEW s \in Slots, handlers[s].op \in ClaimOps
  PROVE  IdemKey(handlers[s]) \in IdemKeys
BY DEF Tidy, Handling, IdemKey, IdemKeys

LEMMA CurrentTyped ==
  ASSUME Tables, NEW h, NEW r, h.op \in {"provision", "prepare"} => r \in Clients
  PROVE  CurrentMap(h, r) \in KeyMap /\ CurrentCounter(h, r) \in Nat
<1>1. CurrentMap(h, r) \in KeyMap
  BY IdleHandler DEF CurrentMap, Tables
<1> QED BY <1>1 DEF CurrentCounter, KeyMap

LEMMA ClaimNext == ASSUME IInv, NEW s \in Slots, Claim(s) PROVE IInv'
<1> DEFINE h == handlers[s]
           i == idem[IdemKey(h)]
<1>1. h.op \in ClaimOps /\ h.at = "start" /\ Works(h) /\ IdemKey(h) \in IdemKeys
  BY IdemKeyTyped DEF Claim, IInv, Working
<1>2. UNCHANGED <<pairs, keys, binding, spent, mishaps>>
  BY DEF Claim
<1>3. ASSUME UNCHANGED idem, Fail(s) PROVE IInv'
  BY <1>2, <1>3, FailNothing
<1>4. ASSUME i.state = "complete", CachedValid(h, i.response),
             Answer(s, i.response, CurrentCounter(h, i.response)), UNCHANGED idem
      PROVE  IInv'
  <2>1. h.op = "prepare" => i.response \in Clients
    BY <1>4 DEF CachedValid, Candidates
  <2>2. h.op = "provision" => i.response \in Clients
    BY <1>1, <1>4 DEF Works, IInv, Shelved, Answered, IdemKey, AgentKeys
  <2>3. h.op # "resume"
    BY <1>1 DEF ClaimOps
  <2>4. CurrentCounter(h, i.response) \in Nat
    BY <2>1, <2>2, CurrentTyped DEF IInv
  <2>5. Tidy' /\ Ended(s)
    BY <1>4, <2>1, <2>2, <2>3, <2>4, AnswerMoves DEF IInv
  <2> QED BY <1>2, <1>4, <2>5, EndNothing
<1>5. ASSUME Admitted(h), idem' = [idem EXCEPT ![IdemKey(h)].state = "processing"],
             Go(s, "list"), UNCHANGED gates
      PROVE  IInv'
  <2>1. /\ handlers' \in [Slots -> Handling] /\ Kept(s) /\ handlers'[s].at = "list"
    BY <1>5, GoMoves DEF IInv, Places
  <2> DEFINE r == [i EXCEPT !.state = "processing"]
  <2>2. r \in Row /\ r.state = "processing"
    BY <1>1 DEF IInv, Tables, Row
  <2>3. idem' = [idem EXCEPT ![IdemKey(h)] = r]
    BY <1>5
  <2> HIDE DEF r
  <2>4. /\ idem' \in [IdemKeys -> Row] /\ idem'[IdemKey(h)].state = "processing"
        /\ \A j \in IdemKeys \ {IdemKey(h)} : idem'[j] = idem[j]
    BY <1>1, <2>2, <2>3 DEF IInv, Tables
  <2>5. /\ <<"register", 0>> \in IdemKeys /\ <<"provision", 0>> \in IdemKeys
        /\ \A k \in Clients : <<"prepare", k>> \in IdemKeys
    BY LifecycleConstants DEF IdemKeys, ClaimOps, Clients
  <2>6. AgentKeys' = AgentKeys /\ \A k : Candidates(k)' = Candidates(k)
    BY <1>2 DEF AgentKeys, Candidates
  <2>7. Answered'
    BY <1>2, <2>4, <2>5, <2>6 DEF IInv, Shelved, Answered
  <2>8. h.op = "prepare" => Used(h.arg)
    BY <1>1, <1>5, LifecycleConstants DEF Admitted, IInv, Shelved, InOrder, Works, NoClient, Clients
  <2>9. Works(handlers[s])'
    BY <1>1, <1>2, <2>1, <2>8 DEF Works, Kept, ClaimOps, Fetches, Used
  <2>10. Vacant(handlers[s])' /\ ~Holding(handlers'[s])
    BY <1>1, <2>1 DEF Vacant, Holding, Kept, ClaimOps
  <2> QED BY <1>2, <1>5, <2>1, <2>4, <2>7, <2>9, <2>10, MoveQuiet
<1> QED BY <1>3, <1>4, <1>5 DEF Claim

LEMMA ListNext == ASSUME IInv, NEW s \in Slots, List(s) PROVE IInv'
<1> DEFINE h == handlers[s]
           e == Existing(h)
<1>1. /\ h.op \in ClaimOps /\ h.at = "list" /\ Works(h) /\ LockFree(s) /\ h \in Handling
      /\ UNCHANGED <<pairs, keys, binding, idem, spent, mishaps>>
  BY DEF List, IInv, Working, Tidy
<1>2. AgentKeys' = AgentKeys /\ \A k : Candidates(k)' = Candidates(k)
  BY <1>1 DEF AgentKeys, Candidates
<1>3. ASSUME Fail(s) PROVE IInv'
  BY <1>1, <1>3, FailNothing
<1>4. ASSUME Bindable(h), e = {}, Go(s, "insert"), UNCHANGED gates PROVE IInv'
  <2>1. /\ handlers' \in [Slots -> Handling] /\ Kept(s) /\ handlers'[s].at = "insert"
    BY <1>4, GoMoves DEF IInv, Places
  <2>2. h.op = "bind" => h.arg \in AgentKeys
    BY <1>4 DEF Bindable
  <2>3. Works(handlers[s])'
    BY <1>1, <1>2, <2>1, <2>2 DEF Works, Kept, ClaimOps, Fetches, Used
  <2>4. h.op = "register" => pairs = 0
    <3>1. ASSUME h.op = "register" PROVE 1 .. pairs = {}
      BY <1>4, <3>1 DEF Existing
    <3>2. pairs \in Nat /\ (pairs # 0 => 1 \in 1 .. pairs)
      BY DEF IInv, Tables
    <3> QED BY <3>1, <3>2
  <2>5. /\ h.op = "provision" => AgentKeys = {}
        /\ h.op = "prepare" => Candidates(h.arg) = {}
    BY <1>4 DEF Existing
  <2>6. Vacant(handlers[s])'
    BY <1>1, <1>2, <2>1, <2>4, <2>5 DEF Vacant, Kept
  <2> QED BY <1>1, <1>4, <2>1, <2>3, <2>6, MoveNothing
<1>5. ASSUME NEW r \in e, Bindable(h), UNCHANGED gates,
             handlers' = [handlers EXCEPT ![s].at = "done", ![s].seen = r, ![s].map = CurrentMap(h, r)]
      PROVE  IInv'
  <2>1. /\ h.op = "register" => r \in 1 .. pairs
        /\ h.op = "provision" => r \in AgentKeys
        /\ h.op = "prepare" => r \in Candidates(h.arg)
        /\ h.op = "bind" => r \in {binding} /\ h.arg \in AgentKeys
    BY <1>5 DEF Existing, Bindable
  <2>2. r \in Nat /\ (h.op \in {"provision", "prepare"} => r \in Clients)
    BY <1>1, <2>1, LifecycleConstants DEF ClaimOps, IInv, Tables, AgentKeys, Candidates, Clients
  <2>3. CurrentMap(h, r) \in KeyMap
    BY <2>2, CurrentTyped DEF IInv
  <2>4. PICK m \in KeyMap : m = CurrentMap(h, r)
    BY <2>3
  <2> DEFINE q == [[[h EXCEPT !.at = "done"] EXCEPT !.seen = r] EXCEPT !.map = m]
  <2>5. /\ q \in Handling /\ q.op = h.op /\ q.from = h.from /\ q.arg = h.arg /\ q.new = h.new
        /\ q.at = "done" /\ q.seen = r
    BY <1>1, <2>2 DEF Handling, Places
  <2>6. handlers' = [handlers EXCEPT ![s] = q]
    BY <1>5, <2>4 DEF IInv, Tidy
  <2> HIDE DEF q
  <2>7. handlers' \in [Slots -> Handling] /\ Kept(s) /\ handlers'[s].at = "done" /\ handlers'[s].seen = r
    BY <2>5, <2>6 DEF IInv, Tidy, Kept, Others
  <2>8. Works(handlers[s])'
    BY <1>1, <1>2, <2>1, <2>7 DEF Works, Kept, ClaimOps, Fetches, Used
  <2>9. Vacant(handlers[s])'
    BY <2>7 DEF Vacant
  <2> QED BY <1>1, <1>5, <2>7, <2>8, <2>9, MoveNothing
<1> QED BY <1>1, <1>3, <1>4, <1>5 DEF List

LEMMA DoneNext == ASSUME IInv, NEW s \in Slots, Done(s) PROVE IInv'
<1> DEFINE h == handlers[s]
           i == idem[IdemKey(h)]
<1>1. /\ h.op \in ClaimOps /\ h.at = "done" /\ Works(h) /\ IdemKey(h) \in IdemKeys /\ h \in Handling
      /\ UNCHANGED <<pairs, keys, binding, spent, mishaps>>
  BY IdemKeyTyped DEF Done, IInv, Working, Tidy
<1>2. h.seen \in Nat /\ h.map.counter \in Nat
  BY <1>1 DEF Handling, KeyMap
<1>3. ASSUME Answer(s, h.seen, h.map.counter) PROVE Tidy' /\ Ended(s)
  <2>1. h.op \in {"resume", "provision", "prepare"} => h.seen \in Clients
    BY <1>1 DEF Works, ClaimOps, AgentKeys, Candidates
  <2> QED BY <1>2, <1>3, <2>1, AnswerMoves DEF IInv
<1>4. ASSUME idem' = [idem EXCEPT ![IdemKey(h)] = Complete(h, h.seen)],
             Answer(s, h.seen, h.map.counter)
      PROVE  IInv'
  <2>1. Complete(h, h.seen) \in Row /\ Complete(h, h.seen).response = h.seen
    BY <1>2 DEF Complete, Row
  <2>2. /\ idem' \in [IdemKeys -> Row] /\ idem'[IdemKey(h)].response = h.seen
        /\ \A j \in IdemKeys \ {IdemKey(h)} : idem'[j] = idem[j]
    BY <1>1, <1>4, <2>1 DEF IInv, Tables
  <2>3. /\ <<"register", 0>> \in IdemKeys /\ <<"provision", 0>> \in IdemKeys
        /\ \A k \in Clients : <<"prepare", k>> \in IdemKeys
    BY LifecycleConstants DEF IdemKeys, ClaimOps, Clients
  <2>4. AgentKeys' = AgentKeys /\ \A k : Candidates(k)' = Candidates(k)
    BY <1>1 DEF AgentKeys, Candidates
  <2>5. /\ IdemKey(h) = <<"register", 0>> => h.seen \in 1 .. pairs
        /\ IdemKey(h) = <<"provision", 0>> => h.seen \in AgentKeys
        /\ \A k \in Clients : IdemKey(h) = <<"prepare", k>> => h.seen \in Candidates(k)
    BY <1>1 DEF IdemKey, Works
  <2>6. Answered'
    BY <1>1, <2>2, <2>3, <2>4, <2>5 DEF IInv, Shelved, Answered
  <2> QED BY <1>1, <1>3, <1>4, <2>2, <2>6, EndQuiet
<1>5. ASSUME UNCHANGED idem, Answer(s, h.seen, h.map.counter) PROVE IInv'
  BY <1>1, <1>3, <1>5, EndNothing
<1>6. ASSUME UNCHANGED idem, Down PROVE IInv'
  BY <1>1, <1>6, DownNothing
<1> QED BY <1>4, <1>5, <1>6 DEF Done

LEMMA ResumeNext ==
  ASSUME IInv, NEW s \in Slots, ResumeBinding(s) \/ ResumeMap(s)
  PROVE  IInv'
<1> DEFINE h == handlers[s]
<1>1. /\ h.op = "resume" /\ Works(h)
      /\ UNCHANGED <<pairs, keys, binding, idem, spent, mishaps>>
  BY DEF ResumeBinding, ResumeMap, IInv, Working
<1>2. ASSUME binding # NoClient, GoWith(s, "map", binding), UNCHANGED gates PROVE IInv'
  <2>1. binding \in Clients /\ binding \in Nat
    BY <1>2, LifecycleConstants DEF IInv, Tables, NoClient, Clients
  <2>2. /\ handlers' \in [Slots -> Handling] /\ Kept(s) /\ handlers'[s].at = "map"
        /\ handlers'[s].seen = binding
    BY <1>2, <2>1, GoWithMoves DEF IInv, Places
  <2>3. Works(handlers[s])' /\ Vacant(handlers[s])' /\ ~Holding(handlers'[s])
    BY <1>1, <2>1, <2>2 DEF Works, Vacant, Holding, Kept, ClaimOps, Fetches
  <2> QED BY <1>1, <1>2, <2>2, <2>3, MoveNothing
<1>3. ASSUME Respond(s, [Fresh EXCEPT !.at = "provision"]) PROVE IInv'
  <2> DEFINE r == [Fresh EXCEPT !.at = "provision"]
  <2>1. r \in GateState /\ r.at = "provision"
    BY FreshGate DEF GateState, Calls, Booting
  <2>2. Keyed(r)
    BY <2>1 DEF Keyed
  <2>3. Tidy' /\ Ended(s)
    BY <1>3, <2>1, <2>2, RespondMoves DEF IInv
  <2> QED BY <1>1, <2>3, EndNothing
<1>4. ASSUME h.at = "map", Answer(s, h.seen, keys[h.seen].counter) PROVE IInv'
  <2>1. h.seen \in Clients
    BY <1>1, <1>4 DEF Works
  <2>2. keys[h.seen].counter \in Nat
    BY <2>1 DEF IInv, Tables, KeyMap
  <2>3. Tidy' /\ Ended(s)
    BY <1>4, <2>1, <2>2, AnswerMoves DEF IInv
  <2> QED BY <1>1, <2>3, EndNothing
<1>5. ASSUME Fail(s) PROVE IInv'
  BY <1>1, <1>5, FailNothing
<1> QED BY <1>2, <1>3, <1>4, <1>5 DEF ResumeBinding, ResumeMap

LEMMA CommitReadNext ==
  ASSUME IInv, NEW s \in Slots, CommitRead(s) \/ CommitRevoke(s)
  PROVE  IInv'
<1> DEFINE h == handlers[s]
<1>1. /\ h.op = "commit" /\ Works(h)
      /\ UNCHANGED <<pairs, keys, binding, idem, spent, mishaps>>
  BY DEF CommitRead, CommitRevoke, IInv, Working
<1>2. AgentKeys' = AgentKeys /\ \A k : Candidates(k)' = Candidates(k)
  BY <1>1 DEF AgentKeys, Candidates
<1>3. h.arg \in Clients /\ keys[h.arg] \in KeyMap
  BY <1>1 DEF Works, IInv, Tables
<1>4. ASSUME Fail(s) PROVE IInv'
  BY <1>1, <1>4, FailNothing
<1>5. ASSUME h.new \in Candidates(h.arg), GoMap(s, "swap", h.arg), UNCHANGED gates PROVE IInv'
  <2>1. /\ handlers' \in [Slots -> Handling] /\ Kept(s) /\ handlers'[s].at = "swap"
    BY <1>3, <1>5, GoMapMoves DEF IInv, Places
  <2>2. Works(handlers[s])' /\ Vacant(handlers[s])' /\ ~Holding(handlers'[s])
    BY <1>1, <1>2, <1>3, <1>5, <2>1 DEF Works, Vacant, Holding, Kept, ClaimOps, Fetches
  <2> QED BY <1>1, <1>5, <2>1, <2>2, MoveNothing
<1>6. ASSUME h.at = "revoke", RotationAuthorized(h.arg), GoMap(s, "set", h.arg), UNCHANGED gates
      PROVE  IInv'
  <2>1. /\ handlers' \in [Slots -> Handling] /\ Kept(s) /\ handlers'[s].at = "set"
        /\ handlers'[s].map = keys[h.arg]
    BY <1>3, <1>6, GoMapMoves DEF IInv, Places
  <2>2. Used(h.arg)
    BY <1>6 DEF RotationAuthorized, Used
  <2>3. Works(handlers[s])' /\ Vacant(handlers[s])' /\ ~Holding(handlers'[s])
    BY <1>1, <1>2, <1>3, <1>6, <2>1, <2>2 DEF Works, Vacant, Holding, Kept, ClaimOps, Fetches, Used
  <2> QED BY <1>1, <1>6, <2>1, <2>3, MoveNothing
<1> QED BY <1>4, <1>5, <1>6 DEF CommitRead, CommitRevoke

LEMMA VerifyBindingNext == ASSUME IInv, NEW s \in Slots, VerifyBinding(s) PROVE IInv'
<1> DEFINE h == handlers[s]
<1>1. /\ h.op = "verify" /\ Works(h) /\ LockFree(s)
      /\ UNCHANGED <<pairs, keys, binding, idem, spent, mishaps>>
  BY DEF VerifyBinding, IInv, Working
<1>2. ASSUME Fail(s) PROVE IInv'
  BY <1>1, <1>2, FailNothing
<1>3. ASSUME binding = h.arg, Go(s, "done"), UNCHANGED gates PROVE IInv'
  <2>1. /\ handlers' \in [Slots -> Handling] /\ Kept(s) /\ handlers'[s].at = "done"
    BY <1>3, GoMoves DEF IInv, Places
  <2>2. h.arg \in Clients /\ Used(h.arg)
    BY <1>1, <1>3, LifecycleConstants DEF Works, IInv, Shelved, InOrder, NoClient, Clients
  <2>3. Works(handlers[s])' /\ Vacant(handlers[s])'
    BY <1>1, <2>1, <2>2 DEF Works, Vacant, Kept, ClaimOps, Fetches, Used
  <2> QED BY <1>1, <1>3, <2>1, <2>3, MoveNothing
<1> QED BY <1>2, <1>3 DEF VerifyBinding

(***************************************************************************)
(* Steps that write pairs, keys or the binding                             *)
(***************************************************************************)

\* the rows stay what and whose they are
LEMMA RowsNext ==
  ASSUME IInv, Tables', Tidy', Working', Alone', SameRows, UNCHANGED idem, binding <= binding',
         \A u \in spent' \ spent : Used(u[1]) /\ u[2] < keys'[u[1]].counter,
         \A k \in Clients : keys[k].counter <= keys'[k].counter,
         binding' # NoClient => Used(binding'),
         mishaps'["patch"] = 0 =>
            /\ mishaps["patch"] = 0
            /\ \A k \in Clients : Active(k) => Active(k)' \/ k < binding'
            /\ \A t \in Slots : handlers'[t].op \in {handlers[t].op, "idle"}
  PROVE  IInv'
BY ShelfSame, AnsweredSame DEF IInv, Shelved

LEMMA CommitSwapNext == ASSUME IInv, NEW s \in Slots, CommitSwap(s) PROVE IInv'
<1> DEFINE h == handlers[s]
<1>1. /\ h.op = "commit" /\ h.at = "swap" /\ Works(h) /\ h \in Handling
      /\ UNCHANGED <<pairs, keys, idem, spent, mishaps>>
  BY DEF CommitSwap, IInv, Working, Tidy
<1>2. ASSUME Fail(s), UNCHANGED binding PROVE IInv'
  BY <1>1, <1>2, FailNothing
<1>3. ASSUME binding \in {h.arg, h.new}, binding' = h.new,
             Answer(s, h.new, 0) \/ (Go(s, "revoke") /\ UNCHANGED gates)
      PROVE  IInv'
  <2>1. h.arg \in Clients /\ h.new \in Candidates(h.arg)
    BY <1>1 DEF Works
  <2>2. h.new \in Clients /\ Used(h.new) /\ h.arg < h.new
    BY <2>1 DEF Candidates, Used, IInv, Shelved, InOrder
  <2>3. binding <= binding' /\ binding' \in 0 .. MaxKeys
    BY <1>3, <2>1, <2>2, LifecycleConstants DEF Clients
  <2>4. Tables' /\ SameRows /\ Grows
    BY <1>1, <2>3 DEF IInv, Tables, SameRows, Grows
  <2>5. \A k \in Clients : keys[k].counter <= keys'[k].counter /\ (Active(k) => Active(k)')
    BY <1>1 DEF IInv, Tables, KeyMap, Active
  <2>6. CASE Answer(s, h.new, 0)
    <3>1. Tidy' /\ Ended(s)
      BY <1>1, <2>6, AnswerMoves DEF IInv
    <3>2. Working' /\ Alone'
      BY <2>3, <2>4, <3>1, EndedNext DEF IInv
    <3>3. \A t \in Slots : handlers'[t].op \in {handlers[t].op, "idle"}
      BY <3>1, IdleHandler DEF Ended, Others
    <3> QED BY <1>1, <1>3, <2>2, <2>3, <2>4, <2>5, <3>1, <3>2, <3>3, RowsNext
  <2>7. CASE Go(s, "revoke") /\ UNCHANGED gates
    <3>1. handlers' \in [Slots -> Handling] /\ Kept(s) /\ handlers'[s].at = "revoke"
      BY <2>7, GoMoves DEF IInv, Places
    <3>2. Tidy'
      BY <2>7, <3>1, KeptLinked DEF IInv
    <3>3. Others(s) /\ \A t \in Slots : handlers'[t].op \in {handlers[t].op, "idle"}
      BY <3>1 DEF Kept, Others
    <3>4. \A k : Candidates(k)' = Candidates(k)
      BY <2>4, SameRowsSets
    <3>5. Works(handlers[s])' /\ Vacant(handlers[s])' /\ ~Holding(handlers'[s])
      BY <1>1, <1>3, <2>1, <2>2, <3>1, <3>4 DEF Works, Vacant, Holding, Kept, ClaimOps, Fetches
    <3>6. Working' /\ Alone'
      BY <2>4, <3>3, <3>5, WorkingNext, AloneNext DEF IInv
    <3> QED BY <1>1, <1>3, <2>2, <2>3, <2>4, <2>5, <3>2, <3>3, <3>6, RowsNext
  <2> QED BY <1>3, <2>6, <2>7
<1> QED BY <1>2, <1>3 DEF CommitSwap

LEMMA StoredMoves ==
  ASSUME Tables, NEW k \in Clients, NEW m \in KeyMap, NEW status \in Statuses,
         m.label = keys[k].label, m.of = keys[k].of,
         keys' = Stored(k, [m EXCEPT !.status = status]), UNCHANGED pairs
  PROVE  /\ keys' \in [Clients -> KeyMap] /\ SameRows
         /\ \A c \in Clients : keys[c].counter <= keys'[c].counter
         /\ \A c \in Clients \ {k} : keys'[c] = keys[c]
<1>1. keys[k] \in KeyMap /\ keys[k].counter \in Nat /\ m.counter \in Nat
  BY DEF Tables, KeyMap
<1>2. PICK n \in Nat : n = Max2(m.counter, keys[k].counter)
  BY <1>1 DEF Max2
<1>3. keys[k].counter <= n
  BY <1>1, <1>2 DEF Max2
<1> DEFINE p == [m EXCEPT !.status = status]
           q == [p EXCEPT !.counter = n]
<1>4. p \in KeyMap /\ p.counter = m.counter /\ p.label = m.label /\ p.of = m.of
  BY DEF KeyMap
<1>5. keys' = [keys EXCEPT ![k] = q]
  BY <1>2, <1>4 DEF Stored
<1> HIDE DEF p
<1>6. q \in KeyMap /\ q.counter = n /\ q.label = m.label /\ q.of = m.of
  BY <1>4 DEF KeyMap
<1> HIDE DEF q
<1>7. keys' \in [Clients -> KeyMap] /\ keys'[k] = q /\ \A c \in Clients \ {k} : keys'[c] = keys[c]
  BY <1>5, <1>6 DEF Tables
<1>8. \A c \in Clients : keys[c].counter \in Nat
  BY DEF Tables, KeyMap
<1> QED BY <1>3, <1>6, <1>7, <1>8 DEF SameRows

\* updateKey writes a map back that it has read before: in the last step of a
\* commit, which the binding has left behind, or for an operator
LEMMA SetNext ==
  ASSUME IInv, NEW s \in Slots, CommitSet(s) \/ PatchSet(s)
  PROVE  IInv'
<1> DEFINE h == handlers[s]
<1>1. /\ Works(h) /\ Fetches(h) /\ h \in Handling /\ h.op \in {"commit", "patch"}
      /\ (h.op = "commit" => h.at = "set")
      /\ UNCHANGED <<pairs, binding, idem, spent, mishaps>>
  BY DEF CommitSet, PatchSet, IInv, Working, Tidy, Fetches
<1>2. /\ h.arg \in Clients /\ h.map \in KeyMap /\ h.map.label = keys[h.arg].label
      /\ h.map.of = keys[h.arg].of
  BY <1>1 DEF Works, Handling
<1>3. PICK status \in Statuses : keys' = Stored(h.arg, [h.map EXCEPT !.status = status])
  <2>1. CASE CommitSet(s)
    BY <2>1 DEF CommitSet, Statuses
  <2>2. CASE PatchSet(s)
    <3>1. (IF h.status = "same" THEN h.map.status ELSE h.status) \in Statuses
      BY <1>1, <1>2 DEF Handling, KeyMap
    <3> QED BY <2>2, <3>1 DEF PatchSet
  <2> QED BY <2>1, <2>2
<1>4. Tidy' /\ Ended(s)
  <2>1. CASE CommitSet(s)
    <3>1. Answer(s, h.new, 0) /\ h.op = "commit"
      BY <2>1 DEF CommitSet
    <3> QED BY <3>1, AnswerMoves DEF IInv
  <2>2. CASE PatchSet(s)
    BY <2>2, FreshGate, RespondMoves DEF PatchSet, IInv
  <2> QED BY <2>1, <2>2
<1>5. PICK k \in Clients, m \in KeyMap : k = h.arg /\ m = h.map
  BY <1>2
<1>6. /\ keys' \in [Clients -> KeyMap] /\ SameRows
      /\ \A c \in Clients : keys[c].counter <= keys'[c].counter
      /\ \A c \in Clients \ {k} : keys'[c] = keys[c]
  BY <1>1, <1>2, <1>3, <1>5, StoredMoves DEF IInv
<1>7. Tables' /\ binding <= binding'
  BY <1>1, <1>6, LifecycleConstants DEF IInv, Tables
<1>8. Working' /\ Alone'
  BY <1>4, <1>6, <1>7, EndedNext DEF IInv
<1>9. \A t \in Slots : handlers'[t].op \in {handlers[t].op, "idle"}
  BY <1>4, IdleHandler DEF Ended, Others
<1>10. binding' # NoClient => Used(binding')
  BY <1>1 DEF IInv, Shelved, InOrder
<1>11. mishaps["patch"] = 0 => \A c \in Clients : Active(c) => Active(c)' \/ c < binding'
  <2>1. mishaps["patch"] = 0 => h.op = "commit" /\ h.arg < binding
    BY <1>1 DEF IInv, Shelved, Retired, Works
  <2> QED BY <1>1, <1>5, <1>6, <2>1 DEF Active
<1> QED BY <1>1, <1>4, <1>6, <1>7, <1>8, <1>9, <1>10, <1>11, RowsNext

LEMMA VerifyCommitNext == ASSUME IInv, NEW s \in Slots, VerifyCommit(s) PROVE IInv'
<1> DEFINE h == handlers[s]
<1>1. /\ Works(h) /\ h \in Handling /\ h.op = "verify" /\ h.at = "done"
      /\ UNCHANGED <<pairs, binding, idem, mishaps>>
  BY DEF VerifyCommit, IInv, Working, Tidy
<1>2. ASSUME Fail(s), UNCHANGED <<keys, spent>> PROVE IInv'
  BY <1>1, <1>2, FailNothing
<1>3. ASSUME CommitValidation(h.arg, h.new), keys' = [keys EXCEPT ![h.arg].counter = h.new + 1],
             spent' = spent \cup {<<h.arg, h.new>>}, Answer(s, h.arg, 0)
      PROVE  IInv'
  <2>1. PICK k \in Clients, n \in Nat : k = h.arg /\ n = h.new /\ Used(k) /\ keys[k].counter <= n
    BY <1>1, <1>3 DEF Works, Handling, CommitValidation
  <2>2. PICK m \in KeyMap : m = keys[k]
    BY DEF IInv, Tables
  <2> DEFINE q == [m EXCEPT !.counter = n + 1]
  <2>3. /\ q \in KeyMap /\ q.counter = n + 1 /\ q.label = m.label /\ q.of = m.of /\ q.status = m.status
        /\ m.counter \in Nat
    BY DEF KeyMap
  <2>4. keys' = [keys EXCEPT ![k] = q]
    BY <1>3, <2>1, <2>2
  <2> HIDE DEF q
  <2>5. /\ keys' \in [Clients -> KeyMap] /\ keys'[k] = q /\ \A c \in Clients \ {k} : keys'[c] = keys[c]
        /\ \A c \in Clients : keys[c].counter \in Nat
    BY <2>3, <2>4 DEF IInv, Tables, KeyMap
  <2>6. /\ SameRows /\ \A c \in Clients : keys[c].counter <= keys'[c].counter
        /\ \A c \in Clients : Active(c) => Active(c)'
    BY <1>1, <2>1, <2>2, <2>3, <2>5 DEF SameRows, Active
  <2>7. Tables' /\ binding <= binding'
    BY <1>1, <1>3, <2>1, <2>5, LifecycleConstants DEF IInv, Tables
  <2>8. \A u \in spent' \ spent : Used(u[1]) /\ u[2] < keys'[u[1]].counter
    BY <1>3, <2>1, <2>3, <2>5
  <2>9. Tidy' /\ Ended(s)
    BY <1>1, <1>3, AnswerMoves DEF IInv
  <2>10. Working' /\ Alone'
    BY <2>6, <2>7, <2>9, EndedNext DEF IInv
  <2>11. \A t \in Slots : handlers'[t].op \in {handlers[t].op, "idle"}
    BY <2>9, IdleHandler DEF Ended, Others
  <2>12. binding' # NoClient => Used(binding')
    BY <1>1 DEF IInv, Shelved, InOrder
  <2> QED BY <1>1, <2>6, <2>7, <2>8, <2>9, <2>10, <2>11, <2>12, RowsNext
<1> QED BY <1>2, <1>3 DEF VerifyCommit

(***************************************************************************)
(* Creation under a resource lock                                          *)
(***************************************************************************)

\* the creator goes on with what it has made; whoever else found something
\* missing found something else missing
LEMMA AloneInsert ==
  ASSUME Alone, NEW s \in Slots, Kept(s), handlers[s].op \in ClaimOps,
         handlers[s].at = "insert", handlers'[s].at = "done",
         \A t \in Slots \ {s} : ~SameLock(handlers[t], handlers[s]) /\ Vacant(handlers[t]) =>
                                    Vacant(handlers[t])'
  PROVE  Alone'
<1>1. ASSUME NEW t \in Slots \ {s} PROVE Vacant(handlers[t])'
  <2>1. CASE SameLock(handlers[t], handlers[s])
    <3>1. Holding(handlers[s]) /\ handlers[t].op \in ClaimOps
      BY <2>1 DEF Holding, SameLock
    <3>2. handlers[t].at # "insert"
      BY <2>1, <3>1 DEF Alone, Holding
    <3> QED BY <3>2 DEF Vacant, Kept, Others
  <2> QED BY <2>1 DEF Alone
<1>2. Vacant(handlers[s])'
  BY DEF Vacant
<1>3. \A t \in Slots : /\ Holding(handlers'[t]) => Holding(handlers[t])
                       /\ handlers'[t].op = handlers[t].op /\ handlers'[t].arg = handlers[t].arg
  BY DEF Holding, Kept, Others
<1>4. \A t, u \in Slots : SameLock(handlers'[t], handlers'[u]) => SameLock(handlers[t], handlers[u])
  BY <1>3 DEF SameLock
<1> QED BY <1>1, <1>2, <1>3, <1>4 DEF Alone, Holding, SameLock

LEMMA InsertPair ==
  ASSUME IInv, NEW s \in Slots, handlers[s].op = "register", handlers[s].at = "insert",
         pairs' = pairs + 1, GoWith(s, "done", pairs + 1),
         UNCHANGED <<keys, binding, gates, idem, spent, mishaps>>
  PROVE  IInv'
<1>1. Works(handlers[s]) /\ pairs = 0 /\ pairs' = 1
  BY DEF IInv, Working, Alone, Vacant
<1>2. /\ handlers' \in [Slots -> Handling] /\ Kept(s) /\ handlers'[s].at = "done" /\ handlers'[s].seen = 1
  BY <1>1, GoWithMoves DEF IInv, Places
<1>3. Tables' /\ Grows /\ Others(s)
  BY <1>1, <1>2, LifecycleConstants DEF IInv, Tables, Grows, Kept
<1>4. AgentKeys' = AgentKeys /\ \A k : Candidates(k)' = Candidates(k) /\ Used(k)' = Used(k)
  BY DEF AgentKeys, Candidates, Used
<1>5. Works(handlers[s])'
  BY <1>1, <1>2 DEF Works, Kept, ClaimOps, Fetches
<1>6. Working'
  BY <1>3, <1>5, WorkingNext DEF IInv
<1>7. Alone'
  <2>1. \A t \in Slots \ {s} : ~SameLock(handlers[t], handlers[s]) /\ Vacant(handlers[t]) =>
                                   Vacant(handlers[t])'
    BY <1>3, <1>4 DEF SameLock, Vacant, Others
  <2> QED BY <1>2, <2>1, AloneInsert DEF IInv, ClaimOps
<1>8. Tidy'
  BY <1>2, KeptLinked DEF IInv
<1>9. \A t \in Slots : handlers'[t].op = handlers[t].op
  BY <1>2 DEF Kept, Others
<1>10. Single' /\ Answered'
  <2>1. Answered'
    BY <1>1, <1>4 DEF IInv, Shelved, Answered
  <2> QED BY <1>1, <1>4, <2>1 DEF IInv, Shelved, Single
<1>11. InOrder' /\ Passed' /\ Retired'
  BY <1>9 DEF IInv, Shelved, InOrder, Passed, Retired, Active, Used
<1> QED BY <1>3, <1>6, <1>7, <1>8, <1>10, <1>11 DEF IInv, Shelved

LEMMA InsertBinding ==
  ASSUME IInv, NEW s \in Slots, handlers[s].op = "bind", handlers[s].at = "insert",
         binding \in {NoClient, handlers[s].arg}, binding' = handlers[s].arg,
         GoWith(s, "done", handlers[s].arg), UNCHANGED <<pairs, keys, gates, idem, spent, mishaps>>
  PROVE  IInv'
<1>1. Works(handlers[s]) /\ handlers[s].arg \in AgentKeys /\ handlers[s].arg \in Clients
  BY DEF IInv, Working, Works
<1>2. PICK a \in Clients : a = handlers[s].arg
  BY <1>1
<1>3. a \in Nat /\ a \in 0 .. MaxKeys /\ Used(a) /\ a \in AgentKeys
  BY <1>1, <1>2, LifecycleConstants DEF Clients, AgentKeys, Used
<1>4. handlers' \in [Slots -> Handling] /\ Kept(s) /\ handlers'[s].at = "done"
  BY <1>2, <1>3, GoWithMoves DEF IInv, Places
<1>5. Tables' /\ SameRows /\ binding <= binding' /\ Grows
  BY <1>2, <1>3, LifecycleConstants DEF IInv, Tables, SameRows, Grows, NoClient
<1>6. AgentKeys' = AgentKeys
  BY <1>5, SameRowsSets
<1>7. Works(handlers[s])' /\ Vacant(handlers[s])' /\ Others(s)
  BY <1>1, <1>4, <1>6 DEF Works, Vacant, Kept, ClaimOps, Fetches
<1>8. Working'
  BY <1>5, <1>7, WorkingNext DEF IInv
<1>9. Alone'
  BY <1>4, <1>5, <1>7, AloneNext DEF IInv, Kept, Holding, ClaimOps
<1>10. Tidy'
  BY <1>4, KeptLinked DEF IInv
<1>11. \A t \in Slots : handlers'[t].op \in {handlers[t].op, "idle"}
  BY <1>4 DEF Kept, Others
<1>12. \A k \in Clients : keys[k].counter <= keys'[k].counter /\ (Active(k) => Active(k)')
  BY DEF IInv, Tables, KeyMap, Active
<1> QED BY <1>2, <1>3, <1>5, <1>8, <1>9, <1>10, <1>11, <1>12, RowsNext

LEMMA InsertKey ==
  ASSUME IInv, NEW s \in Slots, handlers[s].op \in {"provision", "prepare"}, handlers[s].at = "insert",
         NEW k \in Unused, \A d \in Unused : k <= d,
         keys' = [keys EXCEPT ![k] = NewMap(handlers[s])], GoWith(s, "done", k),
         UNCHANGED <<pairs, binding, gates, idem, spent, mishaps>>
  PROVE  IInv'
<1>1. PICK h \in Handling : h = handlers[s]
  BY DEF IInv, Tidy
<1>2. Works(h) /\ Vacant(h)
  BY <1>1 DEF IInv, Working, Alone
<1>3. k \in Clients /\ k \in Nat /\ ~Used(k) /\ \A c \in Clients : c \in Nat
  BY LifecycleConstants DEF Unused, Used, Clients
<1>4. PICK n : n = NewMap(h)
  OBVIOUS
<1>5. /\ n \in KeyMap /\ n.label = (IF h.op = "prepare" THEN "rotation" ELSE "agent")
      /\ n.of = h.arg /\ n.status = "active" /\ n.counter = 0
  BY <1>4 DEF NewMap, KeyMap, Labels, Statuses, Handling
<1>6. /\ keys' \in [Clients -> KeyMap] /\ keys'[k] = n /\ \A c \in Clients \ {k} : keys'[c] = keys[c]
  BY <1>1, <1>3, <1>4, <1>5 DEF IInv, Tables
<1>7. /\ handlers' \in [Slots -> Handling] /\ Kept(s) /\ handlers'[s].at = "done" /\ handlers'[s].seen = k
  BY <1>3, GoWithMoves DEF IInv, Places
<1>8. \A c \in Clients : Used(c)' = (c = k \/ Used(c))
  BY <1>3, <1>5, <1>6 DEF Used
<1>9. Tables' /\ Grows /\ Others(s) /\ Tidy'
  <2>1. Tables' /\ Grows
    BY <1>3, <1>6, LifecycleConstants DEF IInv, Tables, Grows
  <2> QED BY <1>7, <2>1, KeptLinked DEF IInv, Kept
<1>10. \A t \in Slots : handlers'[t].op = handlers[t].op
  BY <1>7 DEF Kept, Others
<1>11. AgentKeys' = IF h.op = "prepare" THEN AgentKeys ELSE {k}
  <2>1. CASE h.op = "prepare"
    BY <1>3, <1>5, <1>6, <2>1 DEF AgentKeys, Used
  <2>2. CASE h.op = "provision"
    <3>1. AgentKeys = {}
      BY <1>1, <1>2, <2>2 DEF Vacant
    <3> QED BY <1>3, <1>5, <1>6, <2>2, <3>1 DEF AgentKeys
  <2> QED BY <1>1, <2>1, <2>2
<1>12. \A a : Candidates(a)' = IF h.op = "prepare" /\ a = h.arg THEN {k} ELSE Candidates(a)
  <2>1. CASE h.op = "prepare"
    <3>1. Candidates(h.arg) = {}
      BY <1>1, <1>2, <2>1 DEF Vacant
    <3>2. ASSUME NEW a, a # h.arg PROVE Candidates(a)' = Candidates(a)
      BY <1>3, <1>5, <1>6, <3>2 DEF Candidates, Used
    <3>3. Candidates(h.arg)' = {k}
      BY <1>3, <1>5, <1>6, <2>1, <3>1 DEF Candidates
    <3> QED BY <2>1, <3>2, <3>3
  <2>2. CASE h.op = "provision"
    BY <1>3, <1>5, <1>6, <2>2 DEF Candidates, Used
  <2> QED BY <1>1, <2>1, <2>2
<1>13. Works(handlers[s])'
  <2>1. h.op = "prepare" => Used(h.arg)' /\ h.arg \in Clients
    BY <1>1, <1>2, <1>8 DEF Works
  <2> QED BY <1>1, <1>2, <1>7, <1>11, <1>12, <2>1 DEF Works, Kept, ClaimOps, Fetches
<1>14. Working'
  BY <1>9, <1>13, WorkingNext DEF IInv
<1>15. Alone'
  <2>1. \A t \in Slots \ {s} : ~SameLock(handlers[t], handlers[s]) /\ Vacant(handlers[t]) =>
                                   Vacant(handlers[t])'
    BY <1>1, <1>9, <1>11, <1>12 DEF SameLock, Vacant, Others
  <2> QED BY <1>7, <2>1, AloneInsert DEF IInv, ClaimOps
<1>16. InOrder'
  <2>1. \A c, d \in Clients : c < d /\ Used(d)' => Used(c)'
    <3>1. \A c \in Clients : c < k => Used(c)
      BY <1>3 DEF Unused, Used
    <3> QED BY <1>8, <3>1 DEF IInv, Shelved, InOrder
  <2>2. \A c \in Clients : keys'[c].label = "rotation" => keys'[c].of < c
    <3>1. h.op = "prepare" => h.arg < k
      <4>1. h.op = "prepare" => Used(h.arg) /\ h.arg \in Clients
        BY <1>1, <1>2 DEF Works
      <4>2. \A c \in Clients : k < c => ~Used(c)
        BY <1>3 DEF IInv, Shelved, InOrder
      <4>3. ASSUME NEW c \in Clients, Used(c) PROVE c < k
        BY <1>3, <4>2, <4>3
      <4> QED BY <4>1, <4>3
    <3> QED BY <1>1, <1>5, <1>6, <3>1 DEF IInv, Shelved, InOrder
  <2>3. binding' # NoClient => Used(binding)'
    <3>1. binding # NoClient => binding \in Clients /\ Used(binding)
      BY LifecycleConstants DEF IInv, Tables, Shelved, InOrder, NoClient, Clients
    <3> QED BY <1>8, <3>1 DEF Used
  <2> QED BY <2>1, <2>2, <2>3 DEF InOrder, Used
<1>17. Single'
  BY <1>11, <1>12 DEF IInv, Shelved, Single
<1>18. Answered'
  <2>1. AgentKeys \subseteq AgentKeys' /\ \A a : Candidates(a) \subseteq Candidates(a)'
    BY <1>9 DEF Grows, AgentKeys, Candidates, Used
  <2> QED BY <2>1 DEF IInv, Shelved, Answered
<1>19. Passed'
  <2>1. \A u \in spent : u[1] \in Clients /\ u[1] # k
    BY <1>3 DEF IInv, Tables, Shelved, Passed
  <2> QED BY <1>6, <1>8, <2>1 DEF IInv, Shelved, Passed
<1>20. Retired'
  BY <1>5, <1>6, <1>10 DEF IInv, Shelved, Retired, Active
<1> QED BY <1>9, <1>14, <1>15, <1>16, <1>17, <1>18, <1>19, <1>20 DEF IInv, Shelved

LEMMA InsertNext == ASSUME IInv, NEW s \in Slots, Insert(s) PROVE IInv'
<1> DEFINE h == handlers[s]
           k == CHOOSE c \in Unused : \A d \in Unused : c <= d
<1>1. h.op \in ClaimOps /\ h.at = "insert" /\ UNCHANGED <<idem, spent, mishaps>>
  BY DEF Insert
<1>2. CASE h.op = "register"
  <2>1. pairs' = pairs + 1 /\ GoWith(s, "done", pairs + 1) /\ UNCHANGED <<keys, binding, gates>>
    BY <1>2 DEF Insert
  <2> QED BY <1>1, <1>2, <2>1, InsertPair
<1>3. CASE h.op \in {"provision", "prepare"}
  <2>1. Unused # {} /\ keys' = [keys EXCEPT ![k] = NewMap(h)] /\ GoWith(s, "done", k)
        /\ UNCHANGED <<pairs, binding, gates>>
    BY <1>3 DEF Insert
  <2>2. PICK c : c = k
    OBVIOUS
  <2>3. c \in Unused /\ \A d \in Unused : c <= d
    BY <2>1, <2>2, NextClient
  <2>4. keys' = [keys EXCEPT ![c] = NewMap(h)] /\ GoWith(s, "done", c)
    BY <2>1, <2>2
  <2> QED BY <1>1, <1>3, <2>1, <2>3, <2>4, InsertKey
<1>4. CASE h.op = "bind"
  <2>1. CASE binding \in {NoClient, h.arg}
    <3>1. binding' = h.arg /\ GoWith(s, "done", h.arg) /\ UNCHANGED <<pairs, keys, gates>>
      BY <1>4, <2>1 DEF Insert
    <3> QED BY <1>1, <1>4, <2>1, <3>1, InsertBinding
  <2>2. CASE binding \notin {NoClient, h.arg}
    <3>1. Down /\ UNCHANGED <<pairs, keys, binding>>
      BY <1>4, <2>2 DEF Insert
    <3> QED BY <1>1, <3>1, DownNothing
  <2> QED BY <2>1, <2>2
<1> QED BY <1>1, <1>2, <1>3, <1>4 DEF ClaimOps

(***************************************************************************)
(* The gates, the operator and restarts                                    *)
(***************************************************************************)

LEMMA CallNext == ASSUME IInv, NEW g \in Gates, Call(g) PROVE IInv'
<1>1. Tidy' /\ UNCHANGED <<pairs, keys, binding, idem, gates, spent, mishaps>>
  BY CallMoves DEF IInv, Call
<1>2. PICK s \in Slots : /\ Others(s) /\ handlers[s].op = "idle"
                         /\ handlers'[s].op = gates[g].at /\ handlers'[s].at = "start"
                         /\ handlers'[s].arg = Request(g).arg
  BY CallMoves DEF IInv
<1>3. gates[g] \in GateState /\ Keyed(gates[g]) /\ gates[g].at # "ready"
  BY DEF IInv, Tidy, Call
<1>4. /\ gates[g].at \in {"register", "provision"} => handlers'[s].arg = 0
      /\ gates[g].at \in {"bind", "prepare", "commit", "verify"} => handlers'[s].arg \in Clients
      /\ gates[g].at # "patch"
  BY <1>2, <1>3 DEF Request, build_injection_request, generate_tsk_key, Keyed, GateState, Calls, Booting
<1>5. Works(handlers[s])' /\ Vacant(handlers[s])' /\ ~Holding(handlers'[s])
  BY <1>2, <1>4 DEF Works, Vacant, Holding, Fetches, ClaimOps
<1>6. SameRows /\ Grows /\ Tables' /\ binding <= binding'
  BY <1>1, LifecycleConstants DEF IInv, SameRows, Grows, Tables
<1>7. Working' /\ Alone'
  BY <1>2, <1>5, <1>6, WorkingNext, AloneNext DEF IInv
<1>8. InOrder' /\ Single' /\ Answered' /\ Passed'
  <2>1. Answered' /\ Single'
    BY <1>1, <1>6, AnsweredSame, SameRowsSets DEF IInv, Shelved, Single
  <2> QED BY <1>1, <2>1 DEF IInv, Shelved, InOrder, Passed, Used
<1>9. Retired'
  BY <1>1, <1>2, <1>4 DEF IInv, Shelved, Retired, Active, Others
<1> QED BY <1>1, <1>6, <1>7, <1>8, <1>9 DEF IInv, Shelved

LEMMA PatchReadNext == ASSUME IInv, PatchRead PROVE IInv'
<1>1. Tidy' /\ UNCHANGED <<pairs, keys, binding, idem, gates, spent>>
  BY PatchMoves DEF IInv, PatchRead
<1>2. PICK s \in Slots, k \in Clients :
        /\ Others(s) /\ handlers'[s].op = "patch" /\ handlers'[s].at = "set"
        /\ handlers'[s].arg = k /\ Used(k) /\ handlers'[s].map = keys[k]
  BY PatchMoves DEF IInv
<1>3. mishaps' \in [Mishaps -> Nat] /\ mishaps'["patch"] # 0
  BY DEF PatchRead, Mishap, IInv, Tables, Mishaps
<1>4. Works(handlers[s])' /\ Vacant(handlers[s])' /\ ~Holding(handlers'[s])
  BY <1>1, <1>2 DEF Works, Vacant, Holding, Fetches, ClaimOps, Used
<1>5. SameRows /\ Grows /\ Tables' /\ binding <= binding'
  BY <1>1, <1>3, LifecycleConstants DEF IInv, SameRows, Grows, Tables
<1>6. Working' /\ Alone'
  BY <1>2, <1>4, <1>5, WorkingNext, AloneNext DEF IInv
<1>7. \A c \in Clients : keys[c].counter <= keys'[c].counter
  BY <1>1 DEF IInv, Tables, KeyMap
<1>8. binding' # NoClient => Used(binding')
  BY <1>1 DEF IInv, Shelved, InOrder
<1> QED BY <1>1, <1>3, <1>5, <1>6, <1>7, <1>8, RowsNext

\* a mishap writes no table
LEMMA MishapNext ==
  ASSUME IInv, UNCHANGED <<pairs, keys, binding, idem, spent>>, Tidy', Working', Alone',
         NEW m \in {"loss", "crash"}, Mishap(m),
         \A t \in Slots : handlers'[t].op \in {handlers[t].op, "idle"}
  PROVE  IInv'
<1>1. mishaps' \in [Mishaps -> Nat] /\ mishaps'["patch"] = mishaps["patch"]
  BY DEF Mishap, IInv, Tables, Mishaps
<1>2. SameRows /\ Tables' /\ binding <= binding'
  BY <1>1, LifecycleConstants DEF IInv, SameRows, Tables
<1>3. \A c \in Clients : keys[c].counter <= keys'[c].counter /\ (Active(c) => Active(c)')
  BY DEF IInv, Tables, KeyMap, Active
<1>4. binding' # NoClient => Used(binding')
  BY DEF IInv, Shelved, InOrder
<1> QED BY <1>1, <1>2, <1>3, <1>4, RowsNext

LEMMA LossNext == ASSUME IInv, NEW g \in Gates, Timeout(g) \/ GateRestart(g) PROVE IInv'
<1>1. UNCHANGED <<pairs, keys, binding, idem, spent>> /\ Mishap("loss")
  BY DEF Timeout, GateRestart
<1>2. PICK r : /\ r \in {AfterError(g), Fresh} /\ handlers' = Orphan(g)
               /\ gates' = [gates EXCEPT ![g] = r]
  BY DEF Timeout, GateRestart
<1>3. r \in GateState /\ Keyed(r)
  BY <1>2, ErrorGate, FreshGate DEF IInv
<1>4. Tidy' /\ Orphaned(g)
  BY <1>2, <1>3, OrphanMoves DEF IInv
<1>5. Working' /\ Alone'
  BY <1>1, <1>4, OrphanedNext DEF IInv
<1>6. \A t \in Slots : handlers'[t].op \in {handlers[t].op, "idle"}
  BY <1>4 DEF Orphaned
<1> QED BY <1>1, <1>4, <1>5, <1>6, MishapNext

LEMMA ServerCrashNext == ASSUME IInv, ServerCrash PROVE IInv'
<1>1. UNCHANGED <<pairs, keys, binding, idem, spent>> /\ Mishap("crash") /\ Tidy' /\ Cleared
  BY DownMoves DEF ServerCrash, IInv
<1>2. \A t \in Slots : handlers'[t].op \in {handlers[t].op, "idle"}
  BY <1>1, IdleHandler DEF Cleared
<1> QED BY <1>1, <1>2, ClearedNext, MishapNext

(***************************************************************************)
(* The invariant, and the theorems                                         *)
(***************************************************************************)

LEMMA InvInit == Init => IInv
<1> SUFFICES ASSUME Init PROVE IInv
  OBVIOUS
<1>1. Tables
  BY IdleHandler, LifecycleConstants DEF Init, Tables, Row, NoClient, Mishaps
<1>2. Tidy
  BY IdleHandler, FreshGate DEF Init, Tidy, Linked
<1>3. \A s \in Slots : handlers[s] = Idle
  BY DEF Init
<1>4. Working /\ Alone
  BY <1>3, IdleHandler DEF Working, Alone, Works, Vacant, Holding, ClaimOps, Fetches
<1>5. \A k \in Clients : keys[k].label = "none" /\ keys[k].status = "active"
  BY DEF Init, NoMap
<1>6. AgentKeys = {} /\ \A k : Candidates(k) = {}
  BY <1>5 DEF AgentKeys, Candidates
<1>7. Answered
  <2>1. \A i \in IdemKeys : idem[i].state = "none"
    BY DEF Init
  <2>2. /\ <<"register", 0>> \in IdemKeys /\ <<"provision", 0>> \in IdemKeys
        /\ \A k \in Clients : <<"prepare", k>> \in IdemKeys
    BY LifecycleConstants DEF IdemKeys, ClaimOps, Clients
  <2> QED BY <2>1, <2>2 DEF Answered
<1>8. InOrder /\ Single /\ Passed /\ Retired
  BY <1>3, <1>5, <1>6, IdleHandler DEF Init, InOrder, Single, Passed, Retired, Used, Active, NoClient
<1> QED BY <1>1, <1>2, <1>4, <1>7, <1>8 DEF IInv, Shelved

LEMMA InvNext == IInv /\ [Next]_vars => IInv'
<1> SUFFICES ASSUME IInv, [Next]_vars PROVE IInv'
  OBVIOUS
<1>1. ASSUME NEW s \in Slots, Step(s) PROVE IInv'
  BY <1>1, ClaimNext, ListNext, InsertNext, DoneNext, ResumeNext, CommitReadNext, CommitSwapNext, SetNext,
     VerifyBindingNext, VerifyCommitNext DEF Step
<1>2. ASSUME NEW g \in Gates, RotateTsk(g) \/ AuthorizeInjection(g) PROVE IInv'
  <2>1. Tidy' /\ UNCHANGED <<pairs, keys, binding, idem, handlers, spent, mishaps>>
    BY <1>2, GateTurns DEF RotateTsk, AuthorizeInjection, IInv
  <2>2. Tables' /\ Working' /\ Alone'
    BY <2>1 DEF IInv, Tables, Working, Works, Alone, Vacant, Holding, SameLock, Fetches, Used, AgentKeys,
                Candidates
  <2>3. SameRows
    BY <2>1 DEF SameRows
  <2>4. Answered'
    BY <2>1, <2>3, AnsweredSame DEF IInv, Shelved
  <2> QED BY <2>1, <2>2, <2>4, QuietNext DEF Tables
<1>3. ASSUME UNCHANGED vars PROVE IInv'
  <2>1. Tables' /\ Tidy' /\ Working' /\ Alone'
    BY <1>3 DEF vars, IInv, Tables, Tidy, Linked, Keyed, Working, Works, Alone, Vacant, Holding, SameLock,
                Fetches, Used, AgentKeys, Candidates
  <2>2. SameRows
    BY <1>3 DEF vars, SameRows
  <2>3. Answered'
    BY <1>3, <2>2, AnsweredSame DEF vars, IInv, Shelved
  <2> QED BY <1>3, <2>1, <2>3, QuietNext DEF vars, Tables
<1> QED BY <1>1, <1>2, <1>3, PatchReadNext, CallNext, LossNext, ServerCrashNext DEF Next

LEMMA Invariance == Spec => []IInv
BY InvInit, InvNext, PTL DEF Spec

LEMMA AtMostOne ==
  ASSUME NEW S, \A c, d \in S : c = d
  PROVE  Cardinality(S) <= 1
<1>1. CASE S = {}
  BY <1>1, FS_EmptySet
<1>2. CASE S # {}
  <2>1. PICK c \in S : S = {c}
    BY <1>2
  <2>2. Cardinality({c}) = 1
    BY FS_Singleton
  <2> QED BY <2>1, <2>2
<1> QED BY <1>1, <1>2

(* Whatever requests overtake each other, time out or are cut off by a     *)
(* restart, the principal has one pair, one agent key and one candidate    *)
(* for each rotation at most, and a response stored for retries names the  *)
(* resource that exists: list-then-create runs under the resource lock,    *)
(* and no row is deleted or relabelled.                                    *)
THEOREM RetriesReconcile == Spec => []Reconciled
<1>1. IInv => Reconciled
  BY AtMostOne DEF IInv, Shelved, Single, Answered, Reconciled
<1> QED BY <1>1, Invariance, PTL

(* No HOTP counter is accepted twice: commitValidation moves the counter   *)
(* past what it accepts, and the merge of PgTumblerStore.set keeps it      *)
(* there, whatever stale map updateKey writes back.                        *)
THEOREM CountersNeverReturn == Spec => []NoReplay
<1>1. IInv => NoReplay
  <2> SUFFICES ASSUME IInv, NEW u \in spent PROVE keys[u[1]].counter > u[2]
    BY DEF NoReplay
  <2> QED BY DEF IInv, Shelved, Passed
<1> QED BY <1>1, Invariance, PTL

(* Until an operator edits a key, the key the pair is bound to is active:  *)
(* a commit revokes a key only after the binding has moved to a younger    *)
(* one, and the binding never moves back.                                  *)
THEOREM BoundKeyStaysLive == Spec => []BoundKeyLive
<1>1. IInv => BoundKeyLive
  <2> SUFFICES ASSUME IInv, binding # NoClient, mishaps["patch"] = 0 PROVE Active(binding)
    BY DEF BoundKeyLive
  <2>1. binding \in Clients /\ binding \in Nat
    BY LifecycleConstants DEF IInv, Tables, NoClient, Clients
  <2> QED BY <2>1 DEF IInv, Shelved, Retired
<1> QED BY <1>1, Invariance, PTL

=============================================================================
