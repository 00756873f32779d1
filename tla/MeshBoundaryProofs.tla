------------------------- MODULE MeshBoundaryProofs -------------------------
(***************************************************************************)
(* Theorems about the two components whose peers are other processes that  *)
(* may be gone: the agent mesh and the writer boundary.                    *)
(*                                                                         *)
(* First the mesh (module AgentMesh), for any agents and windows, any tag  *)
(* age and recovery window, and any number of handle reuses and key        *)
(* generations.  A handle tells nothing about its owner, and tags are read *)
(* property by property.  What makes the checks sound is the process id    *)
(* inside the signature: no two owners of one window have the same, so a   *)
(* signature that agrees with the window's tag was made by the window's    *)
(* owner.                                                                  *)
(*                                                                         *)
(* Then the boundary (module UltraHaBoundary): type correctness, and that  *)
(* nothing is done under the shared lock while the fence belongs to someone *)
(* else, for any number of processes, requests, connections, epochs,       *)
(* crashes and lost clients.                                               *)
(***************************************************************************)
EXTENDS AgentMesh, UltraHaBoundary, TLAPS

Keys == Agents \X Nat
Signature == [key : Keys, id : Agents, pid : Nat, ts : Nat]
Tag == [id : Agents, pid : Nat, sig : Signature \cup {None}, sts : Nat \cup {None}]
Initiator ==
  [pc : {"none", "submit", "send", "wait", "tag", "crossCheck", "verified", "failed"},
   id : Agents \cup {None}, result : [nonce : Windows \cup {None}, key : Keys] \cup {None},
   sig : Signature \cup {None}]
GateCheck == [pc : {"idle", "level2", "send"}, hwnd : Windows \cup {None}, sig : Signature \cup {None},
              mode : {"audit", "enforce", None}]

TypeInv ==
  /\ clock \in Nat /\ reused \in Nat
  /\ owner \in [Windows -> [key : Keys, pid : Nat] \cup {None}]
  /\ tag \in [Windows -> Tag \cup {None}]
  /\ key \in [Agents -> Nat]
  /\ init \in [Windows -> Initiator]
  /\ gate \in GateCheck

(* Of the owners a window has had, only the signer has the process id that *)
(* was signed: n is the last one given out, o the owner.                   *)
Proper(sig, n, o) ==
  sig # None => sig.pid <= n /\ (o # None /\ o.pid = sig.pid => o.key = sig.key)

(* A tag is its window's owner's, and every signature that was read from a *)
(* window, by an initiator or by the gate, is proper for that window.      *)
TagInv ==
  /\ \A h \in Windows :
       /\ owner[h] # None => owner[h].pid <= reused
       /\ tag[h] # None => /\ owner[h] # None /\ tag[h].pid = owner[h].pid
                           /\ Proper(tag[h].sig, reused, owner[h])
       /\ Proper(init[h].sig, reused, owner[h])
  /\ gate.pc = "level2" => gate.hwnd \in Windows /\ Proper(gate.sig, reused, owner[gate.hwnd])

(* The files of recoveries: a token, written or about to be, is for a key  *)
(* the server confirmed.                                                   *)
RecoveryInv ==
  /\ recover \in [Agents -> [pc : {"idle", "confirm", "token"}, issuedAt : Nat]]
  /\ tokenFile \in [Agents -> [key : Keys, ts : Nat] \cup {None}]
  /\ peerCheck.pc = "token" => peerCheck.agent \in Agents
  /\ \A a \in Agents : recover[a].pc = "token" => <<a, key[a]>> \in confirmed
  /\ \A a \in Agents : tokenFile[a] # None => tokenFile[a].key \in confirmed

(* Who has passed the wait has an answer, so its key may be kept.          *)
PeerInv ==
  /\ peerKey \in [Windows -> [key : Keys, via : {"handshake", "recovery"}] \cup {None}]
  /\ \A h \in Windows : init[h].pc \in {"tag", "crossCheck", "verified"} => init[h].result # None
  /\ peerCheck.pc = "token" => peerCheck.key \in Keys
  /\ pubFile \in [Agents -> [key : Keys, ts : Nat] \cup {None}]

Inv == TypeInv /\ TagInv /\ RecoveryInv /\ PeerInv /\ RecoveredKeyConfirmed

LEMMA Rest ==
  /\ NoInit \in Initiator /\ NoInit.pc = "none" /\ NoInit.sig = None /\ NoInit.id = None /\ NoInit.result = None
  /\ NoGate \in GateCheck /\ NoGate.pc = "idle" /\ NoCheck.pc = "idle" /\ NoRecover.pc = "idle"
  /\ NoRecover \in [pc : {"idle", "confirm", "token"}, issuedAt : Nat]
BY DEF NoInit, NoGate, NoCheck, NoRecover, Initiator, GateCheck

LEMMA InitInv == Init => Inv
<1> SUFFICES ASSUME Init PROVE Inv
  OBVIOUS
<1> USE DEF Init
<1>1. owner \in [Windows -> [key : Keys, pid : {0}]] /\ \A h \in Windows : owner[h].pid = 0
  <2>1. \A a \in Agents : [key |-> <<a, 0>>, pid |-> 0] \in [key : Keys, pid : {0}]
    BY DEF Keys
  <2>2. \A o \in [key : Keys, pid : {0}] : o.pid = 0
    OBVIOUS
  <2>3. owner \in [Windows -> [key : Keys, pid : {0}]]
    BY <2>1
  <2> QED BY <2>2, <2>3
<1>2. owner \in [Windows -> [key : Keys, pid : Nat] \cup {None}]
  <2>1. [key : Keys, pid : {0}] \subseteq [key : Keys, pid : Nat]
    OBVIOUS
  <2> QED BY <1>1, <2>1
<1>3. TypeInv
  BY <1>2, Rest DEF TypeInv
<1>4. TagInv
  BY <1>1, Rest DEF TagInv, Proper
<1>5. RecoveryInv
  BY Rest DEF RecoveryInv
<1>6. PeerInv /\ RecoveredKeyConfirmed
  BY Rest DEF PeerInv, RecoveredKeyConfirmed
<1> QED BY <1>3, <1>4, <1>5, <1>6 DEF Inv

-----------------------------------------------------------------------------
(* Windows and tags.                                                       *)

LEMMA ReuseStep ==
  ASSUME Inv, NEW h \in Windows, Reuse(h)
  PROVE  Inv'
<1>1. /\ reused' = reused + 1 /\ tag' = [tag EXCEPT ![h] = None]
      /\ UNCHANGED <<clock, init, peerKey, gate, key, pubFile, tokenFile, recover, confirmed, peerCheck>>
  BY DEF Reuse, shake, recovery
<1>2. PICK o : /\ o = None \/ \E a \in Agents : o = [key |-> <<a, key[a]>>, pid |-> reused']
               /\ owner' = [owner EXCEPT ![h] = o]
  BY DEF Reuse
<1>3. TypeInv /\ TagInv
  BY DEF Inv
<1>4. reused \in Nat /\ reused' \in Nat
  BY <1>1, <1>3 DEF TypeInv
<1>5. o = None \/ (o \in [key : Keys, pid : Nat] /\ o.pid = reused + 1)
  <2>1. ASSUME NEW a \in Agents, o = [key |-> <<a, key[a]>>, pid |-> reused'] PROVE o \in [key : Keys, pid : Nat] /\ o.pid = reused + 1
    BY <1>1, <1>3, <1>4, <2>1 DEF TypeInv, Keys
  <2> QED BY <1>2, <2>1
<1>6. /\ owner'[h] = o /\ \A g \in Windows \ {h} : owner'[g] = owner[g]
      /\ tag'[h] = None /\ \A g \in Windows \ {h} : tag'[g] = tag[g]
  BY <1>1, <1>2, <1>3 DEF TypeInv
<1>7. TypeInv'
  BY <1>1, <1>2, <1>3, <1>4, <1>5 DEF TypeInv
<1>8. ASSUME NEW sig \in Signature \cup {None}, NEW g \in Windows, Proper(sig, reused, owner[g])
      PROVE  Proper(sig, reused', owner'[g])
  <2> SUFFICES ASSUME sig # None
               PROVE  sig.pid <= reused' /\ (owner'[g] # None /\ owner'[g].pid = sig.pid => owner'[g].key = sig.key)
    BY DEF Proper
  <2>1. sig.pid \in Nat /\ sig.pid <= reused
    BY <1>8 DEF Proper, Signature
  <2>2. CASE g = h
    BY <1>1, <1>4, <1>5, <1>6, <2>1, <2>2
  <2>3. CASE g # h
    BY <1>1, <1>4, <1>6, <1>8, <2>1, <2>3 DEF Proper
  <2> QED BY <2>2, <2>3
<1>9. \A g \in Windows : init[g].sig \in Signature \cup {None} /\ (tag[g] # None => tag[g].sig \in Signature \cup {None})
  BY <1>3 DEF TypeInv, Initiator, Tag
<1>10. gate.sig \in Signature \cup {None}
  BY <1>3 DEF TypeInv, GateCheck
<1>11. ASSUME NEW g \in Windows
       PROVE  /\ owner'[g] # None => owner'[g].pid <= reused'
              /\ tag'[g] # None => /\ owner'[g] # None /\ tag'[g].pid = owner'[g].pid
                                   /\ Proper(tag'[g].sig, reused', owner'[g])
              /\ Proper(init'[g].sig, reused', owner'[g])
  <2>1. Proper(init'[g].sig, reused', owner'[g])
    BY <1>1, <1>3, <1>8, <1>9 DEF TagInv
  <2>2. CASE g = h
    BY <1>1, <1>4, <1>5, <1>6, <2>1, <2>2
  <2>3. CASE g # h
    <3>1. owner'[g] = owner[g] /\ tag'[g] = tag[g]
      BY <1>6, <2>3
    <3>2. owner[g] # None => owner[g].pid <= reused'
      <4>1. owner[g] # None => owner[g].pid \in Nat /\ owner[g].pid <= reused
        BY <1>3 DEF TypeInv, TagInv
      <4> QED BY <1>1, <1>4, <4>1
    <3>3. tag[g] # None => Proper(tag[g].sig, reused, owner[g]) /\ owner[g] # None /\ tag[g].pid = owner[g].pid
      BY <1>3 DEF TagInv
    <3>4. tag[g] # None => Proper(tag[g].sig, reused', owner'[g])
      BY <1>8, <1>9, <3>3
    <3> QED BY <2>1, <3>1, <3>2, <3>3, <3>4
  <2> QED BY <2>2, <2>3
<1>12. gate.pc = "level2" => gate.hwnd \in Windows /\ Proper(gate.sig, reused', owner'[gate.hwnd])
  BY <1>3, <1>8, <1>10 DEF TagInv
<1>13. TagInv'
  BY <1>1, <1>11, <1>12 DEF TagInv
<1>14. RecoveryInv' /\ PeerInv' /\ RecoveredKeyConfirmed'
  BY <1>1 DEF Inv, RecoveryInv, PeerInv, RecoveredKeyConfirmed
<1> QED BY <1>7, <1>13, <1>14 DEF Inv

(* Whatever a stamp writes is the owner's.                                 *)
LEMMA Stamped ==
  ASSUME Inv, NEW h \in Windows, NEW t \in Tag, Stamp(h, t), owner[h] # None,
         t.pid = owner[h].pid, Proper(t.sig, reused, owner[h])
  PROVE  Inv'
<1>1. /\ tag' = [tag EXCEPT ![h] = t]
      /\ UNCHANGED <<clock, owner, reused, init, peerKey, gate, key, pubFile, tokenFile, recover, confirmed, peerCheck>>
  BY DEF Stamp, shake, recovery
<1>2. TypeInv /\ TagInv
  BY DEF Inv
<1>3. TypeInv'
  BY <1>1, <1>2 DEF TypeInv
<1>4. tag'[h] = t /\ \A g \in Windows \ {h} : tag'[g] = tag[g]
  BY <1>1, <1>2 DEF TypeInv
<1>5. ASSUME NEW g \in Windows
      PROVE  /\ owner[g] # None => owner[g].pid <= reused
             /\ tag'[g] # None => /\ owner[g] # None /\ tag'[g].pid = owner[g].pid
                                  /\ Proper(tag'[g].sig, reused, owner[g])
             /\ Proper(init[g].sig, reused, owner[g])
  BY <1>2, <1>4 DEF TagInv
<1>6. TagInv'
  BY <1>1, <1>2, <1>5 DEF TagInv
<1>7. RecoveryInv' /\ PeerInv' /\ RecoveredKeyConfirmed'
  BY <1>1 DEF Inv, RecoveryInv, PeerInv, RecoveredKeyConfirmed
<1> QED BY <1>3, <1>6, <1>7 DEF Inv

LEMMA StampStep ==
  ASSUME Inv, NEW h \in Windows, stamp_birth_tag(h) \/ StampSig(h) \/ StampSts(h)
  PROVE  Inv'
<1>1. /\ owner[h] # None /\ owner[h].key \in Keys /\ owner[h].pid \in Nat /\ owner[h].pid <= reused
      /\ owner[h].key[1] \in Agents /\ clock \in Nat
      /\ tag[h] # None => /\ tag[h] \in Tag /\ tag[h].pid = owner[h].pid
                          /\ Proper(tag[h].sig, reused, owner[h])
  BY DEF Inv, TypeInv, TagInv, stamp_birth_tag, StampSig, StampSts, Keys
<1>2. CASE stamp_birth_tag(h)
  <2> DEFINE t == [id |-> owner[h].key[1], pid |-> owner[h].pid, sig |-> None, sts |-> None]
  <2>1. t \in Tag /\ t.pid = owner[h].pid /\ t.sig = None
    BY <1>1 DEF Tag
  <2>2. Proper(t.sig, reused, owner[h]) /\ Stamp(h, t)
    BY <1>2, <2>1 DEF Proper, stamp_birth_tag
  <2> HIDE DEF t
  <2> QED BY <1>1, <2>1, <2>2, Stamped
<1>3. CASE StampSig(h)
  <2> DEFINE sig == [key |-> owner[h].key, id |-> tag[h].id, pid |-> tag[h].pid, ts |-> clock]
             t == [tag[h] EXCEPT !.sig = sig]
  <2>1. tag[h] # None
    BY <1>3 DEF StampSig
  <2>2. sig \in Signature /\ sig.pid = owner[h].pid /\ sig.key = owner[h].key
    BY <1>1, <2>1 DEF Signature, Tag
  <2>3. Stamp(h, t)
    BY <1>3 DEF StampSig
  <2> HIDE DEF sig
  <2>4. t \in Tag /\ t.pid = owner[h].pid /\ t.sig = sig
    BY <1>1, <2>1, <2>2 DEF Tag
  <2>5. Proper(sig, reused, owner[h])
    BY <1>1, <2>2 DEF Proper
  <2> HIDE DEF t
  <2> QED BY <1>1, <2>3, <2>4, <2>5, Stamped
<1>4. CASE StampSts(h)
  <2> DEFINE s == tag[h].sig.ts
             t == [tag[h] EXCEPT !.sts = s]
  <2>1. tag[h] # None /\ tag[h].sig # None /\ Stamp(h, t)
    BY <1>4 DEF StampSts
  <2>2. s \in Nat
    BY <1>1, <2>1 DEF Tag, Signature
  <2> HIDE DEF s
  <2>3. t \in Tag /\ t.pid = tag[h].pid /\ t.sig = tag[h].sig
    BY <1>1, <2>1, <2>2 DEF Tag
  <2> HIDE DEF t
  <2> QED BY <1>1, <2>1, <2>3, Stamped
<1> QED BY <1>2, <1>3, <1>4

-----------------------------------------------------------------------------
(* The discovery cycle.                                                    *)

(* A step of the initiators keeps no other signature than the one it had   *)
(* or has just read, and goes past the wait with an answer only.           *)
LEMMA Initiated ==
  ASSUME Inv, UNCHANGED <<clock, mesh, gate, recovery, peerCheck>>, init' \in [Windows -> Initiator],
         \A h \in Windows : /\ init'[h].sig = None \/ Proper(init'[h].sig, reused, owner[h])
                            /\ init'[h].pc \in {"tag", "crossCheck", "verified"} => init'[h].result # None,
         peerKey' = peerKey \/ \E h \in Windows, k \in Keys :
                                  peerKey' = [peerKey EXCEPT ![h] = [key |-> k, via |-> "handshake"]]
  PROVE  Inv'
<1>1. UNCHANGED <<clock, owner, hung, tag, reused, gate, key, pubFile, tokenFile, recover, confirmed, peerCheck>>
  BY DEF mesh, recovery
<1>2. TypeInv'
  BY <1>1 DEF Inv, TypeInv
<1>3. \A h \in Windows : Proper(init'[h].sig, reused, owner[h])
  BY DEF Proper
<1>4. TagInv'
  BY <1>1, <1>3 DEF Inv, TagInv
<1>5. RecoveryInv'
  BY <1>1 DEF Inv, RecoveryInv
<1>6. PeerInv' /\ RecoveredKeyConfirmed'
  <2>1. CASE peerKey' = peerKey
    BY <1>1, <2>1 DEF Inv, PeerInv, RecoveredKeyConfirmed
  <2>2. ASSUME NEW h \in Windows, NEW k \in Keys, peerKey' = [peerKey EXCEPT ![h] = [key |-> k, via |-> "handshake"]]
        PROVE  PeerInv' /\ RecoveredKeyConfirmed'
    <3> DEFINE r == [key |-> k, via |-> "handshake"]
    <3>1. r \in [key : Keys, via : {"handshake", "recovery"}] /\ r.via = "handshake"
      OBVIOUS
    <3> HIDE DEF r
    <3>2. /\ peerKey' \in [Windows -> [key : Keys, via : {"handshake", "recovery"}] \cup {None}]
          /\ peerKey'[h] = r /\ \A g \in Windows \ {h} : peerKey'[g] = peerKey[g]
      BY <2>2, <3>1 DEF Inv, PeerInv, r
    <3>3. RecoveredKeyConfirmed'
      BY <1>1, <3>1, <3>2 DEF Inv, RecoveredKeyConfirmed
    <3> QED BY <1>1, <3>2, <3>3 DEF Inv, PeerInv
  <2> QED BY <2>1, <2>2
<1> QED BY <1>2, <1>4, <1>5, <1>6 DEF Inv

LEMMA Advanced ==
  ASSUME Inv, NEW h \in Windows, NEW i \in Initiator, Advance(h, i),
         i.sig = None \/ Proper(i.sig, reused, owner[h]),
         i.pc \in {"tag", "crossCheck", "verified"} => i.result # None
  PROVE  Inv'
<1>1. init' = [init EXCEPT ![h] = i] /\ init \in [Windows -> Initiator]
  BY DEF Advance, Inv, TypeInv
<1>2. /\ init' \in [Windows -> Initiator]
      /\ init'[h] = i /\ \A g \in Windows \ {h} : init'[g] = init[g]
  BY <1>1
<1>3. \A g \in Windows : /\ Proper(init[g].sig, reused, owner[g])
                         /\ init[g].pc \in {"tag", "crossCheck", "verified"} => init[g].result # None
  BY DEF Inv, TagInv, PeerInv
<1>4. \A g \in Windows : /\ init'[g].sig = None \/ Proper(init'[g].sig, reused, owner[g])
                         /\ init'[g].pc \in {"tag", "crossCheck", "verified"} => init'[g].result # None
  BY <1>2, <1>3
<1> QED BY <1>2, <1>4, Initiated DEF Advance

(* Every initiator on the listener keeps its place, and its signature.     *)
LEMMA Heard ==
  ASSUME Inv, NEW n \in Windows \cup {None}, NEW k \in Keys
  PROVE  LET a == handle_response([nonce |-> n, key |-> k])
         IN  /\ a \in [Windows -> Initiator]
             /\ \A g \in Windows : /\ a[g].sig = init[g].sig /\ a[g].pc = init[g].pc
                                   /\ a[g].pc \notin {"send", "wait"} => a[g].result = init[g].result
<1> DEFINE r == [nonce |-> n, key |-> k]
<1>1. r \in [nonce : Windows \cup {None}, key : Keys]
  OBVIOUS
<1> HIDE DEF r
<1>2. \A g \in Windows : init[g] \in Initiator
  BY DEF Inv, TypeInv
<1>3. ASSUME NEW g \in Windows
      PROVE  LET i == [init[g] EXCEPT !.result = r]
             IN  i \in Initiator /\ i.sig = init[g].sig /\ i.pc = init[g].pc
  BY <1>1, <1>2 DEF Initiator
<1>4. /\ handle_response(r) \in [Windows -> Initiator]
      /\ \A g \in Windows : /\ handle_response(r)[g].sig = init[g].sig
                            /\ handle_response(r)[g].pc = init[g].pc
                            /\ handle_response(r)[g].pc \notin {"send", "wait"} =>
                                 handle_response(r)[g].result = init[g].result
  BY <1>2, <1>3 DEF handle_response
<1> QED BY <1>4 DEF r

LEMMA ChallengeStep ==
  ASSUME Inv, NEW h \in Windows, handle_challenge(h)
  PROVE  Inv'
<1> DEFINE a == handle_response([nonce |-> h, key |-> owner[h].key])
<1>1. owner[h].key \in Keys /\ h \in Windows \cup {None}
  BY DEF Inv, TypeInv, handle_challenge
<1>2. /\ a \in [Windows -> Initiator]
      /\ \A g \in Windows : /\ a[g].sig = init[g].sig /\ a[g].pc = init[g].pc
                            /\ a[g].pc \notin {"send", "wait"} => a[g].result = init[g].result
  BY <1>1, Heard
<1>3. init' = [a EXCEPT ![h].pc = "wait"]
  BY DEF handle_challenge
<1>4. UNCHANGED <<clock, mesh, gate, recovery, peerCheck, peerKey>>
  BY DEF handle_challenge
<1> HIDE DEF a
<1>5. /\ init' \in [Windows -> Initiator]
      /\ \A g \in Windows \ {h} : init'[g] = a[g]
      /\ init'[h].sig = a[h].sig /\ init'[h].pc = "wait"
  BY <1>2, <1>3 DEF Initiator
<1>6. \A g \in Windows : /\ Proper(init[g].sig, reused, owner[g])
                         /\ init[g].pc \in {"tag", "crossCheck", "verified"} => init[g].result # None
  BY DEF Inv, TagInv, PeerInv
<1>7. \A g \in Windows : /\ init'[g].sig = None \/ Proper(init'[g].sig, reused, owner[g])
                         /\ init'[g].pc \in {"tag", "crossCheck", "verified"} => init'[g].result # None
  BY <1>2, <1>5, <1>6
<1> QED BY <1>4, <1>5, <1>7, Initiated

LEMMA OtherStep ==
  ASSUME Inv, OtherResponse
  PROVE  Inv'
<1>1. PICK a \in Agents : init' = handle_response([nonce |-> None, key |-> <<a, key[a]>>])
  BY DEF OtherResponse
<1>2. <<a, key[a]>> \in Keys
  BY DEF Inv, TypeInv, Keys
<1>3. UNCHANGED <<clock, mesh, gate, recovery, peerCheck, peerKey>>
  BY DEF OtherResponse
<1>4. /\ init' \in [Windows -> Initiator]
      /\ \A g \in Windows : /\ init'[g].sig = init[g].sig /\ init'[g].pc = init[g].pc
                            /\ init'[g].pc \notin {"send", "wait"} => init'[g].result = init[g].result
  BY <1>1, <1>2, Heard
<1>5. \A g \in Windows : /\ Proper(init[g].sig, reused, owner[g])
                         /\ init[g].pc \in {"tag", "crossCheck", "verified"} => init[g].result # None
  BY DEF Inv, TagInv, PeerInv
<1>6. \A g \in Windows : /\ init'[g].sig = None \/ Proper(init'[g].sig, reused, owner[g])
                         /\ init'[g].pc \in {"tag", "crossCheck", "verified"} => init'[g].result # None
  BY <1>4, <1>5
<1> QED BY <1>3, <1>4, <1>6, Initiated

LEMMA DiscoverStep ==
  ASSUME Inv, Discover
  PROVE  Inv'
<1>1. PICK C \in SUBSET discover_mesh :
        init' = [h \in Windows |-> IF h \in C THEN [NoInit EXCEPT !.pc = "submit", !.id = tag[h].id] ELSE NoInit]
  BY DEF Discover
<1>2. UNCHANGED <<clock, mesh, gate, recovery, peerCheck, peerKey>>
  BY DEF Discover
<1>3. ASSUME NEW h \in Windows, h \in C
      PROVE  LET i == [NoInit EXCEPT !.pc = "submit", !.id = tag[h].id]
             IN  i \in Initiator /\ i.sig = None /\ i.pc = "submit"
  <2> DEFINE a == tag[h].id
  <2>1. a \in Agents
    BY <1>1, <1>3 DEF discover_mesh, Inv, TypeInv, Tag
  <2> HIDE DEF a
  <2>2. LET i == [NoInit EXCEPT !.pc = "submit", !.id = a]
        IN  i \in Initiator /\ i.sig = None /\ i.pc = "submit"
    BY <2>1 DEF NoInit, Initiator
  <2> QED BY <2>2 DEF a
<1>4. /\ init' \in [Windows -> Initiator]
      /\ \A g \in Windows : init'[g].sig = None /\ init'[g].pc \in {"submit", "none"}
  BY <1>1, <1>3, Rest
<1> QED BY <1>2, <1>4, Initiated

LEMMA FailedTyped ==
  ASSUME Inv, NEW h \in Windows
  PROVE  Failed(h) \in Initiator /\ Failed(h).sig = None /\ Failed(h).pc = "failed"
<1> DEFINE a == init[h].id
<1>1. a \in Agents \cup {None}
  BY DEF Inv, TypeInv, Initiator
<1> HIDE DEF a
<1>2. LET i == [NoInit EXCEPT !.pc = "failed", !.id = a]
      IN  i \in Initiator /\ i.sig = None /\ i.pc = "failed"
  BY <1>1 DEF NoInit, Initiator
<1> QED BY <1>2 DEF a, Failed

(* The steps of one initiator.                                             *)
LEMMA InitiatorStep ==
  ASSUME Inv, NEW h \in Windows,
         Submit(h) \/ DropChallenge(h) \/ AwaitResponse(h) \/ ReadPeerSig(h) \/ CrossCheck(h)
  PROVE  Inv'
<1>1. /\ init[h] \in Initiator /\ Proper(init[h].sig, reused, owner[h])
      /\ init[h].pc \in {"tag", "crossCheck", "verified"} => init[h].result # None
  BY DEF Inv, TypeInv, TagInv, PeerInv
<1>2. ASSUME Advance(h, Failed(h)) PROVE Inv'
  BY <1>2, FailedTyped, Advanced
<1>3. ASSUME NEW p \in {"send", "wait", "tag"}, Advance(h, [init[h] EXCEPT !.pc = p]),
             p = "tag" => init[h].result # None
      PROVE  Inv'
  <2> DEFINE i == [init[h] EXCEPT !.pc = p]
  <2>1. i \in Initiator /\ i.sig = init[h].sig /\ i.pc = p /\ i.result = init[h].result
    BY <1>1, <1>3 DEF Initiator
  <2> HIDE DEF i
  <2>2. Advance(h, i)
    BY <1>3 DEF i
  <2> QED BY <1>1, <1>3, <2>1, <2>2, Advanced
<1>4. CASE Submit(h)
  BY <1>3, <1>4 DEF Submit
<1>5. CASE DropChallenge(h)
  BY <1>2, <1>3, <1>5 DEF DropChallenge
<1>6. CASE AwaitResponse(h)
  BY <1>2, <1>3, <1>6 DEF AwaitResponse, verify_peer
<1>7. CASE ReadPeerSig(h)
  <2> DEFINE s == IF tag[h] = None THEN None ELSE tag[h].sig
             i == [init[h] EXCEPT !.pc = "crossCheck", !.sig = s]
  <2>1. s \in Signature \cup {None} /\ Proper(s, reused, owner[h])
    BY DEF Inv, TypeInv, TagInv, Tag, Proper
  <2>2. Advance(h, i) /\ init[h].pc = "tag"
    BY <1>7 DEF ReadPeerSig
  <2> HIDE DEF s
  <2>3. i \in Initiator /\ i.sig = s /\ i.result = init[h].result
    BY <1>1, <2>1 DEF Initiator
  <2> HIDE DEF i
  <2> QED BY <1>1, <2>1, <2>2, <2>3, Advanced
<1>8. CASE CrossCheck(h)
  <2> DEFINE i == [init[h] EXCEPT !.sig = None, !.pc = "verified"]
  <2>1. i \in Initiator /\ i.sig = None /\ i.result = init[h].result
    BY <1>1 DEF Initiator
  <2>2. init[h].pc = "crossCheck" /\ (Advance(h, i) \/ Advance(h, Failed(h)))
    BY <1>8 DEF CrossCheck
  <2> HIDE DEF i
  <2> QED BY <1>1, <1>2, <2>1, <2>2, Advanced
<1> QED BY <1>4, <1>5, <1>6, <1>7, <1>8

LEMMA CollectStep ==
  ASSUME Inv, NEW h \in Windows, Collect(h)
  PROVE  Inv'
<1>1. /\ init' = [init EXCEPT ![h] = NoInit] /\ UNCHANGED <<clock, mesh, gate, recovery, peerCheck>>
      /\ init \in [Windows -> Initiator]
  BY DEF Collect, Inv, TypeInv
<1>2. /\ init' \in [Windows -> Initiator]
      /\ init'[h] = NoInit /\ \A g \in Windows \ {h} : init'[g] = init[g]
  BY <1>1, Rest
<1>3. \A g \in Windows : /\ Proper(init[g].sig, reused, owner[g])
                         /\ init[g].pc \in {"tag", "crossCheck", "verified"} => init[g].result # None
  BY DEF Inv, TagInv, PeerInv
<1>4. \A g \in Windows : /\ init'[g].sig = None \/ Proper(init'[g].sig, reused, owner[g])
                         /\ init'[g].pc \in {"tag", "crossCheck", "verified"} => init'[g].result # None
  BY <1>2, <1>3, Rest
<1>5. init[h].pc = "verified" => init[h].result.key \in Keys
  BY <1>1, <1>3 DEF Initiator
<1>6. \/ peerKey' = peerKey
      \/ /\ init[h].pc = "verified"
         /\ peerKey' = [peerKey EXCEPT ![h] = [key |-> init[h].result.key, via |-> "handshake"]]
  BY DEF Collect
<1>7. peerKey' = peerKey \/ \E g \in Windows, k \in Keys :
                               peerKey' = [peerKey EXCEPT ![g] = [key |-> k, via |-> "handshake"]]
  BY <1>5, <1>6
<1> QED BY <1>1, <1>2, <1>4, <1>7, Initiated

LEMMA TimeoutStep ==
  ASSUME Inv, FuturesTimeout
  PROVE  Inv'
<1>1. UNCHANGED <<clock, mesh, gate, recovery, peerCheck, init, peerKey>>
  BY DEF FuturesTimeout
<1>2. init' \in [Windows -> Initiator]
      /\ \A g \in Windows : /\ Proper(init'[g].sig, reused, owner[g])
                            /\ init'[g].pc \in {"tag", "crossCheck", "verified"} => init'[g].result # None
  BY <1>1 DEF Inv, TypeInv, TagInv, PeerInv
<1> QED BY <1>1, <1>2, Initiated

(* Time passes, and windows hang or resume.                                *)
LEMMA WorldStep ==
  ASSUME Inv, Tick \/ \E h \in Windows : Hang(h)
  PROVE  Inv'
<1>1. /\ clock' \in Nat
      /\ UNCHANGED <<owner, reused, tag, init, peerKey, gate, key, pubFile, tokenFile, recover, confirmed, peerCheck>>
  BY DEF Tick, Hang, Inv, TypeInv, mesh, shake, recovery
<1>2. TypeInv' /\ TagInv'
  BY <1>1 DEF Inv, TypeInv, TagInv
<1>3. RecoveryInv' /\ PeerInv' /\ RecoveredKeyConfirmed'
  BY <1>1 DEF Inv, RecoveryInv, PeerInv, RecoveredKeyConfirmed
<1> QED BY <1>2, <1>3 DEF Inv

-----------------------------------------------------------------------------
(* The identity gate.                                                      *)

LEMMA GateStep ==
  ASSUME Inv,
         _level2_enterprise \/ SendString \/ \E h \in Windows : gated_send_string(h) \/ RunCascade(h)
  PROVE  Inv'
<1>1. /\ UNCHANGED <<clock, owner, reused, tag, init, peerKey, key, pubFile, tokenFile, recover, confirmed, peerCheck>>
  BY DEF _level2_enterprise, SendString, gated_send_string, RunCascade, mesh, shake, recovery
<1>2. gate \in GateCheck /\ (gate.pc = "level2" => gate.hwnd \in Windows)
  BY DEF Inv, TypeInv, TagInv
<1>3. ASSUME NEW h \in Windows, gate' = [NoGate EXCEPT !.pc = "send", !.hwnd = h]
      PROVE  gate' \in GateCheck /\ gate'.pc = "send"
  BY <1>3 DEF NoGate, GateCheck
<1>4. /\ gate' \in GateCheck
      /\ gate'.pc = "level2" => gate'.hwnd \in Windows /\ Proper(gate'.sig, reused, owner[gate'.hwnd])
  <2>1. CASE _level2_enterprise
    BY <1>2, <1>3, <2>1, Rest DEF _level2_enterprise
  <2>2. CASE SendString
    BY <2>2, Rest DEF SendString
  <2>3. ASSUME NEW h \in Windows, gated_send_string(h)
        PROVE  gate' \in GateCheck /\ gate'.pc = "send"
    BY <1>3, <2>3 DEF gated_send_string
  <2>4. ASSUME NEW h \in Windows, RunCascade(h)
        PROVE  gate' \in GateCheck /\ gate'.hwnd = h /\ Proper(gate'.sig, reused, owner[h])
    <3>1. PICK mode \in {"audit", "enforce"} :
            gate' = [pc |-> "level2", hwnd |-> h, sig |-> tag[h].sig, mode |-> mode]
      BY <2>4 DEF RunCascade
    <3>2. tag[h].sig \in Signature \cup {None} /\ Proper(tag[h].sig, reused, owner[h])
      BY <2>4 DEF RunCascade, Inv, TypeInv, TagInv, Tag
    <3> QED BY <3>1, <3>2 DEF GateCheck
  <2> QED BY <2>1, <2>2, <2>3, <2>4
<1>5. TypeInv' /\ TagInv'
  BY <1>1, <1>4 DEF Inv, TypeInv, TagInv
<1>6. RecoveryInv' /\ PeerInv' /\ RecoveredKeyConfirmed'
  BY <1>1 DEF Inv, RecoveryInv, PeerInv, RecoveredKeyConfirmed
<1> QED BY <1>5, <1>6 DEF Inv

-----------------------------------------------------------------------------
(* Key recovery.                                                           *)

(* None of its steps touches a window, a cycle or the gate.                *)
LEMMA Offline ==
  ASSUME Inv, UNCHANGED <<clock, mesh, shake, gate>>, key' \in [Agents -> Nat], RecoveryInv', PeerInv',
         RecoveredKeyConfirmed'
  PROVE  Inv'
<1>1. TypeInv' /\ TagInv'
  BY DEF Inv, TypeInv, TagInv, mesh, shake
<1> QED BY <1>1 DEF Inv

LEMMA RegenerateStep ==
  ASSUME Inv, NEW a \in Agents, Regenerate(a)
  PROVE  Inv'
<1> DEFINE k == <<a, key[a] + 1>>
<1>1. /\ key' = [key EXCEPT ![a] = @ + 1] /\ key \in [Agents -> Nat]
      /\ UNCHANGED <<clock, mesh, shake, init, peerKey, gate, tokenFile, peerCheck, confirmed>>
  BY DEF Regenerate, Inv, TypeInv, shake
<1>2. key' \in [Agents -> Nat] /\ key'[a] = key[a] + 1 /\ \A b \in Agents \ {a} : key'[b] = key[b]
  BY <1>1
<1>3. k \in Keys /\ pubFile' = [pubFile EXCEPT ![a] = [key |-> k, ts |-> clock]]
  BY <1>1, <1>2 DEF Regenerate, Keys
<1>4. recover' = [recover EXCEPT ![a].pc = "confirm"]
  BY DEF Regenerate
<1>5. /\ recover' \in [Agents -> [pc : {"idle", "confirm", "token"}, issuedAt : Nat]]
      /\ recover'[a].pc = "confirm" /\ \A b \in Agents \ {a} : recover'[b] = recover[b]
  BY <1>4 DEF Inv, RecoveryInv
<1>6. RecoveryInv'
  BY <1>1, <1>2, <1>5 DEF Inv, RecoveryInv
<1> HIDE DEF k
<1>7. pubFile' \in [Agents -> [key : Keys, ts : Nat] \cup {None}]
  BY <1>3 DEF Inv, PeerInv, TypeInv
<1>8. PeerInv' /\ RecoveredKeyConfirmed'
  BY <1>1, <1>7 DEF Inv, PeerInv, RecoveredKeyConfirmed
<1> QED BY <1>1, <1>2, <1>6, <1>8, Offline

LEMMA ConfirmStep ==
  ASSUME Inv, NEW a \in Agents,
         _request_server_confirmation(a) \/ WriteToken(a) \/ RecoveryDies(a)
  PROVE  Inv'
<1>1. /\ UNCHANGED <<clock, mesh, shake, init, peerKey, gate, key, peerCheck>>
      /\ confirmed \subseteq confirmed'
  BY DEF _request_server_confirmation, WriteToken, RecoveryDies, shake
<1>2. key \in [Agents -> Nat] /\ clock \in Nat /\ <<a, key[a]>> \in Keys
  BY DEF Inv, TypeInv, Keys
<1>3. RecoveryInv /\ recover[a].issuedAt \in Nat
  BY DEF Inv, RecoveryInv
<1>4. NoRecover.pc # "token" /\ NoRecover \in [pc : {"idle", "confirm", "token"}, issuedAt : Nat]
  BY Rest
<1>5. /\ recover' \in [Agents -> [pc : {"idle", "confirm", "token"}, issuedAt : Nat]]
      /\ \A b \in Agents : recover'[b].pc = "token" => <<b, key[b]>> \in confirmed'
  <2>1. ASSUME recover' = [recover EXCEPT ![a] = NoRecover] PROVE <1>5!:
    BY <1>1, <1>3, <1>4, <2>1 DEF RecoveryInv
  <2>2. ASSUME /\ confirmed' = confirmed \cup {<<a, key[a]>>}
               /\ recover' = [recover EXCEPT ![a] = [pc |-> "token", issuedAt |-> clock]]
        PROVE  <1>5!:
    BY <1>1, <1>2, <1>3, <2>2 DEF RecoveryInv
  <2> QED BY <2>1, <2>2 DEF _request_server_confirmation, WriteToken, RecoveryDies
<1>6. /\ tokenFile' \in [Agents -> [key : Keys, ts : Nat] \cup {None}]
      /\ \A b \in Agents : tokenFile'[b] # None => tokenFile'[b].key \in confirmed'
  <2>1. CASE tokenFile' = tokenFile
    BY <1>1, <1>3, <2>1 DEF RecoveryInv
  <2>2. CASE WriteToken(a)
    <3> DEFINE k == <<a, key[a]>>
               t == [key |-> k, ts |-> recover[a].issuedAt]
    <3>1. k \in confirmed /\ k \in Keys /\ tokenFile' = [tokenFile EXCEPT ![a] = t]
      BY <1>2, <1>3, <2>2 DEF WriteToken, RecoveryInv
    <3> HIDE DEF k
    <3>2. t \in [key : Keys, ts : Nat] /\ t.key \in confirmed'
      BY <1>1, <1>3, <3>1
    <3> HIDE DEF t
    <3> QED BY <1>1, <1>3, <3>1, <3>2 DEF RecoveryInv
  <2> QED BY <2>1, <2>2 DEF _request_server_confirmation, RecoveryDies
<1>7. RecoveryInv'
  BY <1>1, <1>3, <1>5, <1>6 DEF RecoveryInv
<1>8. pubFile' \in [Agents -> [key : Keys, ts : Nat] \cup {None}]
  BY DEF _request_server_confirmation, WriteToken, RecoveryDies, Inv, PeerInv
<1>9. PeerInv' /\ RecoveredKeyConfirmed'
  BY <1>1, <1>8 DEF Inv, PeerInv, RecoveredKeyConfirmed
<1> QED BY <1>1, <1>2, <1>7, <1>9, Offline

LEMMA PeerCheckStep ==
  ASSUME Inv, update_peer_registry_from_recovery \/ \E h \in Windows : check_peer_recovery(h)
  PROVE  Inv'
<1>1. UNCHANGED <<clock, mesh, shake, init, gate, key, pubFile, tokenFile, recover, confirmed>>
  BY DEF update_peer_registry_from_recovery, check_peer_recovery, shake, recovery
<1>2. Inv /\ key \in [Agents -> Nat]
  BY DEF Inv, TypeInv
<1>3. ASSUME NEW h \in Windows, check_peer_recovery(h)
      PROVE  RecoveryInv' /\ PeerInv' /\ RecoveredKeyConfirmed'
  <2>1. /\ tag[h].id \in Agents /\ pubFile[tag[h].id] # None /\ UNCHANGED peerKey
        /\ peerCheck' = [pc |-> "token", hwnd |-> h, agent |-> tag[h].id, key |-> pubFile[tag[h].id].key]
    BY <1>3 DEF check_peer_recovery, Inv, TypeInv, Tag
  <2>2. pubFile[tag[h].id].key \in Keys
    BY <2>1 DEF Inv, PeerInv
  <2> QED BY <1>1, <2>1, <2>2 DEF Inv, RecoveryInv, PeerInv, RecoveredKeyConfirmed
<1>4. ASSUME update_peer_registry_from_recovery
      PROVE  RecoveryInv' /\ PeerInv' /\ RecoveredKeyConfirmed'
  <2>1. peerCheck.pc = "token" /\ peerCheck'.pc = "idle"
    BY <1>4, Rest DEF update_peer_registry_from_recovery
  <2>2. RecoveryInv'
    BY <1>1, <2>1 DEF Inv, RecoveryInv
  <2>3. CASE peerKey' = peerKey
    BY <1>1, <2>1, <2>2, <2>3 DEF Inv, PeerInv, RecoveredKeyConfirmed
  <2>4. CASE /\ _verify_server_token(tokenFile[peerCheck.agent], peerCheck.key)
             /\ peerKey' = [peerKey EXCEPT ![peerCheck.hwnd] = [key |-> peerCheck.key, via |-> "recovery"]]
    <3> DEFINE k == peerCheck.key
               r == [key |-> k, via |-> "recovery"]
    <3>1. k \in confirmed /\ k \in Keys
      BY <2>1, <2>4 DEF _verify_server_token, Inv, RecoveryInv, PeerInv
    <3> HIDE DEF k
    <3>2. r \in [key : Keys, via : {"handshake", "recovery"}] /\ r.key \in confirmed
      BY <3>1
    <3>3. peerKey' = [peerKey EXCEPT ![peerCheck.hwnd] = r]
      BY <2>4 DEF k
    <3> HIDE DEF r
    <3>4. /\ peerKey' \in [Windows -> [key : Keys, via : {"handshake", "recovery"}] \cup {None}]
          /\ \A g \in Windows : peerKey'[g] = peerKey[g] \/ peerKey'[g] = r
      BY <3>2, <3>3 DEF Inv, PeerInv
    <3>5. RecoveredKeyConfirmed'
      BY <1>1, <3>2, <3>4 DEF Inv, RecoveredKeyConfirmed
    <3> QED BY <1>1, <2>1, <2>2, <3>4, <3>5 DEF Inv, PeerInv
  <2> QED BY <1>4, <2>3, <2>4 DEF update_peer_registry_from_recovery
<1> QED BY <1>1, <1>2, <1>3, <1>4, Offline

-----------------------------------------------------------------------------
LEMMA InvNext == Inv /\ [Next]_vars => Inv'
<1> SUFFICES ASSUME Inv, [Next]_vars PROVE Inv'
  OBVIOUS
<1>1. CASE UNCHANGED vars
  BY <1>1 DEF vars, mesh, shake, recovery, Inv, TypeInv, TagInv, RecoveryInv, PeerInv, RecoveredKeyConfirmed
<1>2. CASE Next
  BY <1>2, ReuseStep, StampStep, ChallengeStep, OtherStep, DiscoverStep, InitiatorStep, CollectStep, TimeoutStep,
     WorldStep, GateStep, RegenerateStep, ConfirmStep, PeerCheckStep
  DEF Next, Initiate, SendChallenge
<1> QED BY <1>1, <1>2

LEMMA Invariance == Spec => []Inv
  BY InitInv, InvNext, PTL DEF Spec

-----------------------------------------------------------------------------
(* A signature that agrees with the tag of the window it was read from was *)
(* made with the key of the window's owner.                                *)
LEMMA SignedByOwner ==
  ASSUME Inv, NEW h \in Windows, NEW sig, Proper(sig, reused, owner[h]), NEW k,
         verify_signed_birth_tag(sig, h, k)
  PROVE  owner[h] # None /\ owner[h].key = k
<1>1. /\ sig # None /\ tag[h] # None /\ sig.key = k /\ sig.pid = tag[h].pid
  BY DEF verify_signed_birth_tag
<1>2. owner[h] # None /\ tag[h].pid = owner[h].pid
  BY <1>1 DEF Inv, TagInv
<1> QED BY <1>1, <1>2 DEF Proper

(* No peer passes the handshake whose window is another process's by then, *)
(* or whose process signs with a key that did not answer: the cross-check  *)
(* of HandshakeInitiator.run against SCID_SIG.                             *)
THEOREM HandshakeMatchesOwner == Spec => VerifiedPeerAnswered
<1>1. Inv /\ [Next]_vars => [\A h \in Windows : init[h].pc = "crossCheck" /\ init'[h].pc = "verified" =>
                               owner[h] # None /\ owner[h].key = init[h].result.key]_vars
  <2> SUFFICES ASSUME Inv, Next, NEW h \in Windows, init[h].pc = "crossCheck", init'[h].pc = "verified"
               PROVE  owner[h] # None /\ owner[h].key = init[h].result.key
    OBVIOUS
  <2>1. init \in [Windows -> Initiator] /\ Proper(init[h].sig, reused, owner[h])
    BY DEF Inv, TypeInv, TagInv
  <2>2. CrossCheck(h)
    <3>1. CASE init' = init
      BY <3>1
    <3>2. ASSUME NEW g \in Windows, NEW i, Advance(g, i) PROVE g = h /\ i.pc = "verified"
      BY <2>1, <3>2 DEF Advance
    <3>3. ASSUME NEW g \in Windows, Collect(g) PROVE FALSE
      BY <2>1, <3>3, Rest DEF Collect
    <3>4. ASSUME NEW g \in Windows, handle_challenge(g) PROVE FALSE
      <4> DEFINE a == handle_response([nonce |-> g, key |-> owner[g].key])
      <4>1. owner[g].key \in Keys /\ g \in Windows \cup {None}
        BY <3>4 DEF Inv, TypeInv, handle_challenge
      <4>2. a \in [Windows -> Initiator] /\ a[h].pc = "crossCheck"
        BY <4>1, Heard
      <4>3. init' = [a EXCEPT ![g].pc = "wait"]
        BY <3>4 DEF handle_challenge
      <4> HIDE DEF a
      <4> QED BY <4>2, <4>3 DEF Initiator
    <3>5. ASSUME OtherResponse PROVE FALSE
      <4>1. PICK b \in Agents : init' = handle_response([nonce |-> None, key |-> <<b, key[b]>>])
        BY <3>5 DEF OtherResponse
      <4>2. <<b, key[b]>> \in Keys
        BY DEF Inv, TypeInv, Keys
      <4> QED BY <4>1, <4>2, Heard
    <3>6. ASSUME Discover PROVE FALSE
      <4>1. init'[h] = NoInit \/ init'[h] = [NoInit EXCEPT !.pc = "submit", !.id = tag[h].id]
        BY <3>6 DEF Discover
      <4>2. ASSUME NEW a PROVE [NoInit EXCEPT !.pc = "submit", !.id = a].pc = "submit"
        BY DEF NoInit
      <4> QED BY <4>1, <4>2, Rest
    <3>7. Failed(h).pc = "failed"
      BY FailedTyped
    <3>8. ASSUME NEW g \in Windows,
                 Submit(g) \/ DropChallenge(g) \/ AwaitResponse(g) \/ ReadPeerSig(g) \/ CrossCheck(g)
          PROVE  CrossCheck(h)
      <4>1. \E i : Advance(g, i)
        BY <3>8 DEF Submit, DropChallenge, AwaitResponse, ReadPeerSig, CrossCheck
      <4>2. g = h
        BY <3>2, <4>1
      <4> QED BY <3>8, <4>2 DEF Submit, DropChallenge, AwaitResponse, ReadPeerSig
    <3>9. init' = init \/ OtherResponse \/ Discover
          \/ \E g \in Windows : \/ Submit(g) \/ SendChallenge(g) \/ AwaitResponse(g)
                                \/ ReadPeerSig(g) \/ CrossCheck(g) \/ Collect(g)
      BY DEF Next, Initiate, Tick, FuturesTimeout, _level2_enterprise, SendString,
         update_peer_registry_from_recovery, Reuse, Hang, Stamp, stamp_birth_tag, StampSig, StampSts,
         gated_send_string, RunCascade, check_peer_recovery, Regenerate, _request_server_confirmation,
         WriteToken, RecoveryDies, shake
    <3> QED BY <3>1, <3>3, <3>4, <3>5, <3>6, <3>8, <3>9 DEF SendChallenge
  <2>3. init'[h] = Failed(h) \/ verify_signed_birth_tag(init[h].sig, h, init[h].result.key)
    BY <2>1, <2>2 DEF CrossCheck, Advance
  <2>4. verify_signed_birth_tag(init[h].sig, h, init[h].result.key)
    BY <2>3, FailedTyped
  <2> QED BY <2>1, <2>4, SignedByOwner
<1> QED BY <1>1, Invariance, PTL DEF Spec, VerifiedPeerAnswered

(* In enforce mode the gate's level 2 lets nothing through to a window     *)
(* whose process does not hold the key its handle is trusted with:         *)
(* DegradationCascade._level2_enterprise.                                  *)
THEOREM GateMatchesOwner == Spec => Level2Authentic
<1>1. Inv /\ [Next]_vars => [gate'.pc = "send" /\ gate.pc = "level2" /\ gate.mode = "enforce" =>
                               /\ owner[gate.hwnd] # None
                               /\ owner[gate.hwnd].key = peerKey[gate.hwnd].key]_vars
  <2> SUFFICES ASSUME Inv, Next, gate'.pc = "send", gate.pc = "level2", gate.mode = "enforce"
               PROVE  owner[gate.hwnd] # None /\ owner[gate.hwnd].key = peerKey[gate.hwnd].key
    OBVIOUS
  <2>1. gate' # gate
    OBVIOUS
  <2>2. _level2_enterprise
    BY <2>1 DEF Next, Initiate, Tick, FuturesTimeout, SendString, Free, Discover, OtherResponse, Advance,
       Submit, SendChallenge, handle_challenge, DropChallenge, AwaitResponse, ReadPeerSig, CrossCheck, Collect,
       update_peer_registry_from_recovery, Reuse, Hang, Stamp, stamp_birth_tag, StampSig, StampSts,
       gated_send_string, RunCascade, check_peer_recovery, Regenerate, _request_server_confirmation,
       WriteToken, RecoveryDies
  <2>3. verify_signed_birth_tag(gate.sig, gate.hwnd, peerKey[gate.hwnd].key)
    BY <2>2, Rest DEF _level2_enterprise
  <2>4. gate.hwnd \in Windows /\ Proper(gate.sig, reused, owner[gate.hwnd])
    BY DEF Inv, TagInv
  <2> QED BY <2>3, <2>4, SignedByOwner
<1> QED BY <1>1, Invariance, PTL DEF Spec, Level2Authentic

(* In whatever order the files of repeated and interrupted recoveries are  *)
(* written and read, a recovered key is trusted only if the server         *)
(* confirmed that key: update_peer_registry_from_recovery.                 *)
THEOREM RecoveryNeedsServer == Spec => []RecoveredKeyConfirmed
  BY Invariance, PTL DEF Inv
(***************************************************************************)
(* The writer boundary                                                     *)
(***************************************************************************)

\* A request in flight is at a process, and one that waits for its next lock has
\* one to take, never more than two altogether.
WaitingForLocks ==
    \A r \in Slots :
        /\ requests[r].kind # "idle" => requests[r].node \in Nodes
        /\ requests[r].at = "queued" => requests[r].kind # "idle"
        /\ requests[r].kind # "idle" /\ requests[r].at \in {"queued", "connect"} =>
               requests[r].left + requests[r].holds <= 2 /\ requests[r].left > 0

InFlight == TypeOK /\ WaitingForLocks

\* Commands hold the lock while they work, and hold it alone.
CommandsAlone ==
    \A r \in Slots : requests[r].kind = "command" =>
        /\ requests[r].holds > 0 => \A q \in Slots \ {r} : requests[q].holds = 0
        /\ "command" \notin hungUp /\ requests[r].at = "work" => requests[r].holds > 0

\* Who holds the lock in shared mode was admitted under the fence as it is.
SharedUnderFence ==
    "command" \notin hungUp =>
        \A r \in Slots : requests[r].kind \in {"governed", "reload"} /\ requests[r].holds > 0 =>
            /\ fence.epoch = requests[r].epoch
            /\ fence.node = requests[r].node
            /\ fence.active

FenceInv == CommandsAlone /\ SharedUnderFence

-----------------------------------------------------------------------------
\* The record of an idle slot is a request, and every kind of request is one.
LEMMA IdleIsRequest == Idle \in Request
  BY BoundaryConstants DEF Idle, Request, Epochs

\* A finished request leaves an idle slot, or stays behind with its locks.
LEMMA ReplyTyped ==
    ASSUME TypeOK, NEW r \in Slots, Reply(r)
    PROVE  /\ requests' \in [Slots -> Request]
           /\ \A q \in Slots \ {r} : requests'[q] = requests[q]
           /\ \/ requests'[r] = Idle
              \/ /\ requests'[r] = [requests[r] EXCEPT !.at = "hung"]
                 /\ ~requests[r].open
  BY IdleIsRequest DEF Reply, Set, TypeOK, Request

\* Either way the requests in flight are as they should be.
LEMMA AfterReply ==
    ASSUME InFlight, NEW r \in Slots, requests[r].kind # "idle", Reply(r)
    PROVE  requests' \in [Slots -> Request] /\ WaitingForLocks'
<1>1. /\ requests' \in [Slots -> Request]
      /\ \A q \in Slots \ {r} : requests'[q] = requests[q]
      /\ requests'[r] = Idle \/ requests'[r] = [requests[r] EXCEPT !.at = "hung"]
  BY ReplyTyped DEF InFlight
<1>2. requests[r] \in Request
  BY DEF InFlight, TypeOK
<1>3. /\ requests'[r].kind # "idle" => requests'[r].node \in Nodes
      /\ requests'[r].at # "queued"
      /\ requests'[r].kind # "idle" => requests'[r].at # "connect"
  BY <1>1, <1>2 DEF InFlight, WaitingForLocks, Idle, Request
<1> QED BY <1>1, <1>3 DEF InFlight, WaitingForLocks

\* A slot is replaced by another request, and no other slot.
LEMMA SetTyped ==
    ASSUME TypeOK, NEW r \in Slots, NEW rec \in Request, Set(r, rec)
    PROVE  /\ requests' \in [Slots -> Request]
           /\ requests'[r] = rec
           /\ \A q \in Slots \ {r} : requests'[q] = requests[q]
  BY DEF Set, TypeOK

\* A request stays one when a field is set, and so does a fence.
LEMMA FieldOfRequest ==
    ASSUME NEW q \in Request, NEW a \in {"connect", "queued", "work", "hung"},
           NEW l \in 0 .. 2, NEW o \in BOOLEAN, NEW e \in Epochs
    PROVE  /\ [q EXCEPT !.at = a] \in Request
           /\ [q EXCEPT !.left = l] \in Request
           /\ [q EXCEPT !.holds = l] \in Request
           /\ [q EXCEPT !.open = o] \in Request
           /\ [q EXCEPT !.epoch = e] \in Request
<1>1. [q EXCEPT !.at = a] \in Request
  BY DEF Request
<1>2. [q EXCEPT !.left = l] \in Request
  BY DEF Request
<1>3. [q EXCEPT !.holds = l] \in Request
  BY DEF Request
<1>4. [q EXCEPT !.open = o] \in Request
  BY DEF Request
<1>5. [q EXCEPT !.epoch = e] \in Request
  BY DEF Request
<1> QED BY <1>1, <1>2, <1>3, <1>4, <1>5

\* The record a grant leaves is a request.
LEMMA GrantedIsRequest ==
    ASSUME NEW q \in Request, NEW a \in {"connect", "queued", "work", "hung"},
           NEW l \in 0 .. 2, NEW h \in 0 .. 2, NEW e \in Epochs
    PROVE  /\ [q EXCEPT !.at = a, !.left = l, !.holds = h] \in Request
           /\ [q EXCEPT !.epoch = e, !.left = l, !.holds = h, !.at = a] \in Request
<1> DEFINE q1 == [q EXCEPT !.at = a]
           q2 == [q1 EXCEPT !.left = l]
           p1 == [q EXCEPT !.epoch = e]
           p2 == [p1 EXCEPT !.left = l]
           p3 == [p2 EXCEPT !.holds = h]
<1> HIDE DEF q1, q2, p1, p2, p3
<1>1. q1 \in Request /\ p1 \in Request
  BY FieldOfRequest DEF q1, p1
<1>2. q2 \in Request /\ p2 \in Request
  BY <1>1, FieldOfRequest DEF q2, p2
<1>3. [q2 EXCEPT !.holds = h] \in Request /\ p3 \in Request
  BY <1>2, FieldOfRequest DEF p3
<1>4. [p3 EXCEPT !.at = a] \in Request
  BY <1>3, FieldOfRequest
<1> QED BY <1>3, <1>4, Zenon DEF q1, q2, p1, p2, p3

\* So is the one a lost client leaves.
LEMMA LostIsRequest ==
    ASSUME NEW q \in Request, NEW o \in BOOLEAN, NEW h \in 0 .. 2
    PROVE  [q EXCEPT !.open = o, !.holds = h] \in Request
<1> DEFINE q1 == [q EXCEPT !.open = o]
<1> HIDE DEF q1
<1>1. q1 \in Request
  <2>1. q.at \in {"connect", "queued", "work", "hung"} /\ q.epoch \in Epochs
    BY DEF Request
  <2> QED BY <2>1, FieldOfRequest DEF q1
<1>2. [q1 EXCEPT !.holds = h] \in Request
  BY <1>1 DEF Request
<1> QED BY <1>2, Zenon DEF q1

\* What arrives is a request, at its process, with one or two locks to take.
LEMMA ArrivedIsRequest ==
    ASSUME NEW kind \in Kinds, NEW n \in Nodes
    PROVE  /\ Arrived(kind, n) \in Request
           /\ Arrived(kind, n).kind = kind /\ Arrived(kind, n).node = n
           /\ Arrived(kind, n).at = "queued"
           /\ Arrived(kind, n).left \in 1 .. 2 /\ Arrived(kind, n).holds = 0
<1> DEFINE l == IF kind = "reload" THEN 2 ELSE 1
<1>1. l \in 1 .. 2
  OBVIOUS
<1>2. Arrived(kind, n) = [kind |-> kind, node |-> n, at |-> "queued", left |-> l,
                          holds |-> 0, open |-> TRUE, epoch |-> 0]
  BY DEF Arrived
<1>3. 0 \in Epochs
  BY BoundaryConstants DEF Epochs
<1> HIDE DEF l
<1> QED BY <1>1, <1>2, <1>3 DEF Request

\* A released fence is a fence.
LEMMA ReleasedIsFence ==
    ASSUME NEW f \in Fence, NEW a \in BOOLEAN, NEW b \in BOOLEAN
    PROVE  [f EXCEPT !.active = a, !.fresh = b] \in Fence
<1> DEFINE f1 == [f EXCEPT !.active = a]
<1> HIDE DEF f1
<1>1. f1 \in Fence
  BY DEF f1, Fence
<1>2. [f1 EXCEPT !.fresh = b] \in Fence
  BY <1>1 DEF Fence
<1> QED BY <1>2, Zenon DEF f1

-----------------------------------------------------------------------------
\* TypeOK is not inductive: a grant counts left down and holds up, and stays in
\* range only because of WaitingForLocks.
LEMMA Typed == HaSpec => []InFlight
<1>1. HaInit => InFlight
  <2> SUFFICES ASSUME HaInit PROVE InFlight
    OBVIOUS
  <2>1. TypeOK
    BY IdleIsRequest, BoundaryConstants DEF HaInit, TypeOK, Fence, Epochs
  <2>2. WaitingForLocks
    BY DEF HaInit, WaitingForLocks, Idle
  <2> QED BY <2>1, <2>2 DEF InFlight
<1>2. InFlight /\ [HaNext]_haVars => InFlight'
  <2> SUFFICES ASSUME InFlight, [HaNext]_haVars PROVE InFlight'
    OBVIOUS
  <2> USE BoundaryConstants
  <2>1. ASSUME NEW r \in Slots, Connect(r) PROVE InFlight'
    BY <2>1 DEF InFlight, TypeOK, WaitingForLocks, Connect, Enqueue, Queued, Request
  <2>2. ASSUME NEW r \in Slots, Grant(r) PROVE InFlight'
    <3> DEFINE q == requests[r]
    <3>0. /\ q \in Request /\ q.at = "queued" /\ q.kind # "idle" /\ q.node \in Nodes
          /\ q.left \in 1 .. 2 /\ q.holds \in 0 .. 2 /\ q.left + q.holds <= 2
      BY <2>2 DEF InFlight, TypeOK, WaitingForLocks, Grant, Queued, Request
    <3>1. ahead' \in [Slots -> SUBSET Slots]
      BY <2>2 DEF InFlight, TypeOK, Grant, Dequeue
    <3>2. SUFFICES /\ requests' \in [Slots -> Request]
                   /\ \A p \in Slots \ {r} : requests'[p] = requests[p]
                   /\ requests'[r].at # "queued"
                   /\ requests'[r].kind # "idle" => requests'[r].node \in Nodes
                   /\ requests'[r].kind # "idle" /\ requests'[r].at = "connect" =>
                          requests'[r].left + requests'[r].holds <= 2 /\ requests'[r].left > 0
      BY <2>2, <3>1 DEF InFlight, TypeOK, WaitingForLocks, Grant
    <3>3. CASE Exclusive(r) /\ Set(r, [q EXCEPT !.at = "work", !.left = 0, !.holds = 1])
      <4>1. [q EXCEPT !.at = "work", !.left = 0, !.holds = 1] \in Request
        <5> DEFINE a == "work"
        <5>1. a \in {"connect", "queued", "work", "hung"} /\ 0 \in 0 .. 2 /\ 1 \in 0 .. 2
          OBVIOUS
        <5>2. lease[q.node] \in Epochs
          BY <3>0 DEF InFlight, TypeOK
        <5> HIDE DEF a, q
        <5>3. [q EXCEPT !.at = a, !.left = 0, !.holds = 1] \in Request
          BY <3>0, <5>1, <5>2, GrantedIsRequest
        <5> QED BY <5>3 DEF a
      <4> QED BY <3>0, <3>3, <4>1, SetTyped DEF InFlight, Request
    <3>4. CASE /\ ~Exclusive(r) /\ Writable(q.node)
               /\ Set(r, [q EXCEPT !.epoch = lease[q.node], !.left = @ - 1, !.holds = @ + 1,
                                   !.at = IF q.left = 1 THEN "work" ELSE "connect"])
      <4> DEFINE rec == [q EXCEPT !.epoch = lease[q.node], !.left = @ - 1, !.holds = @ + 1,
                                  !.at = IF q.left = 1 THEN "work" ELSE "connect"]
      <4>1. lease[q.node] \in Epochs
        BY <3>0 DEF InFlight, TypeOK
      <4>2. /\ rec \in Request /\ rec.at # "queued" /\ rec.node = q.node
            /\ rec.at = "connect" => rec.left + rec.holds <= 2 /\ rec.left > 0
        <5> DEFINE a == IF q.left = 1 THEN "work" ELSE "connect"
                   l == q.left - 1
                   h == q.holds + 1
                   e == lease[q.node]
        <5>1. a \in {"connect", "queued", "work", "hung"} /\ l \in 0 .. 2 /\ h \in 0 .. 2
          BY <3>0
        <5>2. [q EXCEPT !.epoch = e, !.left = l, !.holds = h, !.at = a] \in Request
          <6> HIDE DEF a, l, h, e, q
          <6> QED BY <3>0, <4>1, <5>1, GrantedIsRequest DEF e
        <5>3. rec = [q EXCEPT !.epoch = e, !.left = l, !.holds = h, !.at = a]
          OBVIOUS
        <5>4. rec.at = a /\ rec.node = q.node /\ rec.left = l /\ rec.holds = h
          BY <3>0 DEF Request
        <5> QED BY <3>0, <5>2, <5>3, <5>4
      <4> HIDE DEF rec
      <4>3. Set(r, rec)
        BY <3>4 DEF rec
      <4> QED BY <3>0, <4>2, <4>3, SetTyped DEF InFlight
    <3>5. CASE ~Exclusive(r) /\ ~Writable(q.node) /\ Refuse(r)
      <4>1. /\ requests' \in [Slots -> Request]
            /\ \A p \in Slots \ {r} : requests'[p] = requests[p]
            /\ requests'[r] = Idle \/ requests'[r] = [requests[r] EXCEPT !.at = "hung"]
        BY <3>5, ReplyTyped, SetTyped, IdleIsRequest DEF InFlight, Refuse
      <4> QED BY <3>0, <4>1 DEF Idle, Request
    <3> QED BY <2>2, <3>3, <3>4, <3>5 DEF Grant
  <2>3. ASSUME NEW r \in Slots, Work(r) PROVE InFlight'
    <3>1. Reply(r) /\ requests[r].kind # "idle" /\ UNCHANGED <<fence, lease, ahead, hungUp, mishaps>>
      BY <2>3 DEF Work
    <3> QED BY <3>1, AfterReply DEF InFlight, TypeOK
  <2>4. ASSUME NEW r \in Slots, ApplyCommand(r) PROVE InFlight'
    <3>1. fence' \in Fence /\ lease' \in [Nodes -> Epochs]
      <4>0. requests[r].node \in Nodes
        BY <2>4 DEF InFlight, WaitingForLocks, ApplyCommand
      <4>1. CASE Claim(requests[r].node)
        BY <4>0, <4>1 DEF Claim, InFlight, TypeOK, Fence
      <4>2. CASE Demote(requests[r].node)
        <5>1. fence' = [fence EXCEPT !.active = FALSE, !.fresh = FALSE] /\ fence \in Fence
          BY <4>2 DEF Demote, InFlight, TypeOK
        <5>2. fence' \in Fence
          <6> DEFINE no == FALSE
          <6>1. no \in BOOLEAN
            OBVIOUS
          <6> HIDE DEF no
          <6>2. [fence EXCEPT !.active = no, !.fresh = no] \in Fence
            BY <5>1, <6>1, ReleasedIsFence
          <6> QED BY <5>1, <6>2 DEF no
        <5>3. lease' \in [Nodes -> Epochs]
          BY <4>0, <4>2 DEF Demote, InFlight, TypeOK, Epochs
        <5> QED BY <5>2, <5>3
      <4>3. CASE Rejected
        BY <4>3 DEF Rejected, InFlight, TypeOK
      <4> QED BY <2>4, <4>1, <4>2, <4>3 DEF ApplyCommand
    <3>2. Reply(r) /\ requests[r].kind # "idle" /\ UNCHANGED <<ahead, hungUp, mishaps>>
      BY <2>4 DEF ApplyCommand
    <3> QED BY <3>1, <3>2, AfterReply DEF InFlight, TypeOK
  <2>5. ASSUME NEW r \in Slots, HangUp(r) PROVE InFlight'
    <3> DEFINE q   == requests[r]
               rec == [q EXCEPT !.open = FALSE, !.holds = 0]
    <3>0. q \in Request /\ q.kind # "idle" /\ Set(r, rec)
      BY <2>5 DEF InFlight, TypeOK, HangUp
    <3>1. rec \in Request
      <4> DEFINE no == FALSE
      <4>1. no \in BOOLEAN /\ 0 \in 0 .. 2
        OBVIOUS
      <4> HIDE DEF no, q
      <4>2. [q EXCEPT !.open = no, !.holds = 0] \in Request
        BY <3>0, <4>1, LostIsRequest
      <4> QED BY <4>2 DEF no
    <3>2. rec.kind = q.kind /\ rec.node = q.node /\ rec.at = q.at /\ rec.left = q.left /\ rec.holds = 0
      BY <3>0 DEF Request
    <3> HIDE DEF rec
    <3>3. /\ requests' \in [Slots -> Request]
          /\ requests'[r] = rec
          /\ \A p \in Slots \ {r} : requests'[p] = requests[p]
      BY <3>0, <3>1, SetTyped DEF InFlight
    <3>4. WaitingForLocks'
      <4>1. q.left \in 0 .. 2 /\ q.holds \in 0 .. 2
        BY <3>0 DEF Request
      <4> QED BY <3>2, <3>3, <4>1 DEF InFlight, WaitingForLocks
    <3>5. hungUp' \subseteq Kinds /\ mishaps' \in 0 .. MaxMishaps
      BY <2>5, <3>0 DEF HangUp, Mishap, InFlight, TypeOK, Request
    <3> QED BY <2>5, <3>3, <3>4, <3>5 DEF HangUp, InFlight, TypeOK
  <2>6. ASSUME NEW n \in Nodes, Crash(n) PROVE InFlight'
    <3>1. requests' = [r \in Slots |-> IF requests[r].node = n THEN Idle ELSE requests[r]]
      BY <2>6 DEF Crash
    <3>2. requests' \in [Slots -> Request]
      BY <3>1, IdleIsRequest DEF InFlight, TypeOK
    <3>3. WaitingForLocks'
      <4> SUFFICES ASSUME NEW r \in Slots
                   PROVE  /\ requests'[r].kind # "idle" => requests'[r].node \in Nodes
                          /\ requests'[r].at = "queued" => requests'[r].kind # "idle"
                          /\ requests'[r].kind # "idle" /\ requests'[r].at \in {"queued", "connect"} =>
                                 requests'[r].left + requests'[r].holds <= 2 /\ requests'[r].left > 0
        BY DEF WaitingForLocks
      <4>1. requests'[r] = Idle \/ requests'[r] = requests[r]
        BY <3>1
      <4>2. Idle.kind = "idle" /\ Idle.at = "connect"
        BY DEF Idle
      <4> QED BY <4>1, <4>2 DEF InFlight, WaitingForLocks
    <3>4. ahead' \in [Slots -> SUBSET Slots]
      BY <2>6 DEF Crash, Dequeue, InFlight, TypeOK
    <3>5. lease' \in [Nodes -> Epochs] /\ mishaps' \in 0 .. MaxMishaps
      BY <2>6 DEF Crash, Mishap, InFlight, TypeOK, Epochs
    <3> QED BY <2>6, <3>2, <3>3, <3>4, <3>5 DEF Crash, InFlight, TypeOK
  <2>7. ASSUME NEW n \in Nodes, NEW kind \in Kinds, Arrive(kind, n) PROVE InFlight'
    <3> DEFINE rec == Arrived(kind, n)
    <3>1. PICK r \in Slots : Set(r, rec) /\ Enqueue(r) /\ UNCHANGED <<fence, lease, hungUp, mishaps>>
      BY <2>7 DEF Arrive, Arrived
    <3>2. /\ rec \in Request /\ rec.kind = kind /\ rec.node = n /\ rec.at = "queued"
          /\ rec.left \in 1 .. 2 /\ rec.holds = 0
      BY ArrivedIsRequest
    <3> HIDE DEF rec
    <3>3. /\ requests' \in [Slots -> Request]
          /\ requests'[r] = rec
          /\ \A p \in Slots \ {r} : requests'[p] = requests[p]
      BY <3>1, <3>2, SetTyped DEF InFlight
    <3>4. WaitingForLocks'
      <4>1. kind # "idle"
        BY DEF Kinds
      <4>2. rec.left + rec.holds <= 2 /\ rec.left > 0
        BY <3>2
      <4> QED BY <3>2, <3>3, <4>1, <4>2 DEF InFlight, WaitingForLocks
    <3>5. ahead' \in [Slots -> SUBSET Slots]
      BY <3>1 DEF Enqueue, Queued, InFlight, TypeOK
    <3> QED BY <3>1, <3>3, <3>4, <3>5 DEF InFlight, TypeOK
  <2>8. CASE LeaseAges
    BY <2>8 DEF InFlight, TypeOK, WaitingForLocks, LeaseAges, Fence
  <2>9. CASE UNCHANGED haVars
    BY <2>9 DEF InFlight, TypeOK, WaitingForLocks, haVars
  <2> QED BY <2>1, <2>2, <2>3, <2>4, <2>5, <2>6, <2>7, <2>8, <2>9 DEF HaNext, Step
<1> QED BY <1>1, <1>2, PTL DEF HaSpec

\* Every step of the boundary keeps the types (requests of server.js, the fence
\* and the lease of ha-controller.js).
THEOREM TypeCorrect == HaSpec => []TypeOK
  BY Typed, PTL DEF InFlight

-----------------------------------------------------------------------------
\* A step that changes one slot and gives it no lock leaves commands alone.
LEMMA CommandsStayAlone ==
    ASSUME CommandsAlone, NEW r \in Slots,
           requests[r] \in Request, requests'[r] \in Request,
           \A q \in Slots \ {r} : requests'[q] = requests[q],
           \/ requests'[r].holds = 0
           \/ requests'[r].holds = requests[r].holds /\ requests'[r].kind = requests[r].kind,
           requests'[r].kind = "command" /\ requests'[r].at = "work" =>
              "command" \in hungUp' \/ requests'[r].holds > 0,
           hungUp \subseteq hungUp'
    PROVE  CommandsAlone'
<1> SUFFICES ASSUME NEW p \in Slots, requests'[p].kind = "command"
             PROVE  /\ requests'[p].holds > 0 => \A q \in Slots \ {p} : requests'[q].holds = 0
                    /\ "command" \notin hungUp' /\ requests'[p].at = "work" => requests'[p].holds > 0
  BY DEF CommandsAlone
<1>1. CASE p = r
  BY <1>1 DEF CommandsAlone, Request
<1>2. CASE p # r
  BY <1>2 DEF CommandsAlone, Request
<1> QED BY <1>1, <1>2

\* If it leaves the fence alone too, its holders stay under it.
LEMMA HoldersStayUnderFence ==
    ASSUME SharedUnderFence, NEW r \in Slots,
           requests'[r] \in Request,
           \A q \in Slots \ {r} : requests'[q] = requests[q],
           \/ requests'[r].holds = 0
           \/ /\ requests'[r].holds = requests[r].holds /\ requests'[r].kind = requests[r].kind
              /\ requests'[r].node = requests[r].node /\ requests'[r].epoch = requests[r].epoch,
           hungUp \subseteq hungUp', UNCHANGED fence
    PROVE  SharedUnderFence'
<1> SUFFICES ASSUME "command" \notin hungUp', NEW p \in Slots,
                    requests'[p].kind \in {"governed", "reload"}, requests'[p].holds > 0
             PROVE  /\ fence'.epoch = requests'[p].epoch
                    /\ fence'.node = requests'[p].node
                    /\ fence'.active
  BY DEF SharedUnderFence
<1>1. "command" \notin hungUp
  OBVIOUS
<1>2. /\ requests[p].kind \in {"governed", "reload"} /\ requests[p].holds > 0
      /\ requests'[p].epoch = requests[p].epoch /\ requests'[p].node = requests[p].node
  BY DEF Request
<1> QED BY <1>1, <1>2 DEF SharedUnderFence

\* The answer to a request frees its slot, or leaves it behind as it was.
LEMMA Answered ==
    ASSUME InFlight, NEW r \in Slots, Reply(r)
    PROVE  /\ requests[r] \in Request /\ requests'[r] \in Request
           /\ \A q \in Slots \ {r} : requests'[q] = requests[q]
           /\ requests'[r].at # "work"
           /\ \/ requests'[r].holds = 0 /\ requests'[r].kind = "idle"
              \/ /\ requests'[r].holds = requests[r].holds /\ requests'[r].kind = requests[r].kind
                 /\ requests'[r].node = requests[r].node /\ requests'[r].epoch = requests[r].epoch
<1>1. /\ \A q \in Slots \ {r} : requests'[q] = requests[q]
      /\ requests'[r] = Idle \/ requests'[r] = [requests[r] EXCEPT !.at = "hung"]
      /\ requests[r] \in Request /\ requests'[r] \in Request
  BY ReplyTyped DEF InFlight, TypeOK
<1> QED BY <1>1 DEF Idle, Request

\* A step of a handler that answers keeps the commands alone, and the holders
\* under the fence unless it moves it.
LEMMA AnsweredKeepsFence ==
    ASSUME InFlight, FenceInv, NEW r \in Slots, Reply(r), UNCHANGED hungUp
    PROVE  CommandsAlone' /\ (UNCHANGED fence => SharedUnderFence')
<1>1. CommandsAlone'
  BY Answered, CommandsStayAlone DEF FenceInv
<1>2. ASSUME UNCHANGED fence PROVE SharedUnderFence'
  BY <1>2, Answered, HoldersStayUnderFence DEF FenceInv
<1> QED BY <1>1, <1>2

\* While an admitted request works under its lock, the fence is the one it was
\* admitted under: haLockMiddleware excludes /ha/command for any number of
\* processes, requests and connections, as long as no command's client hangs up.
THEOREM Fenced == HaSpec => []FencedWhileHeld
<1>1. HaInit => FenceInv
  BY DEF HaInit, FenceInv, CommandsAlone, SharedUnderFence, Idle
<1>2. InFlight /\ InFlight' /\ FenceInv /\ [HaNext]_haVars => FenceInv'
  <2> SUFFICES ASSUME InFlight, InFlight', FenceInv, [HaNext]_haVars PROVE FenceInv'
    OBVIOUS
  <2>0. \A r \in Slots : requests[r] \in Request /\ requests'[r] \in Request
    BY DEF InFlight, TypeOK
  <2>1. ASSUME NEW r \in Slots, Connect(r) PROVE FenceInv'
    <3>1. /\ requests' = [requests EXCEPT ![r].at = "queued"] /\ UNCHANGED <<fence, hungUp>>
          /\ requests \in [Slots -> Request]
      BY <2>1 DEF Connect, InFlight, TypeOK
    <3>2. /\ \A q \in Slots \ {r} : requests'[q] = requests[q]
          /\ requests'[r].holds = requests[r].holds /\ requests'[r].kind = requests[r].kind
          /\ requests'[r].node = requests[r].node /\ requests'[r].epoch = requests[r].epoch
          /\ requests'[r].at # "work"
      BY <3>1 DEF Request
    <3>3. CommandsAlone'
      BY <2>0, <3>1, <3>2, CommandsStayAlone DEF FenceInv
    <3>4. SharedUnderFence'
      BY <2>0, <3>1, <3>2, HoldersStayUnderFence DEF FenceInv
    <3> QED BY <3>3, <3>4 DEF FenceInv
  <2>2. ASSUME NEW r \in Slots, Grant(r) PROVE FenceInv'
    <3> DEFINE q == requests[r]
    <3>0. /\ q \in Request /\ UNCHANGED <<fence, hungUp>> /\ requests \in [Slots -> Request]
          /\ \A h \in Slots : requests[h].holds > 0 => ~Exclusive(r) /\ ~Exclusive(h)
      BY <2>2 DEF Grant, Grantable, Compatible, Holders, InFlight, TypeOK
    <3>1. CASE Exclusive(r) /\ Set(r, [q EXCEPT !.at = "work", !.left = 0, !.holds = 1])
      <4>1. /\ requests'[r].holds = 1 /\ requests'[r].kind = "command"
            /\ \A p \in Slots \ {r} : requests'[p] = requests[p] /\ requests[p].holds = 0
        BY <3>0, <3>1 DEF Set, Exclusive, Request
      <4>2. CommandsAlone'
        BY <3>0, <4>1 DEF FenceInv, CommandsAlone
      <4>3. SharedUnderFence'
        BY <4>1 DEF SharedUnderFence
      <4> QED BY <4>2, <4>3 DEF FenceInv
    <3>2. CASE /\ ~Exclusive(r) /\ Writable(q.node)
               /\ Set(r, [q EXCEPT !.epoch = lease[q.node], !.left = @ - 1, !.holds = @ + 1,
                                   !.at = IF q.left = 1 THEN "work" ELSE "connect"])
      <4>1. /\ requests'[r].kind = q.kind /\ requests'[r].node = q.node
            /\ requests'[r].epoch = lease[q.node]
            /\ \A p \in Slots \ {r} : requests'[p] = requests[p]
        BY <3>0, <3>2 DEF Set, Request
      <4>2. fence.epoch = lease[q.node] /\ fence.node = q.node /\ fence.active
        BY <3>2 DEF Writable
      <4>3. q.kind # "command" /\ \A h \in Slots : requests[h].kind = "command" => requests[h].holds = 0
        BY <2>0, <3>0, <3>2 DEF Exclusive, Request
      <4>4. CommandsAlone'
        BY <3>0, <4>1, <4>3 DEF FenceInv, CommandsAlone
      <4>5. SharedUnderFence'
        BY <3>0, <4>1, <4>2 DEF FenceInv, SharedUnderFence
      <4> QED BY <4>4, <4>5 DEF FenceInv
    <3>3. CASE ~Exclusive(r) /\ ~Writable(q.node) /\ Refuse(r)
      <4>1. CASE Reply(r)
        BY <3>0, <4>1, AnsweredKeepsFence DEF FenceInv
      <4>2. CASE Set(r, Idle)
        <5>1. /\ \A p \in Slots \ {r} : requests'[p] = requests[p]
              /\ requests'[r].holds = 0 /\ requests'[r].kind = "idle"
          BY <3>0, <4>2 DEF Set, Idle
        <5>2. CommandsAlone'
          BY <2>0, <3>0, <5>1, CommandsStayAlone DEF FenceInv
        <5>3. SharedUnderFence'
          BY <2>0, <3>0, <5>1, HoldersStayUnderFence DEF FenceInv
        <5> QED BY <5>2, <5>3 DEF FenceInv
      <4> QED BY <3>3, <4>1, <4>2 DEF Refuse
    <3> QED BY <2>2, <3>1, <3>2, <3>3 DEF Grant
  <2>3. ASSUME NEW r \in Slots, Work(r) PROVE FenceInv'
    BY <2>3, AnsweredKeepsFence DEF Work, FenceInv
  <2>4. ASSUME NEW r \in Slots, ApplyCommand(r) PROVE FenceInv'
    <3>1. /\ requests[r].kind = "command" /\ requests[r].at = "work"
          /\ Reply(r) /\ UNCHANGED hungUp
      BY <2>4 DEF ApplyCommand
    <3>2. CommandsAlone'
      BY <3>1, AnsweredKeepsFence
    <3>3. ASSUME "command" \notin hungUp'
          PROVE  \A p \in Slots : requests'[p].kind \in {"governed", "reload"} => ~(requests'[p].holds > 0)
      <4>1. \A p \in Slots \ {r} : requests[p].holds = 0
        BY <3>1, <3>3 DEF FenceInv, CommandsAlone
      <4>2. /\ \A p \in Slots \ {r} : requests'[p] = requests[p]
            /\ requests'[r].kind \in {"idle", "command"}
        BY <3>1, Answered
      <4> QED BY <4>1, <4>2
    <3>4. SharedUnderFence'
      BY <3>3 DEF SharedUnderFence
    <3> QED BY <3>2, <3>4 DEF FenceInv
  <2>5. ASSUME NEW r \in Slots, HangUp(r) PROVE FenceInv'
    <3>1. /\ requests' = [requests EXCEPT ![r] = [requests[r] EXCEPT !.open = FALSE, !.holds = 0]]
          /\ hungUp' = hungUp \cup {requests[r].kind} /\ UNCHANGED fence
          /\ requests \in [Slots -> Request]
      BY <2>5 DEF HangUp, Set, InFlight, TypeOK
    <3>2. /\ \A q \in Slots \ {r} : requests'[q] = requests[q]
          /\ requests'[r].holds = 0 /\ requests'[r].kind = requests[r].kind
      BY <3>1 DEF Request
    <3>3. CommandsAlone'
      BY <2>0, <3>1, <3>2, CommandsStayAlone DEF FenceInv
    <3>4. SharedUnderFence'
      BY <2>0, <3>1, <3>2, HoldersStayUnderFence DEF FenceInv
    <3> QED BY <3>3, <3>4 DEF FenceInv
  <2>6. ASSUME NEW n \in Nodes, Crash(n) PROVE FenceInv'
    <3>1. /\ requests' = [r \in Slots |-> IF requests[r].node = n THEN Idle ELSE requests[r]]
          /\ UNCHANGED <<fence, hungUp>>
      BY <2>6 DEF Crash
    <3>2. \A r \in Slots : \/ requests'[r] = requests[r]
                           \/ requests'[r].kind = "idle" /\ requests'[r].holds = 0
      BY <3>1 DEF Idle
    <3>3. CommandsAlone'
      BY <3>1, <3>2 DEF FenceInv, CommandsAlone
    <3>4. SharedUnderFence'
      BY <3>1, <3>2 DEF FenceInv, SharedUnderFence
    <3> QED BY <3>3, <3>4 DEF FenceInv
  <2>7. ASSUME NEW n \in Nodes, NEW kind \in Kinds, Arrive(kind, n) PROVE FenceInv'
    <3>1. PICK r \in Slots : Set(r, Arrived(kind, n)) /\ UNCHANGED <<fence, hungUp>>
      BY <2>7 DEF Arrive
    <3>2. /\ \A q \in Slots \ {r} : requests'[q] = requests[q]
          /\ requests'[r].holds = 0 /\ requests'[r].at = "queued"
      BY <3>1, ArrivedIsRequest, SetTyped DEF InFlight
    <3>3. CommandsAlone'
      BY <2>0, <3>1, <3>2, CommandsStayAlone DEF FenceInv
    <3>4. SharedUnderFence'
      BY <2>0, <3>1, <3>2, HoldersStayUnderFence DEF FenceInv
    <3> QED BY <3>3, <3>4 DEF FenceInv
  <2>8. CASE LeaseAges
    <3>1. /\ fence'.epoch = fence.epoch /\ fence'.node = fence.node /\ fence'.active = fence.active
          /\ UNCHANGED <<requests, hungUp>>
      BY <2>8 DEF LeaseAges, InFlight, TypeOK, Fence
    <3> QED BY <3>1 DEF FenceInv, CommandsAlone, SharedUnderFence
  <2>9. CASE UNCHANGED haVars
    BY <2>9 DEF FenceInv, CommandsAlone, SharedUnderFence, haVars
  <2> QED BY <2>1, <2>2, <2>3, <2>4, <2>5, <2>6, <2>7, <2>8, <2>9 DEF HaNext, Step
<1>3. FenceInv => FencedWhileHeld
  BY DEF FenceInv, SharedUnderFence, FencedWhileHeld, Working
<1> QED BY <1>1, <1>2, <1>3, Typed, PTL DEF HaSpec
=============================================================================
