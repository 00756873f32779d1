------------------------------ MODULE AgentMesh ------------------------------
(***************************************************************************)
(* Agents that find and trust each other through window properties:        *)
(* signed birth tags (registry.py, birth_tag_v2.py), the challenge-        *)
(* response discovery cycle (handshake.py over transport.py), the level-2  *)
(* check of the identity gate (identity_gate.py) that uses the keys the    *)
(* handshake returned, and key recovery (key_recovery.py).                 *)
(*                                                                         *)
(* A window belongs to one agent process and its handle is reused after it *)
(* is destroyed; properties vanish with the window.  A property is read    *)
(* and written by itself, so a reader sees tags half refreshed.  Messages  *)
(* go through SendMessage: the receiver's handler, and the answer it sends *)
(* in turn, run before the send returns, and a hung window blocks it.      *)
(* A key is the agent and the generation of its identity.                  *)
(***************************************************************************)
EXTENDS Naturals

CONSTANTS Agents, Windows, None,
          Listening,   \* whether the cycle's response listener has a window
          Recovering,  \* the agents whose key store may be corrupted
          MaxAge,      \* max_age_seconds of a signed tag
          BackoffTime, \* SC_HANDSHAKE_BACKOFF_SEC
          RecoveryWindow, \* RECOVERY_WINDOW_SEC
          BypassTtl,   \* _BYPASS_TOKEN_TTL_SEC
          MaxTime, MaxKeys, MaxReuse

ASSUME MeshAssumption ==
    /\ Listening \in BOOLEAN /\ None \notin Agents /\ Recovering \subseteq Agents
    /\ {MaxAge, BackoffTime, RecoveryWindow, BypassTtl, MaxTime, MaxKeys, MaxReuse} \subseteq Nat

VARIABLES clock, reused,
          owner,      \* hwnd -> the process that owns the window and its key
          hung,       \* windows whose thread does not process messages
          tag,        \* hwnd -> birth-tag properties, None without SCID
          key,        \* agent -> generation of its identity key on disk
          collecting, \* as_completed still runs
          init,       \* hwnd -> the HandshakeInitiator of this cycle
          backoff,    \* agent id -> time of its last failure
          peerKey,    \* hwnd -> key from a HandshakePeer or a recovery, and which
          gate,       \* the identity gate's check in progress
          pubFile, tokenFile, \* recovery.pub and recovery.token per agent
          recover,    \* agent -> step of RecoveryManager.recover
          peerCheck,  \* check_peer_recovery in progress
          confirmed   \* keys the server issued a token for (history)

mesh == <<owner, hung, tag, reused>>
shake == <<collecting, init, backoff>>
recovery == <<key, pubFile, tokenFile, recover, confirmed>>
vars == <<clock, mesh, shake, peerKey, gate, recovery, peerCheck>>

NoInit == [pc |-> "none", id |-> None, result |-> None, sig |-> None]
NoGate == [pc |-> "idle", hwnd |-> None, sig |-> None, mode |-> None]
NoCheck == [pc |-> "idle", hwnd |-> None, agent |-> None, key |-> None]
NoRecover == [pc |-> "idle", issuedAt |-> 0]

Init ==
    /\ clock = 0 /\ reused = 0
    /\ owner \in [Windows -> {[key |-> <<a, 0>>, pid |-> 0] : a \in Agents}]
    /\ hung = {} /\ tag = [h \in Windows |-> None]
    /\ key = [a \in Agents |-> 0]
    /\ collecting = FALSE /\ init = [h \in Windows |-> NoInit]
    /\ backoff = [a \in Agents |-> None]
    /\ peerKey = [h \in Windows |-> None] /\ gate = NoGate
    /\ pubFile = [a \in Agents |-> None] /\ tokenFile = [a \in Agents |-> None]
    /\ recover = [a \in Agents |-> NoRecover] /\ peerCheck = NoCheck /\ confirmed = {}

Tick == /\ clock < MaxTime /\ clock' = clock + 1
        /\ UNCHANGED <<mesh, shake, peerKey, gate, recovery, peerCheck>>

------------------------------------------------------------------------------
(* Windows and birth tags. *)

(* The window is destroyed and its handle goes to a window of another      *)
(* process: of an agent, started with the key that is on disk by now, or   *)
(* of a program that is none.                                               *)
Reuse(h) ==
    /\ reused < MaxReuse /\ reused' = reused + 1
    /\ \E o \in {[key |-> <<a, key[a]>>, pid |-> reused'] : a \in Agents} \cup {None} :
         owner' = [owner EXCEPT ![h] = o]
    /\ tag' = [tag EXCEPT ![h] = None] /\ hung' = hung \ {h}
    /\ UNCHANGED <<clock, shake, peerKey, gate, recovery, peerCheck>>

(* A window's thread stops processing messages, which only a sender sees,  *)
(* or resumes.                                                              *)
Hang(h) ==
    /\ h \in hung \/ (owner[h] # None /\ init[h].pc = "send")
    /\ hung' = IF h \in hung THEN hung \ {h} ELSE hung \cup {h}
    /\ UNCHANGED <<clock, owner, tag, reused, shake, peerKey, gate, recovery, peerCheck>>

Stamp(h, t) ==
    /\ tag' = [tag EXCEPT ![h] = t]
    /\ UNCHANGED <<clock, owner, hung, reused, shake, peerKey, gate, recovery, peerCheck>>

(* stamp_birth_tag writes the plain properties, then signs them. *)
stamp_birth_tag(h) ==
    /\ owner[h] # None /\ tag[h] = None
    /\ Stamp(h, [id |-> owner[h].key[1], pid |-> owner[h].pid, sig |-> None, sts |-> None])

(* stamp_signed_birth_tag, after it and on every heartbeat: SCID_SIG first, *)
(* then SCID_STS with the time inside the signature.                        *)
StampSig(h) ==
    /\ owner[h] # None /\ tag[h] # None
    /\ tag[h].sig # None => tag[h].sig.ts < clock
    /\ Stamp(h, [tag[h] EXCEPT !.sig = [key |-> owner[h].key, id |-> tag[h].id,
                                        pid |-> tag[h].pid, ts |-> clock]])

StampSts(h) ==
    /\ owner[h] # None /\ tag[h] # None /\ tag[h].sig # None /\ tag[h].sts # tag[h].sig.ts
    /\ Stamp(h, [tag[h] EXCEPT !.sts = tag[h].sig.ts])

(* verify_signed_birth_tag, once SCID_SIG has been read: the time must be  *)
(* fresh and every property must be the signed one.                        *)
verify_signed_birth_tag(sig, h, k) ==
    /\ sig # None /\ tag[h] # None /\ tag[h].sts # None
    /\ clock - tag[h].sts <= MaxAge
    /\ sig = [key |-> k, id |-> tag[h].id, pid |-> tag[h].pid, ts |-> tag[h].sts]

------------------------------------------------------------------------------
(* The discovery cycle: one initiator per candidate window. *)

is_blocked(a) == backoff[a] # None /\ clock - backoff[a] < BackoffTime
(* The program calls the cycle, the gate and the recovery check in turn. *)
Free == gate.pc = "idle" /\ peerCheck.pc = "idle" /\ \A h \in Windows : init[h].pc = "none"

(* Every stamped window that is still open, whoever owns it by now. *)
discover_mesh == {h \in Windows : tag[h] # None}

(* A cycle takes the windows whose agent is not in backoff; with none of   *)
(* them it returns before any initiator is made.                            *)
Discover ==
    LET candidates == {h \in discover_mesh : ~is_blocked(tag[h].id)}
    IN  /\ Free /\ candidates # {}
        /\ init' = [h \in Windows |-> IF h \in candidates
                      THEN [NoInit EXCEPT !.pc = "submit", !.id = tag[h].id] ELSE NoInit]
        /\ collecting' = TRUE
        /\ UNCHANGED <<clock, mesh, backoff, peerKey, gate, recovery, peerCheck>>

Advance(h, i) ==
    /\ init' = [init EXCEPT ![h] = i]
    /\ UNCHANGED <<clock, mesh, collecting, backoff, peerKey, gate, recovery, peerCheck>>

Failed(h) == [NoInit EXCEPT !.pc = "failed", !.id = init[h].id]

(* The initiator's handler is registered and its run is submitted. *)
Submit(h) == init[h].pc = "submit" /\ Advance(h, [init[h] EXCEPT !.pc = "send"])

(* handle_response: every initiator registered on the shared listener gets *)
(* every response and keeps the first.                                      *)
handle_response(r) ==
    [g \in Windows |->
        IF init[g].pc \in {"send", "wait"} /\ init[g].result = None
        THEN [init[g] EXCEPT !.result = r] ELSE init[g]]

(* The peer handles the challenge inside the send: it signs the nonce and  *)
(* the listener's window with its key and sends both back.                 *)
handle_challenge(h) ==
    /\ init[h].pc = "send" /\ owner[h] # None /\ h \notin hung /\ Listening
    /\ init' = [handle_response([nonce |-> h, key |-> owner[h].key]) EXCEPT ![h].pc = "wait"]
    /\ UNCHANGED <<clock, mesh, collecting, backoff, peerKey, gate, recovery, peerCheck>>

(* The answer of a candidate that the model does not follow, to its own    *)
(* challenge, arrives at the shared listener.                               *)
OtherResponse ==
    /\ Listening /\ \E h \in Windows : init[h].pc \in {"send", "wait"} /\ init[h].result = None
    /\ \E a \in Agents : init' = handle_response([nonce |-> None, key |-> <<a, key[a]>>])
    /\ UNCHANGED <<clock, mesh, collecting, backoff, peerKey, gate, recovery, peerCheck>>

(* The peer drops the challenge: it has no responder, it cannot sign, or   *)
(* the listener has no window and the challenge is malformed.  A window    *)
(* that is gone or no agent's does not take it.                             *)
DropChallenge(h) ==
    /\ init[h].pc = "send" /\ h \notin hung
    /\ Advance(h, IF owner[h] = None THEN Failed(h) ELSE [init[h] EXCEPT !.pc = "wait"])

(* Without a listener window there is nothing else the peer may do, and a  *)
(* responsive agent with one answers.                                       *)
SendChallenge(h) == handle_challenge(h) \/ DropChallenge(h)

(* verify_peer: the response is to this nonce and signed over it. *)
verify_peer(r, h) == r # None /\ r.nonce = h

(* The first response decides; none by the deadline is a failure. *)
AwaitResponse(h) ==
    /\ init[h].pc = "wait"
    /\ Advance(h, IF verify_peer(init[h].result, h) THEN [init[h] EXCEPT !.pc = "tag"]
                  ELSE Failed(h))

(* The birth tag is cross-checked with the response's key: SCID_SIG is     *)
(* read first, the other properties after it.                               *)
ReadPeerSig(h) ==
    /\ init[h].pc = "tag"
    /\ Advance(h, [init[h] EXCEPT !.pc = "crossCheck",
                                  !.sig = IF tag[h] = None THEN None ELSE tag[h].sig])

(* Mutant: the SCID_SIG that was read is taken for the peer's. *)
CrossCheckPresent(h) ==
    /\ init[h].pc = "crossCheck"
    /\ Advance(h, IF init[h].sig # None
                  THEN [init[h] EXCEPT !.sig = None, !.pc = "verified"] ELSE Failed(h))

CrossCheck(h) ==
    /\ init[h].pc = "crossCheck"
    /\ Advance(h, IF verify_signed_birth_tag(init[h].sig, h, init[h].result.key)
                  THEN [init[h] EXCEPT !.sig = None, !.pc = "verified"] ELSE Failed(h))

(* The result is collected: a verified peer's key is kept and its backoff  *)
(* cleared, a failure starts one.  After the overall timeout results are   *)
(* dropped, but the executor still waits for every run.                    *)
Collect(h) ==
    /\ init[h].pc \in {"verified", "failed"}
    /\ init' = [init EXCEPT ![h] = NoInit]
    /\ IF ~collecting THEN UNCHANGED <<backoff, peerKey>>
       ELSE IF init[h].pc = "verified"
       THEN /\ backoff' = [backoff EXCEPT ![init[h].id] = None]
            /\ peerKey' = [peerKey EXCEPT ![h] = [key |-> init[h].result.key, via |-> "handshake"]]
       ELSE /\ backoff' = [backoff EXCEPT ![init[h].id] = clock]
            /\ UNCHANGED peerKey
    /\ UNCHANGED <<clock, mesh, collecting, gate, recovery, peerCheck>>

FuturesTimeout ==
    /\ collecting /\ \E h \in hung : init[h].pc = "send"
    /\ collecting' = FALSE
    /\ UNCHANGED <<clock, mesh, init, backoff, peerKey, gate, recovery, peerCheck>>

------------------------------------------------------------------------------
(* The identity gate. *)

(* The token of write_bypass_registry_token is readable and not expired.   *)
_verify_bypass_registry_token(written) == written # None /\ clock - written <= BypassTtl

_emergency_mutex_active(env) == env.mutex /\ _verify_bypass_registry_token(env.token)

(* The configured mode, unless it is unknown or an unconfirmed bypass; the *)
(* emergency bypass turns enforce into audit.                               *)
get_current_mode(env) ==
    IF env.mode \notin {"bypass", "audit", "enforce"} \/ (env.mode = "bypass" /\ ~env.confirmed)
    THEN "error"
    ELSE IF env.mode = "enforce" /\ _emergency_mutex_active(env) THEN "audit" ELSE env.mode

(* DegradationCascade.verify up to level 2, from what the Ultra gate and   *)
(* the environment say at the call: the level that decides, or "denied".   *)
verify(mode, u) ==
    IF ~u.bootstrapped THEN "level2"
    ELSE IF u.level0 = "ok" THEN "level0"
    ELSE IF u.strict /\ mode = "enforce" THEN "denied"
    ELSE IF u.level0 = "rejected" /\ u.level1 THEN "level1"
    ELSE "level2"

Environments ==
    [mode : {"bypass", "audit", "enforce", "other"}, confirmed : BOOLEAN, mutex : BOOLEAN,
     token : {None} \cup 0..clock, require : BOOLEAN]
UltraStates ==
    [bootstrapped : BOOLEAN, strict : BOOLEAN, level1 : BOOLEAN,
     level0 : {"ok", "rejected", "unreachable"}]

(* gated_send_string gives its cascade no peer keys, so level 2 fails: in  *)
(* enforce mode a send needs level 0 or 1, in audit mode it goes through,  *)
(* and SC_REQUIRE_ULTRA_SERVER accepts level 0 alone.                       *)
SendRefused(env, u) ==
    LET mode == get_current_mode(env)
        level == verify(mode, u)
    IN  \/ mode = "error"
        \/ mode = "bypass" /\ env.require
        \/ mode # "bypass" /\ env.require /\ level # "level0"
        \/ mode = "enforce" /\ level \notin {"level0", "level1"}

gated_send_string(h) ==
    /\ Free
    /\ ~ \A env \in Environments, u \in UltraStates : SendRefused(env, u)
    /\ gate' = [NoGate EXCEPT !.pc = "send", !.hwnd = h]
    /\ UNCHANGED <<clock, mesh, shake, peerKey, recovery, peerCheck>>

(* A caller with keys from its handshakes runs the cascade in a mode of    *)
(* its own.  _level2_enterprise reads the tag and the trusted key, then    *)
(* SCID_SIG.                                                                *)
RunCascade(h) ==
    /\ Free /\ tag[h] # None /\ peerKey[h] # None
    /\ \E mode \in {m \in {"audit", "enforce"} : \E u \in UltraStates : verify(m, u) = "level2"} :
         gate' = [pc |-> "level2", hwnd |-> h, sig |-> tag[h].sig, mode |-> mode]
    /\ UNCHANGED <<clock, mesh, shake, peerKey, recovery, peerCheck>>

(* Mutant: the signature is checked against the key that made it. *)
Level2AnyKey ==
    /\ gate.pc = "level2"
    /\ gate' = IF gate.sig # None
                  /\ verify_signed_birth_tag(gate.sig, gate.hwnd, gate.sig.key)
               THEN [NoGate EXCEPT !.pc = "send", !.hwnd = gate.hwnd] ELSE NoGate
    /\ UNCHANGED <<clock, mesh, shake, peerKey, recovery, peerCheck>>

(* A failure stops enforce mode and passes in audit mode. *)
_level2_enterprise ==
    /\ gate.pc = "level2"
    /\ gate' = IF \/ verify_signed_birth_tag(gate.sig, gate.hwnd, peerKey[gate.hwnd].key)
                  \/ gate.mode = "audit"
               THEN [NoGate EXCEPT !.pc = "send", !.hwnd = gate.hwnd] ELSE NoGate
    /\ UNCHANGED <<clock, mesh, shake, peerKey, recovery, peerCheck>>

(* The original send_string is called. *)
SendString ==
    /\ gate.pc = "send" /\ gate' = NoGate
    /\ UNCHANGED <<clock, mesh, shake, peerKey, recovery, peerCheck>>

------------------------------------------------------------------------------
(* Key recovery. *)

(* RecoveryManager.recover replaces the identity on disk and writes        *)
(* recovery.pub, before it asks the server.                                *)
Regenerate(a) ==
    /\ a \in Recovering /\ recover[a].pc = "idle" /\ key[a] < MaxKeys
    /\ key' = [key EXCEPT ![a] = @ + 1]
    /\ pubFile' = [pubFile EXCEPT ![a] = [key |-> <<a, key'[a]>>, ts |-> clock]]
    /\ recover' = [recover EXCEPT ![a].pc = "confirm"]
    /\ UNCHANGED <<clock, mesh, shake, peerKey, gate, tokenFile, peerCheck, confirmed>>

(* The server confirms, and the token is written later; or no answer comes *)
(* (though the server may have confirmed) and recovery.pub is removed: an  *)
(* older token stays.                                                       *)
_request_server_confirmation(a) ==
    /\ recover[a].pc = "confirm"
    /\ \/ /\ confirmed' = confirmed \cup {<<a, key[a]>>}
          /\ recover' = [recover EXCEPT ![a] = [pc |-> "token", issuedAt |-> clock]]
          /\ UNCHANGED pubFile
       \/ /\ pubFile' = [pubFile EXCEPT ![a] = None]
          /\ recover' = [recover EXCEPT ![a] = NoRecover] /\ UNCHANGED confirmed
    /\ UNCHANGED <<clock, mesh, shake, peerKey, gate, key, tokenFile, peerCheck>>

WriteToken(a) ==
    /\ recover[a].pc = "token"
    /\ tokenFile' = [tokenFile EXCEPT ![a] = [key |-> <<a, key[a]>>, ts |-> recover[a].issuedAt]]
    /\ recover' = [recover EXCEPT ![a] = NoRecover]
    /\ UNCHANGED <<clock, mesh, shake, peerKey, gate, key, pubFile, peerCheck, confirmed>>

(* The recovering process dies, its files stay. *)
RecoveryDies(a) ==
    /\ recover[a].pc # "idle" /\ recover' = [recover EXCEPT ![a] = NoRecover]
    /\ UNCHANGED <<clock, mesh, shake, peerKey, gate, key, pubFile, tokenFile, peerCheck, confirmed>>

(* A peer reads recovery.pub and then recovery.token. *)
check_peer_recovery(h) ==
    /\ Free /\ tag[h] # None
    /\ LET p == pubFile[tag[h].id] IN
       /\ p # None /\ clock - p.ts <= RecoveryWindow
       /\ peerCheck' = [pc |-> "token", hwnd |-> h, agent |-> tag[h].id, key |-> p.key]
    /\ UNCHANGED <<clock, mesh, shake, peerKey, gate, recovery>>

(* Mutant: any fresh token of the agent confirms the key. *)
AnyToken(t, k) == t # None /\ clock - t.ts <= RecoveryWindow

(* _verify_server_token: the token is for this very key, fresh and issued  *)
(* by the server.                                                           *)
_verify_server_token(t, k) == t # None /\ t.key = k /\ clock - t.ts <= RecoveryWindow

update_peer_registry_from_recovery ==
    /\ peerCheck.pc = "token" /\ peerCheck' = NoCheck
    /\ peerKey' = IF _verify_server_token(tokenFile[peerCheck.agent], peerCheck.key)
                  THEN [peerKey EXCEPT ![peerCheck.hwnd] = [key |-> peerCheck.key, via |-> "recovery"]]
                  ELSE peerKey
    /\ UNCHANGED <<clock, mesh, shake, gate, recovery>>

------------------------------------------------------------------------------
Initiate(h) == Submit(h) \/ SendChallenge(h) \/ AwaitResponse(h)
               \/ ReadPeerSig(h) \/ CrossCheck(h) \/ Collect(h)

Next ==
    \/ Tick \/ Discover \/ OtherResponse \/ FuturesTimeout \/ _level2_enterprise \/ SendString
    \/ update_peer_registry_from_recovery
    \/ \E h \in Windows : \/ Reuse(h) \/ Hang(h) \/ stamp_birth_tag(h) \/ StampSig(h)
                          \/ StampSts(h) \/ Initiate(h) \/ gated_send_string(h)
                          \/ RunCascade(h) \/ check_peer_recovery(h)
    \/ \E a \in Agents : \/ Regenerate(a) \/ _request_server_confirmation(a)
                         \/ WriteToken(a) \/ RecoveryDies(a)

Spec == Init /\ [][Next]_vars

------------------------------------------------------------------------------
(* A peer passes the handshake only with the key that answered this very   *)
(* challenge and that the process now behind the handle signs its tag      *)
(* with: a handle that changed hands between the answer and the cross-     *)
(* check, a half-refreshed tag, or another candidate's response that comes *)
(* first, is a rejection.                                                   *)
VerifiedPeerAnswered ==
    [][\A h \in Windows : init[h].pc = "crossCheck" /\ init'[h].pc = "verified" =>
          owner[h] # None /\ owner[h].key = init[h].result.key]_vars

(* In enforce mode level 2 lets text through only while the window's       *)
(* process holds the key that the peer of that handle proved, or           *)
(* recovered, earlier: not when the handle went to another process between *)
(* two property reads.                                                      *)
Level2Authentic ==
    [][gate'.pc = "send" /\ gate.pc = "level2" /\ gate.mode = "enforce" =>
          owner[gate.hwnd] # None /\ owner[gate.hwnd].key = peerKey[gate.hwnd].key]_vars

(* A recovered key is trusted only if the server confirmed that very key,  *)
(* in whatever order the files of repeated and interrupted recoveries are  *)
(* written and read.                                                        *)
RecoveredKeyConfirmed ==
    \A h \in Windows : peerKey[h] # None /\ peerKey[h].via = "recovery"
                        => peerKey[h].key \in confirmed
===============================================================================
