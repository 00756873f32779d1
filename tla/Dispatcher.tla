------------------------------ MODULE Dispatcher ------------------------------
(***************************************************************************)
(* The MCP dispatcher's governed terminal tools (src/enterprise/           *)
(* mcp_dispatch.py), the window verification they rely on (target_guard,   *)
(* logical_targets) and the Win32 transport below them (channel_router).   *)
(*                                                                         *)
(* A worker serves one tool call.  Nothing in the dispatcher holds a lock  *)
(* across a call, so calls of several workers, the target program and the  *)
(* desktop (which closes windows, reuses their handles and changes their   *)
(* titles) interleave between any two steps below.  A payload is a number  *)
(* of window messages; what the target shows is the number of visible      *)
(* occurrences of the payload, which is all the delivery probe counts.     *)
(* Policy and approval (modelled in ControlPlane and ApprovalQueue) are    *)
(* one step here that may refuse.  Times are what is left of a deadline.   *)
(***************************************************************************)
EXTENDS Naturals, FiniteSets

CONSTANTS Workers, Leases, Windows, None,
          Processes,    \* process ids; the ids a handle is given are never reused
          Terminals,    \* the processes whose window is a trusted terminal
          Titles,       \* window titles
          Logical,      \* the title the configured logical target expects
          Messages,     \* window messages per payload (>= 2 makes it partial)
          QueueLimit,   \* payloads a window holds unprocessed before posting fails
          MaxShown,     \* visible occurrences of the payload
          Ttl,          \* lease lifetime
          Timeout,      \* delivery_timeout_ms and timeout_ms
          MaxFaults     \* failing ledger appends, posts and reads

(* What a lease binds: the window's process and title, a role, a lifetime. *)
RuntimeLease ==
    [hwnd : Windows, role : {"sender", "observer"}, left : 0 .. Ttl, revoked : BOOLEAN,
     process : Processes, title : Titles]

ASSUME DispatcherAssumption ==
    /\ Terminals \subseteq Processes /\ Terminals # {} /\ Logical \in Titles
    /\ Messages \in Nat \ {0} /\ QueueLimit \in Nat /\ MaxShown \in Nat
    /\ Ttl \in Nat /\ Timeout \in Nat /\ MaxFaults \in Nat
    /\ None \notin Processes /\ None \notin RuntimeLease

VARIABLES window,    \* hwnd -> the process and title behind it now
          spare,     \* process ids not yet seen behind any window
          shown,     \* hwnd -> visible occurrences of the payload
          queued,    \* hwnd -> whole payloads posted and not yet processed
          stored,    \* MCPDispatcher._leases
          authority, \* _LeaseAuthorityStore.__records (signed snapshots)
          revoked,   \* _LeaseAuthorityStore.__revoked
          call,      \* worker -> the tool call it is executing
          faults

vars == <<window, spare, shown, queued, stored, authority, revoked, call, faults>>
desktop == <<window, spare, shown, queued>>
leasing == <<stored, authority, revoked>>

Ops == {"inject", "read", "revoke"}
Idle == [pc |-> "idle", op |-> "none", lease |-> None, held |-> None,
         posted |-> 0, touched |-> {}, before |-> 0, fresh |-> FALSE,
         left |-> 0, disposition |-> "none", told |-> "none", late |-> FALSE]

Init ==
    /\ LET p == CHOOSE p \in Terminals : TRUE
       IN  /\ window = [h \in Windows |-> [process |-> p, title |-> Logical]]
           /\ spare = Processes \ {p}
    /\ shown = [h \in Windows |-> 0] /\ queued = [h \in Windows |-> 0]
    /\ stored = [l \in Leases |-> None] /\ authority = [l \in Leases |-> None]
    /\ revoked = {}
    /\ call = [w \in Workers |-> Idle]
    /\ faults = 0

------------------------------------------------------------------------------
(* The desktop and the target program. *)

(* A window is closed, or its handle is given to another process's window. *)
Reuse(h) ==
    /\ \E p \in spare \cup {None} :
         /\ p # window[h].process
         /\ window' = [window EXCEPT ![h].process = p]
         /\ spare' = spare \ {p}
    /\ shown' = [shown EXCEPT ![h] = 0] /\ queued' = [queued EXCEPT ![h] = 0]
    /\ UNCHANGED <<leasing, call, faults>>

Retitle(h) ==
    /\ \E t \in Titles \ {window[h].title} : window' = [window EXCEPT ![h].title = t]
    /\ UNCHANGED <<spare, shown, queued, leasing, call, faults>>

(* The program behind the window echoes a payload, swallows it (a prompt   *)
(* without echo, or messages of two calls mixed up), or scrolls.           *)
Echo(h) ==
    /\ queued[h] > 0
    /\ queued' = [queued EXCEPT ![h] = @ - 1]
    /\ shown' = [shown EXCEPT ![h] = IF @ = MaxShown THEN @ ELSE @ + 1]
    /\ call' = [w \in Workers |->
                  IF call[w].op = "inject" /\ call[w].held.hwnd = h
                     /\ call[w].pc \in {"beforeCheck", "post", "after", "confirm"}
                  THEN [call[w] EXCEPT !.fresh = TRUE] ELSE call[w]]
    /\ UNCHANGED <<window, spare, leasing, faults>>

Swallow(h) ==
    /\ queued[h] > 0 /\ queued' = [queued EXCEPT ![h] = @ - 1]
    /\ UNCHANGED <<window, spare, shown, leasing, call, faults>>

Scroll(h) ==
    /\ shown[h] > 0 /\ shown' = [shown EXCEPT ![h] = @ - 1]
    /\ UNCHANGED <<window, spare, queued, leasing, call, faults>>

(* Time passes for every lease and every deadline. *)
Elapse(r) == IF r = None \/ r.left = 0 THEN r ELSE [r EXCEPT !.left = @ - 1]
Tick ==
    /\ stored' = [l \in Leases |-> Elapse(stored[l])]
    /\ authority' = [l \in Leases |-> Elapse(authority[l])]
    /\ call' = [w \in Workers |->
                  [Elapse(call[w]) EXCEPT !.held = Elapse(@)]]
    /\ UNCHANGED <<desktop, revoked, faults>>

------------------------------------------------------------------------------
(* Target verification: the window must exist, be a trusted terminal and,  *)
(* when a lease is expected, still be the process and title it is bound to.*)

verify_target(h) == window[h].process \in Terminals
Matches(h, lease) == window[h].process = lease.process /\ window[h].title = lease.title
_verify_live_target(h, lease) == verify_target(h) /\ Matches(h, lease)

(* ChannelRouter.route before the first message: classify, then the final  *)
(* check of the binding.                                                    *)
_verify_final_target(h, lease) == _verify_live_target(h, lease)

resolve == {h \in Windows : verify_target(h) /\ window[h].title = Logical}

------------------------------------------------------------------------------
(* Leases. *)

_issue_verified_lease(l, h, role) ==
    LET lease == [hwnd |-> h, role |-> role, left |-> Ttl, revoked |-> FALSE,
                  process |-> window[h].process, title |-> window[h].title]
    IN  /\ authority' = [authority EXCEPT ![l] = lease]
        /\ stored' = [stored EXCEPT ![l] = lease]
        /\ UNCHANGED <<desktop, revoked, call, faults>>

_sc_request_lease(l) ==
    /\ authority[l] = None
    /\ \E h \in Windows, role \in {"sender", "observer"} :
         verify_target(h) /\ _issue_verified_lease(l, h, role)

(* A logical target must match exactly one live window. *)
_sc_request_target_lease(l) ==
    /\ authority[l] = None
    /\ Cardinality(resolve) = 1
    /\ \E h \in resolve : _issue_verified_lease(l, h, "sender")

is_active(lease) == ~lease.revoked /\ lease.left > 0

(* Mutant: The authority store only compares what was signed at issuance. *)
AuthorityIssued(l, lease) == authority[l] # None /\ lease.process = authority[l].process

(* _LeaseAuthorityStore.verify: the stored lease equals the signed one and *)
(* is not revoked.                                                          *)
AuthorityVerifies(l, lease) ==
    /\ authority[l] # None
    /\ lease = authority[l]
    /\ l \notin revoked

AllowedRoles(op) == IF op = "inject" THEN {"sender"} ELSE {"sender", "observer"}

------------------------------------------------------------------------------
(* One tool call. *)

Set(w, c) == call' = [call EXCEPT ![w] = c]
Fault == faults < MaxFaults /\ faults' = faults + 1
NoFault == UNCHANGED faults

(* An error without a do-not-retry warning; the audit of the call follows. *)
Refuse(w) == Set(w, [call[w] EXCEPT !.pc = "audit", !.told = "error", !.left = 0])
(* The call goes on to persist the disposition of its delivery, and answers *)
(* its caller only after that: "noretry" warns against an automatic retry.  *)
Dispose(w, d, answer) ==
    Set(w, [call[w] EXCEPT !.pc = "persist", !.disposition = d, !.told = answer,
                           !.before = 0, !.left = 0])

(* _require_lease, up to the lookup in _leases, and _sc_revoke_lease's.    *)
Begin(w, op, l) ==
    /\ call[w].pc = "idle" /\ stored[l] # None
    /\ LET c == [Idle EXCEPT !.op = op, !.lease = l, !.held = stored[l]]
       IN  IF op # "revoke" /\ ~is_active(stored[l])
           THEN Set(w, [c EXCEPT !.pc = "audit", !.told = "error"])
           ELSE Set(w, [c EXCEPT !.pc = "verify"])
    /\ UNCHANGED <<desktop, leasing, faults>>

(* A revocation of the lease has been answered before this verification. *)
RevokeAnswered(l) == stored[l] # None /\ stored[l].revoked

(* The rest of _require_lease: the signed authority and the role.  A       *)
(* denial is logged to the ledger first and is an error either way.        *)
VerifyLease(w) ==
    /\ call[w].pc = "verify"
    /\ LET c == [call[w] EXCEPT !.late = RevokeAnswered(call[w].lease)] IN
       IF ~AuthorityVerifies(c.lease, c.held)
          \/ (c.op # "revoke" /\ c.held.role \notin AllowedRoles(c.op))
       THEN Set(w, [c EXCEPT !.pc = "audit", !.told = "error"])
       ELSE Set(w, [c EXCEPT !.pc = IF c.op = "revoke" THEN "revoke" ELSE "authorize"])
    /\ UNCHANGED <<desktop, leasing, faults>>

(* _sc_revoke_lease: the authority store first, the lease map after it. *)
RevokeAuthority(w) ==
    /\ call[w].pc = "revoke"
    /\ authority' = [authority EXCEPT ![call[w].lease].revoked = TRUE]
    /\ revoked' = revoked \cup {call[w].lease}
    /\ Set(w, [call[w] EXCEPT !.pc = "revokeMap"])
    /\ UNCHANGED <<desktop, stored, faults>>

RevokeStored(w) ==
    /\ call[w].pc = "revokeMap"
    /\ stored' = [stored EXCEPT ![call[w].lease].revoked = TRUE]
    /\ Set(w, [call[w] EXCEPT !.pc = "audit", !.told = "ok"])
    /\ UNCHANGED <<desktop, authority, revoked, faults>>

(* The target is verified, then policy, its ledger record and the approval *)
(* may refuse the call (a read or an injection alike).                     *)
_require_execution_authorization(w) ==
    /\ call[w].pc = "authorize"
    /\ \/ /\ _verify_live_target(call[w].held.hwnd, call[w].held)
          /\ Set(w, [call[w] EXCEPT !.pc = IF call[w].op = "read" THEN "read" ELSE "before",
                                     !.left = IF call[w].op = "read" THEN Timeout ELSE 0])
       \/ Refuse(w)
    /\ UNCHANGED <<desktop, leasing, faults>>

(* _read_output_once verifies, reads and verifies again; the window may    *)
(* change hands between the read and the second verification.              *)
ReadOnce(w, here, next, failed) ==
    /\ call[w].pc = here
    /\ \/ /\ _verify_live_target(call[w].held.hwnd, call[w].held)
          /\ NoFault /\ next
       \/ /\ ~_verify_live_target(call[w].held.hwnd, call[w].held)
          /\ NoFault /\ failed
       \/ Fault /\ failed
    /\ UNCHANGED <<desktop, leasing>>

(* Mutant: The occurrences before the injection are not counted. *)
ReadBeforeSkipped(w) ==
    ReadOnce(w, "before", Set(w, [call[w] EXCEPT !.pc = "beforeCheck"]), Refuse(w))

ReadBefore(w) ==
    ReadOnce(w, "before",
             Set(w, [call[w] EXCEPT !.pc = "beforeCheck",
                                    !.before = shown[call[w].held.hwnd]]),
             Refuse(w))

(* The second verification, the pre-route one, classify and the router's   *)
(* final verification, after which messages are posted.                    *)
Route(w) ==
    /\ call[w].pc = "beforeCheck"
    /\ IF _verify_final_target(call[w].held.hwnd, call[w].held)
       THEN Set(w, [call[w] EXCEPT !.pc = "post"]) ELSE Refuse(w)
    /\ UNCHANGED <<desktop, leasing, faults>>

(* _inject_wm_char posts one message to whatever is behind the handle now. *)
PostMessage(w) ==
    LET h == call[w].held.hwnd
        n == call[w].posted + 1
    IN  /\ call[w].pc = "post"
        /\ window[h].process # None /\ queued[h] < QueueLimit
        /\ queued' = [queued EXCEPT ![h] = IF n = Messages THEN @ + 1 ELSE @]
        /\ Set(w, [call[w] EXCEPT !.posted = n,
                                  !.touched = @ \cup {window[h].process},
                                  !.pc = IF n = Messages THEN "after" ELSE "post"])
        /\ UNCHANGED <<window, spare, shown, leasing, faults>>

(* Mutant: A post that fails part-way is reported as never attempted. *)
PostFailsUntold(w) ==
    /\ call[w].pc = "post" /\ Fault
    /\ Dispose(w, "not_attempted", "error")
    /\ UNCHANGED <<desktop, leasing>>

(* PartialTransportError: the receipt says how far the transport got. *)
PostFails(w) ==
    /\ call[w].pc = "post"
    /\ \/ window[call[w].held.hwnd].process = None /\ NoFault
       \/ queued[call[w].held.hwnd] = QueueLimit /\ NoFault
       \/ Fault
    /\ IF call[w].posted > 0 THEN Dispose(w, "unknown_delivery", "noretry")
                             ELSE Dispose(w, "not_attempted", "error")
    /\ UNCHANGED <<desktop, leasing>>

(* Post-action verification; the confirmation deadline starts after it. *)
VerifyAfter(w) ==
    /\ call[w].pc = "after"
    /\ IF _verify_live_target(call[w].held.hwnd, call[w].held)
       THEN Set(w, [call[w] EXCEPT !.pc = "confirm", !.left = Timeout])
       ELSE Dispose(w, "unknown_delivery", "noretry")
    /\ UNCHANGED <<desktop, leasing, faults>>

(* The probe is read, verified again and compared with the count before.   *)
(* Only the deadline's own error warns against a retry: an error of a read *)
(* or of a verification in this loop is recorded as do_not_retry, and then *)
(* raised again with the text it had.                                      *)
ConfirmRead(w) ==
    ReadOnce(w, "confirm",
             IF shown[call[w].held.hwnd] > call[w].before
             THEN Set(w, [call[w] EXCEPT !.pc = "confirmed",
                                         !.touched = @ \cup {window[call[w].held.hwnd].process}])
             ELSE IF call[w].left = 0 THEN Dispose(w, "enqueued_unconfirmed", "noretry")
             ELSE UNCHANGED call,
             Dispose(w, "enqueued_unconfirmed", "error"))

ConfirmCheck(w) ==
    /\ call[w].pc = "confirmed"
    /\ IF _verify_live_target(call[w].held.hwnd, call[w].held)
       THEN Dispose(w, "delivery_confirmed", "ok")
       ELSE Dispose(w, "enqueued_unconfirmed", "error")
    /\ UNCHANGED <<desktop, leasing, faults>>

(* The ledger record of the delivery; when it cannot be written the error  *)
(* says so, and that the delivery must not be retried.                     *)
_persist_delivery_disposition(w) ==
    /\ call[w].pc = "persist"
    /\ \/ NoFault /\ Set(w, [call[w] EXCEPT !.pc = "audit"])
       \/ Fault /\ Set(w, [call[w] EXCEPT !.pc = "audit", !.told = "noretry",
                                           !.disposition = "unrecorded"])
    /\ UNCHANGED <<desktop, leasing>>

(* _sc_read_output: poll until the text changes or the time is up, then    *)
(* verify once more before the text is returned.                           *)
ReadPoll(w) ==
    ReadOnce(w, "read",
             \/ Set(w, [call[w] EXCEPT !.pc = "readCheck",
                                       !.touched = {window[call[w].held.hwnd].process}])
             \/ call[w].left > 0 /\ UNCHANGED call,
             Refuse(w))

ReadCheck(w) ==
    /\ call[w].pc = "readCheck"
    /\ IF _verify_live_target(call[w].held.hwnd, call[w].held)
       THEN Set(w, [call[w] EXCEPT !.pc = "audit", !.told = "ok", !.left = 0]) ELSE Refuse(w)
    /\ UNCHANGED <<desktop, leasing, faults>>

(* __execute_tool: the success record is written inside the same try block *)
(* as the tool, so its failure is answered as an error of the call; a      *)
(* failing error record escapes to the caller.                             *)
_record_audit(w) ==
    /\ call[w].pc = "audit"
    /\ \/ NoFault /\ Set(w, [call[w] EXCEPT !.pc = "done"])
       \/ /\ Fault
          /\ IF call[w].told = "ok"
             THEN Set(w, [call[w] EXCEPT !.told = "error"])
             ELSE Set(w, [call[w] EXCEPT !.told = "raised", !.pc = "done"])
    /\ UNCHANGED <<desktop, leasing>>

Return(w) ==
    /\ call[w].pc = "done" /\ Set(w, Idle)
    /\ UNCHANGED <<desktop, leasing, faults>>

_sc_inject_text(w) ==
    \/ ReadBefore(w) \/ Route(w) \/ PostMessage(w) \/ PostFails(w) \/ VerifyAfter(w)
    \/ ConfirmRead(w) \/ ConfirmCheck(w) \/ _persist_delivery_disposition(w)

_sc_read_output(w) == ReadPoll(w) \/ ReadCheck(w)

Step(w) ==
    \/ VerifyLease(w) \/ RevokeAuthority(w) \/ RevokeStored(w)
    \/ _require_execution_authorization(w)
    \/ _sc_inject_text(w) \/ _sc_read_output(w) \/ _record_audit(w) \/ Return(w)

Next ==
    \/ \E h \in Windows : Reuse(h) \/ Retitle(h) \/ Echo(h) \/ Swallow(h) \/ Scroll(h)
    \/ Tick
    \/ \E l \in Leases : _sc_request_lease(l) \/ _sc_request_target_lease(l)
    \/ \E w \in Workers, op \in Ops, l \in Leases : Begin(w, op, l)
    \/ \E w \in Workers : Step(w)

Spec == Init /\ [][Next]_vars

------------------------------------------------------------------------------
(* A caller that is not warned has sent nothing, or the ledger says what a *)
(* retry would do: behind a plain error of a call that posted, the whole   *)
(* payload went out and its record is enqueued_unconfirmed (do_not_retry;  *)
(* the read-back failed) or delivery_confirmed (the success record of the  *)
(* call failed after it).  Behind an exception of the last audit record a  *)
(* delivery is on record unless that append had failed as well.            *)
RetryHazardOnRecord ==
    \A w \in Workers : call[w].pc = "done" /\ call[w].posted > 0 =>
      /\ call[w].told = "error" =>
           /\ call[w].posted = Messages
           /\ call[w].disposition \in {"enqueued_unconfirmed", "delivery_confirmed"}
      /\ call[w].told = "raised" => call[w].disposition \notin {"none", "not_attempted"}

(* A delivery recorded as confirmed was posted completely to the process   *)
(* the lease is bound to and read back from it, and the payload was echoed *)
(* there after the call counted its earlier occurrences; a read that is    *)
(* answered comes from that process too.  Handle reuse at any point in     *)
(* between is never reported as a success.                                 *)
ConfirmedInBoundTarget ==
    \A w \in Workers :
      LET c == call[w] IN
      /\ c.disposition = "delivery_confirmed" =>
           c.posted = Messages /\ c.touched = {c.held.process} /\ c.fresh
      /\ c.pc = "done" /\ c.op = "read" /\ c.told = "ok" => c.touched = {c.held.process}

(* A call that verifies its lease after a revocation was answered never    *)
(* posts or reads, although it may hold the lease object from before.      *)
NoUseAfterRevoke ==
    \A w \in Workers : call[w].late /\ call[w].op # "revoke" => call[w].touched = {}
===============================================================================
