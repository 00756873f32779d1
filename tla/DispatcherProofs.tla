-------------------------- MODULE DispatcherProofs --------------------------
(***************************************************************************)
(* Theorems about the dispatcher's governed terminal tools (module         *)
(* Dispatcher), for any number of workers, leases, windows and processes,  *)
(* any payload length, any deadlines and any number of faults.             *)
(*                                                                         *)
(* One inductive invariant carries all three: Sound says what a call may   *)
(* have done at each of its positions, related to what is on the desktop   *)
(* now, and Leasing what the two lease maps may hold.  The argument about  *)
(* handle reuse is that a process id never comes back to a handle: the ids *)
(* a lease was ever bound to are no longer in spare, so a verification     *)
(* that finds the bound process behind the handle after the last message   *)
(* was posted shows that every message went to it.                         *)
(*                                                                         *)
(* Sound takes the state it speaks of as parameters, so that it can be     *)
(* stated of a call and of the state before or after a step.               *)
(***************************************************************************)
EXTENDS Dispatcher, TLAPS

Positions ==
  {"idle", "verify", "revoke", "revokeMap", "authorize", "read", "readCheck", "before",
   "beforeCheck", "post", "after", "confirm", "confirmed", "persist", "audit", "done"}

Dispositions ==
  {"none", "not_attempted", "unknown_delivery", "enqueued_unconfirmed", "delivery_confirmed",
   "unrecorded"}

CallRecord ==
  [pc : Positions, op : Ops \cup {"none"}, lease : Leases \cup {None},
   held : RuntimeLease \cup {None}, posted : Nat, touched : SUBSET Processes, before : Nat,
   fresh : BOOLEAN, left : Nat, disposition : Dispositions,
   told : {"none", "error", "ok", "noretry", "raised"}, late : BOOLEAN]

Typed ==
  /\ window \in [Windows -> [process : Processes \cup {None}, title : Titles]]
  /\ spare \subseteq Processes
  /\ shown \in [Windows -> Nat]
  /\ queued \in [Windows -> Nat]
  /\ stored \in [Leases -> RuntimeLease \cup {None}]
  /\ authority \in [Leases -> RuntimeLease \cup {None}]
  /\ revoked \subseteq Leases
  /\ call \in [Workers -> CallRecord]
  /\ faults \in Nat

(* No process behind a window or bound by a lease is spare, a lease in the *)
(* map is known to the authority, and one marked revoked in the map was    *)
(* revoked at the authority first.                                         *)
Leasing ==
  /\ \A h \in Windows : window[h].process \notin spare
  /\ \A l \in Leases : stored[l] # None =>
       /\ authority[l] # None
       /\ stored[l].process \notin spare
       /\ stored[l].revoked => l \in revoked

(* Before anything was sent or read.                                       *)
Early == {"idle", "verify", "revoke", "revokeMap", "authorize", "read", "before", "beforeCheck"}

(* What the lease of a call is, at each position.                          *)
Held(c, out, st, rv) ==
  /\ c.pc # "idle" => c.lease \in Leases /\ c.held # None /\ st[c.lease] # None
  /\ c.held # None => c.held.process \notin out
  /\ c.pc = "revokeMap" => c.lease \in rv
  /\ c.late /\ c.op # "revoke" => c.pc \in {"audit", "done"} /\ c.touched = {}

(* Which operation a position belongs to.                                  *)
Placed(c) ==
  /\ c.pc # "idle" => c.op \in Ops
  /\ c.pc \in {"revoke", "revokeMap"} => c.op = "revoke"
  /\ c.pc \in {"read", "readCheck"} => c.op = "read"
  /\ c.pc = "authorize" => c.op \in {"read", "inject"}
  /\ c.pc \in {"before", "beforeCheck", "post", "after", "confirm", "confirmed", "persist"} =>
       c.op = "inject"

(* What the call has sent and read so far.                                 *)
Sent(c, win, sh) ==
  /\ c.pc \in Early => c.posted = 0 /\ c.touched = {}
  /\ c.pc \in Early \cup {"readCheck", "post", "after", "confirm", "confirmed"} => c.disposition = "none"
  /\ c.pc = "readCheck" => c.posted = 0 /\ c.touched = {c.held.process}
  /\ c.pc \in {"post", "after", "confirm"} =>
       /\ win[c.held.hwnd].process = c.held.process => c.touched \subseteq {c.held.process}
       /\ c.posted > 0 => c.touched # {}
  /\ c.pc \in {"after", "confirm", "confirmed"} => c.posted = Messages
  /\ c.pc \in {"beforeCheck", "post", "after", "confirm"} =>
       (sh[c.held.hwnd] > c.before => c.fresh)
  /\ c.pc = "confirmed" => c.touched = {c.held.process} /\ c.fresh

(* What the ledger is told of the delivery, and what the caller is: an     *)
(* answer is chosen with the disposition ("persist"), and stays in line    *)
(* with it however the appends that follow fail.                           *)
Whole == {"enqueued_unconfirmed", "delivery_confirmed"}
Told(c) ==
  /\ c.disposition = "delivery_confirmed" => c.touched = {c.held.process} /\ c.fresh
  /\ c.disposition \in Whole => c.posted = Messages
  /\ c.disposition = "not_attempted" => c.posted = 0
  /\ c.pc \in {"persist", "audit", "done"} /\ c.posted > 0 =>
       /\ c.disposition \notin {"none", "not_attempted"}
       /\ c.told = "ok" => c.disposition = "delivery_confirmed"
       /\ c.told = "error" => c.disposition \in Whole
  /\ c.pc \in {"audit", "done"} /\ c.op = "read" /\ c.told = "ok" => c.touched = {c.held.process}

Sound(c, win, sh, out, st, rv) ==
  Held(c, out, st, rv) /\ Placed(c) /\ Sent(c, win, sh) /\ Told(c)

Sounds == \A w \in Workers : Sound(call[w], window, shown, spare, stored, revoked)

IInv == Typed /\ Leasing /\ Sounds

-----------------------------------------------------------------------------
(* A call that nothing is done to stays sound.                             *)

(* e is the call c, some time later: the deadlines have moved and the      *)
(* payload may have been echoed.                                           *)
Like(c, e) ==
  /\ e.pc = c.pc /\ e.op = c.op /\ e.lease = c.lease /\ e.posted = c.posted
  /\ e.touched = c.touched /\ e.before = c.before /\ e.disposition = c.disposition
  /\ e.told = c.told /\ e.late = c.late
  /\ c.fresh => e.fresh
  /\ c.held = None <=> e.held = None
  /\ c.held # None => e.held.hwnd = c.held.hwnd /\ e.held.process = c.held.process

LEMMA SoundLike ==
  ASSUME NEW c \in CallRecord, NEW e, Like(c, e),
         NEW win, NEW win2, NEW sh, NEW sh2, NEW out \in SUBSET Processes, NEW out2,
         NEW st, NEW st2, NEW rv, NEW rv2,
         Sound(c, win, sh, out, st, rv),
         out2 \subseteq out, rv \subseteq rv2,
         \A l \in Leases : st[l] # None => st2[l] # None,
         \A h \in Windows : win2[h].process = win[h].process \/ win2[h].process \in out \cup {None},
         c.held # None =>
           (sh2[c.held.hwnd] > c.before => sh[c.held.hwnd] > c.before \/ e.fresh \/
              c.pc \notin {"beforeCheck", "post", "after", "confirm"})
  PROVE  Sound(e, win2, sh2, out2, st2, rv2)
<1>1. c.held # None => /\ c.held.hwnd \in Windows /\ c.held.process \in Processes
                       /\ c.held.process \notin out /\ c.held.process # None
  BY DispatcherAssumption DEF CallRecord, RuntimeLease, Sound, Held
<1>2. Held(e, out2, st2, rv2)
  BY <1>1 DEF Sound, Held, Like
<1>3. Placed(e)
  BY DEF Sound, Placed, Like
<1>4. c.pc # "idle" => c.held # None
  BY DEF Sound, Held
<1>5. c.disposition = "delivery_confirmed" => c.pc # "idle"
  BY DEF Sound, Sent, Early
<1>6. Told(e)
  BY <1>4, <1>5 DEF Sound, Told, Like
<1>7. Sent(e, win2, sh2)
  <2>1. e.pc \in {"post", "after", "confirm"} =>
          /\ win2[e.held.hwnd].process = e.held.process => e.touched \subseteq {e.held.process}
          /\ e.posted > 0 => e.touched # {}
    BY <1>1, <1>4 DEF Sound, Sent, Like
  <2>2. e.pc \in {"beforeCheck", "post", "after", "confirm"} => (sh2[e.held.hwnd] > e.before => e.fresh)
    BY <1>1, <1>4 DEF Sound, Sent, Like
  <2>3. e.pc \in {"readCheck", "confirmed"} => e.touched = {e.held.process}
    BY <1>4 DEF Sound, Sent, Like
  <2> QED BY <2>1, <2>2, <2>3 DEF Sound, Sent, Like
<1> QED BY <1>2, <1>3, <1>6, <1>7 DEF Sound

LEMMA LikeItself == \A c \in CallRecord : Like(c, c)
BY DEF Like

LEMMA ElapseLease ==
  ASSUME NEW r \in RuntimeLease
  PROVE  /\ Elapse(r) \in RuntimeLease
         /\ Elapse(r).hwnd = r.hwnd /\ Elapse(r).process = r.process /\ Elapse(r).revoked = r.revoked
<1>1. CASE r = None \/ r.left = 0
  BY <1>1 DEF Elapse
<1>2. CASE r # None /\ r.left # 0
  <2> DEFINE e == [r EXCEPT !.left = @ - 1]
  <2>1. Elapse(r) = e
    BY <1>2 DEF Elapse
  <2>2. r.left - 1 \in 0 .. Ttl
    BY <1>2, DispatcherAssumption DEF RuntimeLease
  <2>3. e \in RuntimeLease /\ e.hwnd = r.hwnd /\ e.process = r.process /\ e.revoked = r.revoked
    BY <2>2 DEF RuntimeLease
  <2> HIDE DEF e
  <2> QED BY <2>1, <2>3
<1> QED BY <1>1, <1>2

LEMMA ElapseNone == Elapse(None) = None
BY DEF Elapse

LEMMA ElapseCall ==
  ASSUME NEW c \in CallRecord
  PROVE  /\ [Elapse(c) EXCEPT !.held = Elapse(@)] \in CallRecord
         /\ Like(c, [Elapse(c) EXCEPT !.held = Elapse(@)])
<1>1. /\ Elapse(c) \in CallRecord
      /\ Like(c, Elapse(c)) /\ Elapse(c).held = c.held
  <2>1. CASE c = None \/ c.left = 0
    BY <2>1 DEF Elapse, Like
  <2>2. CASE c # None /\ c.left # 0
    <3> DEFINE e == [c EXCEPT !.left = @ - 1]
    <3>1. Elapse(c) = e
      BY <2>2 DEF Elapse
    <3>2. c.left - 1 \in Nat
      BY <2>2 DEF CallRecord
    <3>3. e \in CallRecord
      BY <3>2 DEF CallRecord
    <3>4. Like(c, e) /\ e.held = c.held
      BY DEF CallRecord, Like
    <3> HIDE DEF e
    <3> QED BY <3>1, <3>3, <3>4
  <2> QED BY <2>1, <2>2
<1> DEFINE d == Elapse(c)
           e == [d EXCEPT !.held = Elapse(d.held)]
<1>2. c.held \in RuntimeLease \cup {None}
  BY DEF CallRecord
<1>3. Elapse(c.held) \in RuntimeLease \cup {None}
  BY <1>2, ElapseLease, ElapseNone
<1>4. /\ c.held = None <=> Elapse(c.held) = None
      /\ c.held # None => Elapse(c.held).hwnd = c.held.hwnd /\ Elapse(c.held).process = c.held.process
  BY <1>2, ElapseLease, ElapseNone, DispatcherAssumption
<1>5. d \in CallRecord /\ Like(c, d) /\ d.held = c.held
  BY <1>1
<1> HIDE DEF d
<1>6. e \in CallRecord
  BY <1>3, <1>5 DEF CallRecord
<1>7. Like(c, e)
  BY <1>4, <1>5 DEF CallRecord, Like
<1> QED BY <1>6, <1>7 DEF d

-----------------------------------------------------------------------------
(* The initial state, the desktop, the clock and the issue of leases.      *)

LEMMA IdleSound ==
  ASSUME NEW win, NEW sh, NEW out, NEW st, NEW rv
  PROVE  Idle \in CallRecord /\ Sound(Idle, win, sh, out, st, rv)
<1>1. Idle \in CallRecord
  BY DEF Idle, CallRecord, Positions, Dispositions
<1>2. Held(Idle, out, st, rv)
  BY DEF Idle, Held
<1>3. Placed(Idle) /\ Told(Idle)
  BY DEF Idle, Placed, Told, Whole
<1>4. Sent(Idle, win, sh)
  BY DEF Idle, Sent, Early
<1> QED BY <1>1, <1>2, <1>3, <1>4 DEF Sound

LEMMA InvInit == Init => IInv
<1> SUFFICES ASSUME Init PROVE IInv
  OBVIOUS
<1> DEFINE p == CHOOSE p \in Terminals : TRUE
<1>1. p \in Processes
  BY DispatcherAssumption
<1>2. window = [h \in Windows |-> [process |-> p, title |-> Logical]] /\ spare = Processes \ {p}
  BY DEF Init
<1> HIDE DEF p
<1>3. Idle \in CallRecord /\ Sound(Idle, window, shown, spare, stored, revoked)
  BY IdleSound
<1>4. Typed
  BY <1>1, <1>2, <1>3, DispatcherAssumption DEF Typed, Init
<1>5. Leasing
  BY <1>2 DEF Leasing, Init
<1>6. Sounds
  BY <1>3 DEF Sounds, Init
<1> QED BY <1>4, <1>5, <1>6 DEF IInv

(* A step that leaves the leases and the calls alone.                      *)
LEMMA DesktopSound ==
  ASSUME IInv, Typed', UNCHANGED <<leasing, call>>, spare' \subseteq spare,
         \A h \in Windows : window'[h].process = window[h].process
                            \/ window'[h].process \in (spare \cup {None}) \ spare',
         \A h \in Windows : shown'[h] <= shown[h]
  PROVE  IInv'
<1>1. ASSUME NEW w \in Workers PROVE Sound(call[w], window', shown', spare', stored, revoked)
  <2>1. /\ call[w] \in CallRecord /\ Sound(call[w], window, shown, spare, stored, revoked)
        /\ spare \in SUBSET Processes
    BY DEF IInv, Typed, Sounds
  <2>2. call[w].held # None =>
          (shown'[call[w].held.hwnd] > call[w].before => shown[call[w].held.hwnd] > call[w].before)
    <3>1. call[w].held # None => call[w].held.hwnd \in Windows
      BY <2>1 DEF CallRecord, RuntimeLease
    <3>2. \A h \in Windows : shown[h] \in Nat /\ shown'[h] \in Nat
      BY DEF IInv, Typed
    <3>3. call[w].before \in Nat
      BY <2>1 DEF CallRecord
    <3> QED BY <3>1, <3>2, <3>3
  <2> QED BY <2>1, <2>2, LikeItself, SoundLike
<1>2. Sounds'
  BY <1>1 DEF Sounds, leasing
<1>3. Leasing'
  BY DispatcherAssumption DEF IInv, Typed, Leasing, leasing
<1> QED BY <1>2, <1>3 DEF IInv

LEMMA ReuseInv ==
  ASSUME IInv, NEW h \in Windows, Reuse(h)
  PROVE  IInv'
<1>1. PICK p \in spare \cup {None} : /\ window' = [window EXCEPT ![h].process = p]
                                    /\ spare' = spare \ {p}
  BY DEF Reuse
<1>2. /\ shown' = [shown EXCEPT ![h] = 0] /\ queued' = [queued EXCEPT ![h] = 0]
      /\ UNCHANGED <<leasing, call, faults>>
  BY DEF Reuse
<1>3. Typed'
  BY <1>1, <1>2 DEF IInv, Typed, leasing
<1>4. \A g \in Windows : window'[g].process = window[g].process
                         \/ window'[g].process \in (spare \cup {None}) \ spare'
  BY <1>1, DispatcherAssumption DEF IInv, Typed
<1>5. \A g \in Windows : shown'[g] <= shown[g]
  BY <1>2 DEF IInv, Typed
<1> QED BY <1>1, <1>2, <1>3, <1>4, <1>5, DesktopSound

LEMMA ShowInv ==
  ASSUME IInv, NEW h \in Windows, Retitle(h) \/ Swallow(h) \/ Scroll(h)
  PROVE  IInv'
<1>1. Typed'
  BY DEF IInv, Typed, Retitle, Swallow, Scroll, leasing
<1>2. /\ UNCHANGED <<leasing, call, spare>>
      /\ \A g \in Windows : window'[g].process = window[g].process
  BY DEF IInv, Typed, Retitle, Swallow, Scroll
<1>3. \A g \in Windows : shown'[g] <= shown[g]
  BY DEF IInv, Typed, Retitle, Swallow, Scroll
<1> QED BY <1>1, <1>2, <1>3, DesktopSound

LEMMA EchoInv ==
  ASSUME IInv, NEW h \in Windows, Echo(h)
  PROVE  IInv'
<1> DEFINE counting(w) == /\ call[w].op = "inject" /\ call[w].held.hwnd = h
                          /\ call[w].pc \in {"beforeCheck", "post", "after", "confirm"}
           later(w) == IF counting(w) THEN [call[w] EXCEPT !.fresh = TRUE] ELSE call[w]
<1>1. call' = [w \in Workers |-> later(w)] /\ UNCHANGED <<window, spare, leasing, faults>>
  BY DEF Echo
<1>2. \A g \in Windows : g # h => shown'[g] = shown[g]
  BY DEF Echo, IInv, Typed
<1>3. shown' \in [Windows -> Nat] /\ queued' \in [Windows -> Nat]
  BY DispatcherAssumption DEF Echo, IInv, Typed
<1>4. ASSUME NEW w \in Workers
      PROVE  later(w) \in CallRecord /\ Sound(later(w), window, shown', spare, stored, revoked)
  <2>1. /\ call[w] \in CallRecord /\ Sound(call[w], window, shown, spare, stored, revoked)
        /\ spare \in SUBSET Processes
    BY DEF IInv, Typed, Sounds
  <2>2. CASE counting(w)
    <3> DEFINE e == [call[w] EXCEPT !.fresh = TRUE]
    <3>1. later(w) = e
      BY <2>2
    <3>2. e \in CallRecord /\ e.fresh
      BY <2>1 DEF CallRecord
    <3>3. Like(call[w], e)
      BY <2>1 DEF CallRecord, Like
    <3> HIDE DEF e, later
    <3> QED BY <2>1, <3>1, <3>2, <3>3, SoundLike
  <2>3. CASE ~counting(w)
    <3>1. call[w].pc \in {"beforeCheck", "post", "after", "confirm"} => call[w].op = "inject"
      BY <2>1 DEF Sound, Placed
    <3>2. call[w].held # None => call[w].held.hwnd \in Windows
      BY <2>1 DEF CallRecord, RuntimeLease
    <3>3. call[w].held # None =>
            (shown'[call[w].held.hwnd] > call[w].before => shown[call[w].held.hwnd] > call[w].before
              \/ call[w].pc \notin {"beforeCheck", "post", "after", "confirm"})
      BY <1>2, <2>3, <3>1, <3>2
    <3>4. later(w) = call[w]
      BY <2>3
    <3> HIDE DEF later, counting
    <3> QED BY <2>1, <3>3, <3>4, LikeItself, SoundLike
  <2> QED BY <2>2, <2>3
<1> HIDE DEF later
<1>5. call' \in [Workers -> CallRecord] /\ \A w \in Workers : call'[w] = later(w)
  BY <1>1, <1>4
<1>6. Typed'
  BY <1>1, <1>3, <1>5 DEF IInv, Typed, leasing
<1>7. Leasing'
  BY <1>1 DEF IInv, Leasing, leasing
<1>8. Sounds'
  BY <1>1, <1>4, <1>5 DEF Sounds, leasing
<1> QED BY <1>6, <1>7, <1>8 DEF IInv

LEMMA TickInv ==
  ASSUME IInv, Tick
  PROVE  IInv'
<1> DEFINE later(w) == [Elapse(call[w]) EXCEPT !.held = Elapse(@)]
<1>1. /\ stored' = [l \in Leases |-> Elapse(stored[l])]
      /\ authority' = [l \in Leases |-> Elapse(authority[l])]
      /\ call' = [w \in Workers |-> later(w)]
      /\ UNCHANGED <<window, spare, shown, queued, revoked, faults>>
  BY DEF Tick, desktop
<1>2. \A w \in Workers : later(w) \in CallRecord /\ Like(call[w], later(w))
  BY ElapseCall DEF IInv, Typed
<1> HIDE DEF later
<1>3. \A l \in Leases :
        /\ stored'[l] \in RuntimeLease \cup {None} /\ authority'[l] \in RuntimeLease \cup {None}
        /\ stored'[l] = None <=> stored[l] = None
        /\ authority'[l] = None <=> authority[l] = None
        /\ stored[l] # None => stored'[l].process = stored[l].process
                               /\ stored'[l].revoked = stored[l].revoked
  <2> SUFFICES ASSUME NEW l \in Leases
               PROVE  /\ stored'[l] \in RuntimeLease \cup {None}
                      /\ authority'[l] \in RuntimeLease \cup {None}
                      /\ stored'[l] = None <=> stored[l] = None
                      /\ authority'[l] = None <=> authority[l] = None
                      /\ stored[l] # None => stored'[l].process = stored[l].process
                                             /\ stored'[l].revoked = stored[l].revoked
    OBVIOUS
  <2>1. stored'[l] = Elapse(stored[l]) /\ authority'[l] = Elapse(authority[l])
    BY <1>1
  <2>2. stored[l] \in RuntimeLease \cup {None} /\ authority[l] \in RuntimeLease \cup {None}
    BY DEF IInv, Typed
  <2> QED BY <2>1, <2>2, ElapseLease, ElapseNone, DispatcherAssumption
<1>4. Typed'
  BY <1>1, <1>2, <1>3 DEF IInv, Typed
<1>5. Leasing'
  BY <1>1, <1>3 DEF IInv, Leasing
<1>6. ASSUME NEW w \in Workers
      PROVE  Sound(later(w), window, shown, spare, stored', revoked)
  <2>1. /\ call[w] \in CallRecord /\ Sound(call[w], window, shown, spare, stored, revoked)
        /\ spare \in SUBSET Processes
    BY DEF IInv, Typed, Sounds
  <2> QED BY <1>2, <1>3, <2>1, SoundLike
<1>7. Sounds'
  BY <1>1, <1>6 DEF Sounds
<1> QED BY <1>4, <1>5, <1>7 DEF IInv

LEMMA IssueInv ==
  ASSUME IInv, NEW l \in Leases, NEW h \in Windows, NEW role \in {"sender", "observer"},
         verify_target(h), authority[l] = None, _issue_verified_lease(l, h, role)
  PROVE  IInv'
<1> DEFINE lease == [hwnd |-> h, role |-> role, left |-> Ttl, revoked |-> FALSE,
                     process |-> window[h].process, title |-> window[h].title]
<1>1. /\ authority' = [authority EXCEPT ![l] = lease] /\ stored' = [stored EXCEPT ![l] = lease]
      /\ UNCHANGED <<window, spare, shown, queued, revoked, call, faults>>
  BY DEF _issue_verified_lease, desktop
<1>2. /\ lease \in RuntimeLease /\ ~lease.revoked /\ lease.process = window[h].process
      /\ lease.process \notin spare
  BY DispatcherAssumption DEF RuntimeLease, IInv, Typed, Leasing, verify_target
<1>3. lease # None
  BY <1>2, DispatcherAssumption
<1> HIDE DEF lease
<1>4. Typed'
  BY <1>1, <1>2 DEF IInv, Typed
<1>5. Leasing'
  BY <1>1, <1>2, <1>3 DEF IInv, Typed, Leasing
<1>6. \A k \in Leases : stored[k] # None => stored'[k] # None
  BY <1>1, <1>3 DEF IInv, Typed
<1>7. ASSUME NEW w \in Workers
      PROVE  Sound(call[w], window, shown, spare, stored', revoked)
  <2>1. /\ call[w] \in CallRecord /\ Sound(call[w], window, shown, spare, stored, revoked)
        /\ spare \in SUBSET Processes
    BY DEF IInv, Typed, Sounds
  <2> QED BY <1>6, <2>1, LikeItself, SoundLike
<1>8. Sounds'
  BY <1>1, <1>7 DEF Sounds
<1> QED BY <1>4, <1>5, <1>8 DEF IInv

-----------------------------------------------------------------------------
(* A worker's step: it moves its call to c, and c is sound.                *)

LEMMA WorkerInv ==
  ASSUME IInv, NEW w \in Workers, NEW c \in CallRecord, Set(w, c),
         UNCHANGED <<window, spare, shown>>, queued' \in [Windows -> Nat], faults' \in Nat,
         stored' \in [Leases -> RuntimeLease \cup {None}],
         authority' \in [Leases -> RuntimeLease \cup {None}],
         revoked' \subseteq Leases, revoked \subseteq revoked', Leasing',
         \A l \in Leases : stored[l] # None => stored'[l] # None,
         Sound(c, window, shown, spare, stored', revoked')
  PROVE  IInv'
<1>1. call' = [call EXCEPT ![w] = c]
  BY DEF Set
<1>2. Typed'
  BY <1>1 DEF IInv, Typed
<1>3. ASSUME NEW v \in Workers, v # w
      PROVE  Sound(call[v], window, shown, spare, stored', revoked')
  <2>1. /\ call[v] \in CallRecord /\ Sound(call[v], window, shown, spare, stored, revoked)
        /\ spare \in SUBSET Processes
    BY DEF IInv, Typed, Sounds
  <2> QED BY <2>1, LikeItself, SoundLike
<1>4. ASSUME NEW v \in Workers PROVE Sound(call'[v], window', shown', spare', stored', revoked')
  <2>1. CASE v = w
    <3>1. call'[v] = c
      BY <1>1, <2>1 DEF IInv, Typed
    <3> QED BY <3>1
  <2>2. CASE v # w
    <3>1. call'[v] = call[v]
      BY <1>1, <2>2 DEF IInv, Typed
    <3> QED BY <1>3, <2>2, <3>1
  <2> QED BY <2>1, <2>2
<1>5. Sounds'
  BY <1>4 DEF Sounds
<1> QED BY <1>2, <1>5 DEF IInv

(* The same for a step that leaves the desktop and the leases alone.       *)
LEMMA QuietInv ==
  ASSUME IInv, NEW w \in Workers, NEW c \in CallRecord, Set(w, c),
         UNCHANGED <<desktop, leasing>>, faults' \in Nat,
         Sound(c, window, shown, spare, stored, revoked)
  PROVE  IInv'
<1>1. UNCHANGED <<window, spare, shown, queued, stored, authority, revoked>>
  BY DEF desktop, leasing
<1>2. Leasing'
  BY <1>1 DEF IInv, Leasing
<1>3. queued' \in [Windows -> Nat] /\ stored' \in [Leases -> RuntimeLease \cup {None}]
      /\ authority' \in [Leases -> RuntimeLease \cup {None}] /\ revoked' \subseteq Leases
  BY <1>1 DEF IInv, Typed
<1>4. Sound(c, window, shown, spare, stored', revoked')
  BY <1>1
<1> QED BY <1>1, <1>2, <1>3, <1>4, WorkerInv

(* A call that is refused before it sent or read anything: its audit.      *)
LEMMA RefusedSound ==
  ASSUME IInv, NEW w \in Workers, call[w].pc \notin {"idle", "audit", "done"}, call[w].posted = 0,
         call[w].disposition = "none", ~call[w].late \/ call[w].touched = {},
         Refuse(w), UNCHANGED <<desktop, leasing>>, faults' \in Nat
  PROVE  IInv'
<1> DEFINE c == [call[w] EXCEPT !.pc = "audit", !.told = "error", !.left = 0]
<1>1. call[w] \in CallRecord /\ Sound(call[w], window, shown, spare, stored, revoked)
  BY DEF IInv, Typed, Sounds
<1>2. Set(w, c)
  BY DEF Refuse
<1>3. c \in CallRecord
  BY <1>1 DEF CallRecord, Positions
<1>4. /\ c.pc = "audit" /\ c.op = call[w].op /\ c.lease = call[w].lease /\ c.held = call[w].held
      /\ c.posted = 0 /\ c.touched = call[w].touched /\ c.disposition = "none" /\ c.told = "error"
      /\ c.late = call[w].late
  BY <1>1 DEF CallRecord
<1> HIDE DEF c
<1>5. Sound(c, window, shown, spare, stored, revoked)
  BY <1>1, <1>4 DEF Sound, Held, Placed, Sent, Told, Whole, Early
<1> QED BY <1>2, <1>3, <1>5, QuietInv

(* A delivery's disposition and its answer, chosen for "persist".          *)
Answers == {"ok", "error", "noretry"}
LEMMA DisposedSound ==
  ASSUME IInv, NEW w \in Workers, NEW d \in Dispositions \ {"none"}, NEW t \in Answers,
         call[w].pc \in {"post", "after", "confirm", "confirmed"},
         d = "delivery_confirmed" => call[w].touched = {call[w].held.process} /\ call[w].fresh,
         d \in Whole => call[w].posted = Messages,
         d = "not_attempted" => call[w].posted = 0,
         t = "ok" => d = "delivery_confirmed",
         t = "error" => d \in Whole \cup {"not_attempted"},
         Dispose(w, d, t), UNCHANGED <<desktop, leasing>>, faults' \in Nat
  PROVE  IInv'
<1> DEFINE c == [call[w] EXCEPT !.pc = "persist", !.disposition = d, !.told = t, !.before = 0, !.left = 0]
<1>1. call[w] \in CallRecord /\ Sound(call[w], window, shown, spare, stored, revoked)
  BY DEF IInv, Typed, Sounds
<1>2. Set(w, c)
  BY DEF Dispose
<1>3. c \in CallRecord
  BY <1>1 DEF CallRecord, Positions, Answers
<1>4. /\ c.pc = "persist" /\ c.op = call[w].op /\ c.lease = call[w].lease /\ c.held = call[w].held
      /\ c.posted = call[w].posted /\ c.touched = call[w].touched /\ c.disposition = d
      /\ c.told = t /\ c.fresh = call[w].fresh /\ c.late = call[w].late
  BY <1>1 DEF CallRecord
<1> HIDE DEF c
<1>5. Held(c, spare, stored, revoked) /\ Placed(c) /\ Sent(c, window, shown)
  BY <1>1, <1>4 DEF Sound, Held, Placed, Sent, Early
<1>6. Told(c)
  BY <1>1, <1>4 DEF Told, Whole, Answers
<1> QED BY <1>2, <1>3, <1>5, <1>6, QuietInv DEF Sound

LEMMA BeginInv ==
  ASSUME IInv, NEW w \in Workers, NEW op \in Ops, NEW l \in Leases, Begin(w, op, l)
  PROVE  IInv'
<1> DEFINE c1 == [Idle EXCEPT !.op = op, !.lease = l, !.held = stored[l], !.pc = "audit", !.told = "error"]
           c2 == [Idle EXCEPT !.op = op, !.lease = l, !.held = stored[l], !.pc = "verify"]
<1>1. /\ stored[l] # None /\ stored[l] \in RuntimeLease /\ stored[l].process \notin spare
      /\ UNCHANGED <<desktop, leasing>> /\ faults' \in Nat
  BY DEF Begin, IInv, Typed, Leasing
<1>2. Set(w, c1) \/ Set(w, c2)
  BY DEF Begin, Set, Idle
<1>3. c1 \in CallRecord /\ c2 \in CallRecord
  BY <1>1 DEF CallRecord, Positions, Dispositions, Idle
<1>4. /\ c1.pc = "audit" /\ c1.told = "error" /\ c2.pc = "verify"
      /\ \A c \in {c1, c2} : /\ c.op = op /\ c.lease = l /\ c.held = stored[l] /\ c.posted = 0 /\ c.touched = {}
                             /\ c.disposition = "none" /\ ~c.late
  BY DEF Idle
<1> HIDE DEF c1, c2
<1>5. /\ Sound(c1, window, shown, spare, stored, revoked)
      /\ Sound(c2, window, shown, spare, stored, revoked)
  BY <1>1, <1>4 DEF Sound, Held, Placed, Sent, Told, Whole, Early
<1> QED BY <1>1, <1>2, <1>3, <1>5, QuietInv

LEMMA VerifyLeaseInv ==
  ASSUME IInv, NEW w \in Workers, VerifyLease(w)
  PROVE  IInv'
<1> DEFINE late == RevokeAnswered(call[w].lease)
           c == [call[w] EXCEPT !.late = late]
           c1 == [c EXCEPT !.pc = "audit", !.told = "error"]
           c2 == [c EXCEPT !.pc = "revoke"]
           c3 == [c EXCEPT !.pc = "authorize"]
<1>1. call[w] \in CallRecord /\ Sound(call[w], window, shown, spare, stored, revoked)
  BY DEF IInv, Typed, Sounds
<1>2. call[w].pc = "verify" /\ UNCHANGED <<desktop, leasing>> /\ faults' \in Nat
  BY DEF VerifyLease, IInv, Typed
<1>3. /\ c \in CallRecord /\ c.lease = call[w].lease /\ c.held = call[w].held /\ c.op = call[w].op
      /\ c.posted = call[w].posted /\ c.touched = call[w].touched
      /\ c.disposition = call[w].disposition /\ c.late = late
  BY <1>1 DEF CallRecord, RevokeAnswered
<1>4. \/ Set(w, c1)
      \/ AuthorityVerifies(c.lease, c.held) /\ c.op = "revoke" /\ Set(w, c2)
      \/ AuthorityVerifies(c.lease, c.held) /\ c.op # "revoke" /\ Set(w, c3)
  BY DEF VerifyLease
<1>5. /\ call[w].lease \in Leases /\ call[w].held # None /\ stored[call[w].lease] # None
      /\ call[w].held.process \notin spare /\ call[w].posted = 0 /\ call[w].touched = {}
      /\ call[w].disposition = "none"
  BY <1>1, <1>2 DEF Sound, Held, Sent, Early
<1>6. AuthorityVerifies(c.lease, c.held) => ~late
  BY <1>3, <1>5 DEF AuthorityVerifies, RevokeAnswered, IInv, Leasing
<1> HIDE DEF c, late
<1>7. c1 \in CallRecord /\ c2 \in CallRecord /\ c3 \in CallRecord
  BY <1>3 DEF CallRecord, Positions
<1>8. /\ c1.pc = "audit" /\ c1.told = "error" /\ c2.pc = "revoke" /\ c3.pc = "authorize"
      /\ \A d \in {c1, c2, c3} :
           /\ d.lease = call[w].lease /\ d.held = call[w].held /\ d.op = call[w].op /\ d.posted = 0
           /\ d.touched = {} /\ d.disposition = "none" /\ d.late = late
  BY <1>3, <1>5 DEF CallRecord
<1> HIDE DEF c1, c2, c3
<1>9. Sound(c1, window, shown, spare, stored, revoked)
  BY <1>1, <1>2, <1>5, <1>8 DEF Sound, Held, Placed, Sent, Told, Whole, Early
<1>10. ASSUME c.op = "revoke" PROVE Sound(c2, window, shown, spare, stored, revoked)
  BY <1>3, <1>5, <1>8, <1>10 DEF Ops, Sound, Held, Placed, Sent, Told, Whole, Early
<1>11. ASSUME AuthorityVerifies(c.lease, c.held), c.op # "revoke"
       PROVE  Sound(c3, window, shown, spare, stored, revoked)
  BY <1>1, <1>2, <1>3, <1>5, <1>6, <1>8, <1>11 DEF Sound, Held, Placed, Sent, Told, Whole, Early, CallRecord, Ops
<1> QED BY <1>2, <1>4, <1>7, <1>9, <1>10, <1>11, QuietInv

LEMMA RevokeAuthorityInv ==
  ASSUME IInv, NEW w \in Workers, RevokeAuthority(w)
  PROVE  IInv'
<1> DEFINE l == call[w].lease
           c == [call[w] EXCEPT !.pc = "revokeMap"]
<1>1. call[w] \in CallRecord /\ Sound(call[w], window, shown, spare, stored, revoked)
  BY DEF IInv, Typed, Sounds
<1>2. /\ call[w].pc = "revoke" /\ Set(w, c)
      /\ authority' = [authority EXCEPT ![l].revoked = TRUE] /\ revoked' = revoked \cup {l}
      /\ UNCHANGED <<window, spare, shown, queued, stored, faults>>
  BY DEF RevokeAuthority, desktop
<1>3. l \in Leases /\ stored[l] # None
  BY <1>1, <1>2 DEF Sound, Held
<1>4. authority[l] \in RuntimeLease
  BY <1>3 DEF IInv, Typed, Leasing
<1>5. c \in CallRecord
  BY <1>1 DEF CallRecord, Positions
<1>6. /\ c.pc = "revokeMap" /\ c.op = call[w].op /\ c.lease = l /\ c.held = call[w].held
      /\ c.posted = call[w].posted /\ c.touched = call[w].touched
      /\ c.disposition = call[w].disposition /\ c.late = call[w].late
  BY <1>1 DEF CallRecord
<1> HIDE DEF c, l
<1>7. Sound(c, window, shown, spare, stored', revoked')
  BY <1>1, <1>2, <1>3, <1>6 DEF Sound, Held, Placed, Sent, Told, Whole, Early, Ops
<1> DEFINE r == [authority[l] EXCEPT !.revoked = TRUE]
<1>8. r \in RuntimeLease
  BY <1>4 DEF RuntimeLease
<1>9. authority' = [authority EXCEPT ![l] = r]
  BY <1>2
<1> HIDE DEF r
<1>10. authority' \in [Leases -> RuntimeLease \cup {None}]
  BY <1>8, <1>9 DEF IInv, Typed
<1>11. \A k \in Leases : authority[k] # None => authority'[k] # None
  BY <1>8, <1>9, DispatcherAssumption DEF IInv, Typed
<1>12. Leasing'
  BY <1>2, <1>11 DEF IInv, Leasing
<1>13. /\ queued' \in [Windows -> Nat] /\ faults' \in Nat
       /\ stored' \in [Leases -> RuntimeLease \cup {None}] /\ revoked' \subseteq Leases
  BY <1>2, <1>3 DEF IInv, Typed
<1> QED BY <1>2, <1>5, <1>7, <1>10, <1>12, <1>13, WorkerInv

LEMMA RevokeStoredInv ==
  ASSUME IInv, NEW w \in Workers, RevokeStored(w)
  PROVE  IInv'
<1> DEFINE l == call[w].lease
           c == [call[w] EXCEPT !.pc = "audit", !.told = "ok"]
           r == [stored[l] EXCEPT !.revoked = TRUE]
<1>1. call[w] \in CallRecord /\ Sound(call[w], window, shown, spare, stored, revoked)
  BY DEF IInv, Typed, Sounds
<1>2. /\ call[w].pc = "revokeMap" /\ Set(w, c)
      /\ stored' = [stored EXCEPT ![l] = r]
      /\ UNCHANGED <<window, spare, shown, queued, authority, revoked, faults>>
  BY DEF RevokeStored, desktop
<1>3. l \in Leases /\ stored[l] # None /\ l \in revoked
  BY <1>1, <1>2 DEF Sound, Held
<1>4. stored[l] \in RuntimeLease /\ stored[l].process \notin spare /\ authority[l] # None
  BY <1>3 DEF IInv, Typed, Leasing
<1>5. c \in CallRecord
  BY <1>1 DEF CallRecord, Positions
<1>6. /\ c.pc = "audit" /\ c.op = call[w].op /\ c.lease = l /\ c.held = call[w].held
      /\ c.posted = call[w].posted /\ c.touched = call[w].touched
      /\ c.disposition = call[w].disposition /\ c.late = call[w].late
  BY <1>1 DEF CallRecord
<1>7. r \in RuntimeLease /\ r.process = stored[l].process
  BY <1>4 DEF RuntimeLease
<1>8. r # None
  BY <1>7, DispatcherAssumption
<1> HIDE DEF c, l, r
<1>9. \A k \in Leases : stored[k] # None => stored'[k] # None
  BY <1>2, <1>8 DEF IInv, Typed
<1>10. Sound(c, window, shown, spare, stored', revoked')
  BY <1>1, <1>2, <1>3, <1>6, <1>9 DEF Sound, Held, Placed, Sent, Told, Whole, Early
<1>11. Leasing'
  BY <1>2, <1>3, <1>4, <1>7 DEF IInv, Typed, Leasing
<1>12. /\ queued' \in [Windows -> Nat] /\ faults' \in Nat /\ revoked' \subseteq Leases
       /\ stored' \in [Leases -> RuntimeLease \cup {None}]
       /\ authority' \in [Leases -> RuntimeLease \cup {None}]
  BY <1>2, <1>7 DEF IInv, Typed
<1> QED BY <1>2, <1>5, <1>9, <1>10, <1>11, <1>12, WorkerInv

LEMMA AuthorizeInv ==
  ASSUME IInv, NEW w \in Workers, _require_execution_authorization(w)
  PROVE  IInv'
<1>1. call[w] \in CallRecord /\ Sound(call[w], window, shown, spare, stored, revoked)
  BY DEF IInv, Typed, Sounds
<1>2. call[w].pc = "authorize" /\ UNCHANGED <<desktop, leasing>> /\ faults' \in Nat
  BY DEF _require_execution_authorization, IInv, Typed
<1>3. /\ call[w].posted = 0 /\ call[w].touched = {} /\ call[w].disposition = "none"
  BY <1>1, <1>2 DEF Sound, Sent, Early
<1>4. CASE Refuse(w)
  BY <1>2, <1>3, <1>4, RefusedSound
<1>5. CASE Set(w, [call[w] EXCEPT !.pc = IF call[w].op = "read" THEN "read" ELSE "before",
                                   !.left = IF call[w].op = "read" THEN Timeout ELSE 0])
  <2> DEFINE c == [call[w] EXCEPT !.pc = IF call[w].op = "read" THEN "read" ELSE "before",
                                  !.left = IF call[w].op = "read" THEN Timeout ELSE 0]
  <2>1. c \in CallRecord
    BY <1>1, DispatcherAssumption DEF CallRecord, Positions
  <2>2. /\ c.pc = (IF call[w].op = "read" THEN "read" ELSE "before")
        /\ c.op = call[w].op /\ c.lease = call[w].lease /\ c.held = call[w].held
        /\ c.posted = 0 /\ c.touched = {} /\ c.disposition = "none" /\ c.late = call[w].late
    BY <1>1, <1>3 DEF CallRecord
  <2>3. Set(w, c)
    BY <1>5
  <2> HIDE DEF c
  <2>4. Sound(c, window, shown, spare, stored, revoked)
    BY <1>1, <1>2, <2>2 DEF Sound, Held, Placed, Sent, Told, Whole, Early
  <2> QED BY <1>2, <2>1, <2>3, <2>4, QuietInv
<1> QED BY <1>4, <1>5 DEF _require_execution_authorization

LEMMA ReadBeforeInv ==
  ASSUME IInv, NEW w \in Workers, ReadBefore(w)
  PROVE  IInv'
<1> DEFINE c == [call[w] EXCEPT !.pc = "beforeCheck", !.before = shown[call[w].held.hwnd]]
<1>1. call[w] \in CallRecord /\ Sound(call[w], window, shown, spare, stored, revoked)
  BY DEF IInv, Typed, Sounds
<1>2. call[w].pc = "before" /\ UNCHANGED <<desktop, leasing>> /\ faults' \in Nat
  BY DEF ReadBefore, ReadOnce, Fault, NoFault, IInv, Typed
<1>3. /\ call[w].posted = 0 /\ call[w].touched = {} /\ call[w].disposition = "none"
      /\ call[w].held \in RuntimeLease
  BY <1>1, <1>2 DEF Sound, Sent, Held, Early, CallRecord
<1>4. shown[call[w].held.hwnd] \in Nat
  BY <1>3 DEF RuntimeLease, IInv, Typed
<1>5. CASE Refuse(w)
  BY <1>2, <1>3, <1>5, RefusedSound
<1>6. CASE Set(w, c)
  <2>1. c \in CallRecord
    BY <1>1, <1>4 DEF CallRecord, Positions
  <2>2. /\ c.pc = "beforeCheck" /\ c.op = call[w].op /\ c.lease = call[w].lease
        /\ c.held = call[w].held /\ c.posted = 0 /\ c.touched = {} /\ c.disposition = "none"
        /\ c.late = call[w].late /\ c.before = shown[c.held.hwnd]
    BY <1>1, <1>3 DEF CallRecord
  <2> HIDE DEF c
  <2>3. ~(shown[c.held.hwnd] > c.before)
    BY <1>4, <2>2
  <2>4. Sound(c, window, shown, spare, stored, revoked)
    BY <1>1, <1>2, <2>2, <2>3 DEF Sound, Held, Placed, Sent, Told, Whole, Early
  <2> QED BY <1>2, <1>6, <2>1, <2>4, QuietInv
<1> QED BY <1>5, <1>6 DEF ReadBefore, ReadOnce

LEMMA RouteInv ==
  ASSUME IInv, NEW w \in Workers, Route(w)
  PROVE  IInv'
<1> DEFINE c == [call[w] EXCEPT !.pc = "post"]
<1>1. call[w] \in CallRecord /\ Sound(call[w], window, shown, spare, stored, revoked)
  BY DEF IInv, Typed, Sounds
<1>2. call[w].pc = "beforeCheck" /\ UNCHANGED <<desktop, leasing>> /\ faults' \in Nat
  BY DEF Route, IInv, Typed
<1>3. call[w].posted = 0 /\ call[w].touched = {} /\ call[w].disposition = "none"
  BY <1>1, <1>2 DEF Sound, Sent, Early
<1>4. CASE Refuse(w)
  BY <1>2, <1>3, <1>4, RefusedSound
<1>5. CASE Set(w, c)
  <2>1. c \in CallRecord
    BY <1>1 DEF CallRecord, Positions
  <2>2. /\ c.pc = "post" /\ c.op = call[w].op /\ c.lease = call[w].lease
        /\ c.held = call[w].held /\ c.posted = 0 /\ c.touched = {} /\ c.disposition = "none"
        /\ c.late = call[w].late /\ c.before = call[w].before /\ c.fresh = call[w].fresh
    BY <1>1, <1>3 DEF CallRecord
  <2> HIDE DEF c
  <2>3. Sound(c, window, shown, spare, stored, revoked)
    BY <1>1, <1>2, <2>2 DEF Sound, Held, Placed, Sent, Told, Whole, Early
  <2> QED BY <1>2, <1>5, <2>1, <2>3, QuietInv
<1> QED BY <1>4, <1>5 DEF Route

LEMMA PostMessageInv ==
  ASSUME IInv, NEW w \in Workers, PostMessage(w)
  PROVE  IInv'
<1> DEFINE h == call[w].held.hwnd
           n == call[w].posted + 1
           p == window[h].process
           c == [call[w] EXCEPT !.posted = n, !.touched = call[w].touched \cup {p},
                                !.pc = IF n = Messages THEN "after" ELSE "post"]
<1>1. call[w] \in CallRecord /\ Sound(call[w], window, shown, spare, stored, revoked)
  BY DEF IInv, Typed, Sounds
<1>2. /\ call[w].pc = "post" /\ p # None
      /\ queued' = [queued EXCEPT ![h] = IF n = Messages THEN @ + 1 ELSE @]
      /\ Set(w, c)
      /\ UNCHANGED <<window, spare, shown, stored, authority, revoked, faults>>
  BY DEF PostMessage, leasing
<1>3. call[w].held \in RuntimeLease /\ h \in Windows
  BY <1>1, <1>2 DEF Sound, Held, CallRecord, RuntimeLease
<1>4. p \in Processes /\ n \in Nat /\ n > 0
  BY <1>1, <1>2, <1>3 DEF IInv, Typed, CallRecord
<1>5. c \in CallRecord
  BY <1>1, <1>4 DEF CallRecord, Positions
<1>6. /\ c.pc = (IF n = Messages THEN "after" ELSE "post") /\ c.op = call[w].op
      /\ c.lease = call[w].lease /\ c.held = call[w].held /\ c.posted = n
      /\ c.touched = call[w].touched \cup {p} /\ c.disposition = call[w].disposition
      /\ c.late = call[w].late /\ c.before = call[w].before /\ c.fresh = call[w].fresh
  BY <1>1 DEF CallRecord
<1> HIDE DEF c, n
<1>7. window[h].process = call[w].held.process => c.touched \subseteq {call[w].held.process}
  BY <1>1, <1>2, <1>6 DEF Sound, Sent
<1> HIDE DEF p
<1>8. Sound(c, window, shown, spare, stored, revoked)
  <2>1. Held(c, spare, stored, revoked) /\ Placed(c)
    BY <1>1, <1>2, <1>6 DEF Sound, Held, Placed
  <2>2. Sent(c, window, shown)
    BY <1>1, <1>2, <1>6, <1>7 DEF Sound, Sent, Early
  <2>3. Told(c)
    BY <1>1, <1>2, <1>6 DEF Sound, Sent, Told, Whole
  <2> QED BY <2>1, <2>2, <2>3 DEF Sound
<1>9. queued' \in [Windows -> Nat]
  BY <1>2, <1>3 DEF IInv, Typed
<1>10. Leasing'
  BY <1>2 DEF IInv, Leasing
<1>11. /\ faults' \in Nat /\ revoked' \subseteq Leases
       /\ stored' \in [Leases -> RuntimeLease \cup {None}]
       /\ authority' \in [Leases -> RuntimeLease \cup {None}]
  BY <1>2 DEF IInv, Typed
<1> QED BY <1>2, <1>5, <1>8, <1>9, <1>10, <1>11, WorkerInv

LEMMA PostFailsInv ==
  ASSUME IInv, NEW w \in Workers, PostFails(w)
  PROVE  IInv'
<1>1. call[w] \in CallRecord
  BY DEF IInv, Typed
<1>2. /\ call[w].pc = "post" /\ UNCHANGED <<desktop, leasing>> /\ faults' \in Nat
      /\ call[w].posted \in Nat
  BY <1>1 DEF PostFails, Fault, NoFault, IInv, Typed, CallRecord
<1>3. CASE call[w].posted > 0
  <2>1. Dispose(w, "unknown_delivery", "noretry")
    BY <1>3 DEF PostFails
  <2> QED BY <1>2, <2>1, DisposedSound DEF Dispositions, Answers, Whole
<1>4. CASE call[w].posted = 0
  <2>1. Dispose(w, "not_attempted", "error")
    BY <1>4 DEF PostFails
  <2> QED BY <1>2, <1>4, <2>1, DisposedSound DEF Dispositions, Answers, Whole
<1> QED BY <1>2, <1>3, <1>4

LEMMA VerifyAfterInv ==
  ASSUME IInv, NEW w \in Workers, VerifyAfter(w)
  PROVE  IInv'
<1> DEFINE c == [call[w] EXCEPT !.pc = "confirm", !.left = Timeout]
<1>1. call[w] \in CallRecord /\ Sound(call[w], window, shown, spare, stored, revoked)
  BY DEF IInv, Typed, Sounds
<1>2. call[w].pc = "after" /\ UNCHANGED <<desktop, leasing>> /\ faults' \in Nat
  BY DEF VerifyAfter, IInv, Typed
<1>3. CASE Dispose(w, "unknown_delivery", "noretry")
  BY <1>2, <1>3, DisposedSound DEF Dispositions, Answers, Whole
<1>4. CASE Set(w, c)
  <2>1. c \in CallRecord
    BY <1>1, DispatcherAssumption DEF CallRecord, Positions
  <2>2. /\ c.pc = "confirm" /\ c.op = call[w].op /\ c.lease = call[w].lease
        /\ c.held = call[w].held /\ c.posted = call[w].posted /\ c.touched = call[w].touched
        /\ c.disposition = call[w].disposition
        /\ c.late = call[w].late /\ c.before = call[w].before /\ c.fresh = call[w].fresh
    BY <1>1 DEF CallRecord
  <2> HIDE DEF c
  <2>3. Sound(c, window, shown, spare, stored, revoked)
    BY <1>1, <1>2, <2>2 DEF Sound, Held, Placed, Sent, Told, Whole, Early
  <2> QED BY <1>2, <1>4, <2>1, <2>3, QuietInv
<1> QED BY <1>3, <1>4 DEF VerifyAfter

(* The read-back finds the bound process behind the handle: all messages   *)
(* went to it, and a count above the one before is an echo since then.     *)
LEMMA ConfirmReadInv ==
  ASSUME IInv, NEW w \in Workers, ConfirmRead(w)
  PROVE  IInv'
<1> DEFINE h == call[w].held.hwnd
           p == window[h].process
           c == [call[w] EXCEPT !.pc = "confirmed", !.touched = call[w].touched \cup {p}]
<1>1. call[w] \in CallRecord /\ Sound(call[w], window, shown, spare, stored, revoked)
  BY DEF IInv, Typed, Sounds
<1>2. call[w].pc = "confirm" /\ UNCHANGED <<desktop, leasing>> /\ faults' \in Nat
  BY DEF ConfirmRead, ReadOnce, Fault, NoFault, IInv, Typed
<1>3. ASSUME NEW t \in {"error", "noretry"}, Dispose(w, "enqueued_unconfirmed", t) PROVE IInv'
  <2>1. call[w].posted = Messages
    BY <1>1, <1>2 DEF Sound, Sent
  <2> QED BY <1>2, <1>3, <2>1, DisposedSound DEF Dispositions, Answers, Whole
<1>4. CASE UNCHANGED call
  <2>1. Set(w, call[w])
    BY <1>4 DEF Set, IInv, Typed
  <2> QED BY <1>1, <1>2, <2>1, QuietInv
<1>5. CASE shown[h] > call[w].before /\ _verify_live_target(h, call[w].held) /\ Set(w, c)
  <2>1. call[w].held \in RuntimeLease /\ p = call[w].held.process /\ p \in Processes
    BY <1>1, <1>2, <1>5 DEF Sound, Held, CallRecord, RuntimeLease, _verify_live_target, Matches
  <2>2. c \in CallRecord
    BY <1>1, <2>1 DEF CallRecord, Positions
  <2>3. call[w].touched \subseteq {p} /\ call[w].fresh /\ call[w].posted = Messages
    BY <1>1, <1>2, <1>5, <2>1 DEF Sound, Sent
  <2>4. /\ c.pc = "confirmed" /\ c.op = call[w].op /\ c.lease = call[w].lease
        /\ c.held = call[w].held /\ c.posted = call[w].posted /\ c.touched = call[w].touched \cup {p}
        /\ c.disposition = call[w].disposition
        /\ c.late = call[w].late /\ c.before = call[w].before /\ c.fresh = call[w].fresh
    BY <1>1 DEF CallRecord
  <2> HIDE DEF c
  <2>5. c.touched = {c.held.process}
    BY <2>1, <2>3, <2>4
  <2>6. Sound(c, window, shown, spare, stored, revoked)
    BY <1>1, <1>2, <2>3, <2>4, <2>5 DEF Sound, Held, Placed, Sent, Told, Whole, Early
  <2> QED BY <1>2, <1>5, <2>2, <2>6, QuietInv
<1> QED BY <1>3, <1>4, <1>5 DEF ConfirmRead, ReadOnce

LEMMA ConfirmCheckInv ==
  ASSUME IInv, NEW w \in Workers, ConfirmCheck(w)
  PROVE  IInv'
<1>1. call[w] \in CallRecord /\ Sound(call[w], window, shown, spare, stored, revoked)
  BY DEF IInv, Typed, Sounds
<1>2. call[w].pc = "confirmed" /\ UNCHANGED <<desktop, leasing>> /\ faults' \in Nat
  BY DEF ConfirmCheck, IInv, Typed
<1>3. call[w].posted = Messages /\ call[w].touched = {call[w].held.process} /\ call[w].fresh
  BY <1>1, <1>2 DEF Sound, Sent
<1>4. CASE Dispose(w, "enqueued_unconfirmed", "error")
  BY <1>2, <1>3, <1>4, DisposedSound DEF Dispositions, Answers, Whole
<1>5. CASE Dispose(w, "delivery_confirmed", "ok")
  BY <1>2, <1>3, <1>5, DisposedSound DEF Dispositions, Answers, Whole
<1> QED BY <1>4, <1>5 DEF ConfirmCheck

LEMMA PersistInv ==
  ASSUME IInv, NEW w \in Workers, _persist_delivery_disposition(w)
  PROVE  IInv'
<1> DEFINE c1 == [call[w] EXCEPT !.pc = "audit"]
           c2 == [call[w] EXCEPT !.pc = "audit", !.told = "noretry", !.disposition = "unrecorded"]
<1>1. call[w] \in CallRecord /\ Sound(call[w], window, shown, spare, stored, revoked)
  BY DEF IInv, Typed, Sounds
<1>2. call[w].pc = "persist" /\ UNCHANGED <<desktop, leasing>> /\ faults' \in Nat
  BY DEF _persist_delivery_disposition, Fault, NoFault, IInv, Typed
<1>3. Set(w, c1) \/ Set(w, c2)
  BY DEF _persist_delivery_disposition
<1>4. c1 \in CallRecord /\ c2 \in CallRecord
  <2>1. "audit" \in Positions /\ "unrecorded" \in Dispositions
    BY DEF Positions, Dispositions
  <2>2. c1 \in CallRecord
    BY <1>1, <2>1 DEF CallRecord
  <2>3. c2 \in CallRecord
    BY <1>1, <2>1 DEF CallRecord
  <2> QED BY <2>2, <2>3
<1>5. /\ c1.told = call[w].told /\ c2.told = "noretry" /\ c1.disposition = call[w].disposition
      /\ c2.disposition = "unrecorded"
      /\ \A c \in {c1, c2} :
           /\ c.pc = "audit" /\ c.op = call[w].op /\ c.lease = call[w].lease
           /\ c.held = call[w].held /\ c.posted = call[w].posted /\ c.touched = call[w].touched
           /\ c.fresh = call[w].fresh /\ c.late = call[w].late
  BY <1>1 DEF CallRecord
<1> HIDE DEF c1, c2
<1>6. call[w].op = "inject"
  BY <1>1, <1>2 DEF Sound, Placed
<1>7. ASSUME NEW c \in {c1, c2}
      PROVE  Held(c, spare, stored, revoked) /\ Placed(c) /\ Sent(c, window, shown)
  BY <1>1, <1>2, <1>5 DEF Sound, Held, Placed, Sent, Early
<1>8. Told(c1) /\ Told(c2)
  BY <1>1, <1>2, <1>5, <1>6 DEF Sound, Told, Whole
<1> QED BY <1>2, <1>3, <1>4, <1>7, <1>8, QuietInv DEF Sound

LEMMA ReadPollInv ==
  ASSUME IInv, NEW w \in Workers, ReadPoll(w)
  PROVE  IInv'
<1> DEFINE h == call[w].held.hwnd
           p == window[h].process
           c == [call[w] EXCEPT !.pc = "readCheck", !.touched = {p}]
<1>1. call[w] \in CallRecord /\ Sound(call[w], window, shown, spare, stored, revoked)
  BY DEF IInv, Typed, Sounds
<1>2. call[w].pc = "read" /\ UNCHANGED <<desktop, leasing>> /\ faults' \in Nat
  BY DEF ReadPoll, ReadOnce, Fault, NoFault, IInv, Typed
<1>3. call[w].posted = 0 /\ call[w].touched = {} /\ call[w].disposition = "none"
  BY <1>1, <1>2 DEF Sound, Sent, Early
<1>4. CASE Refuse(w)
  BY <1>2, <1>3, <1>4, RefusedSound
<1>5. CASE UNCHANGED call
  <2>1. Set(w, call[w])
    BY <1>5 DEF Set, IInv, Typed
  <2> QED BY <1>1, <1>2, <2>1, QuietInv
<1>6. CASE _verify_live_target(h, call[w].held) /\ Set(w, c)
  <2>1. call[w].held \in RuntimeLease /\ p = call[w].held.process /\ p \in Processes
    BY <1>1, <1>2, <1>6 DEF Sound, Held, CallRecord, RuntimeLease, _verify_live_target, Matches
  <2>2. c \in CallRecord
    BY <1>1, <2>1 DEF CallRecord, Positions
  <2>3. /\ c.pc = "readCheck" /\ c.op = call[w].op /\ c.lease = call[w].lease
        /\ c.held = call[w].held /\ c.posted = 0 /\ c.touched = {p}
        /\ c.disposition = "none" /\ c.late = call[w].late
    BY <1>1, <1>3 DEF CallRecord
  <2> HIDE DEF c
  <2>4. Sound(c, window, shown, spare, stored, revoked)
    BY <1>1, <1>2, <2>1, <2>3 DEF Sound, Held, Placed, Sent, Told, Whole, Early
  <2> QED BY <1>2, <1>6, <2>2, <2>4, QuietInv
<1> QED BY <1>4, <1>5, <1>6 DEF ReadPoll, ReadOnce

LEMMA ReadCheckInv ==
  ASSUME IInv, NEW w \in Workers, ReadCheck(w)
  PROVE  IInv'
<1> DEFINE c == [call[w] EXCEPT !.pc = "audit", !.told = "ok", !.left = 0]
<1>1. call[w] \in CallRecord /\ Sound(call[w], window, shown, spare, stored, revoked)
  BY DEF IInv, Typed, Sounds
<1>2. call[w].pc = "readCheck" /\ UNCHANGED <<desktop, leasing>> /\ faults' \in Nat
  BY DEF ReadCheck, IInv, Typed
<1>3. /\ call[w].posted = 0 /\ call[w].touched = {call[w].held.process}
      /\ call[w].disposition = "none" /\ call[w].op = "read"
  BY <1>1, <1>2 DEF Sound, Sent, Placed
<1>4. ~call[w].late
  BY <1>1, <1>2, <1>3 DEF Sound, Held
<1>5. CASE Refuse(w)
  BY <1>2, <1>3, <1>4, <1>5, RefusedSound
<1>6. CASE Set(w, c)
  <2>1. c \in CallRecord
    BY <1>1 DEF CallRecord, Positions
  <2>2. /\ c.pc = "audit" /\ c.told = "ok" /\ c.op = call[w].op /\ c.lease = call[w].lease
        /\ c.held = call[w].held /\ c.posted = 0 /\ c.touched = call[w].touched
        /\ c.disposition = "none" /\ c.late = call[w].late
    BY <1>1, <1>3 DEF CallRecord
  <2> HIDE DEF c
  <2>3. Sound(c, window, shown, spare, stored, revoked)
    BY <1>1, <1>2, <1>3, <2>2 DEF Sound, Held, Placed, Sent, Told, Whole, Early
  <2> QED BY <1>2, <1>6, <2>1, <2>3, QuietInv
<1> QED BY <1>5, <1>6 DEF ReadCheck

LEMMA RecordAuditInv ==
  ASSUME IInv, NEW w \in Workers, _record_audit(w)
  PROVE  IInv'
<1> DEFINE c1 == [call[w] EXCEPT !.pc = "done"]
           c2 == [call[w] EXCEPT !.told = "error"]
           c3 == [call[w] EXCEPT !.told = "raised", !.pc = "done"]
<1>1. call[w] \in CallRecord /\ Sound(call[w], window, shown, spare, stored, revoked)
  BY DEF IInv, Typed, Sounds
<1>2. call[w].pc = "audit" /\ UNCHANGED <<desktop, leasing>> /\ faults' \in Nat
  BY DEF _record_audit, Fault, NoFault, IInv, Typed
<1>3. Set(w, c1) \/ (call[w].told = "ok" /\ Set(w, c2)) \/ Set(w, c3)
  BY DEF _record_audit
<1>4. c1 \in CallRecord /\ c2 \in CallRecord /\ c3 \in CallRecord
  BY <1>1 DEF CallRecord, Positions
<1>5. /\ c1.pc = "done" /\ c2.pc = "audit" /\ c3.pc = "done"
      /\ c1.told = call[w].told /\ c2.told = "error" /\ c3.told = "raised"
      /\ \A c \in {c1, c2, c3} :
           /\ c.op = call[w].op /\ c.lease = call[w].lease /\ c.held = call[w].held
           /\ c.posted = call[w].posted /\ c.touched = call[w].touched
           /\ c.disposition = call[w].disposition /\ c.fresh = call[w].fresh /\ c.late = call[w].late
  BY <1>1, <1>2 DEF CallRecord
<1> HIDE DEF c1, c2, c3
<1>6. ASSUME NEW c \in {c1, c2, c3}
      PROVE  Held(c, spare, stored, revoked) /\ Placed(c) /\ Sent(c, window, shown)
  BY <1>1, <1>2, <1>5 DEF Sound, Held, Placed, Sent, Early
<1>7. Told(c1) /\ Told(c3) /\ (call[w].told = "ok" => Told(c2))
  BY <1>1, <1>2, <1>5 DEF Sound, Told, Whole
<1> QED BY <1>2, <1>3, <1>4, <1>6, <1>7, QuietInv DEF Sound

LEMMA ReturnInv ==
  ASSUME IInv, NEW w \in Workers, Return(w)
  PROVE  IInv'
<1>1. Set(w, Idle) /\ UNCHANGED <<desktop, leasing>> /\ faults' \in Nat
  BY DEF Return, IInv, Typed
<1>2. Idle \in CallRecord /\ Sound(Idle, window, shown, spare, stored, revoked)
  BY IdleSound
<1> QED BY <1>1, <1>2, QuietInv

-----------------------------------------------------------------------------
LEMMA InvNext ==
  ASSUME IInv, [Next]_vars
  PROVE  IInv'
<1>1. ASSUME NEW l \in Leases, _sc_request_lease(l) \/ _sc_request_target_lease(l) PROVE IInv'
  BY <1>1, IssueInv DEF _sc_request_lease, _sc_request_target_lease, resolve
<1>2. ASSUME NEW w \in Workers, Step(w) PROVE IInv'
  <2>1. CASE _sc_inject_text(w)
    BY <2>1, ReadBeforeInv, RouteInv, PostMessageInv, PostFailsInv, VerifyAfterInv, ConfirmReadInv,
       ConfirmCheckInv, PersistInv DEF _sc_inject_text
  <2>2. CASE _sc_read_output(w)
    BY <2>2, ReadPollInv, ReadCheckInv DEF _sc_read_output
  <2> QED BY <1>2, <2>1, <2>2, VerifyLeaseInv, RevokeAuthorityInv, RevokeStoredInv, AuthorizeInv,
             RecordAuditInv, ReturnInv DEF Step
<1>3. ASSUME UNCHANGED vars PROVE IInv'
  BY <1>3 DEF vars, IInv, Typed, Leasing, Sounds
<1> QED BY <1>1, <1>2, <1>3, ReuseInv, ShowInv, EchoInv, TickInv, BeginInv DEF Next

LEMMA Invariance == Spec => []IInv
BY InvInit, InvNext, PTL DEF Spec

(* A plain error of _sc_inject_text means that no message of the payload   *)
(* was posted, or that the ledger holds what became of the whole payload:  *)
(* enqueued_unconfirmed after a failed read-back, delivery_confirmed when  *)
(* only the success record of the call failed; and an exception that       *)
(* escapes from the last record never hides a delivery that was not put to *)
(* the ledger.                                                             *)
THEOREM UnwarnedDeliveriesAreOnRecord == Spec => []RetryHazardOnRecord
<1>1. IInv => RetryHazardOnRecord
  BY DEF IInv, Sounds, Sound, Told, Whole, RetryHazardOnRecord
<1> QED BY <1>1, Invariance, PTL

(* delivery_confirmed and the text of a read come from the process that    *)
(* the lease is bound to, whenever the handle is reused, and the payload   *)
(* was echoed after the call counted its earlier occurrences.              *)
THEOREM ConfirmationMeansDelivery == Spec => []ConfirmedInBoundTarget
<1>1. IInv => ConfirmedInBoundTarget
  BY DEF IInv, Sounds, Sound, Told, Whole, ConfirmedInBoundTarget
<1> QED BY <1>1, Invariance, PTL

(* After _sc_revoke_lease answered, a call that has not verified its lease *)
(* yet never posts or reads, also if it looked the lease up before: the    *)
(* authority was told first, and it is the authority that is asked.        *)
THEOREM RevokedLeasesAreDead == Spec => []NoUseAfterRevoke
<1>1. IInv => NoUseAfterRevoke
  BY DEF IInv, Sounds, Sound, Held, NoUseAfterRevoke
<1> QED BY <1>1, Invariance, PTL
=============================================================================
