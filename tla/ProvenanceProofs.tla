--------------------------- MODULE ProvenanceProofs ---------------------------
(***************************************************************************)
(* Theorems about the provenance service (module Provenance), for any      *)
(* number of workers and requests, any bucket and audit configuration, and *)
(* any number of lost answers, failed writes, crashes and restarts.        *)
(*                                                                         *)
(* The recorder's operators map one state of log, store and recorder to    *)
(* the next.  The first part says what one append may do to such a state   *)
(* (Sound, Extends, InStep); the second carries it through the actions of  *)
(* the service.                                                            *)
(***************************************************************************)
EXTENDS Provenance, FiniteSetTheorems, TLAPS

Content(r) == [id |-> r.id, body |-> r.body]
ReqContent == {NoReq} \cup {Content(r) : r \in Requests}
Kinds == {"open", "reconstructed", "beat", "interrupt", "seal", "agent", "supervisor", "internal", "torn"}
Line == [type : Kinds, seq : Nat, req : ReqContent, seg : Nat, linked : BOOLEAN]
RecorderRecord ==
  [st : {"none", "open", "closed"}, state : {"open", "reconstructed", "interrupted"}, seq : Nat,
   prev : Int, seg : Nat, since : Nat, beat : BOOLEAN]

-----------------------------------------------------------------------------
(* A log and who writes it.                                                *)

Linked(l) == \A n \in DOMAIN l : l[n].linked

(* Sequence numbers do not fall along a linked log, and no two lines carry *)
(* one request.                                                            *)
Kept(l) ==
  /\ Linked(l) => \A m, n \in DOMAIN l : m <= n => l[m].seq <= l[n].seq
  /\ \A m, n \in DOMAIN l : l[m].req # NoReq /\ l[m].req.id = l[n].req.id => m = n

(* A recorder that believes in the last line knows its number.             *)
Follows(l, r) == r.prev <= Len(l) /\ (r.prev = Len(l) /\ l # <<>> => l[Len(l)].seq <= r.seq)

(* While the log is linked, its recorder wrote the last line, and no       *)
(* forgotten recorder could still write a linked one.                      *)
Leads(l, r, other) == Linked(l) => other.prev < Len(l) /\ \A n \in DOMAIN l : l[n].seq <= r.seq

(* The recorder continues the chain of the log, as it does until a local   *)
(* write fails, and its counter is that of the last line, as it is until a *)
(* local write or a signature fails.                                       *)
InStep(l, r) == VerifyChain(l) /\ r.prev = Len(l)
Level(l, r) == l # <<>> => r.seq = l[Len(l)].seq

(* A state of the recorder's operators.                                    *)
State(s) ==
  s \in [rec : RecorderRecord, log : Seq(Line), pushed : SUBSET Nat, seals : {s.seals}, raised : BOOLEAN]

Sound(s) == State(s) /\ Kept(s.log) /\ Follows(s.log, s.rec)

Extends(s, t) ==
  /\ t.rec.st = s.rec.st /\ t.rec.state = s.rec.state /\ t.rec.beat = s.rec.beat
  /\ s.rec.seq <= t.rec.seq
  /\ Len(s.log) <= Len(t.log) /\ \A n \in DOMAIN s.log : t.log[n] = s.log[n]
  /\ \A n \in DOMAIN t.log \ DOMAIN s.log : t.log[n].seq <= t.rec.seq
  /\ s.pushed \subseteq t.pushed

StepsIn(s, t) == InStep(s.log, s.rec) => InStep(t.log, t.rec)
LevelIn(s, t) == Level(s.log, s.rec) => Level(t.log, t.rec)

(* The new lines carry request r, or none.                                 *)
Names(s, t, r) == \A n \in DOMAIN t.log \ DOMAIN s.log : t.log[n].req \in {NoReq, r}

(* Line n is where the audit configuration wants a committed line to be.   *)
Replicated(n, store) == Mode = "military" \/ config.sink = "file" => n \in store

(* build_provenance_recorder let the recorder start.                       *)
Built == config.audit = "government" => config.sink \in Immutable

(* The line an append writes.                                              *)
NextLine(s, type, r) ==
  [type |-> type, seq |-> s.rec.seq + 1, req |-> r, seg |-> s.rec.seg, linked |-> s.rec.prev = Len(s.log)]

(* What happened to one line: it was not written whole, or its file was    *)
(* left as an append leaves it, or the counter was as well.                *)
Unwritten == {"sign", "disk", "torn"}
Whole(o) == o \notin LocalFaults
Counts(o) == o \notin LocalFaults \cup {"sign"}

LEMMA Contents ==
  /\ NoReq \in ReqContent /\ NoReq.id = ""
  /\ \A r \in Requests : Content(r) \in ReqContent /\ Content(r).id = r.id /\ Content(r).body = r.body
                        /\ r.id # "" /\ Content(r) # NoReq
<1>1. NoReq \in ReqContent /\ NoReq.id = ""
  BY DEF NoReq, ReqContent
<1>2. ASSUME NEW r \in Requests
      PROVE  Content(r) \in ReqContent /\ Content(r).id = r.id /\ Content(r).body = r.body
    BY DEF Content, ReqContent
<1>3. \A r \in Requests : r.id # ""
  BY ProvenanceConstants
<1> QED BY <1>1, <1>2, <1>3

LEMMA Answers == \A s, e : Answer(s, e).s = s /\ Answer(s, e).error = e
BY DEF Answer

LEMMA LogLines ==
  ASSUME NEW l \in Seq(Line)
  PROVE  /\ Len(l) \in Nat /\ DOMAIN l = 1..Len(l) /\ (l = <<>> <=> Len(l) = 0)
         /\ \A n \in DOMAIN l : l[n] \in Line /\ l[n].seq \in Nat /\ l[n].req \in ReqContent /\ n \in Nat
<1>1. Len(l) \in Nat /\ DOMAIN l = 1..Len(l) /\ (l = <<>> <=> Len(l) = 0)
  OBVIOUS
<1>2. \A n \in DOMAIN l : l[n] \in Line
  OBVIOUS
<1>3. \A x \in Line : x.seq \in Nat /\ x.req \in ReqContent
  BY DEF Line
<1> QED BY <1>1, <1>2, <1>3

LEMMA AppendedLine ==
  ASSUME NEW l \in Seq(Line), NEW x \in Line
  PROVE  /\ Append(l, x) \in Seq(Line) /\ Len(Append(l, x)) = Len(l) + 1 /\ Len(l) \in Nat
         /\ Append(l, x)[Len(l) + 1] = x /\ \A n \in DOMAIN l : Append(l, x)[n] = l[n]
         /\ DOMAIN Append(l, x) = DOMAIN l \cup {Len(l) + 1} /\ Len(l) + 1 \notin DOMAIN l
OBVIOUS

LEMMA FragmentTyped == Fragment \in Line /\ Fragment.seq = 0 /\ Fragment.req = NoReq /\ ~Fragment.linked
BY DEF Fragment, Line, Kinds, ReqContent

(* A torn line leaves a log that verifies nowhere, and spoils nothing else.*)
LEMMA TornLine ==
  ASSUME NEW l \in Seq(Line)
  PROVE  LET m == Append(l, Fragment)
         IN /\ m \in Seq(Line) /\ Len(m) = Len(l) + 1 /\ Len(l) \in Nat
            /\ DOMAIN m = DOMAIN l \cup {Len(l) + 1} /\ \A n \in DOMAIN l : m[n] = l[n]
            /\ m[Len(l) + 1].seq = 0 /\ m[Len(l) + 1].req = NoReq
            /\ ~Linked(m) /\ ~VerifyChain(m) /\ (Kept(l) => Kept(m))
<1> DEFINE m == Append(l, Fragment)
           k == Len(l) + 1
<1>1. /\ m \in Seq(Line) /\ Len(m) = k /\ Len(l) \in Nat /\ m[k] = Fragment
      /\ \A n \in DOMAIN l : m[n] = l[n]
      /\ DOMAIN m = DOMAIN l \cup {k} /\ k \notin DOMAIN l
  BY FragmentTyped, AppendedLine
<1> HIDE DEF m, k
<1>2. m[k].seq = 0 /\ m[k].req = NoReq /\ ~m[k].linked /\ k \in DOMAIN m
  BY <1>1, FragmentTyped
<1>3. ~Linked(m) /\ ~VerifyChain(m)
  BY <1>2 DEF Linked, VerifyChain
<1>4. ASSUME Kept(l), NEW i \in DOMAIN m, NEW j \in DOMAIN m, m[i].req # NoReq, m[i].req.id = m[j].req.id
      PROVE  i = j
  <2>1. i \in DOMAIN l
    BY <1>1, <1>2, <1>4
  <2>2. \A q \in ReqContent : q # NoReq => q.id # NoReq.id
    BY Contents DEF ReqContent
  <2>3. m[i].req \in ReqContent
    BY <1>1, LogLines
  <2>4. j # k
    BY <1>2, <1>4, <2>2, <2>3
  <2>5. j \in DOMAIN l
    BY <1>1, <2>4
  <2> QED BY <1>1, <1>4, <2>1, <2>5 DEF Kept
<1>5. Kept(l) => Kept(m)
  BY <1>3, <1>4 DEF Kept
<1> QED BY <1>1, <1>2, <1>3, <1>5 DEF m, k

LEMMA ExtendsTransitive ==
  ASSUME NEW s, NEW t, NEW u, State(s), State(t), State(u), Extends(s, t), Extends(t, u)
  PROVE  Extends(s, u)
<1>1. s.rec.seq \in Nat /\ t.rec.seq \in Nat /\ u.rec.seq \in Nat
  BY DEF State, RecorderRecord
<1>2. s.rec.seq <= u.rec.seq /\ Len(s.log) <= Len(u.log)
  BY <1>1, LogLines DEF State, Extends
<1>3. DOMAIN s.log \subseteq DOMAIN t.log
  BY LogLines DEF State, Extends
<1>4. \A n \in DOMAIN s.log : u.log[n] = s.log[n]
  BY <1>3 DEF Extends
<1>5. ASSUME NEW n \in DOMAIN u.log \ DOMAIN s.log PROVE u.log[n].seq <= u.rec.seq
  <2>1. CASE n \in DOMAIN t.log
    <3>1. u.log[n] = t.log[n] /\ t.log[n].seq <= t.rec.seq /\ t.rec.seq <= u.rec.seq
      BY <2>1 DEF Extends
    <3>2. u.log[n].seq \in Nat
      BY LogLines DEF State
    <3> QED BY <1>1, <3>1, <3>2
  <2>2. CASE n \notin DOMAIN t.log
    BY <2>2 DEF Extends
  <2> QED BY <2>1, <2>2
<1> QED BY <1>2, <1>4, <1>5 DEF Extends

-----------------------------------------------------------------------------
(* Replication: it adds to the store and leaves the recorder alone; a     *)
(* receipt that is cut off leaves a fragment at the end of the log.        *)

LEMMA Pushed ==
  ASSUME NEW s, State(s), NEW n \in Nat, NEW o, config \in Deployments
  PROVE  LET a == Push(s, n, o)
         IN /\ State(a.s) /\ a.s.rec = s.rec /\ a.s.log = s.log /\ a.s.raised = s.raised
            /\ s.pushed \subseteq a.s.pushed
            /\ config.sink \in Immutable => a.error \in {"", "fork", "replication"}
            /\ config.sink = "file" => a.error \in {"", "os"}
            /\ a.error = "" /\ config.sink \in Immutable \cup {"file"} => n \in a.s.pushed
<1> DEFINE a == Push(s, n, o)
           p(u) == [u EXCEPT !.pushed = @ \cup {n}]
           x == [s EXCEPT !.seals = (s.log[n].seg :> n) @@ @]
<1> SUFFICES /\ State(a.s) /\ a.s.rec = s.rec /\ a.s.log = s.log /\ a.s.raised = s.raised
             /\ s.pushed \subseteq a.s.pushed
             /\ config.sink \in Immutable => a.error \in {"", "fork", "replication"}
             /\ config.sink = "file" => a.error \in {"", "os"}
             /\ a.error = "" /\ config.sink \in Immutable \cup {"file"} => n \in a.s.pushed
  OBVIOUS
<1>1. ASSUME NEW u, State(u)
      PROVE  State(p(u)) /\ p(u).rec = u.rec /\ p(u).log = u.log /\ p(u).raised = u.raised
             /\ p(u).pushed = u.pushed \cup {n}
  BY <1>1 DEF State
<1>2. ASSUME NEW z
      PROVE  LET v == [s EXCEPT !.seals = z]
             IN State(v) /\ v.rec = s.rec /\ v.log = s.log /\ v.raised = s.raised /\ v.pushed = s.pushed
  BY DEF State
<1>3. State(x) /\ x.rec = s.rec /\ x.log = s.log /\ x.raised = s.raised /\ x.pushed = s.pushed
  <2>1. x = [s EXCEPT !.seals = (s.log[n].seg :> n) @@ s.seals]
    BY DEF State
  <2> QED BY <1>2, <2>1
<1>4. config.sink \in {"none", "memory", "file", "s3", "r2"}
  BY ProvenanceConstants
<1>5. CASE config.sink \in Immutable
  <2> DEFINE i == SealIndexed(s, n, o)
  <2>1. a = PushRecord(s, n, o)
    BY <1>5 DEF Push, Immutable
  <2>2. i = Answer(s, "") \/ i = Answer(s, "fork") \/ i = Answer(s, "replication") \/ i = Answer(x, "")
    BY DEF SealIndexed
  <2>3. a = IF i.error # "" THEN i ELSE IF o = "push" THEN Answer(i.s, "replication") ELSE Answer(p(i.s), "")
    BY <2>1 DEF PushRecord
  <2> HIDE DEF i, a, x
  <2>4. (i.s = s \/ i.s = x) /\ (i.error = "" \/ i.error = "fork" \/ i.error = "replication")
    <3>1. CASE i = Answer(s, "")
      BY <3>1, Answers
    <3>2. CASE i = Answer(s, "fork")
      BY <3>2, Answers
    <3>3. CASE i = Answer(s, "replication")
      BY <3>3, Answers
    <3>4. CASE i = Answer(x, "")
      BY <3>4, Answers
    <3> QED BY <2>2, <3>1, <3>2, <3>3, <3>4
  <2>5. \/ a = i /\ i.error # ""
        \/ a.s = i.s /\ a.error = "replication"
        \/ a.s = p(i.s) /\ a.error = ""
    BY <2>3, Answers
  <2>6. State(i.s) /\ i.s.rec = s.rec /\ i.s.log = s.log /\ i.s.raised = s.raised /\ i.s.pushed = s.pushed
    BY <1>3, <2>4
  <2>7. State(p(i.s)) /\ p(i.s).rec = s.rec /\ p(i.s).log = s.log /\ p(i.s).raised = s.raised
        /\ p(i.s).pushed = s.pushed \cup {n}
    BY <1>1, <2>6
  <2> HIDE DEF p
  <2> QED BY <1>5, <2>4, <2>5, <2>6, <2>7 DEF Immutable
<1>6. CASE config.sink = "file"
  <2>1. a = IF o = "push" THEN Answer(s, "os") ELSE Answer(p(s), "")
    BY <1>6 DEF Push, FilePush, Immutable
  <2> HIDE DEF a
  <2>2. (a.s = s /\ a.error = "os") \/ (a.s = p(s) /\ a.error = "")
    BY <2>1, Answers
  <2>3. State(p(s)) /\ p(s).rec = s.rec /\ p(s).log = s.log /\ p(s).raised = s.raised
             /\ p(s).pushed = s.pushed \cup {n}
    BY <1>1
  <2> HIDE DEF p
  <2> QED BY <1>6, <2>2, <2>3 DEF Immutable
<1>7. CASE config.sink \in {"none", "memory"}
  <2>1. a = Answer(s, "")
    BY <1>7 DEF Push, MemoryPush, Immutable
  <2> QED BY <1>7, <2>1, Answers DEF Immutable
<1> QED BY <1>4, <1>5, <1>6, <1>7 DEF Immutable

LEMMA ReplicateShape ==
  ASSUME NEW s, State(s), NEW n \in Nat, NEW o, config \in Deployments
  PROVE  LET t == Replicate(s, n, o)
         IN /\ State(t) /\ t.rec = s.rec /\ s.pushed \subseteq t.pushed
            /\ t.log = s.log \/ (o = "tornack" /\ t.log = Append(s.log, Fragment))
            /\ Built /\ ~t.raised => Replicated(n, t.pushed)
<1> DEFINE a == Push(s, n, o)
           receipt == config.sink # "none" /\ a.error = ""
           e == \/ a.error \in {"fork", "os"}
                \/ a.error = "replication" /\ Mode = "military"
                \/ receipt /\ o \in {"ack", "tornack"} /\ Mode = "military"
           l == IF receipt /\ o = "tornack" THEN Append(a.s.log, Fragment) ELSE a.s.log
           t == Replicate(s, n, o)
<1>1. /\ State(a.s) /\ a.s.rec = s.rec /\ a.s.log = s.log /\ a.s.raised = s.raised
      /\ s.pushed \subseteq a.s.pushed
      /\ config.sink \in Immutable => a.error \in {"", "fork", "replication"}
      /\ config.sink = "file" => a.error \in {"", "os"}
      /\ a.error = "" /\ config.sink \in Immutable \cup {"file"} => n \in a.s.pushed
  BY Pushed
<1>2. t = [a.s EXCEPT !.log = l, !.raised = e]
  BY <1>1 DEF Replicate, State
<1>3. e \in BOOLEAN
  OBVIOUS
<1> HIDE DEF a, t
<1>4. l \in Seq(Line) /\ (l = s.log \/ (o = "tornack" /\ l = Append(s.log, Fragment)))
  BY <1>1, TornLine DEF State
<1>5. /\ State(t) /\ t.rec = a.s.rec /\ t.log = l /\ t.pushed = a.s.pushed /\ t.raised = e
  <2> HIDE DEF e, l
  <2> QED BY <1>1, <1>2, <1>3, <1>4 DEF State
<1>6. ASSUME Built, ~e, Mode = "military" \/ config.sink = "file" PROVE n \in a.s.pushed
  <2>1. config.audit = "government" => config.sink \in Immutable
    BY <1>6 DEF Built
  <2>2. Mode = "military" => config.audit = "government"
    BY DEF Mode
  <2>3. a.error = ""
    BY <1>1, <1>6, <2>1, <2>2
  <2> QED BY <1>1, <1>6, <2>1, <2>2, <2>3
<1> HIDE DEF e, l
<1>7. Built /\ ~t.raised => Replicated(n, t.pushed)
  BY <1>5, <1>6 DEF Replicated
<1> QED BY <1>1, <1>4, <1>5, <1>7 DEF t

-----------------------------------------------------------------------------
(* One record: a failed signature or write leaves the recorder behind or   *)
(* lost and at most a fragment in the log; anything else appends the line, *)
(* with a fragment after it when its receipt was cut off.                  *)

LEMMA ChainShape ==
  ASSUME NEW s, State(s), NEW type \in Kinds, NEW r \in ReqContent, NEW o, config \in Deployments
  PROVE  LET t == Chain(s, type, r, o)
             n == Len(s.log) + 1
             lines == Append(s.log, NextLine(s, type, r))
         IN /\ State(t) /\ s.pushed \subseteq t.pushed
            /\ t.rec.st = s.rec.st /\ t.rec.state = s.rec.state /\ t.rec.beat = s.rec.beat
            /\ t.rec.seq = s.rec.seq + 1
            /\ o \in Unwritten =>
                 /\ t.raised
                 /\ \/ o = "sign" /\ t.log = s.log /\ t.rec.prev = s.rec.prev
                    \/ t.rec.prev = Lost /\ o # "sign" /\ (t.log = s.log \/ t.log = Append(s.log, Fragment))
            /\ o \notin Unwritten =>
                 /\ t.rec.prev = n
                 /\ t.log = lines \/ (o = "tornack" /\ t.log = Append(lines, Fragment))
                 /\ Built /\ ~t.raised => Replicated(n, t.pushed)
<1> DEFINE t == Chain(s, type, r, o)
           line == NextLine(s, type, r)
           n == Len(s.log) + 1
           lines == Append(s.log, line)
           R(p) == [s.rec EXCEPT !.seq = s.rec.seq + 1, !.prev = p]
           F(p, l) == [s EXCEPT !.rec = R(p), !.log = l, !.raised = TRUE]
           w == [s EXCEPT !.rec = R(n), !.log = lines]
<1>1. s.rec \in RecorderRecord /\ s.log \in Seq(Line) /\ s.rec.seq \in Nat /\ n \in Nat
      /\ s.rec.prev \in Int /\ s.rec.seg \in Nat /\ s.rec.seq + 1 \in Nat
  BY LogLines DEF State, RecorderRecord
<1>2. line \in Line
  BY <1>1 DEF NextLine, Line
<1>3. lines \in Seq(Line) /\ Append(s.log, Fragment) \in Seq(Line)
  BY <1>1, <1>2, TornLine
<1>4. ASSUME NEW p \in Int
      PROVE  /\ R(p) \in RecorderRecord /\ R(p).seq = s.rec.seq + 1 /\ R(p).prev = p /\ R(p).st = s.rec.st
             /\ R(p).state = s.rec.state /\ R(p).beat = s.rec.beat
  <2> DEFINE q == s.rec.seq + 1
  <2>1. q \in Nat
    BY <1>1
  <2>2. R(p) = [s.rec EXCEPT !.seq = q, !.prev = p]
    OBVIOUS
  <2> HIDE DEF R, q
  <2>3. R(p) \in RecorderRecord
    BY <1>1, <2>1, <2>2 DEF RecorderRecord
  <2>4. R(p).seq = q /\ R(p).prev = p /\ R(p).st = s.rec.st /\ R(p).state = s.rec.state /\ R(p).beat = s.rec.beat
    BY <1>1, <2>2 DEF RecorderRecord
  <2> QED BY <2>3, <2>4 DEF q
<1>5. Lost \in Int
  BY DEF Lost
<1> HIDE DEF R
<1>6. ASSUME NEW p \in Int, NEW l \in Seq(Line)
      PROVE  State(F(p, l)) /\ F(p, l).rec = R(p) /\ F(p, l).log = l /\ F(p, l).pushed = s.pushed /\ F(p, l).raised
  BY <1>4 DEF State
<1> HIDE DEF F
<1>7. ASSUME NEW p, NEW l
      PROVE  [s EXCEPT !.rec.seq = @ + 1, !.rec.prev = p, !.log = l, !.raised = TRUE] = F(p, l)
  BY DEF F, R, State
<1>8. [s EXCEPT !.rec.seq = @ + 1, !.rec.prev = n, !.log = Append(@, line)] = w
  BY DEF R, State
<1>9. CASE o = "sign"
  <2>1. t = F(s.rec.prev, s.log)
    BY <1>7, <1>9 DEF Chain
  <2> HIDE DEF t
  <2> QED BY <1>1, <1>4, <1>6, <1>9, <2>1 DEF Unwritten, t
<1>10. CASE o = "disk"
  <2>1. t = F(Lost, s.log)
    BY <1>7, <1>10 DEF Chain
  <2> HIDE DEF t
  <2> QED BY <1>1, <1>4, <1>5, <1>6, <1>10, <2>1 DEF Unwritten, t
<1>11. CASE o = "torn"
  <2>1. t = F(Lost, Append(s.log, Fragment))
    BY <1>7, <1>11 DEF Chain
  <2> HIDE DEF t
  <2>2. State(t) /\ t.rec = R(Lost) /\ t.log = Append(s.log, Fragment) /\ t.pushed = s.pushed /\ t.raised
    BY <1>3, <1>5, <1>6, <2>1
  <2>3. o \in Unwritten /\ o # "sign"
    BY <1>11 DEF Unwritten
  <2> HIDE DEF lines, n
  <2> QED BY <1>4, <1>5, <2>2, <2>3 DEF t, lines, n
<1>12. CASE o = "sync"
  <2>1. t = F(n, lines)
    BY <1>7, <1>12 DEF Chain, NextLine
  <2> HIDE DEF t, lines, n
  <2>2. n \in Int
    BY <1>1
  <2>3. State(t) /\ t.rec = R(n) /\ t.log = lines /\ t.pushed = s.pushed /\ t.raised
    BY <1>3, <1>6, <2>1, <2>2
  <2>4. o \notin Unwritten
    BY <1>12 DEF Unwritten
  <2>5. /\ State(t) /\ s.pushed \subseteq t.pushed
        /\ t.rec.st = s.rec.st /\ t.rec.state = s.rec.state /\ t.rec.beat = s.rec.beat
        /\ t.rec.seq = s.rec.seq + 1 /\ t.rec.prev = n /\ t.log = lines /\ t.raised
    BY <1>4, <2>2, <2>3
  <2> QED BY <2>4, <2>5 DEF t, n, lines
<1>13. CASE o \notin Unwritten \cup {"sync"}
  <2>1. t = Replicate(w, n, o)
    BY <1>8, <1>13 DEF Chain, NextLine, Unwritten
  <2> HIDE DEF t, lines, n
  <2>2. n \in Int /\ n \in Nat
    BY <1>1
  <2>3. /\ State(w) /\ w.log = lines /\ w.pushed = s.pushed /\ w.rec = R(n)
    BY <1>3, <1>4, <2>2 DEF State
  <2> HIDE DEF w
  <2>4. /\ State(t) /\ t.rec = w.rec /\ w.pushed \subseteq t.pushed
        /\ t.log = w.log \/ (o = "tornack" /\ t.log = Append(w.log, Fragment))
        /\ Built /\ ~t.raised => Replicated(n, t.pushed)
    BY <2>1, <2>2, <2>3, ReplicateShape
  <2>5. o \notin Unwritten
    BY <1>13
  <2>6. /\ s.pushed \subseteq t.pushed
        /\ t.rec.st = s.rec.st /\ t.rec.state = s.rec.state /\ t.rec.beat = s.rec.beat
        /\ t.rec.seq = s.rec.seq + 1 /\ t.rec.prev = n
        /\ t.log = lines \/ (o = "tornack" /\ t.log = Append(lines, Fragment))
    BY <1>4, <2>2, <2>3, <2>4
  <2> QED BY <2>4, <2>5, <2>6 DEF t, n, lines
<1> HIDE DEF t, lines, n
<1> QED BY <1>9, <1>10, <1>11, <1>12, <1>13 DEF Unwritten

(* What may be written: nothing of a request, or the content its agent     *)
(* signed, of a request no line carries yet.                               *)
May(s, type, r) ==
  /\ type \in Kinds
  /\ \/ r = NoReq
     \/ \E q \in Requests : r = Content(q) /\ type = q.event /\ \A n \in DOMAIN s.log : s.log[n].req.id # q.id

Advances(s, t, r, c, d) ==
  /\ Sound(t) /\ Extends(s, t) /\ Names(s, t, r)
  /\ c => StepsIn(s, t)
  /\ d => LevelIn(s, t)

(* The line of an append, as far as the file keeps what it is given.       *)
LEMMA LineAppended ==
  ASSUME NEW s, Sound(s), NEW type, NEW r, May(s, type, r)
  PROVE  LET line == NextLine(s, type, r)
             l == Append(s.log, line)
             n == Len(s.log) + 1
         IN /\ l \in Seq(Line) /\ Len(l) = n /\ DOMAIN l = DOMAIN s.log \cup {n} /\ n \notin DOMAIN s.log
            /\ \A m \in DOMAIN s.log : l[m] = s.log[m]
            /\ l[n] = line /\ line.seq = s.rec.seq + 1 /\ line.req = r
            /\ n \in Nat /\ s.rec.seq \in Nat /\ s.rec.prev \in Int /\ s.log \in Seq(Line) /\ l # <<>>
            /\ Kept(l) /\ (InStep(s.log, s.rec) => VerifyChain(l))
<1> DEFINE line == NextLine(s, type, r)
           l == Append(s.log, line)
           n == Len(s.log) + 1
<1>1. type \in Kinds /\ r \in ReqContent
  BY Contents DEF May
<1>3. s.log \in Seq(Line) /\ s.rec.seq \in Nat /\ s.rec.prev \in Int /\ s.rec.seg \in Nat
      /\ n \in Nat /\ Len(s.log) \in Nat
  BY LogLines DEF Sound, State, RecorderRecord
<1>4. line \in Line /\ line.seq = s.rec.seq + 1 /\ line.req = r /\ line.type = type
      /\ line.linked = (s.rec.prev = Len(s.log))
  BY <1>1, <1>3 DEF NextLine, Line
<1>5. Kept(s.log) /\ Follows(s.log, s.rec)
  BY DEF Sound
<1> HIDE DEF line, n, l
<1>6. /\ l \in Seq(Line) /\ Len(l) = n /\ l[n] = line /\ (\A m \in DOMAIN s.log : l[m] = s.log[m])
      /\ DOMAIN l = DOMAIN s.log \cup {n} /\ n \notin DOMAIN s.log /\ n = Len(s.log) + 1 /\ l # <<>>
  <3>2. n = Len(s.log) + 1
    BY DEF n
  <3>3. l \in Seq(Line) /\ Len(l) = n /\ l[n] = line
        /\ (\A m \in DOMAIN s.log : l[m] = s.log[m])
        /\ DOMAIN l = DOMAIN s.log \cup {n} /\ n \notin DOMAIN s.log
    BY <1>3, <1>4, <3>2, AppendedLine DEF l
  <3>4. l # <<>>
    BY <1>3, <3>2, <3>3, LogLines
  <3> QED BY <3>2, <3>3, <3>4
<1>7. \A m \in DOMAIN s.log : s.log[m].seq \in Nat /\ s.log[m].req \in ReqContent /\ m \in Nat /\ m < n
  BY <1>3, <1>6, LogLines
<1>8. ASSUME Linked(l)
      PROVE  \A m \in DOMAIN s.log : s.log[m].seq <= s.rec.seq
  <3>1. Linked(s.log) /\ s.rec.prev = Len(s.log)
    BY <1>4, <1>6, <1>8 DEF Linked
  <3>2. s.log # <<>> => s.log[Len(s.log)].seq <= s.rec.seq
    BY <1>5, <3>1 DEF Follows
  <3>3. \A i, j \in DOMAIN s.log : i <= j => s.log[i].seq <= s.log[j].seq
    BY <1>5, <3>1 DEF Kept
  <3> SUFFICES ASSUME NEW m \in DOMAIN s.log PROVE s.log[m].seq <= s.rec.seq
    OBVIOUS
  <3>4. Len(s.log) \in DOMAIN s.log /\ m <= Len(s.log) /\ s.log # <<>>
    BY <1>3, LogLines
  <3>5. s.log[m].seq <= s.log[Len(s.log)].seq /\ s.log[Len(s.log)].seq <= s.rec.seq
    BY <3>2, <3>3, <3>4
  <3> QED BY <1>3, <1>7, <3>4, <3>5
<1>9. ASSUME Linked(l), NEW i \in DOMAIN l, NEW j \in DOMAIN l, i <= j
      PROVE  l[i].seq <= l[j].seq
  <3>1. CASE j \in DOMAIN s.log
    <4>1. i \in DOMAIN s.log /\ Linked(s.log)
      BY <1>3, <1>6, <1>7, <1>9, <3>1 DEF Linked
    <4> QED BY <1>5, <1>6, <1>9, <3>1, <4>1 DEF Kept
  <3>2. CASE j = n
    <4>1. CASE i = n
      BY <1>3, <1>4, <1>6, <3>2, <4>1
    <4>2. CASE i \in DOMAIN s.log
      BY <1>3, <1>4, <1>6, <1>7, <1>8, <1>9, <3>2, <4>2
    <4> QED BY <1>6, <4>1, <4>2
  <3> QED BY <1>6, <3>1, <3>2
<1>10. ASSUME NEW m \in DOMAIN s.log
       PROVE  /\ line.req # NoReq => line.req.id # s.log[m].req.id
              /\ s.log[m].req # NoReq => line.req.id # s.log[m].req.id
  <3>1. CASE r = NoReq
    <4>1. s.log[m].req # NoReq => s.log[m].req.id # ""
      <5>1. s.log[m].req = NoReq \/ \E q \in Requests : s.log[m].req = Content(q)
        BY <1>7 DEF ReqContent
      <5> QED BY <5>1, Contents
    <4> QED BY <1>4, <3>1, <4>1, Contents
  <3>2. CASE r # NoReq
    BY <1>4, <3>2, Contents DEF May
  <3> QED BY <3>1, <3>2
<1>11. ASSUME NEW i \in DOMAIN l, NEW j \in DOMAIN l, l[i].req # NoReq, l[i].req.id = l[j].req.id
       PROVE  i = j
  <3>1. CASE i \in DOMAIN s.log /\ j \in DOMAIN s.log
    BY <1>5, <1>6, <1>11, <3>1 DEF Kept
  <3>2. CASE i \in DOMAIN s.log /\ j = n
    BY <1>6, <1>10, <1>11, <3>2
  <3>3. CASE i = n /\ j \in DOMAIN s.log
    BY <1>6, <1>10, <1>11, <3>3
  <3> QED BY <1>6, <3>1, <3>2, <3>3
<1>12. Kept(l)
  BY <1>9, <1>11 DEF Kept
<1>13. ASSUME InStep(s.log, s.rec) PROVE VerifyChain(l)
  <3>1. line.linked /\ Attested(line)
    BY <1>4, <1>13, Contents DEF InStep, Attested, May, Content
  <3> QED BY <1>6, <1>13, <3>1 DEF InStep, VerifyChain
<1> QED BY <1>3, <1>4, <1>6, <1>12, <1>13 DEF line, l, n

LEMMA ChainSound ==
  ASSUME NEW s, Sound(s), NEW type, NEW r, May(s, type, r), NEW o, config \in Deployments
  PROVE  Advances(s, Chain(s, type, r, o), r, Whole(o), Counts(o))
<1> DEFINE t == Chain(s, type, r, o)
           line == NextLine(s, type, r)
           l == Append(s.log, line)
           n == Len(s.log) + 1
<1>1. type \in Kinds /\ r \in ReqContent
  BY Contents DEF May
<1>2. /\ State(t) /\ s.pushed \subseteq t.pushed
      /\ t.rec.st = s.rec.st /\ t.rec.state = s.rec.state /\ t.rec.beat = s.rec.beat
      /\ t.rec.seq = s.rec.seq + 1
      /\ o \in Unwritten =>
           \/ o = "sign" /\ t.log = s.log /\ t.rec.prev = s.rec.prev
           \/ t.rec.prev = Lost /\ o # "sign" /\ (t.log = s.log \/ t.log = Append(s.log, Fragment))
      /\ o \notin Unwritten =>
           t.rec.prev = n /\ (t.log = l \/ (o = "tornack" /\ t.log = Append(l, Fragment)))
  BY <1>1, ChainShape DEF Sound
<1>3. /\ l \in Seq(Line) /\ Len(l) = n /\ DOMAIN l = DOMAIN s.log \cup {n} /\ n \notin DOMAIN s.log
      /\ \A m \in DOMAIN s.log : l[m] = s.log[m]
      /\ l[n] = line /\ line.seq = s.rec.seq + 1 /\ line.req = r
      /\ n \in Nat /\ s.rec.seq \in Nat /\ s.rec.prev \in Int /\ s.log \in Seq(Line) /\ l # <<>>
      /\ Kept(l) /\ (InStep(s.log, s.rec) => VerifyChain(l))
  BY LineAppended
<1>4. Kept(s.log) /\ Follows(s.log, s.rec) /\ State(s) /\ Len(s.log) \in Nat /\ n = Len(s.log) + 1
  BY <1>3, LogLines DEF Sound
<1> HIDE DEF t, line, l, n
<1>5. CASE t.log = s.log
  <2>1. o \in Unwritten /\ (t.rec.prev = Lost \/ t.rec.prev = s.rec.prev)
    <3>1. l # s.log /\ Len(Append(l, Fragment)) = n + 1
      BY <1>3, <1>4, TornLine
    <3> QED BY <1>2, <1>3, <1>4, <1>5, <3>1
  <2>2. Follows(t.log, t.rec)
    <3>1. s.log # <<>> => s.log[Len(s.log)].seq \in Nat
      BY <1>3, LogLines
    <3> QED BY <1>2, <1>3, <1>4, <1>5, <2>1, <3>1 DEF Follows, Lost
  <2>3. Extends(s, t) /\ Names(s, t, r)
    BY <1>2, <1>3, <1>4, <1>5 DEF Extends, Names
  <2>4. Whole(o) => StepsIn(s, t)
    BY <1>2, <1>5, <2>1 DEF Whole, LocalFaults, Unwritten, StepsIn, InStep
  <2>5. ~Counts(o)
    BY <2>1 DEF Counts, LocalFaults, Unwritten
  <2> QED BY <1>2, <1>4, <1>5, <2>2, <2>3, <2>4, <2>5 DEF Advances, Sound, t
<1>6. CASE t.log = l
  <2>1. CASE o \in Unwritten
    <3>1. t.log = Append(s.log, Fragment) /\ t.rec.prev = Lost /\ ~Whole(o) /\ ~Counts(o)
      <4>1. l # s.log
        BY <1>3, <1>4
      <4> QED BY <1>2, <1>6, <2>1, <4>1 DEF Whole, Counts, LocalFaults, Unwritten
    <3>2. Follows(t.log, t.rec)
      BY <1>3, <1>4, <1>6, <3>1 DEF Follows, Lost
    <3>3. Extends(s, t) /\ Names(s, t, r)
      BY <1>2, <1>3, <1>4, <1>6 DEF Extends, Names
    <3> QED BY <1>2, <1>3, <1>6, <3>1, <3>2, <3>3 DEF Advances, Sound, t
  <2>2. CASE o \notin Unwritten
    <3>1. t.rec.prev = n
      BY <1>2, <2>2
    <3>2. Follows(t.log, t.rec)
      BY <1>2, <1>3, <1>6, <3>1 DEF Follows
    <3>3. Extends(s, t) /\ Names(s, t, r)
      BY <1>2, <1>3, <1>4, <1>6 DEF Extends, Names
    <3>4. StepsIn(s, t) /\ LevelIn(s, t)
      BY <1>2, <1>3, <1>6, <3>1 DEF StepsIn, InStep, LevelIn, Level
    <3> QED BY <1>2, <1>3, <1>6, <3>2, <3>3, <3>4 DEF Advances, Sound, t
  <2> QED BY <2>1, <2>2
<1>7. CASE t.log = Append(s.log, Fragment) /\ t.log # l
  <2>1. o \in Unwritten /\ t.rec.prev = Lost /\ ~Whole(o) /\ ~Counts(o)
    <3>1. Len(Append(s.log, Fragment)) = n /\ Len(Append(l, Fragment)) = n + 1 /\ Len(s.log) # n
      <4>1. Len(Append(s.log, Fragment)) = n /\ Len(s.log) # n
        BY <1>3, <1>4, FragmentTyped, AppendedLine
      <4>2. Len(Append(l, Fragment)) = n + 1
        BY <1>3, FragmentTyped, AppendedLine
      <4> QED BY <4>1, <4>2
    <3>2. t.log # Append(l, Fragment) /\ t.log # s.log
      BY <1>3, <1>7, <3>1
    <3>3. o \in Unwritten /\ t.rec.prev = Lost /\ o # "sign"
      BY <1>2, <1>7, <3>2
    <3> QED BY <3>3 DEF Whole, Counts, LocalFaults, Unwritten
  <2>2. /\ Len(t.log) = n /\ DOMAIN t.log = DOMAIN s.log \cup {n} /\ (\A m \in DOMAIN s.log : t.log[m] = s.log[m])
        /\ t.log[n].seq = 0 /\ t.log[n].req = NoReq /\ Kept(t.log)
    BY <1>3, <1>4, <1>7, TornLine
  <2>3. Follows(t.log, t.rec)
    BY <1>3, <2>1, <2>2 DEF Follows, Lost
  <2>4. Extends(s, t) /\ Names(s, t, r)
    BY <1>2, <1>3, <1>4, <2>2 DEF Extends, Names
  <2> QED BY <1>2, <2>1, <2>2, <2>3, <2>4 DEF Advances, Sound, t
<1>8. CASE o = "tornack" /\ t.log = Append(l, Fragment)
  <2>1. t.rec.prev = n /\ ~Whole(o) /\ ~Counts(o)
    BY <1>2, <1>8 DEF Whole, Counts, LocalFaults, Unwritten
  <2>2. /\ Len(t.log) = n + 1 /\ DOMAIN t.log = DOMAIN l \cup {n + 1} /\ (\A m \in DOMAIN l : t.log[m] = l[m])
        /\ t.log[n + 1].seq = 0 /\ t.log[n + 1].req = NoReq /\ Kept(t.log)
    BY <1>3, <1>8, TornLine
  <2>3. Follows(t.log, t.rec)
    BY <1>3, <2>1, <2>2 DEF Follows
  <2>4. /\ \A m \in DOMAIN s.log : t.log[m] = s.log[m]
        /\ t.log[n].seq = s.rec.seq + 1 /\ t.log[n].req = r
        /\ DOMAIN t.log \ DOMAIN s.log = {n, n + 1}
    <3>1. n \in DOMAIN l /\ DOMAIN s.log \subseteq DOMAIN l
      BY <1>3
    <3>2. n + 1 \notin DOMAIN s.log /\ n + 1 \notin DOMAIN l
      <4>1. DOMAIN s.log = 1..Len(s.log) /\ DOMAIN l = 1..n
        BY <1>3, LogLines
      <4> QED BY <1>3, <1>4, <4>1
    <3>3. t.log[n].seq = s.rec.seq + 1 /\ t.log[n].req = r
      BY <1>3, <2>2, <3>1
    <3>4. DOMAIN t.log \ DOMAIN s.log = {n, n + 1}
      BY <1>3, <2>2, <3>2
    <3>5. \A m \in DOMAIN s.log : t.log[m] = s.log[m]
      BY <1>3, <2>2, <3>1
    <3> QED BY <3>3, <3>4, <3>5
  <2>5. Extends(s, t)
    <3>1. \A m \in {n, n + 1} : t.log[m].seq <= t.rec.seq
      BY <1>2, <1>3, <2>2, <2>4
    <3>2. s.rec.seq <= t.rec.seq /\ Len(s.log) <= Len(t.log)
      BY <1>2, <1>3, <1>4, <2>2
    <3> QED BY <1>2, <2>4, <3>1, <3>2 DEF Extends
  <2>6. Names(s, t, r)
    BY <2>2, <2>4 DEF Names
  <2> QED BY <1>2, <2>1, <2>2, <2>3, <2>5, <2>6 DEF Advances, Sound, t
<1>9. t.log = s.log \/ t.log = l \/ t.log = Append(s.log, Fragment) \/ (o = "tornack" /\ t.log = Append(l, Fragment))
  BY <1>2
<1> QED BY <1>5, <1>6, <1>7, <1>8, <1>9 DEF t

LEMMA Advanced ==
  ASSUME NEW s, NEW t, NEW u, NEW r, NEW c \in BOOLEAN, NEW d \in BOOLEAN, NEW e \in BOOLEAN, NEW f \in BOOLEAN,
         Sound(s), Advances(s, t, r, c, d), Advances(t, u, r, e, f)
  PROVE  Advances(s, u, r, c /\ e, d /\ f)
<1>1. /\ Sound(t) /\ Sound(u) /\ Extends(s, t) /\ Extends(t, u) /\ Names(s, t, r) /\ Names(t, u, r)
      /\ c => StepsIn(s, t)
      /\ e => StepsIn(t, u)
      /\ d => LevelIn(s, t)
      /\ f => LevelIn(t, u)
  BY DEF Advances
<1>2. Extends(s, u)
  BY <1>1, ExtendsTransitive DEF Sound
<1>3. c /\ e => StepsIn(s, u)
  BY <1>1 DEF StepsIn
<1>4. d /\ f => LevelIn(s, u)
  BY <1>1 DEF LevelIn
<1>5. Names(s, u, r)
  <2> SUFFICES ASSUME NEW n \in DOMAIN u.log \ DOMAIN s.log PROVE u.log[n].req \in {NoReq, r}
    BY DEF Names
  <2>1. n \in DOMAIN t.log => u.log[n] = t.log[n]
    BY <1>1 DEF Extends
  <2> QED BY <1>1, <2>1 DEF Names
<1> QED BY <1>1, <1>2, <1>3, <1>4, <1>5 DEF Advances

(* The counters of a recorder say nothing about the chain.                 *)
LEMMA SameChain ==
  ASSUME NEW s, NEW t, Sound(s), State(t), t.log = s.log, s.pushed \subseteq t.pushed,
         t.rec.seq = s.rec.seq, t.rec.prev = s.rec.prev,
         t.rec.st = s.rec.st, t.rec.state = s.rec.state, t.rec.beat = s.rec.beat, NEW r, NEW c, NEW d
  PROVE  Advances(s, t, r, c, d)
<1>1. s.rec.seq \in Nat /\ Len(s.log) \in Nat
  BY LogLines DEF Sound, State, RecorderRecord
<1>2. Sound(t)
  BY DEF Sound, Follows
<1>3. Extends(s, t) /\ Names(s, t, r)
  BY <1>1 DEF Extends, Names
<1>4. StepsIn(s, t) /\ LevelIn(s, t)
  BY DEF StepsIn, InStep, LevelIn, Level
<1> QED BY <1>2, <1>3, <1>4 DEF Advances

LEMMA CountedStep ==
  ASSUME NEW s, Sound(s), NEW r, NEW c, NEW d
  PROVE  LET t == Counted(s)
         IN Advances(s, t, r, c, d) /\ t.raised = s.raised /\ t.log = s.log /\ t.pushed = s.pushed
<1> DEFINE x == [s.rec EXCEPT !.since = s.rec.since + 1]
           u == [s EXCEPT !.rec = x]
<1>1. Counted(s) = s \/ Counted(s) = u
  BY DEF Counted
<1>2. s.rec \in RecorderRecord /\ State(s)
  BY DEF Sound, State
<1>3. /\ x \in RecorderRecord /\ x.seq = s.rec.seq /\ x.prev = s.rec.prev
      /\ x.st = s.rec.st /\ x.state = s.rec.state /\ x.beat = s.rec.beat
  <2>1. s.rec.since + 1 \in Nat
    BY <1>2 DEF RecorderRecord
  <2>2. x \in RecorderRecord
    BY <1>2, <2>1 DEF RecorderRecord
  <2> QED BY <1>2, <2>2 DEF RecorderRecord
<1> HIDE DEF x
<1>4. State(u) /\ u.log = s.log /\ u.pushed = s.pushed /\ u.raised = s.raised /\ u.rec = x
  BY <1>2, <1>3 DEF State
<1> HIDE DEF u
<1>5. Advances(s, u, r, c, d)
  BY <1>3, <1>4, SameChain
<1>6. Advances(s, s, r, c, d)
  BY <1>2, SameChain
<1> QED BY <1>1, <1>4, <1>5, <1>6

LEMMA SealStep ==
  ASSUME NEW s, Sound(s), NEW o, NEW r, config \in Deployments
  PROVE  Advances(s, WriteMerkleSeal(s, o), r, Whole(o), Counts(o))
<1> DEFINE x == [s.rec EXCEPT !.seg = s.rec.seg + 1, !.since = 0]
           u == [s EXCEPT !.rec = x]
           v == Chain(u, "seal", NoReq, o)
           c == Whole(o)
           d == Counts(o)
<1>1. s.rec \in RecorderRecord /\ State(s)
  BY DEF Sound, State
<1>2. CASE s.raised
  <2>1. WriteMerkleSeal(s, o) = s
    BY <1>2 DEF WriteMerkleSeal
  <2> QED BY <1>1, <2>1, SameChain
<1>3. CASE ~s.raised
  <2>1. WriteMerkleSeal(s, o) = Counted(v)
    BY <1>3 DEF WriteMerkleSeal
  <2>2. x \in RecorderRecord
    <3>1. s.rec.seg + 1 \in Nat
      BY <1>1 DEF RecorderRecord
    <3> QED BY <1>1, <3>1 DEF RecorderRecord
  <2>3. /\ x.seq = s.rec.seq /\ x.prev = s.rec.prev
        /\ x.st = s.rec.st /\ x.state = s.rec.state /\ x.beat = s.rec.beat
    BY <1>1 DEF RecorderRecord
  <2> HIDE DEF x
  <2>4. State(u) /\ u.log = s.log /\ u.pushed = s.pushed /\ u.rec = x
    BY <1>1, <2>2 DEF State
  <2> HIDE DEF u
  <2>5. Advances(s, u, r, c, d)
    BY <2>3, <2>4, SameChain
  <2>6. Sound(u)
    BY <2>5 DEF Advances
  <2>7. May(u, "seal", NoReq)
    BY DEF May, Kinds
  <2>8. Advances(u, v, r, c, d)
    <3>1. Advances(u, v, NoReq, c, d)
      BY <2>6, <2>7, ChainSound
    <3> HIDE DEF v, c, d
    <3> QED BY <3>1 DEF Advances, Names
  <2>9. c \in BOOLEAN /\ d \in BOOLEAN
    BY DEF Whole, Counts
  <2> HIDE DEF v, c, d
  <2>10. Sound(v)
    BY <2>8 DEF Advances
  <2>11. Advances(v, Counted(v), r, c, d)
    BY <2>10, CountedStep
  <2>12. Advances(u, Counted(v), r, c /\ c, d /\ d)
    BY <2>6, <2>8, <2>9, <2>11, Advanced
  <2>13. Advances(s, Counted(v), r, c /\ c /\ c, d /\ d /\ d)
    BY <2>5, <2>9, <2>12, Advanced
  <2>14. Advances(s, Counted(v), r, c, d)
    BY <2>13 DEF Advances
  <2> QED BY <2>1, <2>14 DEF c, d
<1> QED BY <1>2, <1>3

(* An append, with the seal that may follow.                               *)
LEMMA AppendStep ==
  ASSUME NEW s, Sound(s), NEW type, NEW r, May(s, type, r), NEW o, config \in Deployments
  PROVE  LET t == AppendRecord(s, type, r, o)
             n == Len(s.log) + 1
         IN /\ Advances(s, t, r, Whole(o.event) /\ Whole(o.seal), Counts(o.event) /\ Counts(o.seal))
            /\ o.event \in Unwritten => t.raised
            /\ o.event \notin Unwritten =>
                 /\ n \in DOMAIN t.log /\ t.log[n] = NextLine(s, type, r)
                 /\ Built /\ ~t.raised => Replicated(n, t.pushed)
<1> DEFINE b == Chain(s, type, r, o.event)
           a == Counted(b)
           t == AppendRecord(s, type, r, o)
           n == Len(s.log) + 1
           c == Whole(o.event)
           d == Counts(o.event)
           e == Whole(o.seal)
           f == Counts(o.seal)
<1>1. type \in Kinds /\ r \in ReqContent /\ State(s) /\ s.log \in Seq(Line) /\ Len(s.log) \in Nat
  BY Contents, LogLines DEF May, Sound, State
<1>2. Advances(s, b, r, c, d)
  BY ChainSound
<1>3. /\ o.event \in Unwritten => b.raised
      /\ o.event \notin Unwritten =>
           /\ \/ b.log = Append(s.log, NextLine(s, type, r))
              \/ b.log = Append(Append(s.log, NextLine(s, type, r)), Fragment)
           /\ Built /\ ~b.raised => Replicated(n, b.pushed)
  BY <1>1, ChainShape
<1>4. t = a \/ (~a.raised /\ t = WriteMerkleSeal(a, o.seal))
  BY DEF AppendRecord
<1> HIDE DEF a, b, t
<1>5. Sound(b)
  BY <1>2 DEF Advances
<1>6. Advances(b, a, r, c, d) /\ Advances(a, a, r, e, f) /\ a.raised = b.raised /\ a.log = b.log /\ a.pushed = b.pushed
  <2>1. Advances(b, a, r, c, d) /\ a.raised = b.raised /\ a.log = b.log /\ a.pushed = b.pushed
    BY <1>5, CountedStep DEF a
  <2>2. Sound(a) /\ State(a)
    BY <2>1 DEF Advances, Sound
  <2> QED BY <2>1, <2>2, SameChain
<1>7. Sound(a)
  BY <1>6 DEF Advances
<1>8. Advances(a, t, r, e, f)
  <2>1. Advances(a, WriteMerkleSeal(a, o.seal), r, e, f)
    BY <1>7, SealStep
  <2> QED BY <1>4, <1>6, <2>1
<1>9. c \in BOOLEAN /\ d \in BOOLEAN /\ e \in BOOLEAN /\ f \in BOOLEAN
  BY DEF Whole, Counts
<1> HIDE DEF c, d, e, f
<1>10. Advances(s, t, r, c /\ e, d /\ f)
  <2>1. Advances(s, a, r, c /\ c, d /\ d)
    BY <1>2, <1>6, <1>9, Advanced
  <2>2. Advances(s, a, r, c, d)
    BY <2>1 DEF Advances
  <2> QED BY <1>8, <1>9, <2>2, Advanced
<1>11. ASSUME b.raised PROVE t.raised
  BY <1>4, <1>6, <1>11
<1>12. ASSUME o.event \notin Unwritten
       PROVE  /\ n \in DOMAIN t.log /\ t.log[n] = NextLine(s, type, r)
              /\ Built /\ ~t.raised => Replicated(n, t.pushed)
  <2> DEFINE l == Append(s.log, NextLine(s, type, r))
  <2>1. (a.log = l \/ a.log = Append(l, Fragment)) /\ (Built /\ ~b.raised => Replicated(n, b.pushed))
    BY <1>3, <1>6, <1>12
  <2>2. n \in DOMAIN l /\ l[n] = NextLine(s, type, r) /\ l \in Seq(Line)
    BY LineAppended
  <2> HIDE DEF l
  <2>3. n \in DOMAIN a.log /\ a.log[n] = NextLine(s, type, r)
    BY <2>1, <2>2, TornLine
  <2>4. Extends(a, t) /\ State(a) /\ State(t)
    BY <1>7, <1>8 DEF Advances, Sound
  <2>5. n \in DOMAIN t.log
    <3>1. a.log \in Seq(Line) /\ t.log \in Seq(Line) /\ Len(a.log) <= Len(t.log)
      BY <2>4 DEF Extends, State
    <3> QED BY <2>3, <3>1, LogLines
  <2>6. t.log[n] = a.log[n] /\ a.pushed \subseteq t.pushed
    BY <2>3, <2>4 DEF Extends
  <2>7. Built /\ ~t.raised => Replicated(n, t.pushed)
    BY <1>6, <1>11, <2>1, <2>6 DEF Replicated
  <2> QED BY <2>3, <2>5, <2>6, <2>7
<1> QED BY <1>3, <1>10, <1>11, <1>12 DEF c, d, e, f, t

-----------------------------------------------------------------------------
(* The inductive invariant of the service.                                 *)

IndexStates == {"none", "open", "reconstructed", "interrupted"}
IndexLine == [seq : Nat, state : IndexStates, linked : BOOLEAN]
IndexMemory == [loaded : BOOLEAN, entry : [seq : Nat, state : IndexStates], prev : Int]
Jobs == [pc : {"idle", "wait", "open", "tx", "record", "note", "commit"}, req : Requests \cup {NoReq}, at : Nat,
         line : Nat, fresh : BOOLEAN]
FaultCounts == [local : Nat, sign : Nat, push : Nat]
ServiceState == [up : BOOLEAN, pipe : BOOLEAN, stop : {"run", "index", "pipe", "join", "down"}, restarts : Nat]

TypeInv ==
  /\ config \in Deployments
  /\ log \in Seq(Line) /\ pushed \in SUBSET Nat
  /\ rec \in RecorderRecord /\ orphan \in RecorderRecord
  /\ index \in Seq(IndexLine) /\ imem \in IndexMemory
  /\ job \in [Workers -> Jobs]
  /\ svc \in ServiceState
  /\ now \in Nat
  /\ faults \in FaultCounts

LogInv ==
  /\ Kept(log) /\ Follows(log, rec) /\ Follows(log, orphan)
  /\ rec.st # "none" => log # <<>> /\ Leads(log, rec, orphan) /\ Built

(* A request's record is in the log and where the configuration wants it,  *)
(* and the high-water mark of the index covers it.                         *)
Holds(r, n) == n \in DOMAIN log /\ log[n].req = Content(r) /\ Replicated(n, pushed)
Covered(n) == \E k \in DOMAIN index : index[k].seq >= log[n].seq
Durable(r) == \E n \in DOMAIN log : Holds(r, n) /\ Covered(n)

(* A worker that holds the core's lock, and what it has done so far.       *)
Busy(w) == job[w].pc \in {"open", "tx", "record", "note", "commit"}
JobSound(w) ==
  /\ Busy(w) => rec.st # "none"
  /\ job[w].pc # "idle" => job[w].req \in Requests
  /\ job[w].pc = "record" => \A n \in DOMAIN log : log[n].req.id # job[w].req.id
  /\ job[w].pc \in {"note", "commit"} => Holds(job[w].req, job[w].line)
  /\ job[w].pc = "note" => log[job[w].line].seq <= rec.seq
  /\ job[w].pc = "commit" => Covered(job[w].line)
JobInv ==
  /\ \A v, w \in Workers : Busy(v) /\ Busy(w) => v = w
  /\ \A w \in Workers : JobSound(w)

AnswerInv == (\A x \in receipts : Durable(x)) /\ (\A r \in acked : Durable(r))

ServiceInv ==
  /\ rec.st # "none" => imem.loaded
  /\ svc.stop = "index" => rec.st # "none" /\ \A w \in Workers : job[w].pc # "open"
  /\ ~svc.up => /\ rec = NoRecorder /\ orphan = NoRecorder /\ imem = FreshIndex
                /\ job = [w \in Workers |-> IdleJob] /\ ~svc.pipe /\ svc.stop = "down"

(* Until a local write fails, log and index are chained and nobody else    *)
(* writes; until a signature fails too, the last line of the log is above  *)
(* every entry of the index.                                               *)
LinkedIndex == \A k \in DOMAIN index : index[k].linked
Reached(l) == \A k \in DOMAIN index : l # <<>> /\ index[k].seq <= l[Len(l)].seq
Chained ==
  /\ ~orphan.beat /\ VerifyChain(log) /\ LinkedIndex
  /\ rec.st # "none" => InStep(log, rec)
  /\ imem.loaded => imem.prev = Len(index)
Abreast ==
  /\ rec.st # "none" => Level(log, rec)
  /\ Reached(log)
CleanInv ==
  /\ faults.local = 0 => Chained
  /\ faults.local = 0 /\ faults.sign = 0 => Abreast

Inv == TypeInv /\ LogInv /\ JobInv /\ AnswerInv /\ ServiceInv /\ CleanInv

-----------------------------------------------------------------------------
(* What every step keeps: log, store and index only grow.                  *)

Grows ==
  /\ config' = config /\ pushed \subseteq pushed'
  /\ \A n \in DOMAIN log : n \in DOMAIN log' /\ log'[n] = log[n]
  /\ \A k \in DOMAIN index : k \in DOMAIN index' /\ index'[k] = index[k]

(* The step adds no line of a request.                                     *)
Silent == \A n \in DOMAIN log' \ DOMAIN log : log'[n].req = NoReq

LEMMA Carried ==
  ASSUME Grows
  PROVE  /\ \A r, n : Holds(r, n) => Holds(r, n)'
         /\ \A n \in DOMAIN log : Covered(n) => Covered(n)'
         /\ \A r : Durable(r) => Durable(r)'
<1>1. Mode' = Mode
  BY DEF Grows, Mode
<1>2. ASSUME NEW r, NEW n, Holds(r, n) PROVE Holds(r, n)'
  <2>1. Replicated(n, pushed) => Replicated(n, pushed)'
    BY <1>1 DEF Grows, Replicated
  <2> QED BY <1>2, <2>1 DEF Holds, Grows
<1>3. ASSUME NEW n \in DOMAIN log, Covered(n) PROVE Covered(n)'
  BY <1>3 DEF Covered, Grows
<1>4. ASSUME NEW r, Durable(r) PROVE Durable(r)'
  <2>1. PICK n \in DOMAIN log : Holds(r, n) /\ Covered(n)
    BY <1>4 DEF Durable
  <2>2. n \in DOMAIN log' /\ Holds(r, n)' /\ Covered(n)'
    BY <1>2, <1>3, <2>1 DEF Grows
  <2> QED BY <2>2 DEF Durable
<1> QED BY <1>2, <1>3, <1>4

LEMMA AnswersCarried ==
  ASSUME AnswerInv, Grows, UNCHANGED <<receipts, acked>>
  PROVE  AnswerInv'
BY Carried DEF AnswerInv

LEMMA JobCarried ==
  ASSUME JobInv, Grows, NEW w \in Workers, job'[w] = job[w],
         Busy(w) => rec'.st # "none" /\ rec.seq <= rec'.seq,
         job[w].pc = "record" => Silent,
         rec.seq \in Nat, rec'.seq \in Nat, log \in Seq(Line)
  PROVE  JobSound(w)' /\ (Busy(w)' <=> Busy(w))
<1>1. Busy(w)' <=> Busy(w)
  BY DEF Busy
<1>2. JobSound(w)
  BY DEF JobInv
<1>3. job[w].pc \in {"note", "commit"} => Holds(job[w].req, job[w].line)'
  BY <1>2, Carried DEF JobSound
<1>4. job[w].pc \in {"note", "commit"} => job[w].line \in DOMAIN log
  BY <1>2 DEF JobSound, Holds
<1>5. job[w].pc = "commit" => Covered(job[w].line)'
  BY <1>2, <1>4, Carried DEF JobSound
<1>6. job[w].pc = "note" => log'[job[w].line].seq <= rec'.seq
  <2> SUFFICES ASSUME job[w].pc = "note" PROVE log'[job[w].line].seq <= rec'.seq
    OBVIOUS
  <2>1. log'[job[w].line] = log[job[w].line] /\ log[job[w].line].seq \in Nat
    BY <1>4, LogLines DEF Grows
  <2>2. log[job[w].line].seq <= rec.seq /\ rec.seq <= rec'.seq
    BY <1>2 DEF JobSound, Busy
  <2> QED BY <2>1, <2>2
<1>7. ASSUME job[w].pc = "record", NEW n \in DOMAIN log' PROVE log'[n].req.id # job[w].req.id
  <2>1. job[w].req \in Requests
    BY <1>2, <1>7 DEF JobSound
  <2>2. CASE n \in DOMAIN log
    BY <1>2, <1>7, <2>2 DEF JobSound, Grows
  <2>3. CASE n \notin DOMAIN log
    <3>1. log'[n].req.id = ""
      BY <1>7, <2>3, Contents DEF Silent
    <3> QED BY <2>1, <3>1, Contents
  <2> QED BY <2>2, <2>3
<1> QED BY <1>1, <1>2, <1>3, <1>5, <1>6, <1>7 DEF JobSound

LEMMA IndexEntries ==
  ASSUME NEW l \in Seq(IndexLine)
  PROVE  /\ Len(l) \in Nat /\ DOMAIN l = 1..Len(l) /\ (l = <<>> <=> Len(l) = 0)
         /\ \A k \in DOMAIN l : l[k] \in IndexLine /\ l[k].seq \in Nat /\ l[k].state \in IndexStates
<1>1. Len(l) \in Nat /\ DOMAIN l = 1..Len(l) /\ (l = <<>> <=> Len(l) = 0)
  OBVIOUS
<1>2. \A k \in DOMAIN l : l[k] \in IndexLine
  OBVIOUS
<1>3. \A x \in IndexLine : x.seq \in Nat /\ x.state \in IndexStates
  BY DEF IndexLine
<1> QED BY <1>1, <1>2, <1>3

LEMMA Prefix ==
  ASSUME NEW s, NEW t, State(s), State(t), Extends(s, t)
  PROVE  /\ s.log \in Seq(Line) /\ t.log \in Seq(Line) /\ Len(s.log) \in Nat /\ Len(t.log) \in Nat
         /\ DOMAIN s.log \subseteq DOMAIN t.log /\ Len(s.log) <= Len(t.log)
         /\ \A n \in DOMAIN s.log : t.log[n] = s.log[n]
         /\ Linked(t.log) => Linked(s.log)
<1>1. s.log \in Seq(Line) /\ t.log \in Seq(Line)
  BY DEF State
<1>2. Len(s.log) \in Nat /\ Len(t.log) \in Nat /\ Len(s.log) <= Len(t.log)
      /\ \A n \in DOMAIN s.log : t.log[n] = s.log[n]
  BY <1>1, LogLines DEF Extends
<1>3. DOMAIN s.log \subseteq DOMAIN t.log
  BY <1>1, <1>2, LogLines
<1> QED BY <1>1, <1>2, <1>3 DEF Linked

LEMMA FollowsKept ==
  ASSUME NEW s, NEW t, State(s), State(t), Extends(s, t), NEW x, x.prev \in Int, Follows(s.log, x)
  PROVE  Follows(t.log, x)
<1>1. x.prev <= Len(t.log)
  BY Prefix DEF Follows
<1>2. ASSUME x.prev = Len(t.log), t.log # <<>> PROVE t.log[Len(t.log)].seq <= x.seq
  <2>1. Len(s.log) = Len(t.log) /\ Len(t.log) # 0
    BY <1>2, Prefix, LogLines DEF Follows
  <2>2. s.log # <<>> /\ Len(s.log) \in DOMAIN s.log
    BY <2>1, Prefix, LogLines
  <2> QED BY <1>2, <2>1, <2>2, Prefix DEF Follows
<1> QED BY <1>1, <1>2 DEF Follows

(* A recorder above the lines of its log stays above what it appends.      *)
Tops(l, r) == Linked(l) => \A n \in DOMAIN l : l[n].seq <= r.seq

LEMMA TopsKept ==
  ASSUME NEW s, NEW t, State(s), State(t), Extends(s, t), Tops(s.log, s.rec)
  PROVE  Tops(t.log, t.rec)
<1> SUFFICES ASSUME Linked(t.log), NEW n \in DOMAIN t.log PROVE t.log[n].seq <= t.rec.seq
  BY DEF Tops
<1>1. CASE n \in DOMAIN s.log
  <2>1. t.log[n].seq = s.log[n].seq /\ s.log[n].seq <= s.rec.seq
    BY <1>1, Prefix DEF Tops
  <2>2. s.log[n].seq \in Nat /\ s.rec.seq \in Nat /\ t.rec.seq \in Nat /\ s.rec.seq <= t.rec.seq
    BY <1>1, LogLines DEF State, RecorderRecord, Extends
  <2> QED BY <2>1, <2>2
<1>2. CASE n \notin DOMAIN s.log
  BY <1>2 DEF Extends
<1> QED BY <1>1, <1>2

(* A step of the cached recorder.                                          *)
LEMMA RecorderStep ==
  ASSUME Inv, rec.st # "none", NEW s, NEW t, NEW r, NEW c, NEW d, Advances(s, t, r, c, d), Sound(s),
         s.log = log, s.pushed = pushed, s.rec.seq = rec.seq, s.rec.prev = rec.prev,
         log' = t.log, pushed' = t.pushed, rec' \in RecorderRecord, rec'.st # "none",
         rec'.seq = t.rec.seq, rec'.prev = t.rec.prev,
         UNCHANGED <<config, orphan, index, imem>>,
         faults'.local = 0 => faults.local = 0 /\ c,
         faults'.sign = 0 => faults.sign = 0, faults'.local = 0 /\ faults'.sign = 0 => d
  PROVE  /\ LogInv' /\ CleanInv' /\ Grows /\ log' \in Seq(Line) /\ pushed' \in SUBSET Nat
         /\ rec.seq \in Nat /\ rec'.seq \in Nat /\ rec.seq <= rec'.seq
         /\ r = NoReq => Silent
<1>1. State(s) /\ State(t) /\ Sound(t) /\ Extends(s, t) /\ Names(s, t, r) /\ (c => StepsIn(s, t)) /\ (d => LevelIn(s, t))
  BY DEF Advances, Sound
<1>2. log' \in Seq(Line) /\ pushed' \in SUBSET Nat /\ pushed \subseteq pushed'
  BY <1>1 DEF State, Extends
<1>3. rec.seq \in Nat /\ rec'.seq \in Nat /\ rec.seq <= rec'.seq
  BY <1>1 DEF Inv, TypeInv, RecorderRecord, Extends
<1>4. Grows
  BY <1>1, <1>2, Prefix DEF Grows
<1>5. LogInv'
  <2>1. Kept(log)' /\ Follows(log, rec)'
    BY <1>1 DEF Sound, Follows
  <2>2. Follows(log, orphan)'
    <3>1. orphan.prev \in Int /\ Follows(log, orphan)
      BY DEF Inv, TypeInv, RecorderRecord, LogInv
    <3> QED BY <1>1, <3>1, FollowsKept
  <2>3. log # <<>> /\ Leads(log, rec, orphan) /\ Built
    BY DEF Inv, LogInv
  <2>4. log' # <<>>
    BY <1>1, <1>2, <2>3, Prefix, LogLines DEF Inv, TypeInv
  <2>5. Tops(s.log, s.rec)
    BY <2>3 DEF Leads, Tops
  <2>6. Tops(t.log, t.rec)
    BY <1>1, <2>5, TopsKept
  <2>7. Leads(log, rec, orphan)'
    <3> SUFFICES ASSUME Linked(log') PROVE orphan.prev < Len(log') /\ \A n \in DOMAIN log' : log'[n].seq <= rec'.seq
      BY DEF Leads
    <3>1. orphan.prev \in Int
      BY DEF Inv, TypeInv, RecorderRecord
    <3>2. Linked(log) /\ Len(log) <= Len(log') /\ Len(log) \in Nat /\ Len(log') \in Nat
      BY <1>1, Prefix
    <3>3. orphan.prev < Len(log)
      BY <2>3, <3>2 DEF Leads
    <3> QED BY <2>6, <3>1, <3>2, <3>3 DEF Tops
  <2>8. Built'
    BY <2>3 DEF Built
  <2> QED BY <2>1, <2>2, <2>4, <2>7, <2>8 DEF LogInv
<1>6. ASSUME faults'.local = 0 PROVE CleanInv'
  <2>1. c /\ Chained
    BY <1>6 DEF Inv, CleanInv
  <2>2. InStep(t.log, t.rec)
    <3>1. InStep(s.log, s.rec)
      BY <2>1 DEF Chained, InStep
    <3> QED BY <1>1, <2>1, <3>1 DEF StepsIn
  <2>3. Chained'
    BY <2>1, <2>2 DEF Chained, LinkedIndex, InStep
  <2>4. ASSUME faults'.sign = 0 PROVE Abreast'
    <3>1. d /\ Level(log, rec) /\ Reached(log)
      BY <1>6, <2>4 DEF Inv, CleanInv, Abreast
    <3>2. Level(t.log, t.rec)
      <4>1. Level(s.log, s.rec)
        BY <3>1 DEF Level
      <4> QED BY <1>1, <3>1, <4>1 DEF LevelIn
    <3>3. log # <<>> /\ rec.seq = log[Len(log)].seq
      BY <3>1 DEF Inv, LogInv, Level
    <3>4. log' # <<>> /\ rec'.seq = log'[Len(log')].seq
      <4>1. log' # <<>>
        BY <1>1, <1>2, <3>3, Prefix, LogLines DEF Inv, TypeInv
      <4> QED BY <3>2, <4>1 DEF Level
    <3>5. \A k \in DOMAIN index : index[k].seq \in Nat
      BY IndexEntries DEF Inv, TypeInv
    <3>6. Reached(log)'
      BY <1>3, <3>1, <3>3, <3>4, <3>5 DEF Reached
    <3> QED BY <3>4, <3>6 DEF Abreast, Level
  <2> QED BY <2>3, <2>4 DEF CleanInv
<1>7. CleanInv'
  BY <1>6 DEF CleanInv
<1>8. r = NoReq => Silent
  BY <1>1 DEF Names, Silent
<1> QED BY <1>2, <1>3, <1>4, <1>5, <1>7, <1>8

LEMMA JobsStep ==
  ASSUME JobInv, Grows, NEW w \in Workers, \A v \in Workers \ {w} : job'[v] = job[v],
         \A v \in Workers \ {w} : Busy(v) => rec'.st # "none" /\ rec.seq <= rec'.seq /\ Silent,
         rec.seq \in Nat, rec'.seq \in Nat, log \in Seq(Line),
         JobSound(w)', Busy(w)' => \A v \in Workers \ {w} : ~Busy(v)
  PROVE  JobInv'
<1>1. \A v \in Workers \ {w} : JobSound(v)' /\ (Busy(v)' <=> Busy(v))
  BY JobCarried DEF Busy
<1>2. \A u, v \in Workers : Busy(u)' /\ Busy(v)' => u = v
  BY <1>1 DEF JobInv
<1> QED BY <1>1, <1>2 DEF JobInv

LEMMA JobsSame ==
  ASSUME JobInv, Grows, Silent, UNCHANGED job, rec.st # "none" => rec'.st # "none" /\ rec.seq <= rec'.seq,
         rec.seq \in Nat, rec'.seq \in Nat, log \in Seq(Line)
  PROVE  JobInv'
<1>1. \A w \in Workers : Busy(w) => rec.st # "none"
  BY DEF JobInv, JobSound
<1>2. \A w \in Workers : JobSound(w)' /\ (Busy(w)' <=> Busy(w))
  BY <1>1, JobCarried
<1> QED BY <1>2 DEF JobInv

(* A step that touches neither log nor index.                              *)
LEMMA SameLog ==
  ASSUME Inv, UNCHANGED <<config, log, pushed, rec, orphan, index, imem, faults>>
  PROVE  /\ LogInv' /\ CleanInv' /\ Grows /\ Silent
         /\ rec.seq \in Nat /\ rec'.seq \in Nat /\ log \in Seq(Line)
         /\ rec.st # "none" => rec'.st # "none" /\ rec.seq <= rec'.seq
<1>1. LogInv'
  BY DEF Inv, LogInv, Built
<1>2. CleanInv'
  BY DEF Inv, CleanInv, Chained, Abreast, LinkedIndex, Reached
<1>3. Grows /\ Silent
  BY DEF Grows, Silent
<1>4. rec.seq \in Nat /\ log \in Seq(Line)
  BY DEF Inv, TypeInv, RecorderRecord
<1> QED BY <1>1, <1>2, <1>3, <1>4

LEMMA SameAnswer ==
  ASSUME AnswerInv, NEW r, StoredReceipt(r) # {}, SameContent(r)
  PROVE  Durable(r)
<1>1. PICK x \in receipts : x.id = r.id /\ x.body = r.body
  BY DEF StoredReceipt, SameContent
<1>2. Content(x) = Content(r)
  BY <1>1 DEF Content
<1> QED BY <1>1, <1>2 DEF AnswerInv, Durable, Holds

LEMMA IdleJobTyped == IdleJob \in Jobs /\ IdleJob.pc = "idle"
BY DEF IdleJob, Jobs

LEMMA Released ==
  ASSUME job \in [Workers -> Jobs], NEW w \in Workers, Release(w)
  PROVE  /\ job' \in [Workers -> Jobs] /\ \A v \in Workers \ {w} : job'[v] = job[v]
         /\ JobSound(w)' /\ ~Busy(w)' /\ job'[w].pc = "idle"
<1>1. job' = [job EXCEPT ![w] = IdleJob]
  BY DEF Release
<1>2. job'[w] = IdleJob
  BY <1>1
<1>3. JobSound(w)' /\ ~Busy(w)' /\ job'[w].pc = "idle"
  BY <1>2, IdleJobTyped DEF JobSound, Busy
<1> QED BY <1>1, <1>3, IdleJobTyped

LEMMA Moved ==
  ASSUME job \in [Workers -> Jobs], NEW w \in Workers, NEW pc \in {"open", "tx", "record", "commit"},
         job' = [job EXCEPT ![w].pc = pc]
  PROVE  /\ job' \in [Workers -> Jobs] /\ \A v \in Workers \ {w} : job'[v] = job[v]
         /\ job'[w].pc = pc /\ job'[w].req = job[w].req /\ job'[w].line = job[w].line
<1>1. job[w] \in Jobs
  OBVIOUS
<1>2. [job[w] EXCEPT !.pc = pc] \in Jobs
  BY <1>1 DEF Jobs
<1>3. job'[w] = [job[w] EXCEPT !.pc = pc] /\ \A v \in Workers \ {w} : job'[v] = job[v]
  OBVIOUS
<1>4. job'[w].pc = pc /\ job'[w].req = job[w].req /\ job'[w].line = job[w].line
  BY <1>1, <1>3 DEF Jobs
<1>5. job' \in [Workers -> Jobs]
  BY <1>2
<1> QED BY <1>3, <1>4, <1>5

LEMMA Up == ASSUME Inv, NEW w \in Workers, job[w].pc # "idle" PROVE svc.up
BY IdleJobTyped DEF Inv, ServiceInv

-----------------------------------------------------------------------------
(* The actions.                                                            *)

LEMMA ReceiveStep ==
  ASSUME Inv, NEW w \in Workers, NEW r \in Requests, Receive(w, r)
  PROVE  Inv'
<1> USE DEF Inv
<1>1. /\ svc.pipe /\ job[w].pc = "idle"
      /\ UNCHANGED <<config, log, pushed, rec, orphan, index, imem, receipts, svc, now, faults>>
  BY DEF Receive, recorderVars, indexVars, storeVars, hostVars
<1>2. /\ LogInv' /\ CleanInv' /\ Grows /\ Silent
      /\ rec.seq \in Nat /\ rec'.seq \in Nat /\ log \in Seq(Line)
      /\ rec.st # "none" => rec'.st # "none" /\ rec.seq <= rec'.seq
  BY <1>1, SameLog
<1>3. CASE UNCHANGED job /\ acked' = acked \cup {r} /\ StoredReceipt(r) # {} /\ SameContent(r)
  <2>1. TypeInv' /\ ServiceInv'
    BY <1>1, <1>3 DEF TypeInv, ServiceInv
  <2>2. Durable(r)
    BY <1>3, SameAnswer
  <2>3. AnswerInv'
    BY <1>1, <1>2, <1>3, <2>2, Carried DEF AnswerInv
  <2>4. JobInv'
    BY <1>2, <1>3, JobsSame
  <2> QED BY <1>2, <2>1, <2>3, <2>4
<1>4. CASE UNCHANGED <<job, acked>>
  <2>1. TypeInv' /\ ServiceInv'
    BY <1>1, <1>4 DEF TypeInv, ServiceInv
  <2>2. AnswerInv'
    BY <1>1, <1>2, <1>4, AnswersCarried
  <2>3. JobInv'
    BY <1>2, <1>4, JobsSame
  <2> QED BY <1>2, <2>1, <2>2, <2>3
<1>5. CASE UNCHANGED acked /\ job' = [job EXCEPT ![w] = [IdleJob EXCEPT !.pc = "wait", !.req = r, !.at = now]]
  <2> DEFINE j == [IdleJob EXCEPT !.pc = "wait", !.req = r, !.at = now]
  <2>1. j \in Jobs /\ j.pc = "wait" /\ j.req = r
    BY DEF TypeInv, IdleJob, Jobs
  <2> HIDE DEF j
  <2>2. job' = [job EXCEPT ![w] = j]
    BY <1>5 DEF j
  <2>3. job' \in [Workers -> Jobs] /\ job'[w] = j /\ \A v \in Workers \ {w} : job'[v] = job[v]
    BY <2>1, <2>2 DEF TypeInv
  <2>4. JobSound(w)' /\ ~Busy(w)'
    BY <2>1, <2>3 DEF JobSound, Busy
  <2>5. JobInv'
    <3>1. \A v \in Workers : Busy(v) => rec.st # "none"
      BY DEF JobInv, JobSound
    <3> QED BY <1>2, <2>3, <2>4, <3>1, JobsStep
  <2>6. AnswerInv'
    BY <1>1, <1>2, <1>5, AnswersCarried
  <2>7. TypeInv'
    BY <1>1, <2>3 DEF TypeInv
  <2>8. svc.up
    BY <1>1 DEF ServiceInv
  <2>9. ServiceInv'
    <3>1. svc.stop = "index" => \A v \in Workers : job'[v].pc # "open"
      BY <2>1, <2>3 DEF ServiceInv
    <3> QED BY <1>1, <2>8, <3>1 DEF ServiceInv
  <2> QED BY <1>2, <2>5, <2>6, <2>7, <2>9
<1> QED BY <1>3, <1>4, <1>5 DEF Receive, Deliver

LEMMA AcquireStep ==
  ASSUME Inv, NEW w \in Workers, Acquire(w)
  PROVE  Inv'
<1> USE DEF Inv
<1>1. /\ svc.up /\ job[w].pc = "wait" /\ ~Locked /\ rec.st # "none" /\ job' = [job EXCEPT ![w].pc = "tx"]
      /\ UNCHANGED <<config, log, pushed, rec, orphan, index, imem, receipts, svc, now, faults, acked>>
  BY DEF Acquire, recorderVars, indexVars, storeVars, hostVars
<1>2. /\ LogInv' /\ CleanInv' /\ Grows /\ Silent
      /\ rec.seq \in Nat /\ rec'.seq \in Nat /\ log \in Seq(Line)
      /\ rec.st # "none" => rec'.st # "none" /\ rec.seq <= rec'.seq
  BY <1>1, SameLog
<1>3. /\ job' \in [Workers -> Jobs] /\ job'[w].pc = "tx" /\ job'[w].req = job[w].req
      /\ \A v \in Workers \ {w} : job'[v] = job[v]
  BY <1>1 DEF TypeInv, Jobs
<1>4. job[w].req \in Requests
  BY <1>1 DEF JobInv, JobSound
<1>5. JobSound(w)' /\ \A v \in Workers : ~Busy(v)
  BY <1>1, <1>3, <1>4 DEF JobSound, Busy, Locked
<1>6. JobInv'
  BY <1>2, <1>3, <1>5, JobsStep
<1>7. AnswerInv'
  BY <1>1, <1>2, AnswersCarried
<1>8. TypeInv'
  BY <1>1, <1>3 DEF TypeInv
<1>9. ServiceInv'
  BY <1>1, <1>3 DEF ServiceInv
<1> QED BY <1>2, <1>6, <1>7, <1>8, <1>9

(* A worker that gives up, or has answered.                                *)
LEMMA ReleaseStep ==
  ASSUME Inv, NEW w \in Workers, svc.up, Release(w), AnswerInv',
         UNCHANGED <<config, log, pushed, rec, orphan, index, imem, svc, now, faults>>
  PROVE  Inv'
<1> USE DEF Inv
<1>1. /\ LogInv' /\ CleanInv' /\ Grows /\ Silent
      /\ rec.seq \in Nat /\ rec'.seq \in Nat /\ log \in Seq(Line)
      /\ rec.st # "none" => rec'.st # "none" /\ rec.seq <= rec'.seq
  BY SameLog
<1>2. /\ job' \in [Workers -> Jobs] /\ \A v \in Workers \ {w} : job'[v] = job[v]
      /\ JobSound(w)' /\ ~Busy(w)' /\ job'[w].pc = "idle"
  BY Released DEF TypeInv
<1>3. JobInv'
  <2>1. \A v \in Workers : Busy(v) => rec.st # "none"
    BY DEF JobInv, JobSound
  <2> QED BY <1>1, <1>2, <2>1, JobsStep
<1>4. TypeInv'
  BY <1>2 DEF TypeInv
<1>5. ServiceInv'
  BY <1>2 DEF ServiceInv
<1> QED BY <1>1, <1>3, <1>4, <1>5

(* A request that may be recorded: no line carries its id.                 *)
LEMMA CheckStep ==
  ASSUME Inv, NEW w \in Workers, Check(w)
  PROVE  Inv'
<1> USE DEF Inv
<1>1. /\ job[w].pc = "tx" /\ RecoverRecord(job[w].req) = {} /\ job' = [job EXCEPT ![w].pc = "record"]
      /\ UNCHANGED <<config, log, pushed, rec, orphan, index, imem, receipts, svc, now, faults, acked>>
  BY DEF Check, recorderVars, indexVars, storeVars, hostVars
<1>2. /\ LogInv' /\ CleanInv' /\ Grows /\ Silent
      /\ rec.seq \in Nat /\ rec'.seq \in Nat /\ log \in Seq(Line)
      /\ rec.st # "none" => rec'.st # "none" /\ rec.seq <= rec'.seq
  BY <1>1, SameLog
<1>3. /\ job' \in [Workers -> Jobs] /\ job'[w].pc = "record" /\ job'[w].req = job[w].req
      /\ \A v \in Workers \ {w} : job'[v] = job[v]
  BY <1>1, Moved DEF TypeInv
<1>4. Busy(w) /\ rec.st # "none" /\ job[w].req \in Requests /\ \A v \in Workers \ {w} : ~Busy(v)
  <2>1. Busy(w)
    BY <1>1 DEF Busy
  <2> QED BY <1>1, <2>1 DEF JobInv, JobSound
<1>5. \A n \in DOMAIN log : log[n].req.id # job[w].req.id
  BY <1>1 DEF RecoverRecord
<1>6. JobSound(w)'
  BY <1>1, <1>3, <1>4, <1>5 DEF JobSound
<1>7. JobInv'
  BY <1>2, <1>3, <1>4, <1>6, JobsStep
<1>8. AnswerInv'
  BY <1>1, <1>2, AnswersCarried
<1>9. TypeInv'
  BY <1>1, <1>3 DEF TypeInv
<1>10. svc.up
  BY <1>1, Up
<1>11. ServiceInv'
  BY <1>1, <1>3, <1>10 DEF ServiceInv
<1> QED BY <1>2, <1>7, <1>8, <1>9, <1>11

LEMMA RecordRefusedStep ==
  ASSUME Inv, NEW w \in Workers, RecordRefused(w)
  PROVE  Inv'
<1>1. /\ job[w].pc = "record" /\ Release(w)
      /\ UNCHANGED <<config, log, pushed, rec, orphan, index, imem, receipts, acked, svc, now, faults>>
  BY DEF RecordRefused, recorderVars, indexVars, storeVars, hostVars
<1>2. svc.up /\ Grows
  BY <1>1, Up DEF Grows
<1>3. AnswerInv'
  BY <1>1, <1>2, AnswersCarried DEF Inv
<1> QED BY <1>1, <1>2, <1>3, ReleaseStep

LEMMA SettleStep ==
  ASSUME Inv, NEW w \in Workers, Settle(w)
  PROVE  Inv'
<1> DEFINE r == job[w].req
<1>1. /\ job[w].pc = "tx" /\ Release(w)
      /\ UNCHANGED <<config, log, pushed, rec, orphan, index, imem, receipts, svc, now, faults>>
  BY DEF Settle, recorderVars, indexVars, hostVars
<1>2. svc.up
  BY <1>1, Up
<1>3. Grows
  BY <1>1 DEF Grows
<1>4. (StoredReceipt(r) # {} /\ SameContent(r) /\ acked' = acked \cup {r}) \/ UNCHANGED acked
  BY DEF Settle, Deliver
<1>5. AnswerInv'
  <2>1. CASE StoredReceipt(r) # {} /\ SameContent(r) /\ acked' = acked \cup {r}
    <3>1. Durable(r)
      BY <2>1, SameAnswer DEF Inv
    <3> QED BY <1>1, <1>3, <2>1, <3>1, Carried DEF AnswerInv, Inv
  <2>2. CASE UNCHANGED acked
    BY <1>1, <1>3, <2>2, AnswersCarried DEF Inv
  <2> QED BY <1>4, <2>1, <2>2
<1> QED BY <1>1, <1>2, <1>5, ReleaseStep

LEMMA CommitStep ==
  ASSUME Inv, NEW w \in Workers, Commit(w)
  PROVE  Inv'
<1> DEFINE r == job[w].req
           n == job[w].line
           x == [id |-> r.id, body |-> r.body, line |-> n]
<1>1. /\ job[w].pc = "commit" /\ Release(w) /\ receipts' = receipts \cup {x} /\ acked' = acked \cup {r}
      /\ UNCHANGED <<config, log, pushed, rec, orphan, index, imem, svc, now, faults>>
  BY DEF Commit, Deliver, recorderVars, indexVars, hostVars
<1>2. svc.up
  BY <1>1, Up
<1>3. Grows
  BY <1>1 DEF Grows
<1>4. Durable(r)
  <2>1. Holds(r, n) /\ Covered(n)
    BY <1>1 DEF Inv, JobInv, JobSound
  <2> QED BY <2>1 DEF Durable, Holds
<1>5. Durable(x)
  <2>1. Content(x) = Content(r)
    BY DEF Content
  <2> QED BY <1>4, <2>1 DEF Durable, Holds
<1>6. AnswerInv'
  BY <1>1, <1>3, <1>4, <1>5, Carried DEF AnswerInv, Inv
<1> QED BY <1>1, <1>2, <1>6, ReleaseStep

LEMMA LoadedTyped ==
  ASSUME TypeInv, CleanInv
  PROVE  /\ LoadedIndex \in IndexMemory /\ LoadedIndex.loaded
         /\ imem.loaded => LoadedIndex = imem
         /\ ~imem.loaded => LoadedIndex.prev = Len(index)
<1>1. CASE imem.loaded
  BY <1>1 DEF LoadedIndex, TypeInv
<1>2. CASE ~imem.loaded
  <2> DEFINE e == IF index = <<>> THEN NoEntry
                  ELSE [seq |-> index[Len(index)].seq, state |-> index[Len(index)].state]
  <2>1. e \in [seq : Nat, state : IndexStates]
    <3>1. CASE index = <<>>
      BY <3>1 DEF NoEntry, IndexStates
    <3>2. CASE index # <<>>
      <4>1. index[Len(index)].seq \in Nat /\ index[Len(index)].state \in IndexStates
        BY <3>2, IndexEntries DEF TypeInv
      <4> QED BY <3>2, <4>1
    <3> QED BY <3>1, <3>2
  <2>2. LoadedIndex = [loaded |-> TRUE, prev |-> Len(index), entry |-> e]
    BY <1>2 DEF LoadedIndex
  <2>3. Len(index) \in Int
    BY IndexEntries DEF TypeInv
  <2> HIDE DEF e
  <2> QED BY <1>2, <2>1, <2>2, <2>3 DEF IndexMemory
<1> QED BY <1>1, <1>2

LEMMA RefuseStep ==
  ASSUME Inv, NEW w \in Workers, RefuseRecorder(w)
  PROVE  Inv'
<1> USE DEF Inv
<1>1. /\ svc.up /\ rec.st = "none" /\ Release(w) /\ (imem' = LoadedIndex \/ imem' = imem)
      /\ UNCHANGED <<config, log, pushed, rec, orphan, index, receipts, acked, svc, now, faults>>
  BY DEF RefuseRecorder, recorderVars, storeVars, hostVars
<1>2. LogInv' /\ Grows /\ Silent /\ rec.seq \in Nat /\ log \in Seq(Line)
  BY <1>1 DEF LogInv, Built, Grows, Silent, TypeInv, RecorderRecord
<1>3. /\ job' \in [Workers -> Jobs] /\ \A v \in Workers \ {w} : job'[v] = job[v]
      /\ JobSound(w)' /\ ~Busy(w)'
  BY <1>1, Released DEF TypeInv
<1>4. JobInv'
  <2>1. \A v \in Workers : Busy(v) => rec.st # "none"
    BY DEF JobInv, JobSound
  <2> QED BY <1>1, <1>2, <1>3, <2>1, JobsStep
<1>5. TypeInv'
  BY <1>1, <1>3, LoadedTyped DEF TypeInv
<1>6. ServiceInv'
  BY <1>1 DEF ServiceInv
<1>7. CleanInv'
  BY <1>1, LoadedTyped DEF CleanInv, Chained, Abreast, LinkedIndex, Reached
<1>8. AnswerInv'
  BY <1>1, <1>2, AnswersCarried
<1> QED BY <1>2, <1>4, <1>5, <1>6, <1>7, <1>8

(* One line of the index, with the recorder's high-water mark.             *)
LEMMA EntryWritten ==
  ASSUME Inv, rec.st # "none", NEW state \in {"open", "reconstructed", "interrupted"}, NEW o \in Writes,
         WriteEntry(imem, Updated(state), o), UNCHANGED <<config, log, pushed>>
  PROVE  /\ index' \in Seq(IndexLine) /\ imem' \in IndexMemory /\ faults' \in FaultCounts
         /\ imem'.loaded /\ Grows /\ Silent
         /\ o = "ok" => \E k \in DOMAIN index' : index'[k].seq = rec.seq
         /\ o # "ok" => faults'.local # 0
         /\ o = "ok" /\ faults'.local = 0 => faults.local = 0 /\ LinkedIndex' /\ imem'.prev = Len(index')
         /\ o = "ok" /\ faults'.local = 0 /\ faults'.sign = 0 => faults.sign = 0 /\ Reached(log)'
<1> DEFINE e == Updated(state)
           p == IF o = "ok" THEN Len(index) + 1 ELSE Lost
           x == [seq |-> e.seq, state |-> e.state, linked |-> imem.prev = Len(index)]
<1> USE DEF Inv
<1>1. /\ imem' = [imem EXCEPT !.entry = e, !.prev = p]
      /\ o = "ok" => index' = Append(index, x)
      /\ o # "ok" => index' = index \/ index' = Append(index, TornEntry)
      /\ faults' = [faults EXCEPT !.local = @ + IF o = "ok" THEN 0 ELSE 1]
  BY DEF WriteEntry, Writes
<1>2. rec.seq \in Nat /\ log \in Seq(Line) /\ index \in Seq(IndexLine) /\ imem \in IndexMemory
      /\ imem.loaded /\ faults \in FaultCounts
  BY DEF TypeInv, RecorderRecord, ServiceInv
<1>3. e \in [seq : Nat, state : IndexStates] /\ e.seq = rec.seq
  BY <1>2 DEF Updated, IndexStates
<1>4. p \in Int
  BY <1>2, IndexEntries DEF Lost
<1>5. x \in IndexLine /\ x.seq = rec.seq /\ x.linked = (imem.prev = Len(index)) /\ TornEntry \in IndexLine
  BY <1>3 DEF IndexLine, TornEntry, IndexStates
<1> HIDE DEF e
<1>6. imem' \in IndexMemory /\ imem'.loaded /\ imem'.prev = p
  <2> HIDE DEF p
  <2> QED BY <1>1, <1>2, <1>3, <1>4 DEF IndexMemory
<1>7. /\ faults' \in FaultCounts /\ faults'.sign = faults.sign
      /\ faults'.local = faults.local + IF o = "ok" THEN 0 ELSE 1
  BY <1>1, <1>2 DEF FaultCounts
<1>8. Silent
  BY DEF Silent
<1> HIDE DEF x
<1>9. CASE o # "ok"
  <2>1. faults'.local # 0
    BY <1>2, <1>7, <1>9 DEF FaultCounts
  <2>2. index' \in Seq(IndexLine) /\ Grows
    <3>1. CASE index' = index
      BY <1>2, <3>1 DEF Grows
    <3>2. CASE index' = Append(index, TornEntry)
      BY <1>2, <1>5, <3>2 DEF Grows
    <3> QED BY <1>1, <1>9, <3>1, <3>2
  <2> QED BY <1>6, <1>7, <1>8, <1>9, <2>1, <2>2
<1>10. CASE o = "ok"
  <2>1. index' = Append(index, x) /\ p = Len(index) + 1 /\ Len(index) \in Nat
    BY <1>1, <1>2, <1>10, IndexEntries
  <2>2. /\ index' \in Seq(IndexLine) /\ Len(index') = p /\ index'[p] = x
        /\ \A k \in DOMAIN index : index'[k] = index[k]
        /\ DOMAIN index' = DOMAIN index \cup {p}
    BY <1>2, <1>5, <2>1
  <2>3. Grows
    BY <2>2 DEF Grows
  <2>4. ASSUME faults'.local = 0
        PROVE  faults.local = 0 /\ LinkedIndex' /\ imem'.prev = Len(index')
    <3>1. faults.local = 0
      BY <1>2, <1>7, <1>10, <2>4 DEF FaultCounts
    <3>2. LinkedIndex /\ imem.prev = Len(index)
      BY <1>2, <3>1 DEF CleanInv, Chained
    <3>3. LinkedIndex'
      BY <1>5, <2>2, <3>2 DEF LinkedIndex
    <3> QED BY <1>6, <2>2, <3>1, <3>3
  <2>5. ASSUME faults'.local = 0, faults'.sign = 0 PROVE faults.sign = 0 /\ Reached(log)'
    <3>1. Level(log, rec) /\ Reached(log) /\ log # <<>>
      BY <1>7, <2>4, <2>5 DEF CleanInv, Abreast, LogInv
    <3>2. rec.seq = log[Len(log)].seq
      BY <3>1 DEF Level
    <3>3. Reached(log)'
      BY <1>2, <1>5, <2>2, <3>1, <3>2 DEF Reached
    <3> QED BY <1>7, <2>5, <3>3
  <2>6. \E k \in DOMAIN index' : index'[k].seq = rec.seq
    BY <1>5, <2>2
  <2> QED BY <1>6, <1>7, <1>8, <1>10, <2>2, <2>3, <2>4, <2>5, <2>6
<1> QED BY <1>9, <1>10

(* Such a write, when the recorder stays.                                  *)
LEMMA IndexStep ==
  ASSUME Inv, rec.st # "none", NEW state \in {"open", "reconstructed", "interrupted"}, NEW o \in Writes,
         WriteEntry(imem, Updated(state), o),
         UNCHANGED <<config, log, pushed, rec, orphan, receipts, acked>>
  PROVE  /\ LogInv' /\ CleanInv' /\ AnswerInv' /\ Grows /\ Silent
         /\ index' \in Seq(IndexLine) /\ imem' \in IndexMemory /\ faults' \in FaultCounts
         /\ imem'.loaded /\ rec.seq \in Nat /\ log \in Seq(Line)
         /\ o = "ok" => \A n \in DOMAIN log : log[n].seq <= rec.seq => Covered(n)'
<1> USE DEF Inv
<1>1. /\ index' \in Seq(IndexLine) /\ imem' \in IndexMemory /\ faults' \in FaultCounts
      /\ imem'.loaded /\ Grows /\ Silent
      /\ o = "ok" => \E k \in DOMAIN index' : index'[k].seq = rec.seq
      /\ o # "ok" => faults'.local # 0
      /\ o = "ok" /\ faults'.local = 0 => faults.local = 0 /\ LinkedIndex' /\ imem'.prev = Len(index')
      /\ o = "ok" /\ faults'.local = 0 /\ faults'.sign = 0 => faults.sign = 0 /\ Reached(log)'
  BY EntryWritten
<1>2. LogInv'
  BY DEF LogInv, Built
<1>3. CleanInv'
  <2>1. ASSUME faults'.local = 0 PROVE Chained'
    <3>1. o = "ok" /\ Chained
      BY <1>1, <2>1 DEF CleanInv
    <3> QED BY <1>1, <2>1, <3>1 DEF Chained
  <2>2. ASSUME faults'.local = 0, faults'.sign = 0 PROVE Abreast'
    <3>1. o = "ok" /\ faults.local = 0 /\ faults.sign = 0
      BY <1>1, <2>2
    <3>2. Abreast
      BY <3>1 DEF CleanInv
    <3> QED BY <1>1, <2>2, <3>1, <3>2 DEF Abreast
  <2> QED BY <2>1, <2>2 DEF CleanInv
<1>4. AnswerInv'
  BY <1>1, AnswersCarried
<1>5. rec.seq \in Nat /\ log \in Seq(Line)
  BY DEF TypeInv, RecorderRecord
<1>6. ASSUME o = "ok", NEW n \in DOMAIN log, log[n].seq <= rec.seq PROVE Covered(n)'
  <2>1. PICK k \in DOMAIN index' : index'[k].seq = rec.seq
    BY <1>1, <1>6
  <2>2. log[n].seq \in Nat
    BY <1>5, LogLines
  <2>3. index'[k].seq >= log'[n].seq
    BY <1>5, <1>6, <2>1, <2>2
  <2> QED BY <2>1, <2>3 DEF Covered
<1> QED BY <1>1, <1>2, <1>3, <1>4, <1>5, <1>6

LEMMA NoRecorderTyped ==
  /\ NoRecorder \in RecorderRecord /\ NoRecorder.st = "none" /\ NoRecorder.prev = 0 /\ NoRecorder.seq = 0
  /\ ~NoRecorder.beat
  /\ \A l \in Seq(Line) : Follows(l, NoRecorder)
<1>1. NoRecorder \in RecorderRecord
  BY DEF NoRecorder, RecorderRecord
<1>2. NoRecorder.st = "none" /\ NoRecorder.prev = 0 /\ NoRecorder.seq = 0 /\ ~NoRecorder.beat
  BY DEF NoRecorder
<1> QED BY <1>1, <1>2, LogLines DEF Follows

LEMMA IndexRecorderStep ==
  ASSUME Inv, NEW w \in Workers, NEW o \in Writes, IndexRecorder(w, o)
  PROVE  Inv'
<1> USE DEF Inv
<1>1. /\ job[w].pc = "open"
      /\ WriteEntry(imem, IF rec.state = "open" THEN Opened ELSE Updated("reconstructed"), o)
      /\ IF o = "ok" THEN job' = [job EXCEPT ![w].pc = "tx"] /\ UNCHANGED <<rec, orphan>>
         ELSE Release(w) /\ orphan' = rec /\ rec' = NoRecorder
      /\ UNCHANGED <<config, log, pushed, receipts, svc, now, acked>>
  BY DEF IndexRecorder, storeVars, hostVars
<1>2. PICK state \in {"open", "reconstructed", "interrupted"} : WriteEntry(imem, Updated(state), o)
  BY <1>1 DEF Opened, Updated
<1>3. Busy(w) /\ rec.st # "none" /\ job[w].req \in Requests /\ \A v \in Workers \ {w} : ~Busy(v)
  <2>1. Busy(w)
    BY <1>1 DEF Busy
  <2> QED BY <1>1, <2>1 DEF JobInv, JobSound
<1>4. svc.up /\ svc.stop # "index"
  BY <1>1, Up DEF ServiceInv
<1>5. CASE o = "ok"
  <2>1. /\ LogInv' /\ CleanInv' /\ AnswerInv' /\ Grows /\ Silent
        /\ index' \in Seq(IndexLine) /\ imem' \in IndexMemory /\ faults' \in FaultCounts
        /\ imem'.loaded /\ rec.seq \in Nat /\ log \in Seq(Line)
    BY <1>1, <1>2, <1>3, <1>5, IndexStep
  <2>2. /\ job' \in [Workers -> Jobs] /\ job'[w].pc = "tx" /\ job'[w].req = job[w].req
        /\ \A v \in Workers \ {w} : job'[v] = job[v]
    BY <1>1, <1>5, Moved DEF TypeInv
  <2>3. UNCHANGED <<rec, orphan>>
    BY <1>1, <1>5
  <2>4. JobSound(w)'
    BY <1>3, <2>2, <2>3 DEF JobSound
  <2>5. JobInv'
    BY <1>3, <2>1, <2>2, <2>3, <2>4, JobsStep
  <2>6. TypeInv'
    BY <1>1, <2>1, <2>2, <2>3 DEF TypeInv
  <2>7. ServiceInv'
    BY <1>1, <1>4, <2>1 DEF ServiceInv
  <2> QED BY <2>1, <2>5, <2>6, <2>7
<1>6. CASE o # "ok"
  <2>1. /\ index' \in Seq(IndexLine) /\ imem' \in IndexMemory /\ faults' \in FaultCounts
        /\ imem'.loaded /\ Grows /\ Silent /\ faults'.local # 0
    BY <1>1, <1>2, <1>3, <1>6, EntryWritten
  <2>2. Release(w) /\ orphan' = rec /\ rec' = NoRecorder
    BY <1>1, <1>6
  <2>3. /\ job' \in [Workers -> Jobs] /\ \A v \in Workers \ {w} : job'[v] = job[v]
        /\ JobSound(w)' /\ ~Busy(w)'
    BY <2>2, Released DEF TypeInv
  <2>4. rec.seq \in Nat /\ rec'.seq \in Nat /\ log \in Seq(Line)
    BY <2>2, NoRecorderTyped DEF TypeInv, RecorderRecord
  <2>5. JobInv'
    BY <1>3, <2>1, <2>3, <2>4, JobsStep
  <2>6. LogInv'
    BY <1>1, <2>2, <2>4, NoRecorderTyped DEF LogInv
  <2>7. TypeInv'
    BY <1>1, <2>1, <2>2, <2>3, NoRecorderTyped DEF TypeInv
  <2>8. ServiceInv'
    BY <1>1, <1>4, <2>2, NoRecorderTyped DEF ServiceInv
  <2>9. CleanInv'
    BY <2>1 DEF CleanInv
  <2>10. AnswerInv'
    BY <1>1, <2>1, AnswersCarried
  <2> QED BY <2>5, <2>6, <2>7, <2>8, <2>9, <2>10
<1> QED BY <1>5, <1>6

LEMMA NoteCommitStep ==
  ASSUME Inv, NEW w \in Workers, NEW o \in Writes, NoteCommit(w, o)
  PROVE  Inv'
<1> USE DEF Inv
<1>1. /\ job[w].pc = "note" /\ WriteEntry(imem, Updated(rec.state), o)
      /\ IF o = "ok" THEN job' = [job EXCEPT ![w].pc = "commit"] ELSE Release(w)
      /\ UNCHANGED <<config, log, pushed, rec, orphan, receipts, svc, now, acked>>
  BY DEF NoteCommit, recorderVars, storeVars, hostVars
<1>2. rec.state \in {"open", "reconstructed", "interrupted"}
  BY DEF TypeInv, RecorderRecord
<1>3. /\ Busy(w) /\ rec.st # "none" /\ job[w].req \in Requests /\ (\A v \in Workers \ {w} : ~Busy(v))
      /\ Holds(job[w].req, job[w].line) /\ log[job[w].line].seq <= rec.seq
  <2>1. Busy(w)
    BY <1>1 DEF Busy
  <2> QED BY <1>1, <2>1 DEF JobInv, JobSound
<1>4. svc.up
  BY <1>1, Up
<1>5. /\ LogInv' /\ CleanInv' /\ AnswerInv' /\ Grows /\ Silent
      /\ index' \in Seq(IndexLine) /\ imem' \in IndexMemory /\ faults' \in FaultCounts
      /\ imem'.loaded /\ rec.seq \in Nat /\ log \in Seq(Line)
      /\ o = "ok" => \A n \in DOMAIN log : log[n].seq <= rec.seq => Covered(n)'
  BY <1>1, <1>2, <1>3, IndexStep
<1>6. /\ job' \in [Workers -> Jobs] /\ job'[w].pc \in {"idle", "commit"}
      /\ \A v \in Workers \ {w} : job'[v] = job[v]
      /\ JobSound(w)'
  <2>1. CASE o = "ok"
    <3>1. /\ job' \in [Workers -> Jobs] /\ job'[w].pc = "commit" /\ job'[w].req = job[w].req
          /\ job'[w].line = job[w].line /\ \A v \in Workers \ {w} : job'[v] = job[v]
      BY <1>1, <2>1, Moved DEF TypeInv
    <3>2. Holds(job[w].req, job[w].line)'
      <4>1. Holds(job[w].req, job[w].line) => Holds(job[w].req, job[w].line)'
        BY <1>1, <3>1 DEF Holds, Replicated, Mode
      <4> QED BY <1>3, <4>1
    <3>3. Covered(job[w].line)'
      <4>1. job[w].line \in DOMAIN log
        BY <1>3 DEF Holds
      <4>2. \E k \in DOMAIN index' : index'[k].seq >= log'[job[w].line].seq
        BY <1>1, <1>3, <1>5, <2>1, <4>1 DEF Covered
      <4> QED BY <3>1, <4>2 DEF Covered
    <3> QED BY <1>1, <1>3, <3>1, <3>2, <3>3 DEF JobSound
  <2>2. CASE o # "ok"
    BY <1>1, <2>2, Released DEF TypeInv
  <2> QED BY <2>1, <2>2
<1>7. JobInv'
  BY <1>1, <1>3, <1>5, <1>6, JobsStep
<1>8. TypeInv'
  BY <1>1, <1>5, <1>6 DEF TypeInv
<1>9. ServiceInv'
  BY <1>1, <1>4, <1>5, <1>6 DEF ServiceInv
<1> QED BY <1>5, <1>7, <1>8, <1>9

LEMMA StopIndexStep ==
  ASSUME Inv, NEW o \in Writes, StopIndex(o)
  PROVE  Inv'
<1> USE DEF Inv
<1>1. /\ svc.stop = "index" /\ WriteEntry(imem, Updated("interrupted"), o)
      /\ svc' = [svc EXCEPT !.stop = "pipe"]
      /\ UNCHANGED <<config, log, pushed, rec, orphan, receipts, job, now, acked>>
  BY DEF StopIndex, recorderVars, storeVars
<1>2. rec.st # "none" /\ svc.up
  BY <1>1 DEF ServiceInv
<1>3. /\ LogInv' /\ CleanInv' /\ AnswerInv' /\ Grows /\ Silent
      /\ index' \in Seq(IndexLine) /\ imem' \in IndexMemory /\ faults' \in FaultCounts
      /\ imem'.loaded /\ rec.seq \in Nat /\ log \in Seq(Line)
  BY <1>1, <1>2, IndexStep
<1>4. svc' \in ServiceState /\ svc'.up /\ svc'.stop = "pipe"
  BY <1>1, <1>2 DEF TypeInv, ServiceState
<1>5. JobInv'
  BY <1>1, <1>3, JobsSame
<1>6. TypeInv'
  BY <1>1, <1>3, <1>4 DEF TypeInv
<1>7. ServiceInv'
  BY <1>3, <1>4 DEF ServiceInv
<1> QED BY <1>3, <1>5, <1>6, <1>7

(* The service's own steps outside the log.                                *)
LEMMA ServiceStep ==
  ASSUME Inv, StopNothing \/ StopPipe \/ Restart \/ Tick
  PROVE  Inv'
<1> USE DEF Inv
<1>1. UNCHANGED <<config, log, pushed, rec, orphan, index, imem, faults, receipts, acked, job>>
  BY DEF StopNothing, StopPipe, Restart, Tick, recorderVars, indexVars, storeVars
<1>2. /\ LogInv' /\ CleanInv' /\ Grows /\ Silent
      /\ rec.seq \in Nat /\ rec'.seq \in Nat /\ log \in Seq(Line)
      /\ rec.st # "none" => rec'.st # "none" /\ rec.seq <= rec'.seq
  BY <1>1, SameLog
<1>3. JobInv' /\ AnswerInv'
  BY <1>1, <1>2, JobsSame, AnswersCarried
<1>4. svc' \in ServiceState /\ now' \in Nat
  <2>1. CASE StopNothing
    BY <2>1 DEF StopNothing, TypeInv, ServiceState
  <2>2. CASE StopPipe
    BY <2>2 DEF StopPipe, TypeInv, ServiceState
  <2>3. CASE Restart
    <3>1. svc' = [UpService EXCEPT !.restarts = svc.restarts + 1] /\ now' = now
      BY <2>3 DEF Restart
    <3>2. svc.restarts + 1 \in Nat /\ now \in Nat
      BY DEF TypeInv, ServiceState
    <3>3. UpService \in ServiceState
      BY DEF UpService, ServiceState
    <3> QED BY <3>1, <3>2, <3>3 DEF ServiceState
  <2>4. CASE Tick
    BY <2>4 DEF Tick, TypeInv, hostVars
  <2> QED BY <2>1, <2>2, <2>3, <2>4
<1>5. TypeInv'
  BY <1>1, <1>4 DEF TypeInv
<1>6. ServiceInv'
  <2>1. CASE StopNothing
    <3>1. svc.up /\ svc' = [svc EXCEPT !.stop = "pipe"]
      BY <2>1 DEF StopNothing
    <3>2. svc'.up /\ svc'.stop = "pipe"
      BY <3>1 DEF TypeInv, ServiceState
    <3> QED BY <1>1, <3>2 DEF ServiceInv
  <2>2. CASE StopPipe
    <3>1. svc.stop = "pipe" /\ svc' = [svc EXCEPT !.pipe = FALSE, !.stop = "join"]
      BY <2>2 DEF StopPipe
    <3>2. svc.up /\ svc'.up /\ svc'.stop = "join"
      BY <3>1 DEF TypeInv, ServiceState, ServiceInv
    <3> QED BY <1>1, <3>2 DEF ServiceInv
  <2>3. CASE Restart
    <3>1. svc' = [UpService EXCEPT !.restarts = svc.restarts + 1]
      BY <2>3 DEF Restart
    <3>2. svc'.up /\ svc'.stop = "run"
      BY <3>1 DEF UpService
    <3> QED BY <1>1, <3>2 DEF ServiceInv
  <2>4. CASE Tick
    BY <1>1, <2>4 DEF Tick, hostVars, ServiceInv
  <2> QED BY <2>1, <2>2, <2>3, <2>4
<1> QED BY <1>2, <1>3, <1>5, <1>6

LEMMA DownStep ==
  ASSUME Inv, Down
  PROVE  Inv'
<1> USE DEF Inv
<1>1. /\ svc' = [svc EXCEPT !.up = FALSE, !.pipe = FALSE, !.stop = "down"]
      /\ rec' = NoRecorder /\ orphan' = NoRecorder /\ imem' = FreshIndex /\ job' = [w \in Workers |-> IdleJob]
      /\ UNCHANGED <<config, log, pushed, index, receipts, now, acked, faults>>
  BY DEF Down, storeVars
<1>2. svc' \in ServiceState /\ ~svc'.pipe /\ svc'.stop = "down"
  BY <1>1 DEF TypeInv, ServiceState
<1>3. FreshIndex \in IndexMemory /\ ~FreshIndex.loaded
  BY DEF FreshIndex, NoEntry, IndexMemory, IndexStates
<1>4. job' \in [Workers -> Jobs] /\ \A w \in Workers : job'[w] = IdleJob
  BY <1>1, IdleJobTyped
<1>5. TypeInv'
  BY <1>1, <1>2, <1>3, <1>4, NoRecorderTyped DEF TypeInv
<1>6. LogInv'
  BY <1>1, NoRecorderTyped DEF LogInv, TypeInv
<1>7. JobInv'
  BY <1>4, IdleJobTyped DEF JobInv, JobSound, Busy
<1>8. AnswerInv'
  <2>1. Grows
    BY <1>1 DEF Grows
  <2> QED BY <1>1, <2>1, AnswersCarried
<1>9. ServiceInv'
  BY <1>1, <1>2, NoRecorderTyped DEF ServiceInv
<1>10. CleanInv'
  BY <1>1, <1>3, NoRecorderTyped DEF CleanInv, Chained, Abreast, LinkedIndex, Reached
<1> QED BY <1>5, <1>6, <1>7, <1>8, <1>9, <1>10

LEMMA Suffered ==
  ASSUME TypeInv, NEW o \in Outcomes, Suffer(o)
  PROVE  /\ faults' \in FaultCounts
         /\ faults'.local = 0 => faults.local = 0 /\ Whole(o.event) /\ Whole(o.seal) /\ Whole(o.last)
         /\ faults'.sign = 0 => faults.sign = 0
         /\ faults'.local = 0 /\ faults'.sign = 0 => Counts(o.event) /\ Counts(o.seal) /\ Counts(o.last)
<1> DEFINE a == Failed(o, LocalFaults)
           b == Failed(o, {"sign"})
           c == Failed(o, PushFaults)
<1>1. faults \in FaultCounts
  BY DEF TypeInv
<1>2. faults' = [local |-> faults.local + a, sign |-> faults.sign + b, push |-> faults.push + c]
  BY DEF Suffer
<1>3. a \in {0, 1} /\ b \in {0, 1} /\ c \in {0, 1}
  BY DEF Failed
<1>4. DOMAIN o = {"event", "seal", "last"}
  BY DEF Outcomes
<1>5. a = 0 => Whole(o.event) /\ Whole(o.seal) /\ Whole(o.last)
  BY <1>4 DEF Failed, Whole
<1>6. b = 0 => o.event # "sign" /\ o.seal # "sign" /\ o.last # "sign"
  BY <1>4 DEF Failed
<1> HIDE DEF a, b, c
<1>7. /\ faults' \in FaultCounts
      /\ faults'.local = 0 => faults.local = 0 /\ a = 0
      /\ faults'.sign = 0 => faults.sign = 0 /\ b = 0
  BY <1>1, <1>2, <1>3 DEF FaultCounts
<1> QED BY <1>5, <1>6, <1>7 DEF Whole, Counts

LEMMA RecorderSound ==
  ASSUME TypeInv, Kept(log), NEW r \in RecorderRecord, Follows(log, r)
  PROVE  LET s == Recorder(r)
         IN Sound(s) /\ s.log = log /\ s.pushed = pushed /\ s.rec = r /\ s.raised = FALSE
<1> DEFINE s == Recorder(r)
<1>1. s = [rec |-> r, log |-> log, pushed |-> pushed, seals |-> seals, raised |-> FALSE]
  BY DEF Recorder
<1>2. s.log = log /\ s.pushed = pushed /\ s.rec = r /\ s.raised = FALSE /\ s.seals = seals
  BY <1>1
<1>3. State(s)
  BY <1>1, <1>2 DEF State, TypeInv
<1> HIDE DEF s
<1>4. Sound(s)
  BY <1>2, <1>3 DEF Sound
<1> QED BY <1>2, <1>4 DEF s

LEMMA CachedSound ==
  ASSUME Inv
  PROVE  LET s == Recorder(rec)
         IN Sound(s) /\ s.log = log /\ s.pushed = pushed /\ s.rec = rec /\ s.raised = FALSE
<1>1. TypeInv /\ Kept(log) /\ rec \in RecorderRecord /\ Follows(log, rec)
  BY DEF Inv, TypeInv, LogInv
<1> QED BY <1>1, RecorderSound

LEMMA LiveServiceUp == ASSUME Inv, rec.st # "none" PROVE svc.up
BY NoRecorderTyped DEF Inv, ServiceInv

LEMMA HeartbeatStep ==
  ASSUME Inv, NEW o \in Outcomes, Heartbeat(o)
  PROVE  Inv'
<1> DEFINE s == Recorder(rec)
           t == AppendRecord(s, "beat", NoReq, o)
           c == Whole(o.event) /\ Whole(o.seal)
           d == Counts(o.event) /\ Counts(o.seal)
<1>1. /\ rec.st = "open" /\ Suffer(o) /\ Adopt(t)
      /\ UNCHANGED <<config, orphan, index, imem, receipts, job, svc, now, acked>>
  BY DEF Heartbeat, indexVars, storeVars, hostVars
<1>2. Sound(s) /\ s.log = log /\ s.pushed = pushed /\ s.rec = rec
  BY CachedSound
<1>3. Advances(s, t, NoReq, c, d)
  <2>1. May(s, "beat", NoReq) /\ config \in Deployments
    BY DEF May, Kinds, Inv, TypeInv
  <2> QED BY <1>2, <2>1, AppendStep
<1>4. log' = t.log /\ pushed' = t.pushed /\ rec' = t.rec
  BY <1>1 DEF Adopt
<1> HIDE DEF s, t
<1>5. rec' \in RecorderRecord /\ rec'.st = "open"
  BY <1>1, <1>2, <1>3, <1>4 DEF Advances, Sound, State, Extends
<1>6. /\ faults' \in FaultCounts
      /\ faults'.local = 0 => faults.local = 0 /\ c
      /\ faults'.sign = 0 => faults.sign = 0
      /\ faults'.local = 0 /\ faults'.sign = 0 => d
  BY <1>1, Suffered DEF Inv
<1> HIDE DEF c, d
<1>7. /\ LogInv' /\ CleanInv' /\ Grows /\ log' \in Seq(Line) /\ pushed' \in SUBSET Nat
      /\ rec.seq \in Nat /\ rec'.seq \in Nat /\ rec.seq <= rec'.seq /\ Silent
  BY <1>1, <1>2, <1>3, <1>4, <1>5, <1>6, RecorderStep
<1>8. JobInv' /\ AnswerInv'
  BY <1>1, <1>5, <1>7, JobsSame, AnswersCarried DEF Inv, TypeInv
<1>9. TypeInv'
  BY <1>1, <1>5, <1>6, <1>7 DEF Inv, TypeInv
<1>10. ServiceInv'
  BY <1>1, <1>5, LiveServiceUp DEF Inv, ServiceInv
<1> QED BY <1>7, <1>8, <1>9, <1>10 DEF Inv

LEMMA StopInterruptStep ==
  ASSUME Inv, NEW o \in Outcomes, StopInterrupt(o)
  PROVE  Inv'
<1> DEFINE x == [rec EXCEPT !.beat = FALSE, !.state = "interrupted"]
           s == Recorder(x)
           a == AppendRecord(s, "interrupt", NoReq, o)
           t == WriteMerkleSeal(a, o.last)
           u == InterruptRecorder(o)
           c == Whole(o.event) /\ Whole(o.seal)
           d == Counts(o.event) /\ Counts(o.seal)
           e == Whole(o.last)
           f == Counts(o.last)
<1>1. /\ svc.up /\ (\A w \in Workers : job[w].pc # "open") /\ rec.st = "open" /\ Suffer(o) /\ Adopt(u)
      /\ svc' = [svc EXCEPT !.stop = IF u.raised THEN "pipe" ELSE "index"]
      /\ UNCHANGED <<config, orphan, index, imem, receipts, job, now, acked>>
  BY DEF StopInterrupt, indexVars, storeVars
<1>2. x \in RecorderRecord /\ x.seq = rec.seq /\ x.prev = rec.prev /\ x.st = rec.st
  <2>1. rec \in RecorderRecord
    BY DEF Inv, TypeInv
  <2>2. x \in RecorderRecord
    BY <2>1 DEF RecorderRecord
  <2> QED BY <2>1, <2>2 DEF RecorderRecord
<1> HIDE DEF x
<1>3. Sound(s) /\ s.log = log /\ s.pushed = pushed /\ s.rec = x
  <2>1. TypeInv /\ Kept(log) /\ Follows(log, x)
    BY <1>2 DEF Inv, LogInv, Follows
  <2> QED BY <1>2, <2>1, RecorderSound
<1> HIDE DEF s
<1>4. config \in Deployments /\ May(s, "interrupt", NoReq)
  BY DEF May, Kinds, Inv, TypeInv
<1>5. Advances(s, a, NoReq, c, d)
  BY <1>3, <1>4, AppendStep
<1> HIDE DEF a
<1>6. Advances(a, t, NoReq, e, f)
  <2>1. Sound(a)
    BY <1>5 DEF Advances
  <2> QED BY <1>4, <2>1, SealStep
<1> HIDE DEF t
<1>7. Advances(s, t, NoReq, c /\ e, d /\ f)
  <2>1. c \in BOOLEAN /\ d \in BOOLEAN /\ e \in BOOLEAN /\ f \in BOOLEAN
    BY DEF Whole, Counts
  <2> HIDE DEF c, d, e, f
  <2> QED BY <1>3, <1>5, <1>6, <2>1, Advanced
<1>8. u = t \/ u = [t EXCEPT !.rec.st = "closed"]
  BY DEF InterruptRecorder, a, s, t, x
<1>9. t.rec \in RecorderRecord /\ t.rec.st = "open" /\ State(t)
  BY <1>1, <1>2, <1>3, <1>7 DEF Advances, Sound, State, Extends
<1>10. /\ u.log = t.log /\ u.pushed = t.pushed /\ u.rec \in RecorderRecord /\ u.rec.st # "none"
       /\ u.rec.seq = t.rec.seq /\ u.rec.prev = t.rec.prev
  <2>1. CASE u = t
    BY <1>9, <2>1
  <2>2. CASE u = [t EXCEPT !.rec.st = "closed"]
    <3> DEFINE y == [t.rec EXCEPT !.st = "closed"]
    <3>1. y \in RecorderRecord
      BY <1>9 DEF RecorderRecord
    <3>2. y.st = "closed" /\ y.seq = t.rec.seq /\ y.prev = t.rec.prev
      BY <1>9 DEF RecorderRecord
    <3>3. u = [t EXCEPT !.rec = y]
      BY <2>2
    <3> HIDE DEF y, u
    <3>4. u.log = t.log /\ u.pushed = t.pushed /\ u.rec = y
      BY <1>9, <3>3 DEF State
    <3> QED BY <3>1, <3>2, <3>4
  <2> QED BY <1>8, <2>1, <2>2
<1> HIDE DEF u
<1>11. log' = t.log /\ pushed' = t.pushed /\ rec' = u.rec
  BY <1>1, <1>10 DEF Adopt
<1>12. /\ faults' \in FaultCounts
       /\ faults'.local = 0 => faults.local = 0 /\ (c /\ e)
       /\ faults'.sign = 0 => faults.sign = 0
       /\ faults'.local = 0 /\ faults'.sign = 0 => d /\ f
  BY <1>1, Suffered DEF Inv
<1> HIDE DEF c, d, e, f
<1>13. /\ LogInv' /\ CleanInv' /\ Grows /\ log' \in Seq(Line) /\ pushed' \in SUBSET Nat
       /\ rec.seq \in Nat /\ rec'.seq \in Nat /\ rec.seq <= rec'.seq /\ Silent
  <2>1. rec.st # "none" /\ rec' \in RecorderRecord /\ rec'.st # "none"
        /\ rec'.seq = t.rec.seq /\ rec'.prev = t.rec.prev
        /\ s.rec.seq = rec.seq /\ s.rec.prev = rec.prev /\ s.log = log /\ s.pushed = pushed
    BY <1>1, <1>2, <1>3, <1>10, <1>11
  <2> QED BY <1>1, <1>3, <1>7, <1>11, <1>12, <2>1, RecorderStep
<1>14. rec'.st # "none"
  BY <1>10, <1>11
<1>15. JobInv' /\ AnswerInv'
  BY <1>1, <1>13, <1>14, JobsSame, AnswersCarried DEF Inv, TypeInv
<1>16. svc' \in ServiceState /\ svc'.up
  BY <1>1 DEF Inv, TypeInv, ServiceState
<1>17. TypeInv'
  BY <1>1, <1>10, <1>11, <1>12, <1>13, <1>16 DEF Inv, TypeInv
<1>18. ServiceInv'
  BY <1>1, <1>14, <1>16 DEF Inv, ServiceInv
<1> QED BY <1>13, <1>15, <1>17, <1>18 DEF Inv

LEMMA OrphanHeartbeatStep ==
  ASSUME Inv, OrphanHeartbeat
  PROVE  Inv'
<1> DEFINE o == [event |-> "ok", seal |-> "ok", last |-> "ok"]
           s == Recorder(orphan)
           t == AppendRecord(s, "beat", NoReq, o)
           n == Len(log) + 1
<1>1. /\ orphan.beat /\ orphan' = t.rec /\ Discard(t)
      /\ UNCHANGED <<config, index, imem, receipts, job, svc, now, acked, faults>>
  BY DEF OrphanHeartbeat, indexVars, storeVars, hostVars
<1>2. Sound(s) /\ s.log = log /\ s.pushed = pushed /\ s.rec = orphan
  <2>1. TypeInv /\ Kept(log) /\ orphan \in RecorderRecord /\ Follows(log, orphan)
    BY DEF Inv, TypeInv, LogInv
  <2> QED BY <2>1, RecorderSound
<1>3. o.event \notin Unwritten
  BY DEF Unwritten
<1>4. /\ Advances(s, t, NoReq, Whole(o.event) /\ Whole(o.seal), Counts(o.event) /\ Counts(o.seal))
      /\ n \in DOMAIN t.log /\ t.log[n] = NextLine(s, "beat", NoReq)
  <2>1. May(s, "beat", NoReq) /\ config \in Deployments
    BY DEF May, Kinds, Inv, TypeInv
  <2> HIDE DEF s, o
  <2> QED BY <1>2, <1>3, <2>1, AppendStep
<1>5. log' = t.log /\ pushed' = t.pushed /\ rec' = rec
  BY <1>1 DEF Discard
<1>6. t.log[n].linked => orphan.prev = Len(log)
  <2> DEFINE line == NextLine(s, "beat", NoReq)
  <2>1. line.linked = (s.rec.prev = Len(s.log))
    BY DEF NextLine
  <2> HIDE DEF line, s
  <2>2. line.linked => s.rec.prev = Len(s.log)
    BY <2>1
  <2> QED BY <1>2, <1>4, <2>2 DEF line
<1> HIDE DEF s, t, o
<1>7. State(s) /\ State(t) /\ Sound(t) /\ Extends(s, t) /\ Names(s, t, NoReq)
  BY <1>2, <1>4 DEF Advances, Sound
<1>8. log' \in Seq(Line) /\ pushed' \in SUBSET Nat /\ pushed \subseteq pushed' /\ orphan' \in RecorderRecord
  BY <1>1, <1>2, <1>5, <1>7 DEF State, Extends
<1>9. Grows /\ Silent
  BY <1>1, <1>2, <1>5, <1>7, <1>8, Prefix DEF Grows, Names, Silent
<1>10. rec.seq \in Nat /\ rec.prev \in Int /\ log \in Seq(Line) /\ orphan.prev \in Int
  BY DEF Inv, TypeInv, RecorderRecord
<1>11. LogInv'
  <2>1. Kept(log)' /\ Follows(log, orphan)'
    BY <1>1, <1>5, <1>7 DEF Sound
  <2>2. Follows(log, rec)'
    <3>1. Follows(s.log, rec)
      BY <1>2 DEF Inv, LogInv
    <3>2. Follows(t.log, rec)
      BY <1>7, <1>10, <3>1, FollowsKept
    <3> QED BY <1>5, <3>2
  <2>3. ASSUME rec.st # "none" PROVE log' # <<>> /\ Leads(log, rec, orphan)' /\ Built'
    <3>1. Leads(log, rec, orphan) /\ log # <<>> /\ Built
      BY <2>3 DEF Inv, LogInv
    <3>2. ~Linked(log')
      <4> SUFFICES ASSUME Linked(log') PROVE FALSE
        OBVIOUS
      <4>1. Linked(log)
        BY <1>2, <1>5, <1>7, Prefix
      <4>2. orphan.prev < Len(log) /\ Len(log) \in Nat
        BY <1>10, <3>1, <4>1, LogLines DEF Leads
      <4>3. t.log[n].linked
        BY <1>4, <1>5 DEF Linked
      <4> QED BY <1>6, <1>10, <4>2, <4>3
    <3>3. log' # <<>>
      BY <1>4, <1>5
    <3> QED BY <1>1, <3>1, <3>2, <3>3 DEF Leads, Built
  <2> QED BY <1>5, <2>1, <2>2, <2>3 DEF LogInv
<1>12. CleanInv'
  <2>1. faults.local # 0
    BY <1>1 DEF Inv, CleanInv, Chained
  <2> QED BY <1>1, <2>1 DEF CleanInv
<1>13. JobInv' /\ AnswerInv'
  BY <1>1, <1>5, <1>9, <1>10, JobsSame, AnswersCarried DEF Inv
<1>14. TypeInv'
  BY <1>1, <1>5, <1>8 DEF Inv, TypeInv
<1>15. ServiceInv'
  <2>1. svc.up
    BY <1>1, NoRecorderTyped DEF Inv, ServiceInv
  <2> QED BY <1>1, <1>5, <2>1 DEF Inv, ServiceInv
<1> QED BY <1>11, <1>12, <1>13, <1>14, <1>15 DEF Inv

LEMMA RecordStep ==
  ASSUME Inv, NEW w \in Workers, NEW o \in Outcomes, Record(w, o)
  PROVE  Inv'
<1> DEFINE r == job[w].req
           s == Recorder(rec)
           t == AppendRecord(s, r.event, Content(r), o)
           n == Len(log) + 1
           c == Whole(o.event) /\ Whole(o.seal)
           d == Counts(o.event) /\ Counts(o.seal)
           j == [job[w] EXCEPT !.pc = "note", !.line = n, !.fresh = TRUE]
<1>1. /\ job[w].pc = "record" /\ Suffer(o) /\ Adopt(t)
      /\ IF t.raised THEN Release(w) ELSE job' = [job EXCEPT ![w] = j]
      /\ UNCHANGED <<config, orphan, index, imem, receipts, svc, now, acked>>
  BY DEF Record, Content, indexVars, storeVars, hostVars
<1>2. /\ Busy(w) /\ rec.st # "none" /\ r \in Requests /\ (\A v \in Workers \ {w} : ~Busy(v))
      /\ job[w] \in Jobs /\ log \in Seq(Line) /\ Len(log) \in Nat /\ Built
      /\ \A m \in DOMAIN log : log[m].req.id # r.id
  <2>1. Busy(w)
    BY <1>1 DEF Busy
  <2> QED BY <1>1, <2>1, LogLines DEF Inv, TypeInv, JobInv, JobSound, LogInv
<1>3. Sound(s) /\ s.log = log /\ s.pushed = pushed /\ s.rec = rec
  BY CachedSound
<1>4. svc.up
  BY <1>1, Up
<1>5. May(s, r.event, Content(r)) /\ config \in Deployments
  <2>1. r.event \in Kinds
    BY <1>2, ProvenanceConstants DEF Kinds
  <2>2. \A m \in DOMAIN s.log : s.log[m].req.id # r.id
    BY <1>2, <1>3
  <2> HIDE DEF r, s
  <2> QED BY <1>2, <2>1, <2>2 DEF May, Inv, TypeInv
<1> HIDE DEF r, s, t
<1>6. /\ Advances(s, t, Content(r), c, d)
      /\ o.event \in Unwritten => t.raised
      /\ o.event \notin Unwritten =>
           /\ n \in DOMAIN t.log /\ t.log[n] = NextLine(s, r.event, Content(r))
           /\ Built /\ ~t.raised => Replicated(n, t.pushed)
  <2>1. n = Len(s.log) + 1
    BY <1>3
  <2> HIDE DEF n
  <2> QED BY <1>3, <1>5, <2>1, AppendStep DEF t
<1>7. log' = t.log /\ pushed' = t.pushed /\ rec' = t.rec
  BY <1>1 DEF Adopt
<1>8. rec' \in RecorderRecord /\ rec'.st # "none" /\ State(t) /\ Extends(s, t)
  BY <1>2, <1>3, <1>6, <1>7 DEF Advances, Sound, State, Extends
<1>9. /\ faults' \in FaultCounts
      /\ faults'.local = 0 => faults.local = 0 /\ c
      /\ faults'.sign = 0 => faults.sign = 0
      /\ faults'.local = 0 /\ faults'.sign = 0 => d
  BY <1>1, Suffered DEF Inv
<1>10. /\ LogInv' /\ CleanInv' /\ Grows /\ log' \in Seq(Line) /\ pushed' \in SUBSET Nat
       /\ rec.seq \in Nat /\ rec'.seq \in Nat /\ rec.seq <= rec'.seq
  <2> HIDE DEF c, d
  <2> QED BY <1>1, <1>2, <1>3, <1>6, <1>7, <1>8, <1>9, RecorderStep
<1>11. /\ job' \in [Workers -> Jobs] /\ (\A v \in Workers \ {w} : job'[v] = job[v])
       /\ JobSound(w)' /\ job'[w].pc # "open"
  <2>1. CASE t.raised
    <3>1. Release(w)
      BY <1>1, <2>1
    <3> QED BY <3>1, Released DEF Inv, TypeInv
  <2>2. CASE ~t.raised
    <3>1. job' = [job EXCEPT ![w] = j]
      BY <1>1, <2>2
    <3>2. j \in Jobs
      <4>1. n \in Nat /\ job[w] \in Jobs
        BY <1>2
      <4> HIDE DEF n
      <4> QED BY <4>1 DEF Jobs
    <3>3. j.pc = "note" /\ j.line = n /\ j.req = job[w].req
      <4> HIDE DEF n
      <4>1. job[w] \in Jobs
        BY <1>2
      <4>2. j.pc = "note" /\ j.line = n
        BY <4>1 DEF Jobs
      <4>3. j.req = job[w].req
        BY <4>1 DEF Jobs
      <4> QED BY <4>2, <4>3
    <3> HIDE DEF j
    <3>4. job' \in [Workers -> Jobs] /\ (\A v \in Workers \ {w} : job'[v] = job[v]) /\ job'[w] = j
      BY <3>1, <3>2 DEF Inv, TypeInv
    <3>5. /\ n \in DOMAIN t.log /\ t.log[n] = NextLine(s, r.event, Content(r)) /\ Replicated(n, t.pushed)
      BY <1>2, <1>6, <2>2
    <3>6. t.log[n].req = Content(r)
      BY <3>5 DEF NextLine
    <3>7. Holds(job[w].req, job[w].line)'
      <4>1. Mode' = Mode
        BY <1>1 DEF Mode
      <4>2. Mode' = "military" \/ config'.sink = "file" => n \in pushed'
        BY <1>1, <1>7, <3>5, <4>1 DEF Replicated
      <4>3. n \in DOMAIN log' /\ log'[n].req = Content(r)
        BY <1>7, <3>5, <3>6
      <4>4. job'[w].line = n /\ job'[w].req = r
        BY <3>3, <3>4 DEF r
      <4> HIDE DEF n
      <4> QED BY <4>2, <4>3, <4>4 DEF Holds, Replicated
    <3>8. log'[n].seq <= rec'.seq
      <4>1. n \notin DOMAIN s.log
        BY <1>2, <1>3, LogLines
      <4> QED BY <1>7, <1>8, <3>5, <4>1 DEF Extends
    <3>9. job'[w].pc = "note" /\ job'[w].line = n /\ job'[w].req \in Requests
      BY <1>2, <3>3, <3>4 DEF r
    <3> HIDE DEF n
    <3> QED BY <1>8, <3>4, <3>7, <3>8, <3>9 DEF JobSound
  <2> QED BY <2>1, <2>2
<1>12. JobInv'
  BY <1>2, <1>10, <1>11, JobsStep DEF Inv
<1>13. AnswerInv'
  BY <1>1, <1>10, AnswersCarried DEF Inv
<1>14. TypeInv'
  BY <1>1, <1>8, <1>9, <1>10, <1>11 DEF Inv, TypeInv
<1>15. ServiceInv'
  BY <1>1, <1>2, <1>4, <1>8, <1>11 DEF Inv, ServiceInv
<1> QED BY <1>10, <1>12, <1>13, <1>14, <1>15 DEF Inv

(* The line a retry finds carries its request.                             *)
LEMMA Recovered ==
  ASSUME log \in Seq(Line), NEW r \in Requests, NEW n \in RecoverRecord(r), log[n].req.body = r.body
  PROVE  log[n].req = Content(r) /\ n \in DOMAIN log
<1>1. n \in DOMAIN log /\ log[n].req.id = r.id /\ log[n].req \in ReqContent
  BY LogLines DEF RecoverRecord
<1>2. log[n].req # NoReq
  BY <1>1, Contents
<1>3. PICK q \in Requests : log[n].req = Content(q)
  BY <1>1, <1>2 DEF ReqContent
<1>4. q.id = r.id /\ q.body = r.body
  BY <1>1, <1>3, Contents
<1> QED BY <1>1, <1>3, <1>4 DEF Content

(* A receipt cut off after its line was replicated.                        *)
LEMMA ReceiptTorn ==
  ASSUME NEW s, NEW t, Sound(s), State(t), t.log = Append(s.log, Fragment), t.rec = s.rec, s.pushed \subseteq t.pushed,
         NEW c, NEW d, ~c, ~d
  PROVE  Advances(s, t, NoReq, c, d)
<1>1. s.log \in Seq(Line) /\ s.rec.seq \in Nat /\ s.rec.prev \in Int /\ Kept(s.log) /\ Follows(s.log, s.rec)
  BY DEF Sound, State, RecorderRecord
<1>2. /\ Len(t.log) = Len(s.log) + 1 /\ Len(s.log) \in Nat
      /\ DOMAIN t.log = DOMAIN s.log \cup {Len(s.log) + 1} /\ \A n \in DOMAIN s.log : t.log[n] = s.log[n]
      /\ t.log[Len(s.log) + 1].seq = 0 /\ t.log[Len(s.log) + 1].req = NoReq /\ Kept(t.log)
  BY <1>1, TornLine
<1>3. Follows(t.log, t.rec)
  BY <1>1, <1>2 DEF Follows
<1>4. Extends(s, t)
  BY <1>1, <1>2 DEF Extends
<1>5. Names(s, t, NoReq)
  BY <1>2 DEF Names
<1> QED BY <1>2, <1>3, <1>4, <1>5 DEF Advances, Sound

LEMMA RecoverStep ==
  ASSUME Inv, NEW w \in Workers, NEW o \in Outcomes, Recover(w, o)
  PROVE  Inv'
<1> DEFINE r == job[w].req
           s == Recorder(rec)
<1>1. /\ job[w].pc = "tx" /\ Suffer(o) /\ VerifyChain(log) /\ Cardinality(RecoverRecord(r)) = 1
      /\ UNCHANGED <<config, orphan, index, imem, receipts, svc, now, acked>>
  BY DEF Recover, indexVars, storeVars, hostVars
<1>2. /\ Busy(w) /\ rec.st # "none" /\ r \in Requests /\ (\A v \in Workers \ {w} : ~Busy(v))
      /\ job[w] \in Jobs /\ log \in Seq(Line) /\ Built /\ Leads(log, rec, orphan)
  <2>1. Busy(w)
    BY <1>1 DEF Busy
  <2> QED BY <1>1, <2>1 DEF Inv, TypeInv, JobInv, JobSound, LogInv
<1>3. PICK n \in RecoverRecord(r) : TRUE
  <2>1. RecoverRecord(r) # {}
    BY <1>1, FS_EmptySet
  <2> QED BY <2>1
<1> DEFINE t == Replicate(s, n, o.event)
           j == [job[w] EXCEPT !.pc = "note", !.line = n]
<1>4. /\ log[n].req.body = r.body /\ Adopt(t)
      /\ IF t.raised THEN Release(w) ELSE job' = [job EXCEPT ![w] = j]
  BY <1>3 DEF Recover
<1>5. Sound(s) /\ State(s) /\ s.log = log /\ s.pushed = pushed /\ s.rec = rec
  BY CachedSound DEF Sound
<1>6. log[n].req = Content(r) /\ n \in DOMAIN log /\ n \in Nat
  BY <1>2, <1>3, <1>4, Recovered, LogLines
<1> HIDE DEF r, s
<1>7. /\ State(t) /\ t.rec = rec /\ pushed \subseteq t.pushed
      /\ t.log = log \/ (o.event = "tornack" /\ t.log = Append(log, Fragment))
      /\ ~t.raised => Replicated(n, t.pushed)
  <2>1. config \in Deployments
    BY DEF Inv, TypeInv
  <2> QED BY <1>2, <1>5, <1>6, <2>1, ReplicateShape
<1> HIDE DEF t
<1>8. log' = t.log /\ pushed' = t.pushed /\ rec' = t.rec
  BY <1>4 DEF Adopt
<1>9. /\ faults' \in FaultCounts
      /\ faults'.local = 0 => faults.local = 0 /\ Whole(o.event)
      /\ faults'.sign = 0 => faults.sign = 0
  BY <1>1, Suffered DEF Inv
<1>10. Advances(s, t, NoReq, Whole(o.event), Whole(o.event))
  <2>1. CASE t.log = log
    BY <1>5, <1>7, <2>1, SameChain
  <2>2. CASE o.event = "tornack" /\ t.log = Append(log, Fragment)
    <3>1. ~Whole(o.event)
      BY <2>2 DEF Whole, LocalFaults
    <3> QED BY <1>5, <1>7, <2>2, <3>1, ReceiptTorn
  <2> QED BY <1>7, <2>1, <2>2
<1>11. rec' \in RecorderRecord /\ rec'.st # "none"
  BY <1>2, <1>7, <1>8 DEF Inv, TypeInv
<1>12. /\ LogInv' /\ CleanInv' /\ Grows /\ log' \in Seq(Line) /\ pushed' \in SUBSET Nat
       /\ rec.seq \in Nat /\ rec'.seq \in Nat /\ rec.seq <= rec'.seq
  BY <1>1, <1>2, <1>5, <1>8, <1>9, <1>10, <1>11, RecorderStep
<1>13. /\ job' \in [Workers -> Jobs] /\ (\A v \in Workers \ {w} : job'[v] = job[v])
       /\ JobSound(w)' /\ job'[w].pc # "open"
  <2>1. CASE t.raised
    <3>1. Release(w)
      BY <1>4, <2>1
    <3> QED BY <3>1, Released DEF Inv, TypeInv
  <2>2. CASE ~t.raised
    <3>1. job' = [job EXCEPT ![w] = j]
      BY <1>4, <2>2
    <3>2. j \in Jobs
      BY <1>2, <1>6 DEF Jobs
    <3>3. j.pc = "note" /\ j.line = n /\ j.req = job[w].req
      <4>1. j.pc = "note" /\ j.line = n
        BY <1>2 DEF Jobs
      <4>2. j.req = job[w].req
        BY <1>2 DEF Jobs
      <4> QED BY <4>1, <4>2
    <3> HIDE DEF j
    <3>4. job' \in [Workers -> Jobs] /\ (\A v \in Workers \ {w} : job'[v] = job[v]) /\ job'[w] = j
      BY <3>1, <3>2 DEF Inv, TypeInv
    <3>5. job'[w].pc = "note" /\ job'[w].line = n /\ job'[w].req = r /\ r \in Requests
      BY <1>2, <3>3, <3>4 DEF r
    <3>6. Holds(job[w].req, job[w].line)'
      <4>1. Mode' = Mode
        BY <1>1 DEF Mode
      <4>2. Mode' = "military" \/ config'.sink = "file" => n \in pushed'
        BY <1>1, <1>7, <1>8, <2>2, <4>1 DEF Replicated
      <4>3. n \in DOMAIN log' /\ log'[n].req = Content(r)
        BY <1>6, <1>12 DEF Grows
      <4> QED BY <3>5, <4>2, <4>3 DEF Holds, Replicated
    <3>7. log'[n].seq <= rec'.seq
      <4>1. Linked(log)
        BY <1>1 DEF VerifyChain, Linked
      <4> QED BY <1>2, <1>6, <1>7, <1>8, <1>12, <4>1 DEF Leads, Grows
    <3> QED BY <1>11, <3>4, <3>5, <3>6, <3>7 DEF JobSound
  <2> QED BY <2>1, <2>2
<1>14. JobInv'
  BY <1>2, <1>12, <1>13, JobsStep DEF Inv
<1>15. AnswerInv'
  BY <1>1, <1>12, AnswersCarried DEF Inv
<1>16. TypeInv'
  BY <1>1, <1>9, <1>11, <1>12, <1>13 DEF Inv, TypeInv
<1>17. svc.up
  BY <1>1, Up
<1>18. ServiceInv'
  BY <1>1, <1>2, <1>11, <1>13, <1>17 DEF Inv, ServiceInv
<1> QED BY <1>12, <1>14, <1>15, <1>16, <1>18 DEF Inv

(* start(): the chain state of the file, then the opening record.          *)
LEMMA LoadedSound ==
  ASSUME Inv, NEW state \in {"open", "reconstructed"}
  PROVE  LET x == [LoadChainState(log) EXCEPT !.state = state]
             s == Recorder(x)
         IN /\ x \in RecorderRecord /\ Sound(s) /\ s.log = log /\ s.pushed = pushed /\ s.rec = x /\ x.st = "open"
            /\ Tops(log, x) /\ (VerifyChain(log) => InStep(log, x)) /\ Level(log, x)
<1> DEFINE q == IF log = <<>> THEN 0 ELSE log[Len(log)].seq
           x == [LoadChainState(log) EXCEPT !.state = state]
           y == [NoRecorder EXCEPT !.st = "open", !.prev = Len(log), !.seq = q]
<1>1. log \in Seq(Line) /\ Len(log) \in Nat /\ TypeInv /\ Kept(log)
  BY LogLines DEF Inv, TypeInv, LogInv
<1>2. q \in Nat
  <2>1. CASE log = <<>>
    BY <2>1
  <2>2. CASE log # <<>>
    <3>1. Len(log) \in DOMAIN log
      BY <1>1, <2>2, LogLines
    <3> QED BY <1>1, <2>2, <3>1, LogLines
  <2> QED BY <2>1, <2>2
<1>3. x = [y EXCEPT !.state = state]
  BY DEF LoadChainState
<1>4. q = log[Len(log)].seq \/ log = <<>>
  OBVIOUS
<1> HIDE DEF q, x
<1>5. y \in RecorderRecord
  <2> DEFINE p == Len(log)
  <2>1. p \in Int /\ q \in Nat /\ NoRecorder \in RecorderRecord
    BY <1>1, <1>2, NoRecorderTyped
  <2>2. y = [NoRecorder EXCEPT !.st = "open", !.prev = p, !.seq = q]
    OBVIOUS
  <2> HIDE DEF p, y
  <2> QED BY <2>1, <2>2 DEF RecorderRecord
<1>6. y.st = "open" /\ y.seq = q /\ y.prev = Len(log)
  BY <1>1, <1>2, NoRecorderTyped DEF RecorderRecord
<1> HIDE DEF y
<1>7. x \in RecorderRecord /\ x.st = "open" /\ x.seq = q /\ x.prev = Len(log)
  <2>1. x \in RecorderRecord
    BY <1>3, <1>5 DEF RecorderRecord
  <2> QED BY <1>3, <1>5, <1>6, <2>1 DEF RecorderRecord
<1>8. Follows(log, x)
  BY <1>1, <1>2, <1>4, <1>7 DEF Follows
<1>9. Tops(log, x)
  <2> SUFFICES ASSUME Linked(log), NEW n \in DOMAIN log PROVE log[n].seq <= x.seq
    BY DEF Tops
  <2>1. log # <<>> /\ Len(log) \in DOMAIN log /\ n <= Len(log)
    BY <1>1, LogLines
  <2> QED BY <1>1, <1>4, <1>7, <2>1 DEF Kept
<1>10. (VerifyChain(log) => InStep(log, x)) /\ Level(log, x)
  BY <1>4, <1>7 DEF InStep, Level
<1>11. Sound(Recorder(x)) /\ Recorder(x).log = log /\ Recorder(x).pushed = pushed /\ Recorder(x).rec = x
  BY <1>1, <1>7, <1>8, RecorderSound
<1> QED BY <1>7, <1>9, <1>10, <1>11 DEF x

(* What start() leaves, whether it raised or not.                          *)
LEMMA StartShape ==
  ASSUME Inv, NEW resume \in BOOLEAN, NEW o
  PROVE  LET u == Start(resume, o)
         IN \E s, t :
              /\ Sound(s) /\ s.log = log /\ s.pushed = pushed
              /\ Tops(log, s.rec) /\ (VerifyChain(log) => InStep(log, s.rec)) /\ Level(log, s.rec)
              /\ Advances(s, t, NoReq, Whole(o.event) /\ Whole(o.seal), Counts(o.event) /\ Counts(o.seal))
              /\ u.log = t.log /\ u.pushed = t.pushed /\ u.raised = t.raised
              /\ u.rec \in RecorderRecord /\ u.rec.st = "open" /\ u.rec.seq = t.rec.seq /\ u.rec.prev = t.rec.prev
              /\ ~u.raised => Len(log) < Len(t.log)
<1> DEFINE state == IF resume THEN "reconstructed" ELSE "open"
           x == [LoadChainState(log) EXCEPT !.state = state]
           s == Recorder(x)
           t == AppendRecord(s, state, NoReq, o)
           u == Start(resume, o)
           b == ~t.raised
           y == [t.rec EXCEPT !.beat = b]
           c == Whole(o.event) /\ Whole(o.seal)
           d == Counts(o.event) /\ Counts(o.seal)
<1>1. state \in {"open", "reconstructed"}
  OBVIOUS
<1>2. u = [t EXCEPT !.rec = y]
  BY DEF Start
<1> HIDE DEF state
<1>3. /\ x \in RecorderRecord /\ Sound(s) /\ s.log = log /\ s.pushed = pushed /\ s.rec = x /\ x.st = "open"
      /\ Tops(log, x) /\ (VerifyChain(log) => InStep(log, x)) /\ Level(log, x)
  BY <1>1, LoadedSound
<1> HIDE DEF s, x
<1>4. May(s, state, NoReq) /\ config \in Deployments
  BY <1>1 DEF May, Kinds, Inv, TypeInv
<1>5. /\ Advances(s, t, NoReq, c, d)
      /\ o.event \in Unwritten => t.raised
      /\ o.event \notin Unwritten => Len(s.log) + 1 \in DOMAIN t.log
  BY <1>3, <1>4, AppendStep
<1> HIDE DEF t, c, d
<1>6. State(t) /\ t.rec.st = "open" /\ t.rec \in RecorderRecord /\ b \in BOOLEAN
  BY <1>3, <1>5 DEF Advances, Sound, State, Extends
<1>7. y \in RecorderRecord /\ y.st = "open" /\ y.seq = t.rec.seq /\ y.prev = t.rec.prev
  <2> HIDE DEF b
  <2>1. y \in RecorderRecord
    BY <1>6 DEF RecorderRecord
  <2> QED BY <1>6, <2>1 DEF RecorderRecord
<1> HIDE DEF y, u
<1>8. u.log = t.log /\ u.pushed = t.pushed /\ u.raised = t.raised /\ u.rec = y
  BY <1>2, <1>6 DEF State
<1>9. ~t.raised => Len(log) < Len(t.log)
  <2>1. log \in Seq(Line) /\ t.log \in Seq(Line)
    BY <1>6 DEF State, Inv, TypeInv
  <2> QED BY <1>3, <1>5, <2>1, LogLines
<1> QED BY <1>3, <1>5, <1>7, <1>8, <1>9 DEF c, d, u

LEMMA OpenRecorderStep ==
  ASSUME Inv, NEW w \in Workers, NEW o \in Outcomes, OpenRecorder(w, o)
  PROVE  Inv'
<1> DEFINE entry == LoadedIndex.entry
           resume == entry # NoEntry
           u == Start(resume, o)
           c == Whole(o.event) /\ Whole(o.seal)
           d == Counts(o.event) /\ Counts(o.seal)
<1>1. /\ svc.up /\ job[w].pc = "wait" /\ ~Locked /\ rec.st = "none" /\ Suffer(o)
      /\ \E b \in Buckets : BuildRecorder(b)
      /\ imem' = LoadedIndex
      /\ IF u.raised THEN Discard(u) /\ Release(w)
         ELSE Adopt(u) /\ job' = [job EXCEPT ![w].pc = "open"]
      /\ UNCHANGED <<config, orphan, index, receipts, svc, now, acked>>
  BY DEF OpenRecorder, storeVars, hostVars
<1>2. PICK s, t :
        /\ Sound(s) /\ s.log = log /\ s.pushed = pushed
        /\ Tops(log, s.rec) /\ (VerifyChain(log) => InStep(log, s.rec)) /\ Level(log, s.rec)
        /\ Advances(s, t, NoReq, c, d)
        /\ u.log = t.log /\ u.pushed = t.pushed /\ u.raised = t.raised
        /\ u.rec \in RecorderRecord /\ u.rec.st = "open" /\ u.rec.seq = t.rec.seq /\ u.rec.prev = t.rec.prev
        /\ ~u.raised => Len(log) < Len(t.log)
  <2> HIDE DEF entry
  <2>1. resume \in BOOLEAN
    OBVIOUS
  <2> HIDE DEF resume
  <2> QED BY <2>1, StartShape
<1> HIDE DEF u, c, d
<1>3. /\ log' = t.log /\ pushed' = t.pushed
      /\ u.raised => rec' = rec /\ Release(w)
      /\ ~u.raised => rec' = u.rec /\ job' = [job EXCEPT ![w].pc = "open"]
  BY <1>1, <1>2 DEF Adopt, Discard
<1>4. State(s) /\ State(t) /\ Sound(t) /\ Extends(s, t) /\ Names(s, t, NoReq) /\ (c => StepsIn(s, t)) /\ (d => LevelIn(s, t))
  BY <1>2 DEF Advances, Sound
<1>5. /\ log' \in Seq(Line) /\ pushed' \in SUBSET Nat /\ pushed \subseteq pushed'
      /\ log \in Seq(Line) /\ Len(log) \in Nat /\ Len(log') \in Nat /\ Len(log) <= Len(log')
  BY <1>2, <1>3, <1>4, Prefix DEF State, Extends
<1>6. Grows /\ Silent
  BY <1>1, <1>2, <1>3, <1>4, <1>5, Prefix DEF Grows, Names, Silent
<1>7. \A v \in Workers : ~Busy(v)
  BY <1>1 DEF Locked, Busy
<1>8. job[w].req \in Requests
  BY <1>1 DEF Inv, JobInv, JobSound
<1>9. /\ faults' \in FaultCounts
      /\ faults'.local = 0 => faults.local = 0 /\ c
      /\ faults'.sign = 0 => faults.sign = 0
      /\ faults'.local = 0 /\ faults'.sign = 0 => d
  BY <1>1, Suffered DEF Inv, c, d
<1>10. /\ rec' \in RecorderRecord /\ (u.raised => rec'.st = "none") /\ (~u.raised => rec'.st = "open")
       /\ rec.seq \in Nat /\ rec'.seq \in Nat
  BY <1>1, <1>2, <1>3 DEF Inv, TypeInv, RecorderRecord
<1>11. Built
  BY <1>1 DEF BuildRecorder, Built, Immutable
<1>12. LogInv'
  <2>1. Kept(log)'
    BY <1>3, <1>4 DEF Sound
  <2>2. Follows(log, orphan)' /\ orphan.prev \in Int /\ orphan.prev <= Len(log)
    <3>1. orphan.prev \in Int /\ Follows(log, orphan)
      BY DEF Inv, TypeInv, RecorderRecord, LogInv
    <3>2. Follows(t.log, orphan)
      BY <1>2, <1>4, <3>1, FollowsKept
    <3> QED BY <1>1, <1>3, <3>1, <3>2 DEF Follows
  <2>3. Follows(log, rec)'
    <3>1. CASE u.raised
      <4>1. rec.prev \in Int /\ Follows(log, rec)
        BY DEF Inv, TypeInv, RecorderRecord, LogInv
      <4>2. Follows(t.log, rec)
        BY <1>2, <1>4, <4>1, FollowsKept
      <4> QED BY <1>3, <3>1, <4>2
    <3>2. CASE ~u.raised
      BY <1>2, <1>3, <1>4, <3>2 DEF Sound, Follows
    <3> QED BY <3>1, <3>2
  <2>4. ASSUME rec'.st # "none" PROVE log' # <<>> /\ Leads(log, rec, orphan)' /\ Built'
    <3>1. ~u.raised /\ Len(log) < Len(log')
      BY <1>2, <1>3, <1>10, <2>4
    <3>2. Tops(t.log, t.rec)
      <4>1. Tops(s.log, s.rec)
        BY <1>2
      <4> QED BY <1>4, <4>1, TopsKept
    <3>3. rec'.seq = t.rec.seq
      BY <1>2, <1>3, <3>1
    <3>4. log' # <<>>
      BY <1>5, <3>1, LogLines
    <3>5. orphan'.prev < Len(log')
      BY <1>1, <1>5, <2>2, <3>1
    <3> QED BY <1>1, <1>3, <1>11, <3>2, <3>3, <3>4, <3>5 DEF Leads, Tops, Built
  <2> QED BY <2>1, <2>2, <2>3, <2>4 DEF LogInv
<1>13. CleanInv'
  <2>1. ASSUME faults'.local = 0 PROVE Chained'
    <3>1. c /\ Chained
      BY <1>9, <2>1 DEF Inv, CleanInv
    <3>2. InStep(t.log, t.rec)
      <4>1. InStep(s.log, s.rec)
        BY <1>2, <3>1 DEF Chained
      <4> QED BY <1>4, <3>1, <4>1 DEF StepsIn
    <3>3. VerifyChain(log') /\ (rec'.st # "none" => InStep(log', rec'))
      BY <1>2, <1>3, <1>10, <3>2 DEF InStep
    <3>4. imem'.prev = Len(index')
      BY <1>1, <3>1, LoadedTyped DEF Inv, Chained
    <3> QED BY <1>1, <3>1, <3>3, <3>4 DEF Chained, LinkedIndex
  <2>2. ASSUME faults'.local = 0, faults'.sign = 0 PROVE Abreast'
    <3>1. d /\ Reached(log)
      BY <1>9, <2>2 DEF Inv, CleanInv, Abreast
    <3>2. Level(t.log, t.rec)
      <4>1. Level(s.log, s.rec)
        BY <1>2
      <4> QED BY <1>4, <3>1, <4>1 DEF LevelIn
    <3>3. rec'.st # "none" => Level(log', rec')
      BY <1>2, <1>3, <1>10, <3>2 DEF Level
    <3>4. Reached(log)'
      <4> SUFFICES ASSUME NEW k \in DOMAIN index PROVE log' # <<>> /\ index[k].seq <= log'[Len(log')].seq
        BY <1>1 DEF Reached
      <4>1. log # <<>> /\ index[k].seq <= log[Len(log)].seq /\ s.rec.seq = log[Len(log)].seq
        BY <1>2, <3>1 DEF Reached, Level
      <4>2. log' # <<>>
        BY <1>5, <4>1, LogLines
      <4>3. t.rec.seq = log'[Len(log')].seq
        BY <1>3, <3>2, <4>2 DEF Level
      <4>4. s.rec.seq <= t.rec.seq /\ s.rec.seq \in Nat /\ t.rec.seq \in Nat
        BY <1>4 DEF Extends, State, RecorderRecord
      <4>5. index[k].seq \in Nat
        BY IndexEntries DEF Inv, TypeInv
      <4> QED BY <4>1, <4>2, <4>3, <4>4, <4>5
    <3> QED BY <3>3, <3>4 DEF Abreast
  <2> QED BY <2>1, <2>2 DEF CleanInv
<1>14. /\ job' \in [Workers -> Jobs] /\ (\A v \in Workers \ {w} : job'[v] = job[v])
       /\ JobSound(w)'
  <2>1. CASE u.raised
    BY <1>3, <2>1, Released DEF Inv, TypeInv
  <2>2. CASE ~u.raised
    <3>1. /\ job' \in [Workers -> Jobs] /\ (\A v \in Workers \ {w} : job'[v] = job[v])
          /\ job'[w].pc = "open" /\ job'[w].req = job[w].req
      BY <1>3, <2>2, Moved DEF Inv, TypeInv
    <3> QED BY <1>8, <1>10, <2>2, <3>1 DEF JobSound
  <2> QED BY <2>1, <2>2
<1>15. JobInv'
  BY <1>5, <1>6, <1>7, <1>10, <1>14, JobsStep DEF Inv
<1>16. AnswerInv'
  BY <1>1, <1>6, AnswersCarried DEF Inv
<1>17. imem' \in IndexMemory /\ imem'.loaded
  BY <1>1, LoadedTyped DEF Inv
<1>18. TypeInv'
  BY <1>1, <1>5, <1>9, <1>10, <1>14, <1>17 DEF Inv, TypeInv
<1>19. ServiceInv'
  BY <1>1, <1>17 DEF Inv, ServiceInv
<1> QED BY <1>12, <1>13, <1>15, <1>16, <1>18, <1>19 DEF Inv

-----------------------------------------------------------------------------
(* The theorems.                                                           *)

LEMMA InitInv == Init => Inv
<1> SUFFICES ASSUME Init PROVE Inv
  OBVIOUS
<1> USE DEF Init
<1>1. log = <<>> /\ index = <<>> /\ log \in Seq(Line) /\ index \in Seq(IndexLine) /\ DOMAIN log = {} /\ DOMAIN index = {}
  OBVIOUS
<1>2. FreshIndex \in IndexMemory /\ ~FreshIndex.loaded
  BY DEF FreshIndex, NoEntry, IndexMemory, IndexStates
<1>3. UpService \in ServiceState /\ UpService.up /\ UpService.stop = "run"
  BY DEF UpService, ServiceState
<1>4. job \in [Workers -> Jobs] /\ \A w \in Workers : job[w].pc = "idle"
  BY IdleJobTyped
<1>5. TypeInv
  BY <1>1, <1>2, <1>3, <1>4, NoRecorderTyped DEF TypeInv, FaultCounts
<1>6. LogInv
  BY <1>1, NoRecorderTyped DEF LogInv, Kept
<1>7. JobInv
  BY <1>4 DEF JobInv, JobSound, Busy
<1>8. AnswerInv
  BY DEF AnswerInv
<1>9. ServiceInv
  BY <1>3, NoRecorderTyped DEF ServiceInv
<1>10. CleanInv
  BY <1>1, <1>2, NoRecorderTyped DEF CleanInv, Chained, Abreast, VerifyChain, LinkedIndex, Reached
<1> QED BY <1>5, <1>6, <1>7, <1>8, <1>9, <1>10 DEF Inv

LEMMA UnchangedInv == Inv /\ UNCHANGED vars => Inv'
<1> SUFFICES ASSUME Inv, UNCHANGED vars PROVE Inv'
  OBVIOUS
<1>1. UNCHANGED <<config, log, pushed, rec, orphan, index, imem, receipts, job, svc, now, acked, faults>>
  BY DEF vars, recorderVars, indexVars, storeVars, hostVars
<1>2. /\ LogInv' /\ CleanInv' /\ Grows /\ Silent
      /\ rec.seq \in Nat /\ rec'.seq \in Nat /\ log \in Seq(Line)
      /\ rec.st # "none" => rec'.st # "none" /\ rec.seq <= rec'.seq
  BY <1>1, SameLog
<1>3. JobInv' /\ AnswerInv'
  BY <1>1, <1>2, JobsSame, AnswersCarried DEF Inv
<1>4. TypeInv' /\ ServiceInv'
  BY <1>1 DEF Inv, TypeInv, ServiceInv
<1> QED BY <1>2, <1>3, <1>4 DEF Inv

LEMMA NextInv == Inv /\ [Next]_vars => Inv'
<1> SUFFICES ASSUME Inv, Next PROVE Inv'
  BY UnchangedInv
<1>1. CASE \E w \in Workers, r \in Requests : Receive(w, r)
  BY <1>1, ReceiveStep
<1>2. CASE \E w \in Workers : Acquire(w) \/ RefuseRecorder(w) \/ Settle(w) \/ Check(w) \/ RecordRefused(w) \/ Commit(w)
  BY <1>2, AcquireStep, RefuseStep, SettleStep, CheckStep, RecordRefusedStep, CommitStep
<1>3. CASE \E w \in Workers, o \in Writes : IndexRecorder(w, o) \/ NoteCommit(w, o)
  BY <1>3, IndexRecorderStep, NoteCommitStep
<1>4. CASE \E w \in Workers, o \in Outcomes : OpenRecorder(w, o) \/ Recover(w, o) \/ Record(w, o)
  BY <1>4, OpenRecorderStep, RecoverStep, RecordStep
<1>5. CASE \E o \in Outcomes : Heartbeat(o) \/ StopInterrupt(o)
  BY <1>5, HeartbeatStep, StopInterruptStep
<1>6. CASE \E o \in Writes : StopIndex(o)
  BY <1>6, StopIndexStep
<1>7. CASE OrphanHeartbeat
  BY <1>7, OrphanHeartbeatStep
<1>8. CASE StopNothing \/ StopPipe \/ Restart \/ Tick
  BY <1>8, ServiceStep
<1>9. CASE Exit \/ Crash
  BY <1>9, DownStep DEF Exit, Crash
<1> QED BY <1>1, <1>2, <1>3, <1>4, <1>5, <1>6, <1>7, <1>8, <1>9 DEF Next

LEMMA Invariance == Spec => []Inv
BY InitInv, NextInv, PTL DEF Spec

(* A request id is in at most one line of the log, whatever was lost,      *)
(* rolled back, refused by a sink or cut off by a crash between the write  *)
(* of the record (ProvenanceRecorder.record) and the COMMIT.               *)
THEOREM RecordedOnce == Spec => []RequestRecordedOnce
<1>1. Inv => RequestRecordedOnce
  BY DEF Inv, LogInv, Kept, RequestRecordedOnce
<1> QED BY Invariance, <1>1, PTL

(* What a client was told is committed is in the log with its content,     *)
(* below the high-water mark of the session index, and replicated where    *)
(* the audit mode or a file sink demands it (handle_record's answer).      *)
THEOREM AnswersAreDurable == Spec => []AckedDurable
<1>1. Inv => AckedDurable
  BY DEF Inv, AnswerInv, Durable, Holds, Covered, Replicated, Content, AckedDurable
<1> QED BY Invariance, <1>1, PTL

(* The high-water mark of a linked log is its last sequence number.        *)
LEMMA LastIsHighWater ==
  ASSUME log \in Seq(Line), Kept(log), Linked(log), log # <<>>
  PROVE  HighWater(log) = log[Len(log)].seq
<1> DEFINE S == {log[n].seq : n \in DOMAIN log}
           top == log[Len(log)].seq
           P(m) == \A n \in DOMAIN log : log[n].seq <= m
<1>1. Len(log) \in DOMAIN log /\ \A n \in DOMAIN log : n <= Len(log) /\ log[n].seq \in Nat
  BY LogLines
<1>2. top \in S /\ P(top)
  BY <1>1 DEF Kept
<1>3. HighWater(log) = CHOOSE m \in S : P(m)
  BY DEF HighWater
<1>4. \A m \in S : P(m) => m = top
  <2> SUFFICES ASSUME NEW m \in S, P(m) PROVE m = top
    OBVIOUS
  <2>1. top <= m /\ m <= top /\ m \in Nat /\ top \in Nat
    BY <1>1, <1>2
  <2> QED BY <2>1
<1> HIDE DEF S, P, top
<1>5. HighWater(log) \in S /\ P(HighWater(log))
  BY <1>2, <1>3
<1> QED BY <1>4, <1>5 DEF top

(* With the process down at any point, the session index loads and the log *)
(* verifies (session_index and the first half of verify_for_resume) unless *)
(* a local write ended badly, and the log reaches the high-water mark of   *)
(* the index (the second half) unless a signature failed too: crashes,     *)
(* refused and forked replications and stops cut short do not matter.      *)
THEOREM SessionsResume == Spec => []ResumableAfterCrash
<1>1. Inv => ResumableAfterCrash
  <2> SUFFICES ASSUME Inv, faults.local = 0, ~svc.up
               PROVE  /\ IndexLoads /\ VerifyChain(log)
                      /\ faults.sign = 0 /\ LoadedIndex.entry # NoEntry => HighWater(log) >= LoadedIndex.entry.seq
    BY DEF ResumableAfterCrash
  <2>1. imem = FreshIndex /\ ~imem.loaded
    BY DEF Inv, ServiceInv, FreshIndex
  <2>2. VerifyChain(log) /\ LinkedIndex
    BY DEF Inv, CleanInv, Chained
  <2>3. IndexLoads
    BY <2>2 DEF IndexLoads, LinkedIndex
  <2>4. ASSUME faults.sign = 0, LoadedIndex.entry # NoEntry PROVE HighWater(log) >= LoadedIndex.entry.seq
    <3>1. index # <<>> /\ LoadedIndex.entry = [seq |-> index[Len(index)].seq, state |-> index[Len(index)].state]
      BY <2>1, <2>4 DEF LoadedIndex
    <3>2. Len(index) \in DOMAIN index /\ index[Len(index)].seq \in Nat
      BY <3>1, IndexEntries DEF Inv, TypeInv
    <3>3. log # <<>> /\ index[Len(index)].seq <= log[Len(log)].seq
      BY <2>4, <3>2 DEF Inv, CleanInv, Abreast, Reached
    <3>4. log \in Seq(Line) /\ Kept(log) /\ Linked(log)
      BY <2>2 DEF Inv, TypeInv, LogInv, VerifyChain, Linked
    <3>5. HighWater(log) = log[Len(log)].seq /\ log[Len(log)].seq \in Nat
      BY <3>3, <3>4, LastIsHighWater, LogLines
    <3>6. LoadedIndex.entry.seq = index[Len(index)].seq
      BY <3>1
    <3> QED BY <3>2, <3>3, <3>5, <3>6
  <2> QED BY <2>2, <2>3, <2>4
<1> QED BY Invariance, <1>1, PTL
=============================================================================
