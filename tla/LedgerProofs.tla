---------------------------- MODULE LedgerProofs ----------------------------
(***************************************************************************)
(* Proofs about Ledger, for every number of entries, segment length, crash *)
(* and failure.                                                            *)
(*                                                                         *)
(* What a write can do to the file is one of four changes (StepTo); each   *)
(* of them keeps the longest prefix that verifies or adds one linked entry *)
(* to it.  That such a longest prefix exists is itself an invariant of the *)
(* behaviour (BestInv), so no induction over the file is needed.           *)
(***************************************************************************)
EXTENDS Ledger, SequenceTheorems, TLAPS

Lines == Entries \cup {Junk}

(* Every write that a failure cuts short leaves nothing of the line, a     *)
(* part that does not parse, or all of it with its newline.                *)
WholeLines == "unterminated" \notin TornShapes

WriterType ==
  /\ writer \in [pc : {"idle", "rotated", "write", "recover"}, entry : Entries \cup {NoEntry},
                 lines : Seq(Lines), terminated : BOOLEAN]
  /\ writer.pc \in {"write", "recover"} => writer.entry \in Entries

MemoryType == memory = [seq |-> memory.seq, prev |-> memory.prev] /\ memory.seq \in Nat /\ memory.prev \in Ids \cup {0}

LedgerType ==
  /\ sealed \in Seq(Lines) /\ active \in Seq(Lines) /\ terminated \in BOOLEAN
  /\ MemoryType /\ WriterType
  /\ mode \in {"up", "down", "refused"}
  /\ faults \in [crash : Nat, write : Nat, recovery : Nat]
  /\ acked \in Seq(Entries)

(* A file that does not end with a newline is not empty, on disk and where *)
(* log() noted it.                                                         *)
EndsSomewhere ==
  /\ ~terminated => active # <<>>
  /\ ~writer.terminated => writer.lines # <<>>

(* The last line of later is no entry, and the earlier ones are as before. *)
Spoilt(lines, later) ==
  /\ Len(lines) > 0 /\ Len(later) = Len(lines) /\ later[Len(lines)] = Junk
  /\ \A i \in 1..Len(lines) - 1 : later[i] = lines[i]

(* What writing e, whole or in part, may turn the lines of the chain into. *)
ExactStep(lines, later, e) ==
  later = lines \/ later = Append(lines, e) \/ later = Append(lines, Junk)

StepTo(lines, later, e) == ExactStep(lines, later, e) \/ Spoilt(lines, later)

(* Until the write is made the file is the one log() noted; after a failed *)
(* write it is one write away from it.                                     *)
WriterSeesFile ==
  /\ writer.pc = "write" => active = writer.lines /\ terminated = writer.terminated
  /\ writer.pc = "recover" => StepTo(sealed \o writer.lines, Chain, writer.entry)

FileInv == LedgerType /\ EndsSomewhere /\ WriterSeesFile

-----------------------------------------------------------------------------
(* Sequences and links.                                                    *)

LEMMA ConcatLines ==
  ASSUME NEW s \in Seq(Lines), NEW u \in Seq(Lines)
  PROVE  /\ s \o u \in Seq(Lines) /\ Len(s \o u) = Len(s) + Len(u)
         /\ Len(s) \in Nat /\ Len(u) \in Nat
         /\ \A i \in 1..Len(s) : (s \o u)[i] = s[i]
         /\ \A i \in 1..Len(u) : (s \o u)[Len(s) + i] = u[i]
  OBVIOUS

LEMMA ConcatAppend ==
  ASSUME NEW s \in Seq(Lines), NEW u \in Seq(Lines), NEW x \in Lines
  PROVE  s \o Append(u, x) = Append(s \o u, x) /\ Append(u, x) \in Seq(Lines)
  OBVIOUS

LEMMA ConcatEmpty ==
  ASSUME NEW s \in Seq(Lines)
  PROVE  s \o <<>> = s /\ <<>> \in Seq(Lines)
  OBVIOUS

LEMMA EntriesApart ==
  ASSUME NEW e \in Entries
  PROVE  e # Junk /\ e # NoEntry /\ e \in Lines /\ e.seq \in Nat \ {0} /\ e.prev \in Ids \cup {0} /\ e.id \in Ids
  BY LedgerConstants DEF Entries, Lines

(* The lines up to n are numbered and linked.                              *)
LinkedAt(lines, i) == lines[i] # Junk /\ lines[i].seq = i /\ lines[i].prev = PrevId(lines, i)
LinkedTo(lines, n) == \A i \in 1..n : LinkedAt(lines, i)

LEMMA VerifiesLinked ==
  ASSUME NEW lines
  PROVE  Verifies(lines) <=> LinkedTo(lines, Len(lines))
  BY DEF Verifies, LinkedTo, LinkedAt

LEMMA SameLinks ==
  ASSUME NEW lines \in Seq(Lines), NEW later \in Seq(Lines), NEW i \in Nat \ {0},
         later[i] = lines[i], i > 1 => later[i - 1] = lines[i - 1]
  PROVE  LinkedAt(later, i) <=> LinkedAt(lines, i)
  BY DEF LinkedAt, PrevId

(* The two agree on their first n lines.                                   *)
LEMMA SamePrefixLinks ==
  ASSUME NEW lines \in Seq(Lines), NEW later \in Seq(Lines), NEW n \in Nat,
         \A i \in 1..n : later[i] = lines[i]
  PROVE  LinkedTo(later, n) <=> LinkedTo(lines, n)
<1>1. ASSUME NEW i \in 1..n PROVE LinkedAt(later, i) <=> LinkedAt(lines, i)
  <2>1. i \in Nat \ {0} /\ later[i] = lines[i] /\ (i > 1 => i - 1 \in 1..n)
    BY <1>1
  <2> QED BY <2>1, SameLinks
<1> QED BY <1>1 DEF LinkedTo

LEMMA PrefixVerifies ==
  ASSUME NEW lines \in Seq(Lines), NEW n \in 0..Len(lines)
  PROVE  Verifies(SubSeq(lines, 1, n)) <=> LinkedTo(lines, n)
<1> DEFINE cut == SubSeq(lines, 1, n)
<1>1. cut \in Seq(Lines) /\ Len(cut) = n /\ \A i \in 1..n : cut[i] = lines[i]
  OBVIOUS
<1> HIDE DEF cut
<1>2. n \in Nat
  OBVIOUS
<1>3. LinkedTo(cut, n) <=> LinkedTo(lines, n)
  BY <1>1, <1>2, SamePrefixLinks
<1>4. Verifies(cut) <=> LinkedTo(cut, n)
  BY <1>1, VerifiesLinked
<1> QED BY <1>3, <1>4 DEF cut

-----------------------------------------------------------------------------
(* The longest prefix that verifies.                                       *)

Best(lines, n) ==
  /\ n \in 0..Len(lines) /\ LinkedTo(lines, n)
  /\ n < Len(lines) => ~LinkedAt(lines, n + 1)

LEMMA BestIsValid ==
  ASSUME NEW lines \in Seq(Lines), NEW n, Best(lines, n)
  PROVE  Valid(lines) = SubSeq(lines, 1, n)
<1> DEFINE P(k) == /\ Verifies(SubSeq(lines, 1, k))
                   /\ \A m \in k + 1 .. Len(lines) : ~Verifies(SubSeq(lines, 1, m))
<1>1. n \in 0..Len(lines) /\ Len(lines) \in Nat
  BY DEF Best
<1>2. ASSUME NEW m \in n + 1 .. Len(lines) PROVE ~Verifies(SubSeq(lines, 1, m))
  <2>1. m \in 0..Len(lines) /\ n + 1 \in 1..m /\ n < Len(lines)
    BY <1>1, <1>2
  <2>2. ~LinkedTo(lines, m)
    BY <2>1 DEF Best, LinkedTo
  <2> QED BY <2>1, <2>2, PrefixVerifies
<1>3. P(n)
  BY <1>1, <1>2, PrefixVerifies DEF Best
<1>4. ASSUME NEW k \in 0..Len(lines), P(k) PROVE k = n
  <2>1. ~(k < n)
    BY <1>1, <1>3, <1>4
  <2>2. ~(n < k)
    BY <1>1, <1>3, <1>4
  <2> QED BY <1>1, <2>1, <2>2
<1>5. (CHOOSE k \in 0..Len(lines) : P(k)) = n
  BY <1>1, <1>3, <1>4
<1> QED BY <1>5 DEF Valid

LEMMA BestLength ==
  ASSUME NEW lines \in Seq(Lines), NEW n, Best(lines, n)
  PROVE  n \in Nat /\ Len(Valid(lines)) = n /\ \A i \in 1..n : Valid(lines)[i] = lines[i]
<1>1. n \in 0..Len(lines)
  BY DEF Best
<1>2. Valid(lines) = SubSeq(lines, 1, n)
  BY BestIsValid
<1> QED BY <1>1, <1>2

-----------------------------------------------------------------------------
(* What one write does to the longest prefix that verifies.                *)

(* The prefix stays, or the written entry, numbered and linked, is its     *)
(* next one.                                                               *)
Grows(lines, later, e) ==
  \/ Valid(later) = Valid(lines)
  \/ /\ Valid(later) = Append(Valid(lines), e)
     /\ e.seq = Len(Valid(lines)) + 1
     /\ e.prev = IF Valid(lines) = <<>> THEN 0 ELSE Valid(lines)[Len(Valid(lines))].id

LEMMA AppendedLine ==
  ASSUME NEW lines \in Seq(Lines), NEW x \in Lines
  PROVE  /\ Append(lines, x) \in Seq(Lines) /\ Len(Append(lines, x)) = Len(lines) + 1 /\ Len(lines) \in Nat
         /\ Append(lines, x)[Len(lines) + 1] = x
         /\ \A i \in 1..Len(lines) : Append(lines, x)[i] = lines[i]
  OBVIOUS

(* The same first n lines are the longest prefix of both.                  *)
LEMMA SameBest ==
  ASSUME NEW lines \in Seq(Lines), NEW later \in Seq(Lines), NEW n, Best(lines, n), Best(later, n),
         \A i \in 1..n : later[i] = lines[i]
  PROVE  Valid(later) = Valid(lines)
<1>1. n \in Nat /\ n \in 0..Len(lines) /\ n \in 0..Len(later)
  BY BestLength DEF Best
<1>2. Valid(lines) = SubSeq(lines, 1, n) /\ Valid(later) = SubSeq(later, 1, n)
  BY BestIsValid
<1>3. SubSeq(lines, 1, n) = [i \in 1..n |-> lines[i]] /\ SubSeq(later, 1, n) = [i \in 1..n |-> later[i]]
  BY <1>1
<1> QED BY <1>2, <1>3

LEMMA BestOfAppend ==
  ASSUME NEW lines \in Seq(Lines), NEW x \in Lines, NEW n, Best(lines, n)
  PROVE  IF n = Len(lines) /\ LinkedAt(Append(lines, x), n + 1)
         THEN Best(Append(lines, x), n + 1) ELSE Best(Append(lines, x), n)
<1> DEFINE later == Append(lines, x)
<1>1. later \in Seq(Lines) /\ Len(later) = Len(lines) + 1 /\ Len(lines) \in Nat
      /\ \A i \in 1..Len(lines) : later[i] = lines[i]
  BY AppendedLine
<1> HIDE DEF later
<1>2. n \in Nat /\ n <= Len(lines) /\ LinkedTo(lines, n)
  BY <1>1 DEF Best
<1>3. LinkedTo(later, n)
  BY <1>1, <1>2, SamePrefixLinks
<1>4. CASE n = Len(lines) /\ LinkedAt(later, n + 1)
  BY <1>1, <1>2, <1>3, <1>4 DEF Best, LinkedTo, later
<1>5. CASE n = Len(lines) /\ ~LinkedAt(later, n + 1)
  BY <1>1, <1>2, <1>3, <1>5 DEF Best, later
<1>6. CASE n < Len(lines)
  <2>1. n + 1 \in 1..Len(lines) /\ n + 1 \in Nat \ {0} /\ (n + 1 > 1 => n \in 1..Len(lines)) /\ (n + 1) - 1 = n
    BY <1>1, <1>2, <1>6
  <2>2. LinkedAt(later, n + 1) <=> LinkedAt(lines, n + 1)
    BY <1>1, <2>1, SameLinks
  <2> QED BY <1>1, <1>2, <1>3, <1>6, <2>2 DEF Best, later
<1> QED BY <1>1, <1>2, <1>4, <1>5, <1>6 DEF later

LEMMA StepGrows ==
  ASSUME NEW lines \in Seq(Lines), NEW later \in Seq(Lines), NEW e \in Entries,
         ExactStep(lines, later, e), NEW n, Best(lines, n)
  PROVE  (\E m \in Nat : Best(later, m)) /\ Grows(lines, later, e)
<1>1. n \in Nat /\ n <= Len(lines) /\ Len(lines) \in Nat
  BY DEF Best
<1>2. CASE later = lines
  BY <1>1, <1>2 DEF Grows
<1>3. ASSUME NEW x \in Lines, later = Append(lines, x), Best(later, n)
      PROVE  (\E m \in Nat : Best(later, m)) /\ Grows(lines, later, e)
  <2>1. \A i \in 1..n : later[i] = lines[i]
    BY <1>1, <1>3
  <2> QED BY <1>1, <1>3, <2>1, SameBest DEF Grows
<1>4. CASE later = Append(lines, Junk)
  <2>1. Junk \in Lines /\ later[Len(lines) + 1] = Junk
    BY <1>4, AppendedLine DEF Lines
  <2>2. n = Len(lines) => ~LinkedAt(later, n + 1)
    BY <2>1 DEF LinkedAt
  <2>3. Best(later, n)
    BY <1>4, <2>1, <2>2, BestOfAppend
  <2> QED BY <1>3, <1>4, <2>1, <2>3
<1>5. CASE later = Append(lines, e)
  <2>1. e \in Lines
    BY EntriesApart
  <2>2. CASE ~(n = Len(lines) /\ LinkedAt(later, n + 1))
    <3>1. Best(later, n)
      BY <1>5, <2>1, <2>2, BestOfAppend
    <3> QED BY <1>3, <1>5, <2>1, <3>1
  <2>3. CASE n = Len(lines) /\ LinkedAt(later, n + 1)
    <3>1. Best(later, n + 1) /\ n + 1 \in Nat
      BY <1>1, <1>5, <2>1, <2>3, BestOfAppend
    <3>2. Valid(later) = SubSeq(later, 1, n + 1) /\ Valid(lines) = SubSeq(lines, 1, n)
      BY <3>1, BestIsValid
    <3>3. Len(later) = n + 1 /\ later[n + 1] = e /\ \A i \in 1..n : later[i] = lines[i]
      BY <1>5, <2>1, <2>3, AppendedLine
    <3>4. SubSeq(later, 1, n + 1) = later /\ SubSeq(lines, 1, n) = lines
      BY <1>1, <2>3, <3>3
    <3>5. e.seq = n + 1 /\ e.prev = PrevId(later, n + 1)
      BY <2>3, <3>3 DEF LinkedAt
    <3>6. PrevId(later, n + 1) = IF lines = <<>> THEN 0 ELSE lines[Len(lines)].id
      <4>1. CASE n = 0
        <5>1. lines = <<>>
          BY <2>3, <4>1, EmptySeq
        <5> QED BY <4>1, <5>1 DEF PrevId
      <4>2. CASE n > 0
        <5>1. lines # <<>> /\ n + 1 # 1 /\ (n + 1) - 1 = n /\ n \in 1..n
          BY <1>1, <2>3, <4>2
        <5> QED BY <2>3, <3>3, <5>1 DEF PrevId
      <4> QED BY <1>1, <4>1, <4>2
    <3> QED BY <1>5, <2>3, <3>1, <3>2, <3>4, <3>5, <3>6 DEF Grows
  <2> QED BY <2>2, <2>3
<1> QED BY <1>2, <1>4, <1>5 DEF ExactStep

-----------------------------------------------------------------------------
(* Every step keeps the file and what log() noted of it in step.           *)

LEMMA WrittenSteps ==
  ASSUME sealed \in Seq(Lines), active \in Seq(Lines), terminated \in BOOLEAN, ~terminated => active # <<>>,
         NEW e \in Entries, NEW shape
  PROVE  /\ Written(e, shape).lines \in Seq(Lines) /\ Written(e, shape).terminated \in BOOLEAN
         /\ ~Written(e, shape).terminated => Written(e, shape).lines # <<>>
         /\ StepTo(Chain, sealed \o Written(e, shape).lines, e)
<1> DEFINE w == Written(e, shape)
<1>1. e \in Lines /\ Junk \in Lines
  BY EntriesApart DEF Lines
<1>2. CASE shape = "nothing"
  <2>1. w.lines = active /\ w.terminated = terminated
    BY <1>2 DEF Written
  <2> QED BY <2>1 DEF StepTo, ExactStep, Chain
<1>3. ASSUME NEW x \in {e, Junk}, w.lines = Append(active, x), w.terminated \in BOOLEAN
      PROVE  /\ w.lines \in Seq(Lines) /\ w.terminated \in BOOLEAN /\ w.lines # <<>>
             /\ StepTo(Chain, sealed \o w.lines, e)
  <2>1. x \in Lines
    BY <1>1
  <2>2. w.lines \in Seq(Lines) /\ sealed \o w.lines = Append(Chain, x)
    BY <1>3, <2>1, ConcatAppend DEF Chain
  <2>3. w.lines # <<>>
    BY <1>3, <2>1
  <2> QED BY <1>3, <2>2, <2>3 DEF StepTo, ExactStep
<1>4. CASE shape # "nothing" /\ terminated
  <2>1. w.terminated \in BOOLEAN /\ w.lines = Append(active, IF shape = "part" THEN Junk ELSE e)
    BY <1>4 DEF Written
  <2> QED BY <1>3, <2>1
<1>5. CASE shape # "nothing" /\ ~terminated
  <2>1. w.terminated \in BOOLEAN /\ w.lines = [active EXCEPT ![Len(active)] = Junk]
    BY <1>5 DEF Written
  <2>2. Len(active) \in Nat /\ Len(active) > 0
    BY <1>5
  <2>3. w.lines \in Seq(Lines) /\ Len(w.lines) = Len(active) /\ w.lines[Len(active)] = Junk
        /\ \A i \in 1..Len(active) - 1 : w.lines[i] = active[i]
    BY <1>1, <2>1, <2>2
  <2>4. PICK later : later = sealed \o w.lines
    OBVIOUS
  <2>5. Len(sealed) \in Nat /\ Len(later) = Len(sealed) + Len(active) /\ Len(Chain) = Len(sealed) + Len(active)
    <3>1. Len(sealed) \in Nat /\ Len(sealed \o active) = Len(sealed) + Len(active)
      BY ConcatLines
    <3>2. Len(sealed \o w.lines) = Len(sealed) + Len(w.lines)
      BY <2>3, ConcatLines
    <3> QED BY <2>3, <2>4, <3>1, <3>2 DEF Chain
  <2>6. later[Len(Chain)] = Junk
    BY <2>2, <2>3, <2>4, <2>5, ConcatLines
  <2>7. ASSUME NEW i \in 1..Len(Chain) - 1 PROVE later[i] = Chain[i]
    <3>1. CASE i \in 1..Len(sealed)
      BY <2>3, <2>4, <3>1, ConcatLines DEF Chain
    <3>2. CASE i > Len(sealed)
      <4>1. i - Len(sealed) \in 1..Len(active) - 1 /\ i - Len(sealed) \in 1..Len(active)
            /\ Len(sealed) + (i - Len(sealed)) = i
        BY <2>2, <2>5, <2>7, <3>2
      <4>2. (sealed \o w.lines)[Len(sealed) + (i - Len(sealed))] = w.lines[i - Len(sealed)]
        BY <2>3, <4>1, ConcatLines
      <4>3. (sealed \o active)[Len(sealed) + (i - Len(sealed))] = active[i - Len(sealed)]
        BY <4>1, ConcatLines
      <4> QED BY <2>3, <2>4, <4>1, <4>2, <4>3 DEF Chain
    <3> QED BY <2>5, <2>7, <3>1, <3>2
  <2>8. Spoilt(Chain, later)
    BY <2>2, <2>5, <2>6, <2>7 DEF Spoilt
  <2>9. w.lines # <<>>
    BY <2>2, <2>3
  <2> QED BY <2>1, <2>3, <2>4, <2>8, <2>9 DEF StepTo
<1> QED BY <1>2, <1>4, <1>5

LEMMA IdleWriterParts ==
  IdleWriter.pc = "idle" /\ IdleWriter.lines = <<>> /\ IdleWriter.terminated = TRUE
  BY DEF IdleWriter

(* The writer at rest: nothing is noted.                                   *)
LEMMA AtRest ==
  ASSUME writer' = IdleWriter \/ writer' = [IdleWriter EXCEPT !.pc = "rotated"]
  PROVE  WriterType' /\ writer'.pc \in {"idle", "rotated"} /\ writer'.terminated
<1>1. PICK none \in Seq(Lines) : none = <<>>
  BY EmptySeq
<1>2. \/ writer' = [pc |-> "idle", entry |-> NoEntry, lines |-> none, terminated |-> TRUE]
      \/ writer' = [pc |-> "rotated", entry |-> NoEntry, lines |-> none, terminated |-> TRUE]
  BY <1>1 DEF IdleWriter
<1>3. writer'.pc \in {"idle", "rotated"} /\ writer'.terminated = TRUE
  BY <1>2
<1>4. writer' \in [pc : {"idle", "rotated", "write", "recover"}, entry : Entries \cup {NoEntry},
                  lines : Seq(Lines), terminated : BOOLEAN]
  <2>1. CASE writer' = [pc |-> "idle", entry |-> NoEntry, lines |-> none, terminated |-> TRUE]
    BY <2>1
  <2>2. CASE writer' = [pc |-> "rotated", entry |-> NoEntry, lines |-> none, terminated |-> TRUE]
    BY <2>2
  <2> QED BY <1>2, <2>1, <2>2
<1>5. writer'.pc \notin {"write", "recover"}
  BY <1>3
<1>6. WriterType'
  BY <1>4, <1>5 DEF WriterType
<1> QED BY <1>3, <1>6

LEMMA TailType ==
  ASSUME NEW lines \in Seq(Lines), Verifies(lines)
  PROVE  LET m == LoadTail(lines) IN
         m = [seq |-> m.seq, prev |-> m.prev] /\ m.seq = Len(lines) /\ m.seq \in Nat /\ m.prev \in Ids \cup {0}
<1>1. CASE lines = <<>>
  BY <1>1 DEF LoadTail
<1>2. CASE lines # <<>>
  <2>1. Len(lines) \in 1..Len(lines) /\ Len(lines) \in Nat
    BY <1>2
  <2>2. lines[Len(lines)] \in Lines /\ lines[Len(lines)] # Junk /\ lines[Len(lines)].seq = Len(lines)
    BY <2>1 DEF Verifies
  <2>3. lines[Len(lines)].id \in Ids
    BY <2>2, EntriesApart DEF Lines
  <2> QED BY <1>2, <2>1, <2>2, <2>3 DEF LoadTail
<1> QED BY <1>1, <1>2

LEMMA ChainType ==
  ASSUME LedgerType
  PROVE  /\ Chain \in Seq(Lines) /\ sealed \o writer.lines \in Seq(Lines) /\ Base \in Seq(Lines)
  BY ConcatLines DEF LedgerType, WriterType, Chain, Base

LEMMA NextType ==
  ASSUME FileInv'
  PROVE  Chain' \in Seq(Lines) /\ Base' \in Seq(Lines)
<1>1. sealed' \in Seq(Lines) /\ active' \in Seq(Lines) /\ writer'.lines \in Seq(Lines)
  BY DEF FileInv, LedgerType, WriterType
<1>2. Chain' \in Seq(Lines) /\ sealed' \o writer'.lines \in Seq(Lines)
  BY <1>1, ConcatLines DEF Chain
<1> QED BY <1>2 DEF Base

(* The write leaves one of the file's possible next contents.              *)
LEMMA PutWritten ==
  ASSUME FileInv, writer.pc = "write", NEW shape, Put(Written(writer.entry, shape)), UNCHANGED sealed
  PROVE  /\ active' \in Seq(Lines) /\ terminated' \in BOOLEAN /\ (~terminated' => active' # <<>>)
         /\ StepTo(Base, Chain', writer.entry)
<1>1. writer.entry \in Entries /\ sealed \in Seq(Lines) /\ active \in Seq(Lines) /\ terminated \in BOOLEAN
      /\ (~terminated => active # <<>>)
  BY DEF FileInv, LedgerType, WriterType, EndsSomewhere
<1>2. active' = Written(writer.entry, shape).lines /\ terminated' = Written(writer.entry, shape).terminated
  BY DEF Put
<1>3. Base = Chain
  BY DEF FileInv, WriterSeesFile, Base, Chain
<1>4. Chain' = sealed \o Written(writer.entry, shape).lines
  BY <1>2 DEF Chain
<1> QED BY <1>1, <1>2, <1>3, <1>4, WrittenSteps

LEMMA FileInit == ASSUME Init PROVE FileInv
<1>1. /\ sealed = <<>> /\ active = <<>> /\ terminated = TRUE /\ acked = <<>> /\ mode = "up"
      /\ faults \in [crash : Nat, write : Nat, recovery : Nat]
  BY DEF Init
<1>2. PICK none \in Seq(Lines) : none = <<>>
  BY EmptySeq
<1>A. writer = [pc |-> "idle", entry |-> NoEntry, lines |-> none, terminated |-> TRUE]
  BY <1>2 DEF Init, IdleWriter
<1>B. WriterType /\ writer.pc = "idle" /\ writer.terminated
  BY <1>A DEF WriterType
<1>3. MemoryType
  BY DEF Init, MemoryType
<1>4. LedgerType
  BY <1>1, <1>B, <1>3, EmptySeq DEF LedgerType
<1> QED BY <1>1, <1>B, <1>4 DEF FileInv, EndsSomewhere, WriterSeesFile

LEMMA RotateFile == ASSUME FileInv, Rotate PROVE FileInv'
<1>1. sealed' = Chain /\ active' = <<>> /\ terminated' = TRUE /\ UNCHANGED <<memory, mode, faults, acked>>
  BY DEF Rotate
<1>2. WriterType' /\ writer'.pc \in {"idle", "rotated"} /\ writer'.terminated
  BY AtRest DEF Rotate
<1>3. LedgerType'
  BY <1>1, <1>2, ChainType, EmptySeq DEF FileInv, LedgerType, MemoryType
<1> QED BY <1>1, <1>2, <1>3 DEF FileInv, EndsSomewhere, WriterSeesFile

LEMMA BeginFile == ASSUME FileInv, NEW id \in Ids, BeginAppend(id) PROVE FileInv'
<1> DEFINE e == [seq |-> memory.seq + 1, prev |-> memory.prev, id |-> id]
<1>1. UNCHANGED <<sealed, active, terminated, memory, mode, faults, acked>>
  BY DEF BeginAppend, disk
<1>2. writer' = [pc |-> "write", lines |-> active, terminated |-> terminated, entry |-> e]
  BY DEF BeginAppend
<1>3. e \in Entries
  BY DEF FileInv, LedgerType, MemoryType, Entries
<1> HIDE DEF e
<1>4. WriterType'
  BY <1>2, <1>3 DEF FileInv, LedgerType, WriterType
<1>5. LedgerType'
  BY <1>1, <1>4 DEF FileInv, LedgerType, MemoryType
<1> QED BY <1>1, <1>2, <1>5 DEF FileInv, EndsSomewhere, WriterSeesFile

LEMMA SucceedsFile == ASSUME FileInv, AppendSucceeds PROVE FileInv'
<1>1. writer.pc = "write" /\ Put(Written(writer.entry, "whole")) /\ UNCHANGED sealed /\ UNCHANGED <<mode, faults>>
  BY DEF AppendSucceeds
<1>2. active' \in Seq(Lines) /\ terminated' \in BOOLEAN /\ (~terminated' => active' # <<>>)
  BY <1>1, PutWritten
<1>3. WriterType' /\ writer'.pc \in {"idle", "rotated"} /\ writer'.terminated
  BY AtRest DEF AppendSucceeds
<1>4. writer.entry \in Entries
  BY <1>1 DEF FileInv, LedgerType, WriterType
<1>5. MemoryType'
  BY <1>4, EntriesApart DEF AppendSucceeds, Published, MemoryType
<1>6. acked' \in Seq(Entries)
  BY <1>4 DEF AppendSucceeds, FileInv, LedgerType
<1>7. LedgerType'
  BY <1>1, <1>2, <1>3, <1>5, <1>6 DEF FileInv, LedgerType
<1> QED BY <1>2, <1>3, <1>7 DEF FileInv, EndsSomewhere, WriterSeesFile

LEMMA FailsFile == ASSUME FileInv, AppendFails PROVE FileInv'
<1>1. writer.pc = "write" /\ UNCHANGED sealed /\ UNCHANGED <<memory, mode, acked>>
  BY DEF AppendFails
<1>2. PICK shape : Put(Written(writer.entry, shape))
  BY DEF AppendFails
<1>3. active' \in Seq(Lines) /\ terminated' \in BOOLEAN /\ (~terminated' => active' # <<>>)
      /\ StepTo(Base, Chain', writer.entry)
  BY <1>1, <1>2, PutWritten
<1>4. writer' = [writer EXCEPT !.pc = "recover"] /\ faults' = [faults EXCEPT !.write = faults.write + 1]
  BY DEF AppendFails
<1>5. faults' \in [crash : Nat, write : Nat, recovery : Nat]
  BY <1>4 DEF FileInv, LedgerType
<1>6. /\ writer'.lines = writer.lines /\ writer'.terminated = writer.terminated /\ writer'.entry = writer.entry
      /\ writer'.pc = "recover"
  BY <1>4 DEF FileInv, LedgerType, WriterType
<1>7. WriterType'
  BY <1>1, <1>4 DEF FileInv, LedgerType, WriterType
<1>8. LedgerType'
  BY <1>1, <1>3, <1>5, <1>7 DEF FileInv, LedgerType, MemoryType
<1> QED BY <1>1, <1>3, <1>6, <1>8 DEF FileInv, EndsSomewhere, WriterSeesFile, Base

LEMMA RecoverFile == ASSUME FileInv, Recover PROVE FileInv'
<1>1. UNCHANGED <<sealed, mode, faults, acked>> /\ active' = writer.lines /\ terminated' = writer.terminated
  BY DEF Recover, Put, Truncated
<1>2. WriterType' /\ writer'.pc \in {"idle", "rotated"} /\ writer'.terminated
  BY AtRest DEF Recover
<1>3. PICK lines : lines = sealed \o active'
  OBVIOUS
<1>4. lines \in Seq(Lines)
  BY <1>1, <1>3, ChainType DEF FileInv
<1>5. memory' = IF Verifies(lines) THEN LoadTail(lines) ELSE memory
  BY <1>3 DEF Recover
<1>6. MemoryType'
  BY <1>4, <1>5, TailType DEF FileInv, LedgerType, MemoryType
<1>7. LedgerType'
  BY <1>1, <1>2, <1>6 DEF FileInv, LedgerType, WriterType
<1> QED BY <1>1, <1>2, <1>7 DEF FileInv, EndsSomewhere, WriterSeesFile

LEMMA RecoverFailsFile == ASSUME FileInv, RecoverFails PROVE FileInv'
<1>1. UNCHANGED <<sealed, active, terminated, memory, mode, acked>>
  BY DEF RecoverFails, disk
<1>2. WriterType' /\ writer'.pc \in {"idle", "rotated"} /\ writer'.terminated
  BY AtRest DEF RecoverFails
<1>3. faults' = [faults EXCEPT !.recovery = faults.recovery + 1]
  BY DEF RecoverFails
<1>4. faults' \in [crash : Nat, write : Nat, recovery : Nat]
  BY <1>3 DEF FileInv, LedgerType
<1>5. LedgerType'
  BY <1>1, <1>2, <1>4 DEF FileInv, LedgerType, MemoryType
<1> QED BY <1>1, <1>2, <1>5 DEF FileInv, EndsSomewhere, WriterSeesFile

LEMMA CrashFile == ASSUME FileInv, Crash PROVE FileInv'
<1>1. UNCHANGED <<sealed, memory, acked>> /\ mode' = "down"
  BY DEF Crash
<1>2. WriterType' /\ writer'.pc \in {"idle", "rotated"} /\ writer'.terminated
  BY AtRest DEF Crash
<1>3. active' \in Seq(Lines) /\ terminated' \in BOOLEAN /\ (~terminated' => active' # <<>>)
  BY <1>1, PutWritten DEF Crash, FileInv, LedgerType, EndsSomewhere
<1>4. faults' = [faults EXCEPT !.crash = faults.crash + 1]
  BY DEF Crash
<1>5. faults' \in [crash : Nat, write : Nat, recovery : Nat]
  BY <1>4 DEF FileInv, LedgerType
<1>6. LedgerType'
  BY <1>1, <1>2, <1>3, <1>5 DEF FileInv, LedgerType, MemoryType
<1> QED BY <1>2, <1>3, <1>6 DEF FileInv, EndsSomewhere, WriterSeesFile

LEMMA ResumeFile == ASSUME FileInv, Resume PROVE FileInv'
<1>1. UNCHANGED <<sealed, active, terminated, writer, faults, acked>> /\ mode' \in {"up", "refused"}
  BY DEF Resume, disk
<1>2. memory' = IF Verifies(Chain) THEN LoadTail(Chain) ELSE memory
  BY DEF Resume
<1>3. PICK lines \in Seq(Lines) : lines = Chain
  BY ChainType DEF FileInv
<1>4. MemoryType'
  BY <1>2, <1>3, TailType DEF FileInv, LedgerType, MemoryType
<1>5. LedgerType'
  BY <1>1, <1>4 DEF FileInv, LedgerType, WriterType
<1> QED BY <1>1, <1>5 DEF FileInv, EndsSomewhere, WriterSeesFile, Chain

LEMMA FileNext == ASSUME FileInv, [Next]_vars PROVE FileInv'
<1>1. CASE UNCHANGED vars
  BY <1>1 DEF vars, disk, FileInv, LedgerType, MemoryType, WriterType, EndsSomewhere, WriterSeesFile, Chain
<1> QED BY <1>1, RotateFile, BeginFile, SucceedsFile, FailsFile, RecoverFile, RecoverFailsFile, CrashFile, ResumeFile
        DEF Next

-----------------------------------------------------------------------------
(* How the log moves: it takes the file as a write leaves it, or stays.    *)

Lands ==
  \/ writer.pc = "recover" /\ UNCHANGED Chain
  \/ /\ writer.pc = "write" /\ UNCHANGED sealed
     /\ \E shape \in TornShapes \cup {"whole"} : Put(Written(writer.entry, shape))

BaseMoves == UNCHANGED Base \/ (Lands /\ Base' = Chain')

LEMMA LandedBase ==
  ASSUME writer'.pc \in {"idle", "rotated"}
  PROVE  Base' = Chain'
  BY DEF Base

LEMMA BaseNext == ASSUME FileInv, [Next]_vars PROVE BaseMoves
<1>1. CASE Rotate
  <2>1. Chain \in Seq(Lines) /\ Base = Chain
    BY <1>1, ChainType DEF FileInv, Rotate, Base
  <2>2. sealed' = Chain /\ active' = <<>>
    BY <1>1 DEF Rotate
  <2>3. Chain' = Chain
    BY <2>1, <2>2, ConcatEmpty DEF Chain
  <2>4. writer'.pc \in {"idle", "rotated"}
    BY <1>1, AtRest DEF Rotate
  <2> QED BY <2>1, <2>3, <2>4, LandedBase DEF BaseMoves
<1>2. ASSUME NEW id \in Ids, BeginAppend(id) PROVE BaseMoves
  <2>1. writer.pc \in {"idle", "rotated"} /\ UNCHANGED <<sealed, active>>
        /\ writer'.pc = "write" /\ writer'.lines = active
    BY <1>2 DEF BeginAppend, CanLog, disk
  <2> QED BY <2>1 DEF BaseMoves, Base, Chain
<1>3. CASE AppendSucceeds
  <2>1. writer'.pc \in {"idle", "rotated"}
    BY <1>3, AtRest DEF AppendSucceeds
  <2> QED BY <1>3, <2>1, LandedBase DEF AppendSucceeds, BaseMoves, Lands
<1>4. CASE AppendFails
  <2>1. writer.pc = "write" /\ UNCHANGED sealed /\ writer'.lines = writer.lines /\ writer'.pc = "recover"
    BY <1>4 DEF AppendFails, FileInv, LedgerType, WriterType
  <2> QED BY <2>1 DEF BaseMoves, Base
<1>5. CASE Recover
  <2>1. writer'.pc \in {"idle", "rotated"}
    BY <1>5, AtRest DEF Recover
  <2>2. writer.pc = "recover" /\ UNCHANGED sealed /\ active' = writer.lines
    BY <1>5 DEF Recover, Put, Truncated
  <2> QED BY <2>1, <2>2 DEF BaseMoves, Base, Chain
<1>6. CASE RecoverFails
  <2>1. writer'.pc \in {"idle", "rotated"}
    BY <1>6, AtRest DEF RecoverFails
  <2> QED BY <1>6, <2>1, LandedBase DEF RecoverFails, disk, BaseMoves, Lands, Chain
<1>7. CASE Crash
  <2>1. writer'.pc \in {"idle", "rotated"}
    BY <1>7, AtRest DEF Crash
  <2>2. CASE writer.pc = "write"
    BY <1>7, <2>1, <2>2, LandedBase DEF Crash, BaseMoves, Lands
  <2>3. CASE writer.pc # "write"
    <3>1. UNCHANGED Chain
      BY <1>7, <2>3 DEF Crash, Chain
    <3>2. CASE writer.pc = "recover"
      BY <2>1, <3>1, <3>2, LandedBase DEF BaseMoves, Lands
    <3>3. CASE writer.pc # "recover"
      BY <2>1, <2>3, <3>1, <3>3, LandedBase DEF BaseMoves, Base
    <3> QED BY <3>2, <3>3
  <2> QED BY <2>2, <2>3
<1>8. CASE Resume \/ UNCHANGED vars
  BY <1>8 DEF Resume, vars, disk, BaseMoves, Base, Chain
<1> QED BY <1>1, <1>2, <1>3, <1>4, <1>5, <1>6, <1>7, <1>8 DEF Next

(* Where the log takes the file, it is one write away from what it was.    *)
LEMMA LandsStep ==
  ASSUME FileInv, Lands
  PROVE  StepTo(Base, Chain', writer.entry) /\ writer.entry \in Entries
<1>1. writer.entry \in Entries
  BY DEF Lands, FileInv, LedgerType, WriterType
<1>2. CASE writer.pc = "recover" /\ UNCHANGED Chain
  BY <1>1, <1>2 DEF FileInv, WriterSeesFile, Base
<1>3. CASE writer.pc = "write" /\ UNCHANGED sealed /\ \E shape : Put(Written(writer.entry, shape))
  BY <1>1, <1>3, PutWritten
<1> QED BY <1>2, <1>3 DEF Lands

-----------------------------------------------------------------------------
(* Nothing acknowledged is lost.                                           *)

HoldsAcked(lines) ==
  Verifies(lines) => \A i \in 1..Len(acked) : acked[i].seq \in 1..Len(lines) /\ lines[acked[i].seq] = acked[i]

(* The verified chain holds what log() returned.                           *)
HoldsAcknowledged == HoldsAcked(Chain)

(* Inductive: the lines that the log stands on hold it; the file that a    *)
(* failed write left is one write further.                                 *)
HoldInv == HoldsAcked(Base)

LEMMA StepVerifies ==
  ASSUME NEW lines \in Seq(Lines), NEW later \in Seq(Lines), NEW e \in Entries, StepTo(lines, later, e),
         Verifies(later)
  PROVE  later = lines \/ (later = Append(lines, e) /\ Verifies(lines))
<1>1. e \in Lines /\ Junk \in Lines /\ Len(lines) \in Nat
  BY EntriesApart DEF Lines
<1>2. later # Append(lines, Junk)
  <2>1. ASSUME later = Append(lines, Junk) PROVE FALSE
    <3>1. Len(lines) + 1 \in 1..Len(later) /\ later[Len(lines) + 1] = Junk
      BY <1>1, <2>1, AppendedLine
    <3> QED BY <3>1 DEF Verifies
  <2> QED BY <2>1
<1>3. ~Spoilt(lines, later)
  BY <1>1 DEF Spoilt, Verifies
<1>4. ASSUME later = Append(lines, e) PROVE Verifies(lines)
  <2>1. /\ Len(later) = Len(lines) + 1 /\ \A i \in 1..Len(lines) : later[i] = lines[i]
    BY <1>1, <1>4, AppendedLine
  <2>2. LinkedTo(later, Len(lines) + 1)
    BY <2>1, VerifiesLinked
  <2>3. LinkedTo(later, Len(lines))
    BY <1>1, <2>2 DEF LinkedTo
  <2> QED BY <1>1, <2>1, <2>3, SamePrefixLinks, VerifiesLinked
<1> QED BY <1>2, <1>3, <1>4 DEF StepTo, ExactStep

LEMMA StepHolds ==
  ASSUME NEW lines \in Seq(Lines), NEW later \in Seq(Lines), NEW e \in Entries, StepTo(lines, later, e),
         HoldsAcked(lines)
  PROVE  HoldsAcked(later)
<1>1. SUFFICES ASSUME Verifies(later), NEW i \in 1..Len(acked)
               PROVE  acked[i].seq \in 1..Len(later) /\ later[acked[i].seq] = acked[i]
  BY DEF HoldsAcked
<1>2. CASE later = lines
  BY <1>1, <1>2 DEF HoldsAcked
<1>3. CASE later = Append(lines, e) /\ Verifies(lines)
  <2>1. acked[i].seq \in 1..Len(lines) /\ lines[acked[i].seq] = acked[i]
    BY <1>3 DEF HoldsAcked
  <2>2. /\ Len(lines) \in Nat /\ Len(later) = Len(lines) + 1 /\ \A j \in 1..Len(lines) : later[j] = lines[j]
    BY <1>3, EntriesApart, AppendedLine
  <2> QED BY <2>1, <2>2
<1> QED BY <1>1, <1>2, <1>3, StepVerifies

(* The whole line, after a file that ends with its newline or not.         *)
LEMMA WholeLine ==
  ASSUME FileInv, AppendSucceeds
  PROVE  \/ Chain' = Append(Base, writer.entry) /\ terminated
         \/ Spoilt(Base, Chain') /\ ~terminated
<1>1. writer.pc = "write" /\ Put(Written(writer.entry, "whole")) /\ UNCHANGED sealed
  BY DEF AppendSucceeds
<1>2. Base = Chain /\ writer.entry \in Entries /\ sealed \in Seq(Lines) /\ active \in Seq(Lines)
      /\ terminated \in BOOLEAN /\ Base \in Seq(Lines) /\ Chain' \in Seq(Lines)
  <2>1. FileInv'
    BY SucceedsFile
  <2>2. Chain' \in Seq(Lines)
    BY <2>1, ConcatLines DEF FileInv, LedgerType, Chain
  <2>3. Base = Chain
    BY <1>1 DEF FileInv, WriterSeesFile, Base, Chain
  <2> QED BY <1>1, <2>2, <2>3, ChainType DEF FileInv, LedgerType, WriterType
<1>3. CASE terminated
  <2>1. active' = Append(active, writer.entry)
    BY <1>1, <1>3 DEF Put, Written
  <2>2. Chain' = Append(Chain, writer.entry)
    BY <1>1, <1>2, <2>1, EntriesApart, ConcatAppend DEF Chain
  <2> QED BY <1>2, <1>3, <2>2
<1>4. CASE ~terminated
  <2>1. active' = [active EXCEPT ![Len(active)] = Junk]
    BY <1>1, <1>4 DEF Put, Written
  <2>2. Len(active') = Len(active) /\ active' \in Seq(Lines)
    <3>1. Len(active) \in 1..Len(active) /\ Junk \in Lines
      BY <1>2, <1>4 DEF FileInv, EndsSomewhere, Lines
    <3> QED BY <1>2, <2>1, <3>1, ExceptSeq
  <2>3. Len(Chain') = Len(Chain) /\ Len(Chain) \in Nat
    <3>1. Len(sealed \o active) = Len(sealed) + Len(active)
      BY <1>2, ConcatLines
    <3>2. PICK u \in Seq(Lines) : u = active'
      BY <2>2
    <3>3. Len(sealed \o u) = Len(sealed) + Len(u)
      BY <1>2, ConcatLines
    <3> QED BY <1>1, <1>2, <2>2, <3>1, <3>2, <3>3 DEF Chain
  <2>4. Chain' # Append(Chain, writer.entry) /\ Chain' # Append(Chain, Junk)
    <3>1. \A x \in Lines : Len(Append(Chain, x)) = Len(Chain) + 1
      BY <1>2, AppendedLine
    <3>2. writer.entry \in Lines /\ Junk \in Lines
      BY <1>2, EntriesApart DEF Lines
    <3> QED BY <2>3, <3>1, <3>2
  <2>5. StepTo(Chain, Chain', writer.entry)
    BY <1>1, <1>2, PutWritten
  <2>6. CASE Chain' = Chain
    <3>1. active' = active
      BY <1>1, <1>2, <2>2, <2>6, ConcatSimplifications DEF Chain
    <3>2. Len(active) \in 1..Len(active) /\ active[Len(active)] = Junk
      BY <1>2, <1>4, <2>1, <3>1 DEF FileInv, EndsSomewhere
    <3>3. Len(sealed) \in Nat /\ Len(Chain) = Len(sealed) + Len(active) /\ Chain[Len(sealed) + Len(active)] = Junk
      BY <1>2, <3>2, ConcatLines DEF Chain
    <3>4. Spoilt(Chain, Chain')
      BY <2>3, <2>6, <3>2, <3>3 DEF Spoilt
    <3> QED BY <1>2, <1>4, <3>4
  <2> QED BY <1>2, <1>4, <2>4, <2>5, <2>6 DEF StepTo, ExactStep
<1> QED BY <1>2, <1>3, <1>4

LEMMA HoldNext == ASSUME FileInv, HoldInv, [Next]_vars PROVE HoldInv'
<1>1. PICK lines \in Seq(Lines) : lines = Base
  BY ChainType DEF FileInv
<1>2. FileInv'
  BY FileNext
<1>3. PICK later \in Seq(Lines) : later = Base'
  BY <1>2, NextType
<1>4. HoldsAcked(lines)
  BY <1>1 DEF HoldInv
<1>5. ASSUME UNCHANGED acked PROVE HoldInv'
  <2>1. CASE UNCHANGED Base
    <3>1. HoldsAcked(lines)'
      BY <1>4, <1>5 DEF HoldsAcked
    <3> QED BY <1>1, <2>1, <3>1 DEF HoldInv
  <2>2. CASE Lands /\ Base' = Chain'
    <3>1. PICK e \in Entries : StepTo(lines, later, e)
      BY <1>1, <1>3, <2>2, LandsStep
    <3>2. HoldsAcked(later)
      BY <1>4, <3>1, StepHolds
    <3>3. HoldsAcked(later)'
      BY <1>5, <3>2 DEF HoldsAcked
    <3> QED BY <1>3, <3>3 DEF HoldInv
  <2> QED BY <2>1, <2>2, BaseNext DEF BaseMoves
<1>6. CASE AppendSucceeds
  <2>1. PICK e \in Entries : e = writer.entry
    BY <1>6 DEF AppendSucceeds, FileInv, LedgerType, WriterType
  <2>2. acked' = Append(acked, e) /\ acked \in Seq(Entries) /\ later = Chain'
    BY <1>3, <1>6, <2>1, AtRest, LandedBase DEF AppendSucceeds, FileInv, LedgerType
  <2>3. SUFFICES ASSUME Verifies(later), NEW i \in 1..Len(acked')
                 PROVE  acked'[i].seq \in 1..Len(later) /\ later[acked'[i].seq] = acked'[i]
    BY <1>3 DEF HoldInv, HoldsAcked
  <2>4. ~Spoilt(lines, later)
    BY <2>3 DEF Spoilt, Verifies
  <2>5. later = Append(lines, e)
    BY <1>1, <1>6, <2>1, <2>2, <2>4, WholeLine
  <2>6. StepTo(lines, later, e)
    BY <2>5 DEF StepTo, ExactStep
  <2>7. HoldsAcked(later)
    BY <1>4, <2>6, StepHolds
  <2>8. Len(acked) \in Nat /\ Len(acked') = Len(acked) + 1 /\ acked'[Len(acked) + 1] = e
        /\ \A j \in 1..Len(acked) : acked'[j] = acked[j]
    BY <2>2
  <2>9. CASE i \in 1..Len(acked)
    BY <2>3, <2>7, <2>8, <2>9 DEF HoldsAcked
  <2>10. CASE i = Len(acked) + 1
    <3>1. Len(lines) \in Nat /\ Len(later) = Len(lines) + 1 /\ later[Len(lines) + 1] = e
      BY <2>5, EntriesApart, AppendedLine
    <3>2. e.seq = Len(lines) + 1
      BY <2>3, <3>1 DEF Verifies
    <3> QED BY <2>8, <2>10, <3>1, <3>2
  <2> QED BY <2>3, <2>8, <2>9, <2>10
<1>7. CASE ~AppendSucceeds
  <2>1. UNCHANGED acked
    BY <1>7 DEF Next, vars, Rotate, BeginAppend, AppendFails, Recover, RecoverFails, Crash, Resume
  <2> QED BY <1>5, <2>1
<1> QED BY <1>6, <1>7

(* A chain that verifies has lost no entry that log() returned, whatever a *)
(* failed or interrupted write leaves in the file and even after recovery  *)
(* itself has failed.                                                      *)
THEOREM AcknowledgedIsKept == Spec => []HoldsAcknowledged
<1>1. Init => FileInv /\ HoldInv
  <2>1. ASSUME Init PROVE HoldInv
    BY <2>1 DEF Init, HoldInv, HoldsAcked
  <2> QED BY <2>1, FileInit
<1>2. FileInv /\ HoldInv /\ [Next]_vars => (FileInv /\ HoldInv)'
  BY FileNext, HoldNext
<1>3. FileInv /\ HoldInv => HoldsAcknowledged
  <2> SUFFICES ASSUME FileInv, HoldInv PROVE HoldsAcked(Chain)
    BY DEF HoldsAcknowledged
  <2>1. CASE writer.pc # "recover"
    BY <2>1 DEF HoldInv, Base, Chain, FileInv, WriterSeesFile
  <2>2. CASE writer.pc = "recover"
    <3>1. StepTo(Base, Chain, writer.entry) /\ writer.entry \in Entries
      BY <2>2 DEF FileInv, LedgerType, WriterType, WriterSeesFile, Base
    <3>2. Base \in Seq(Lines) /\ Chain \in Seq(Lines)
      BY ChainType DEF FileInv
    <3> QED BY <3>1, <3>2, StepHolds DEF HoldInv
  <2> QED BY <2>1, <2>2
<1> QED BY <1>1, <1>2, <1>3, PTL DEF Spec

-----------------------------------------------------------------------------
(* When no write loses just its newline: the tail, and the refinement.     *)

(* A file without its final newline ends in a line that does not parse, so *)
(* that text written after it changes nothing.                             *)
CleanInv ==
  /\ ~terminated => active # <<>> /\ active[Len(active)] = Junk
  /\ ~writer.terminated => writer.lines # <<>> /\ writer.lines[Len(writer.lines)] = Junk
  /\ writer.pc = "recover" => ExactStep(sealed \o writer.lines, Chain, writer.entry)

(* The process that is up, and no truncation of which has failed, stands   *)
(* on a chain that verifies, with its tail in memory, and the entry it     *)
(* writes continues that tail.                                             *)
TailInv ==
  /\ mode # "up" => writer.pc = "idle"
  /\ mode = "up" /\ faults.recovery = 0 =>
       /\ Verifies(Base) /\ memory = LoadTail(Base)
       /\ writer.pc \in {"write", "recover"} =>
            writer.entry.seq = memory.seq + 1 /\ writer.entry.prev = memory.prev

(* Some prefix of the lines the log stands on is the longest that          *)
(* verifies.                                                               *)
BestInv == \E n \in Nat : Best(Base, n)

LEMMA CleanWrite ==
  ASSUME WholeLines, FileInv, CleanInv, writer.pc = "write", UNCHANGED sealed,
         NEW shape \in TornShapes \cup {"whole"}, Put(Written(writer.entry, shape))
  PROVE  /\ ExactStep(Base, Chain', writer.entry)
         /\ ~terminated' => active' # <<>> /\ active'[Len(active')] = Junk
<1>1. /\ Base = Chain /\ writer.entry \in Entries /\ sealed \in Seq(Lines) /\ active \in Seq(Lines)
      /\ terminated \in BOOLEAN /\ writer.entry \in Lines /\ Junk \in Lines
  <2>1. Base = Chain
    BY DEF FileInv, WriterSeesFile, Base, Chain
  <2> QED BY <2>1, EntriesApart DEF FileInv, LedgerType, WriterType, Lines
<1>2. shape \in {"nothing", "part", "whole"}
  BY LedgerConstants DEF WholeLines
<1>3. CASE UNCHANGED active /\ (UNCHANGED terminated \/ ~terminated)
  <2>1. Chain' = Chain
    BY <1>3 DEF Chain
  <2> QED BY <1>1, <1>3, <2>1 DEF CleanInv, ExactStep
<1>4. CASE shape = "nothing"
  BY <1>3, <1>4 DEF Put, Written
<1>5. CASE shape = "part" /\ terminated
  <2>1. active' = Append(active, Junk) /\ terminated' = FALSE
    BY <1>5 DEF Put, Written
  <2>2. Chain' = Append(Chain, Junk)
    BY <1>1, <2>1, ConcatAppend DEF Chain
  <2>3. active' # <<>> /\ active'[Len(active')] = Junk
    BY <1>1, <2>1, AppendedLine, EmptySeq
  <2> QED BY <1>1, <2>2, <2>3 DEF ExactStep
<1>6. CASE shape = "whole" /\ terminated
  <2>1. active' = Append(active, writer.entry) /\ terminated' = TRUE
    BY <1>6 DEF Put, Written
  <2>2. Chain' = Append(Chain, writer.entry)
    BY <1>1, <2>1, ConcatAppend DEF Chain
  <2> QED BY <1>1, <2>1, <2>2 DEF ExactStep
<1>7. CASE shape # "nothing" /\ ~terminated
  <2>1. active' = [active EXCEPT ![Len(active)] = Junk]
    BY <1>7 DEF Put, Written
  <2>2. active[Len(active)] = Junk
    BY <1>7 DEF CleanInv
  <2>3. active' = active
    BY <1>1, <2>1, <2>2
  <2> QED BY <1>3, <1>7, <2>3
<1> QED BY <1>1, <1>2, <1>4, <1>5, <1>6, <1>7

LEMMA LandsClean ==
  ASSUME WholeLines, FileInv, CleanInv, Lands
  PROVE  ExactStep(Base, Chain', writer.entry) /\ writer.entry \in Entries
<1>1. writer.entry \in Entries
  BY LandsStep
<1>2. CASE writer.pc = "recover" /\ UNCHANGED Chain
  BY <1>1, <1>2 DEF CleanInv, Base
<1>3. CASE /\ writer.pc = "write" /\ UNCHANGED sealed
           /\ \E shape \in TornShapes \cup {"whole"} : Put(Written(writer.entry, shape))
  BY <1>1, <1>3, CleanWrite
<1> QED BY <1>2, <1>3 DEF Lands

LEMMA CleanNext ==
  ASSUME WholeLines, FileInv, CleanInv, [Next]_vars
  PROVE  CleanInv'
<1>1. ASSUME writer'.pc \in {"idle", "rotated"}, writer'.terminated,
             ~terminated' => active' # <<>> /\ active'[Len(active')] = Junk
      PROVE  CleanInv'
  BY <1>1 DEF CleanInv
<1>2. CASE Rotate
  <2>1. terminated' = TRUE
    BY <1>2 DEF Rotate
  <2> QED BY <1>1, <1>2, <2>1, AtRest DEF Rotate
<1>3. ASSUME NEW id \in Ids, BeginAppend(id) PROVE CleanInv'
  <2>1. UNCHANGED <<active, terminated>> /\ writer'.pc = "write" /\ writer'.lines = active
        /\ writer'.terminated = terminated
    BY <1>3 DEF BeginAppend, disk
  <2> QED BY <2>1 DEF CleanInv
<1>4. CASE AppendSucceeds
  <2>1. ~terminated' => active' # <<>> /\ active'[Len(active')] = Junk
    BY <1>4, CleanWrite DEF AppendSucceeds
  <2> QED BY <1>1, <1>4, <2>1, AtRest DEF AppendSucceeds
<1>5. CASE AppendFails
  <2>1. writer.pc = "write" /\ UNCHANGED sealed
    BY <1>5 DEF AppendFails
  <2>2. PICK shape \in TornShapes : Put(Written(writer.entry, shape))
    BY <1>5 DEF AppendFails
  <2>3. /\ ExactStep(Base, Chain', writer.entry)
        /\ ~terminated' => active' # <<>> /\ active'[Len(active')] = Junk
    BY <2>1, <2>2, CleanWrite
  <2>4. /\ writer'.lines = writer.lines /\ writer'.terminated = writer.terminated /\ writer'.entry = writer.entry
    BY <1>5 DEF AppendFails, FileInv, LedgerType, WriterType
  <2> QED BY <2>1, <2>3, <2>4 DEF CleanInv, Base
<1>6. CASE Recover
  <2>1. active' = writer.lines /\ terminated' = writer.terminated
    BY <1>6 DEF Recover, Put, Truncated
  <2>2. ~terminated' => active' # <<>> /\ active'[Len(active')] = Junk
    BY <2>1 DEF CleanInv
  <2> QED BY <1>1, <1>6, <2>2, AtRest DEF Recover
<1>7. CASE RecoverFails
  <2>1. UNCHANGED <<active, terminated>>
    BY <1>7 DEF RecoverFails, disk
  <2>2. ~terminated' => active' # <<>> /\ active'[Len(active')] = Junk
    BY <2>1 DEF CleanInv
  <2> QED BY <1>1, <1>7, <2>2, AtRest DEF RecoverFails
<1>8. CASE Crash
  <2>1. CASE writer.pc = "write"
    <3>1. ~terminated' => active' # <<>> /\ active'[Len(active')] = Junk
      BY <1>8, <2>1, CleanWrite DEF Crash
    <3> QED BY <1>1, <1>8, <3>1, AtRest DEF Crash
  <2>2. CASE writer.pc # "write"
    <3>1. UNCHANGED <<active, terminated>>
      BY <1>8, <2>2 DEF Crash
    <3>2. ~terminated' => active' # <<>> /\ active'[Len(active')] = Junk
      BY <3>1 DEF CleanInv
    <3> QED BY <1>1, <1>8, <3>2, AtRest DEF Crash
  <2> QED BY <2>1, <2>2
<1>9. CASE Resume \/ UNCHANGED vars
  <2>1. UNCHANGED <<sealed, active, terminated, writer>>
    BY <1>9 DEF Resume, vars, disk
  <2> QED BY <2>1 DEF CleanInv, Chain
<1> QED BY <1>2, <1>3, <1>4, <1>5, <1>6, <1>7, <1>8, <1>9 DEF Next

(* The entry that continues the tail of a chain that verifies makes a      *)
(* chain that verifies, and is its tail.                                   *)
LEMMA ContinuesTail ==
  ASSUME NEW lines \in Seq(Lines), Verifies(lines), NEW e \in Entries,
         e.seq = LoadTail(lines).seq + 1, e.prev = LoadTail(lines).prev
  PROVE  Verifies(Append(lines, e)) /\ LoadTail(Append(lines, e)) = Published(e)
<1> DEFINE later == Append(lines, e)
<1>1. /\ later \in Seq(Lines) /\ Len(later) = Len(lines) + 1 /\ Len(lines) \in Nat
      /\ later[Len(lines) + 1] = e /\ \A i \in 1..Len(lines) : later[i] = lines[i]
  BY EntriesApart, AppendedLine
<1> HIDE DEF later
<1>2. LinkedTo(later, Len(lines))
  BY <1>1, VerifiesLinked, SamePrefixLinks
<1>3. e.seq = Len(lines) + 1
  BY TailType
<1>4. e.prev = PrevId(later, Len(lines) + 1)
  <2>1. CASE lines = <<>>
    <3>1. Len(lines) = 0
      BY <2>1, EmptySeq
    <3> QED BY <2>1, <3>1 DEF PrevId, LoadTail
  <2>2. CASE lines # <<>>
    <3>1. Len(lines) \in Nat \ {0}
      BY <2>2, EmptySeq
    <3>2. Len(lines) + 1 # 1 /\ (Len(lines) + 1) - 1 = Len(lines) /\ Len(lines) \in 1..Len(lines)
      BY <3>1
    <3>3. PrevId(later, Len(lines) + 1) = lines[Len(lines)].id
      BY <1>1, <3>2 DEF PrevId
    <3> QED BY <2>2, <3>3 DEF LoadTail
  <2> QED BY <2>1, <2>2
<1>5. LinkedAt(later, Len(lines) + 1)
  BY <1>1, <1>3, <1>4, EntriesApart DEF LinkedAt
<1>6. LinkedTo(later, Len(lines) + 1)
  BY <1>1, <1>2, <1>5 DEF LinkedTo
<1>7. Verifies(later)
  BY <1>1, <1>6, VerifiesLinked
<1>8. later # <<>>
  BY <1>1, EmptySeq
<1>9. LoadTail(later) = Published(e)
  BY <1>1, <1>8 DEF LoadTail, Published
<1> QED BY <1>7, <1>9 DEF later

LEMMA TailNext ==
  ASSUME WholeLines, FileInv, CleanInv, TailInv, [Next]_vars
  PROVE  TailInv'
<1>1. CASE Rotate
  <2>1. writer.pc = "idle" /\ mode = "up" /\ UNCHANGED <<memory, mode, faults>>
    BY <1>1 DEF Rotate
  <2>2. Base' = Base
    BY <2>1, BaseNext DEF BaseMoves, Lands
  <2>3. writer'.pc \in {"idle", "rotated"}
    BY <1>1, AtRest DEF Rotate
  <2> QED BY <2>1, <2>2, <2>3 DEF TailInv
<1>2. ASSUME NEW id \in Ids, BeginAppend(id) PROVE TailInv'
  <2>1. writer.pc \in {"idle", "rotated"} /\ mode = "up" /\ UNCHANGED <<memory, mode, faults>>
    BY <1>2 DEF BeginAppend, CanLog
  <2>2. Base' = Base
    BY <2>1, BaseNext DEF BaseMoves, Lands
  <2>3. writer'.entry.seq = memory.seq + 1 /\ writer'.entry.prev = memory.prev
    BY <1>2 DEF BeginAppend
  <2> QED BY <2>1, <2>2, <2>3 DEF TailInv
<1>3. CASE AppendSucceeds
  <2>1. writer.pc = "write" /\ UNCHANGED <<mode, faults>> /\ memory' = Published(writer.entry)
    BY <1>3 DEF AppendSucceeds
  <2>2. writer'.pc \in {"idle", "rotated"} /\ mode = "up"
    BY <1>3, <2>1, AtRest DEF AppendSucceeds, TailInv
  <2>3. ASSUME faults.recovery = 0 PROVE Verifies(Base') /\ memory' = LoadTail(Base')
    <3>1. PICK lines \in Seq(Lines) : lines = Base
      BY ChainType DEF FileInv
    <3>2. PICK e \in Entries : e = writer.entry
      BY <2>1 DEF FileInv, LedgerType, WriterType
    <3>3. /\ Verifies(lines) /\ e.seq = LoadTail(lines).seq + 1 /\ e.prev = LoadTail(lines).prev
      BY <2>1, <2>2, <2>3, <3>1, <3>2 DEF TailInv
    <3>4. terminated
      <4>1. SUFFICES ASSUME ~terminated PROVE FALSE
        OBVIOUS
      <4>2. sealed \in Seq(Lines) /\ active \in Seq(Lines) /\ active # <<>> /\ active[Len(active)] = Junk
        BY <4>1 DEF CleanInv, FileInv, LedgerType
      <4>3. Len(active) \in 1..Len(active) /\ Len(sealed) \in Nat
        BY <4>2, EmptySeq
      <4>4. lines = sealed \o active
        BY <2>1, <3>1 DEF FileInv, WriterSeesFile, Base
      <4>5. Len(lines) = Len(sealed) + Len(active) /\ lines[Len(sealed) + Len(active)] = Junk
        BY <4>2, <4>3, <4>4, ConcatLines
      <4> QED BY <3>3, <4>3, <4>5 DEF Verifies
    <3>5. Base' = Append(lines, e)
      BY <1>3, <2>2, <3>1, <3>2, <3>4, WholeLine, LandedBase
    <3> QED BY <2>1, <3>2, <3>3, <3>5, ContinuesTail
  <2> QED BY <2>1, <2>2, <2>3 DEF TailInv
<1>4. CASE AppendFails
  <2>1. writer.pc = "write" /\ UNCHANGED <<sealed, memory, mode>>
    BY <1>4 DEF AppendFails
  <2>2. /\ writer'.lines = writer.lines /\ writer'.entry = writer.entry /\ writer'.pc = "recover"
        /\ faults'.recovery = faults.recovery
    BY <1>4 DEF AppendFails, FileInv, LedgerType, WriterType
  <2>3. Base' = Base
    BY <2>1, <2>2 DEF Base
  <2> QED BY <2>1, <2>2, <2>3 DEF TailInv
<1>5. CASE Recover
  <2>1. writer.pc = "recover" /\ UNCHANGED <<sealed, mode, faults>> /\ active' = writer.lines
    BY <1>5 DEF Recover, Put, Truncated
  <2>2. writer'.pc \in {"idle", "rotated"} /\ mode = "up"
    BY <1>5, <2>1, AtRest DEF Recover, TailInv
  <2>3. sealed \o active' = Base /\ Base' = Base
    BY <2>1, <2>2 DEF Base, Chain
  <2>4. memory' = IF Verifies(Base) THEN LoadTail(Base) ELSE memory
    BY <1>5, <2>3 DEF Recover
  <2> QED BY <2>1, <2>2, <2>3, <2>4 DEF TailInv
<1>6. CASE RecoverFails
  <2>1. writer'.pc \in {"idle", "rotated"} /\ UNCHANGED mode /\ writer.pc = "recover"
    BY <1>6, AtRest DEF RecoverFails
  <2>2. faults'.recovery = faults.recovery + 1 /\ faults.recovery \in Nat
    BY <1>6 DEF RecoverFails, FileInv, LedgerType
  <2> QED BY <2>1, <2>2 DEF TailInv
<1>7. CASE Crash
  <2>1. mode' = "down" /\ writer'.pc = "idle"
    BY <1>7, IdleWriterParts DEF Crash
  <2> QED BY <2>1 DEF TailInv
<1>8. CASE Resume
  <2>1. mode = "down" /\ UNCHANGED <<sealed, active, writer, faults>>
    BY <1>8 DEF Resume, disk
  <2>2. writer.pc = "idle" /\ writer'.pc = "idle"
    BY <2>1 DEF TailInv
  <2>3. Base' = Chain
    BY <2>1, <2>2 DEF Base, Chain
  <2>4. /\ mode' = IF Verifies(Chain) THEN "up" ELSE "refused"
        /\ memory' = IF Verifies(Chain) THEN LoadTail(Chain) ELSE memory
    BY <1>8 DEF Resume
  <2> QED BY <2>2, <2>3, <2>4 DEF TailInv
<1>9. CASE UNCHANGED vars
  BY <1>9 DEF vars, disk, TailInv, Base, Chain
<1> QED BY <1>1, <1>2, <1>3, <1>4, <1>5, <1>6, <1>7, <1>8, <1>9 DEF Next

(* As long as no write loses just its newline, a chain that verifies has   *)
(* lost nothing, and between calls the process stands on a chain that      *)
(* verifies with its tail in memory, unless a truncation failed.           *)
THEOREM TailIsRecovered == WholeLines => (Spec => []VerifiedHoldsAcknowledged)
<1> SUFFICES ASSUME WholeLines PROVE Spec => []VerifiedHoldsAcknowledged
  OBVIOUS
<1>1. Init => FileInv /\ CleanInv /\ TailInv
  <2> SUFFICES ASSUME Init PROVE CleanInv /\ TailInv
    BY FileInit
  <2>1. /\ writer.pc = "idle" /\ writer.terminated = TRUE /\ terminated = TRUE /\ mode = "up"
        /\ memory = [seq |-> 0, prev |-> 0]
    BY IdleWriterParts DEF Init
  <2>2. Base = <<>> /\ Len(<<>>) = 0
    BY <2>1, EmptySeq DEF Init, Base, Chain
  <2>3. Verifies(Base) /\ memory = LoadTail(Base)
    BY <2>1, <2>2 DEF Verifies, LoadTail
  <2> QED BY <2>1, <2>3 DEF CleanInv, TailInv
<1>2. FileInv /\ CleanInv /\ TailInv /\ [Next]_vars => (FileInv /\ CleanInv /\ TailInv)'
  BY FileNext, CleanNext, TailNext
<1>3. HoldsAcknowledged /\ TailInv => VerifiedHoldsAcknowledged
  BY DEF HoldsAcknowledged, HoldsAcked, TailInv, VerifiedHoldsAcknowledged, Base
<1> QED BY <1>1, <1>2, <1>3, AcknowledgedIsKept, PTL DEF Spec

-----------------------------------------------------------------------------
(* The ledger is an append-only log.                                       *)

LEMMA BestNext ==
  ASSUME WholeLines, FileInv, CleanInv, BestInv, [Next]_vars
  PROVE  BestInv' /\ [Abstract!Next]_Log
<1>1. PICK lines \in Seq(Lines) : lines = Base
  BY ChainType DEF FileInv
<1>2. PICK later \in Seq(Lines) : later = Base'
  BY FileNext, NextType
<1>3. Log = Valid(lines) /\ Log' = Valid(later)
  BY <1>1, <1>2 DEF Log
<1>4. PICK n \in Nat : Best(lines, n)
  BY <1>1 DEF BestInv
<1>5. CASE UNCHANGED Base
  BY <1>1, <1>2, <1>3, <1>4, <1>5 DEF BestInv
<1>6. CASE Lands /\ Base' = Chain'
  <2>1. PICK e \in Entries : ExactStep(lines, later, e)
    BY <1>1, <1>2, <1>6, LandsClean
  <2>2. (\E m \in Nat : Best(later, m)) /\ Grows(lines, later, e)
    BY <1>4, <2>1, StepGrows
  <2>3. ASSUME Valid(later) = Append(Valid(lines), e), e.seq = Len(Valid(lines)) + 1,
               e.prev = IF Valid(lines) = <<>> THEN 0 ELSE Valid(lines)[Len(Valid(lines))].id
        PROVE  Abstract!Next
    <3>1. e = [seq |-> e.seq, prev |-> e.prev, id |-> e.id] /\ e.id \in Ids
      BY DEF Entries
    <3>2. Log' = Append(Log, [seq |-> Len(Log) + 1, prev |-> Abstract!Newest, id |-> e.id])
      BY <1>3, <2>3, <3>1 DEF Abstract!Newest
    <3>3. Abstract!Add(e.id)
      BY <3>2 DEF Abstract!Add
    <3> QED BY <3>1, <3>3 DEF Abstract!Next
  <2> QED BY <1>2, <1>3, <2>2, <2>3 DEF Grows, BestInv
<1> QED BY <1>5, <1>6, BaseNext DEF BaseMoves

(* As long as no write loses just its newline, the longest prefix of the   *)
(* ledger that verifies is an append-only log: an append takes effect      *)
(* whole, in its place and once, or not at all, and no failed write, crash *)
(* or rotation takes an entry back.                                        *)
THEOREM LedgerRefinesLog == WholeLines => (Spec => ImplementsAppendOnlyLog)
<1> SUFFICES ASSUME WholeLines PROVE Spec => ImplementsAppendOnlyLog
  OBVIOUS
<1>1. Init => FileInv /\ CleanInv /\ BestInv /\ Abstract!Init
  <2> SUFFICES ASSUME Init PROVE CleanInv /\ BestInv /\ Abstract!Init
    BY FileInit
  <2>1. writer.pc = "idle" /\ writer.terminated = TRUE /\ terminated = TRUE
    BY IdleWriterParts DEF Init
  <2>2. PICK lines \in Seq(Lines) : lines = Base /\ lines = <<>> /\ Len(lines) = 0
    <3>1. Base = <<>>
      BY <2>1 DEF Init, Base, Chain
    <3>2. <<>> \in Seq(Lines) /\ Len(<<>>) = 0
      BY EmptySeq
    <3> QED BY <3>1, <3>2
  <2>3. Best(lines, 0)
    BY <2>2 DEF Best, LinkedTo
  <2>4. Valid(lines) = <<>>
    <3>1. Valid(lines) = SubSeq(lines, 1, 0)
      BY <2>3, BestIsValid
    <3>2. SubSeq(lines, 1, 0) = <<>>
      OBVIOUS
    <3> QED BY <3>1, <3>2
  <2> QED BY <2>1, <2>2, <2>3, <2>4 DEF CleanInv, BestInv, Abstract!Init, Log
<1>2. FileInv /\ CleanInv /\ BestInv /\ [Next]_vars => (FileInv /\ CleanInv /\ BestInv)' /\ [Abstract!Next]_Log
  BY FileNext, CleanNext, BestNext
<1> QED BY <1>1, <1>2, PTL DEF Spec, ImplementsAppendOnlyLog, Abstract!Spec
============================================================================
