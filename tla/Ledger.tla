------------------------------- MODULE Ledger -------------------------------
(***************************************************************************)
(* AgentLedger (enterprise/ledger.py): the signed, hash-chained JSONL file *)
(* with its sealed segments, written by one process at a time under the    *)
(* lock of ThreadSafeAgentLedger.                                          *)
(*                                                                         *)
(* log() rotates a full segment, appends one line and flushes it; if that  *)
(* fails it truncates the file to its previous length, verifies the chain  *)
(* and reloads its tail.  A failed write or a crash leaves any prefix of   *)
(* the line in the file.  A restarted process verifies the whole chain     *)
(* before it continues it.  A digest is abstracted to the id of the entry  *)
(* it is taken of, 0 for GENESIS_HASH; signatures of the owner's entries   *)
(* are good.                                                               *)
(***************************************************************************)
EXTENDS Integers, Sequences, FiniteSets

CONSTANTS
  Ids,                  \* entry contents (no two are alike: each has its time)
  TornShapes,           \* what a failed or interrupted write may leave
  MaxPerSegment,        \* max_entries_per_segment, 0 for no limit
  MaxCrashes,           \* bound on crashes
  MaxFailures,          \* bound on failed writes
  MaxRecoveryFailures,  \* bound on failed truncations
  Junk,                 \* a line that is not one JSON object
  NoEntry

Entries == [seq : Nat \ {0}, prev : Ids \cup {0}, id : Ids]

ASSUME LedgerConstants ==
  /\ Ids \subseteq Nat \ {0}
  /\ TornShapes \subseteq {"nothing", "part", "unterminated", "whole"}
  /\ MaxPerSegment \in Nat /\ MaxCrashes \in Nat /\ MaxFailures \in Nat /\ MaxRecoveryFailures \in Nat
  /\ Junk \notin Entries /\ NoEntry \notin Entries

VARIABLES
  sealed,      \* lines of the sealed segments, oldest first
  active,      \* lines of the active file
  terminated,  \* the active file ends with a newline, or is empty
  memory,      \* _seq and _prev_hash
  writer,      \* step of log(): the entry, and the file before the append
  mode,        \* "up", "down", or "refused" by the constructor
  drawn,       \* entry contents used so far
  faults,      \* crashes, failed writes and failed truncations so far
  acked        \* history: entries returned by log()

disk == <<sealed, active, terminated>>
vars == <<disk, memory, writer, mode, drawn, faults, acked>>

Chain == sealed \o active

IdleWriter == [pc |-> "idle", entry |-> NoEntry, lines |-> <<>>, terminated |-> TRUE]

Init ==
  /\ sealed = <<>> /\ active = <<>> /\ terminated = TRUE
  /\ memory = [seq |-> 0, prev |-> 0]
  /\ writer = IdleWriter
  /\ mode = "up"
  /\ drawn = {}
  /\ faults = [crash |-> 0, write |-> 0, recovery |-> 0]
  /\ acked = <<>>

PrevId(lines, i) == IF i = 1 THEN 0 ELSE lines[i - 1].id

(* _verify_snapshot: every line parses, and is numbered and linked.        *)
Verifies(lines) ==
  /\ \A i \in 1..Len(lines) : lines[i] # Junk
  /\ \A i \in 1..Len(lines) : lines[i].seq = i /\ lines[i].prev = PrevId(lines, i)

(* _load_last_seq and _load_last_hash, of a chain that verifies.           *)
LoadTail(lines) ==
  IF lines = <<>> THEN [seq |-> 0, prev |-> 0]
  ELSE [seq |-> lines[Len(lines)].seq, prev |-> lines[Len(lines)].id]

(* open("a") and write: what the file holds once shape of the line is in   *)
(* it.  Text after a line without newline becomes part of that line.       *)
Written(e, shape) ==
  CASE shape = "nothing" -> [lines |-> active, terminated |-> terminated]
    [] shape # "nothing" /\ terminated ->
         [lines |-> Append(active, IF shape = "part" THEN Junk ELSE e), terminated |-> shape = "whole"]
    [] OTHER ->
         [lines |-> [active EXCEPT ![Len(active)] = Junk], terminated |-> shape = "whole"]

Put(w) == active' = w.lines /\ terminated' = w.terminated

-----------------------------------------------------------------------------
(* log().                                                                  *)

SegmentFull == MaxPerSegment > 0 /\ Len(active) >= MaxPerSegment

CanLog == mode = "up" /\ writer.pc \in {"idle", "rotated"}

(* _rotate_if_needed: os.replace moves the active file into the archive;   *)
(* an invalid chain is not rotated and the call raises.                    *)
Rotate ==
  /\ mode = "up" /\ writer.pc = "idle"
  /\ SegmentFull /\ Verifies(Chain)
  /\ sealed' = Chain /\ active' = <<>> /\ terminated' = TRUE
  /\ writer' = [IdleWriter EXCEPT !.pc = "rotated"]
  /\ UNCHANGED <<memory, mode, drawn, faults, acked>>

(* The entry is built from memory, signed, and the file's length noted.    *)
BeginAppend(id) ==
  /\ CanLog /\ ~SegmentFull
  /\ id \notin drawn /\ \A n \in Ids : n < id => n \in drawn
  /\ drawn' = drawn \cup {id}
  /\ writer' = [pc |-> "write", lines |-> active, terminated |-> terminated,
                entry |-> [seq |-> memory.seq + 1, prev |-> memory.prev, id |-> id]]
  /\ UNCHANGED <<disk, memory, mode, faults, acked>>

(* Mutant: the hash of the entry is not published.                         *)
PublishedSeqOnly(e) == [memory EXCEPT !.seq = e.seq]

Published(e) == [seq |-> e.seq, prev |-> e.id]

(* Written, flushed and synced: the tail in memory follows.                *)
AppendSucceeds ==
  /\ writer.pc = "write"
  /\ Put(Written(writer.entry, "whole"))
  /\ memory' = Published(writer.entry)
  /\ acked' = Append(acked, writer.entry)
  /\ writer' = IdleWriter
  /\ UNCHANGED <<sealed, mode, drawn, faults>>

AppendFails ==
  /\ writer.pc = "write" /\ faults.write < MaxFailures
  /\ \E shape \in TornShapes : Put(Written(writer.entry, shape))
  /\ writer' = [writer EXCEPT !.pc = "recover"]
  /\ faults' = [faults EXCEPT !.write = faults.write + 1]
  /\ UNCHANGED <<sealed, memory, mode, drawn, acked>>

(* Mutant: the file is truncated to nothing.                               *)
TruncatedToZero(w) == [lines |-> <<>>, terminated |-> TRUE]

(* truncate(original_size).                                                *)
Truncated(w) == [lines |-> w.lines, terminated |-> w.terminated]

(* The previous length is restored and the tail reloaded from a chain that *)
(* verifies; the caller sees the error of the write.                       *)
Recover ==
  /\ writer.pc = "recover"
  /\ Put(Truncated(writer))
  /\ memory' = IF Verifies(sealed \o active') THEN LoadTail(sealed \o active') ELSE memory
  /\ writer' = IdleWriter
  /\ UNCHANGED <<sealed, mode, drawn, faults, acked>>

(* The truncation fails too: LedgerIntegrityError, and the file stays as   *)
(* the write left it.                                                      *)
RecoverFails ==
  /\ writer.pc = "recover" /\ faults.recovery < MaxRecoveryFailures
  /\ writer' = IdleWriter
  /\ faults' = [faults EXCEPT !.recovery = faults.recovery + 1]
  /\ UNCHANGED <<disk, memory, mode, drawn, acked>>

-----------------------------------------------------------------------------
(* The process.                                                            *)

Crash ==
  /\ mode = "up" /\ faults.crash < MaxCrashes
  /\ IF writer.pc = "write"
     THEN \E shape \in TornShapes : Put(Written(writer.entry, shape))
     ELSE UNCHANGED <<active, terminated>>
  /\ faults' = [faults EXCEPT !.crash = faults.crash + 1]
  /\ mode' = "down"
  /\ writer' = IdleWriter
  /\ UNCHANGED <<sealed, memory, drawn, acked>>

(* The constructor resumes a chain that verifies and refuses any other.    *)
Resume ==
  /\ mode = "down"
  /\ mode' = IF Verifies(Chain) THEN "up" ELSE "refused"
  /\ memory' = IF Verifies(Chain) THEN LoadTail(Chain) ELSE memory
  /\ UNCHANGED <<disk, writer, drawn, faults, acked>>

Next ==
  \/ Rotate \/ AppendSucceeds \/ AppendFails \/ Recover \/ RecoverFails
  \/ \E id \in Ids : BeginAppend(id)
  \/ Crash \/ Resume

Spec == Init /\ [][Next]_vars

-----------------------------------------------------------------------------
(* A chain that verifies has lost nothing: every entry that log() has      *)
(* returned is in it at its number, through torn writes, failed            *)
(* recoveries, rotations and crashes; and between calls this process and a *)
(* restarted one see the same tail, also after a write that failed, as     *)
(* long as its truncation worked.                                          *)
VerifiedHoldsAcknowledged ==
  /\ Verifies(Chain) => \A i \in 1..Len(acked) :
       acked[i].seq \in 1..Len(Chain) /\ Chain[acked[i].seq] = acked[i]
  /\ mode = "up" /\ writer.pc \in {"idle", "rotated"} /\ faults.recovery = 0 =>
       Verifies(Chain) /\ memory = LoadTail(Chain)

(* The longest prefix that verifies.                                       *)
Valid(lines) ==
  LET n == CHOOSE n \in 0..Len(lines) :
             /\ Verifies(SubSeq(lines, 1, n))
             /\ \A m \in n + 1 .. Len(lines) : ~Verifies(SubSeq(lines, 1, m))
  IN SubSeq(lines, 1, n)

(* Refinement: an append takes effect when log() returns, or in the crash  *)
(* that leaves its whole line; until then the log is the file before it.   *)
Base == IF writer.pc \in {"write", "recover"} THEN sealed \o writer.lines ELSE Chain

Log == Valid(Base)

Abstract == INSTANCE AppendOnlyLog WITH log <- Log

(* The ledger is an append-only log of linked entries.                     *)
ImplementsAppendOnlyLog == Abstract!Spec
============================================================================
