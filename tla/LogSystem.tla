------------------------------ MODULE LogSystem ------------------------------
(***************************************************************************)
(* A log file from its creation to its recovery: LogWriter writes it and   *)
(* stops (it closes the file, meets an error, or dies); bytes of the file  *)
(* may be damaged on the medium; then LogReader reads it back, as          *)
(* recoverVersions does when the database is next opened.                  *)
(***************************************************************************)
EXTENDS LogFormat

CONSTANTS
  Records, MaxRecords, TrailerOutcomes,
  InitialOffsets, HasRecover,
  MaxDamage          (* bound on the number of damaged bytes               *)

ASSUME SystemAssumption ==
  /\ Records \subseteq Seq(Byte)
  /\ MaxRecords \in Nat
  /\ TrailerOutcomes \subseteq {"lost", "crash"}
  /\ InitialOffsets \subseteq Nat
  /\ HasRecover \in BOOLEAN
  /\ MaxDamage \in Nat

VARIABLES
  disk,
  synced, block_offset, record, left, begin, wpc, log, ends, acked,
  file_pos, buffer, eof, last_record_offset, end_of_buffer_offset,
  initial_offset, resyncing, in_fragmented_record, prospective_record_offset,
  scratch, fragment, record_type, rpc, delivered, reported,
  damage,            (* how many bytes have been damaged                   *)
  aligned            (* history: every physical record was laid down in    *)
                     (* one block, as if trailers were written             *)

Writer == INSTANCE LogWriter
Reader == INSTANCE LogReader

writerVars == <<synced, block_offset, record, left, begin, wpc, log, ends,
                acked>>
readerVars == <<file_pos, buffer, eof, last_record_offset,
                end_of_buffer_offset, initial_offset, resyncing,
                in_fragmented_record, prospective_record_offset, scratch,
                fragment, record_type, rpc, delivered, reported>>
vars == <<disk, writerVars, readerVars, damage, aligned>>

Init ==
  /\ Writer!Init
  /\ Reader!Init
  /\ damage = 0
  /\ aligned = TRUE

(* The file is not being read yet.                                         *)
Unread == rpc = "closed"

Write ==
  /\ Unread
  /\ Writer!Next
  /\ aligned' = (aligned /\ Writer!NoStraddle')
  /\ UNCHANGED <<readerVars, damage>>

Damage ==
  /\ Unread
  /\ Writer!Stopped
  /\ damage < MaxDamage
  /\ \E i \in 1..Len(disk) : disk' = [disk EXCEPT ![i] = JunkCell]
  /\ damage' = damage + 1
  /\ UNCHANGED <<writerVars, readerVars, aligned>>

Read ==
  /\ Writer!Stopped
  /\ Reader!Next
  /\ UNCHANGED <<writerVars, damage, aligned>>

Next == Write \/ Damage \/ Read

Spec == Init /\ [][Next]_vars
------------------------------------------------------------------------------
TypeOK ==
  /\ Writer!TypeOK
  /\ Reader!TypeOK
  /\ damage \in 0..MaxDamage
  /\ aligned \in BOOLEAN

(* Where the k-th record starts, while no trailer has been lost.           *)
StartOf(k) == IF k = 1 THEN 0 ELSE ends[k - 1]

(* The bytes after offset a up to offset b are in the file as the writer   *)
(* wrote them.                                                             *)
Undamaged(a, b) ==
  /\ b <= Len(disk)
  /\ \A i \in (a + 1)..b : Written(disk[i])

(* The elements of s with an index in S, in order.                         *)
Subsequence(s, S) ==
  LET upto[k \in 0..Len(s)] ==
        IF k = 0 THEN << >>
        ELSE IF k \in S THEN Append(upto[k - 1], s[k]) ELSE upto[k - 1]
  IN  upto[Len(s)]

IsSubsequence(s, t) == \E S \in SUBSET DOMAIN t : s = Subsequence(t, S)

(* The completed records that are whole, with everything before them.      *)
Surviving == {k \in DOMAIN ends : Undamaged(0, ends[k])}

(***************************************************************************)
(* The log implements RecordLog: what logAddRecord and writableFileSync    *)
(* completed is read back whole and in order after any stop of the writer, *)
(* from the first record at initial_offset or behind it, and readLogRecord *)
(* returns false only once it has all been returned.                       *)
(***************************************************************************)
Abstract == INSTANCE RecordLog WITH
  phase <- IF rpc = "end" THEN "done"
           ELSE IF ~Unread THEN "reading"
           ELSE IF Writer!Stopped THEN "stopped" ELSE "writing",
  written <- Subsequence(log, Surviving),
  durable <- acked,
  read <- Subsequence(log, {k \in Surviving : StartOf(k) < initial_offset})
            \o delivered

ImplementsRecordLog == Abstract!Spec

(* Whatever happened to the file, a record the reader returns is one that  *)
(* was logged, whole, and records come in the order of the log: fragments  *)
(* of different records are never put together (readLogRecord's handling   *)
(* of in_fragmented_record, resyncing and kBadRecord).                     *)
NothingInvented == IsSubsequence(delivered, log)

(* Dropping the rest of a block after a damaged byte costs no record but   *)
(* those that touch the block from that byte on: in a file whose blocks    *)
(* are where the writer believed them to be, every record that starts at   *)
(* initial_offset or behind it and is whole, in blocks that are undamaged  *)
(* up to its end, is returned (logReader.c:97-104, and 222-245 for the     *)
(* orphaned tail of a lost one).                                           *)
LossIsLocal ==
  LET block(k) == StartOf(k) - (StartOf(k) % BlockSize)
      unharmed == {k \in DOMAIN ends : /\ StartOf(k) >= initial_offset
                                      /\ Undamaged(block(k), ends[k])}
  IN  aligned /\ Reader!ReadToTheEnd =>
        IsSubsequence(Subsequence(log, unharmed), delivered)

(* A writer that stopped in the middle of a record, leaving a prefix of    *)
(* what it wrote, is no corruption: nothing is reported to one who reads   *)
(* the file from its start (logReader.c:52-54, 77-79 and 249-253).         *)
NoFalseAlarm ==
  aligned /\ initial_offset = 0 /\ Undamaged(0, Len(disk)) => ~reported

(* The offsets the reader computes from what is left in its buffer are the *)
(* places in the file, wherever it started: after a record is returned     *)
(* last_record_offset is where the writer started it (logReader.c:109-114, *)
(* 172-173, 203, 242, and skipToInitialBlock).                             *)
OffsetIsExact ==
  (aligned /\ rpc = "ready" /\ delivered # << >>) =>
    \E k \in DOMAIN ends :
       last_record_offset = StartOf(k) /\ log[k] = delivered[Len(delivered)]

(* A failed read of the file is recorded as an error (logReader.c:41,      *)
(* "record the error"): if the reader says there is nothing more while     *)
(* part of the file is unread, its Recover has been told.                  *)
ReadErrorReported == (rpc = "end" /\ file_pos < Len(disk)) => reported
==============================================================================
