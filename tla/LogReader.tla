------------------------------ MODULE LogReader ------------------------------
(***************************************************************************)
(* logReader.c reading the file disk, driven by the loop of its callers    *)
(* (recoverVersions in versionSet.c and test_log_read in logReader_test.c):*)
(* readLogRecord until it returns false.  The callers set checksum, so the *)
(* checksum of every physical record is verified.                          *)
(*                                                                         *)
(* A step is one pass of readPhysicalRecord's loop (rpc = "physical") or   *)
(* one pass of readLogRecord's (rpc = "dispatch").                         *)
(***************************************************************************)
EXTENDS LogFormat

CONSTANTS
  InitialOffsets,  (* what a caller may set initial_offset to; {0} for     *)
                   (* recoverVersions and test_log_read                    *)
  HasRecover       (* LogReader.revocer is set; recoverVersions leaves it  *)
                   (* NULL                                                 *)

ASSUME ReaderAssumption ==
  /\ InitialOffsets \subseteq Nat
  /\ HasRecover \in BOOLEAN

VARIABLES
  disk,                       (* the bytes of the file                     *)
  file_pos,                   (* the position of the SequentialFile        *)
  buffer,                     (* LogReader.buffer                          *)
  eof,                        (* LogReader.eof                             *)
  last_record_offset,         (* LogReader.last_record_offset              *)
  end_of_buffer_offset,       (* LogReader.end_of_buffer_offset            *)
  initial_offset,             (* LogReader.initial_offset                  *)
  resyncing,                  (* LogReader.resyncing                       *)
  in_fragmented_record,       (* the locals of readLogRecord               *)
  prospective_record_offset,
  scratch,
  fragment,
  record_type,
  rpc,                        (* where the reading process is              *)
  delivered,                  (* history: records returned to the caller   *)
  reported                    (* history: a drop reached the callback      *)

vars == <<disk, file_pos, buffer, eof, last_record_offset,
          end_of_buffer_offset, initial_offset, resyncing,
          in_fragmented_record, prospective_record_offset, scratch, fragment,
          record_type, rpc, delivered, reported>>

ReaderPC == {"closed", "ready", "physical", "dispatch", "end", "crashed"}

ReaderType == RecordType \cup {"eof", "bad"}

(* What no step of an open reader changes.                                 *)
fixedVars == <<disk, initial_offset>>
(* The fields that only readPhysicalRecord and skipToInitialBlock move.    *)
inputVars == <<file_pos, buffer, eof, end_of_buffer_offset>>
(* The locals of readLogRecord.                                            *)
localVars == <<in_fragmented_record, prospective_record_offset, scratch>>

(***************************************************************************)
(* reportCorruption, through reportDrop, once buffer' is known: a drop     *)
(* that starts before initial_offset is not reported (the difference is     *)
(* unsigned, so one that would start before the file is).  The Recover of  *)
(* test_log_read has no Corruption: its first report kills the process.    *)
(***************************************************************************)
Report(bytes, next) ==
  LET start == end_of_buffer_offset - Len(buffer') - bytes
      due   == start < 0 \/ start >= initial_offset
  IN  \/ /\ reported' = (reported \/ (HasRecover /\ due))
         /\ rpc' = next
      \/ /\ HasRecover /\ due /\ ~reported
         /\ rpc' = "crashed"
         /\ UNCHANGED reported

NoReport(next) ==
  /\ reported' = reported
  /\ rpc' = next

(***************************************************************************)
(* reportDrop(reader->revocer, ...), as the two I/O error paths call it:   *)
(* the Recover stands where a LogReader should.  A null one crashes the    *)
(* process; from another, the memory behind it decides.                    *)
(***************************************************************************)
ReportThroughRecover(next) ==
  /\ reported' = reported
  /\ \/ rpc' = "crashed"
     \/ HasRecover /\ rpc' = next
------------------------------------------------------------------------------
Init ==
  /\ file_pos = 0
  /\ buffer = << >>
  /\ eof = FALSE
  /\ last_record_offset = 0
  /\ end_of_buffer_offset = 0
  /\ initial_offset = 0
  /\ resyncing = FALSE
  /\ in_fragmented_record = FALSE
  /\ prospective_record_offset = 0
  /\ scratch = << >>
  /\ fragment = << >>
  /\ record_type = "eof"
  /\ rpc = "closed"
  /\ delivered = << >>
  /\ reported = FALSE

(* The caller opens the file and builds its LogReader.  One that starts in *)
(* the middle of the file may ask it to resync.                            *)
Open ==
  /\ rpc = "closed"
  /\ rpc' = "ready"
  /\ initial_offset' \in InitialOffsets
  /\ resyncing' \in {FALSE, initial_offset' > 0}
  /\ UNCHANGED <<disk, inputVars, last_record_offset, localVars, fragment,
                 record_type, delivered, reported>>

(* The first block that can hold a record starting at initial_offset.      *)
InitialBlock ==
  LET in_block == initial_offset % BlockSize
      start == initial_offset - in_block
  IN  IF in_block > BlockSize - (HeaderSize - 1) THEN start + BlockSize
                                                 ELSE start

MustSkip == last_record_offset < initial_offset

(* readLogRecord up to its loop, with skipToInitialBlock.                  *)
ReadLogRecord ==
  /\ rpc = "ready"
  /\ rpc' = "physical"
  /\ in_fragmented_record' = FALSE
  /\ prospective_record_offset' = 0
  /\ scratch' = << >>
  /\ fragment' = << >>
  /\ IF MustSkip
     THEN /\ file_pos' = file_pos + InitialBlock
          /\ end_of_buffer_offset' = InitialBlock
     ELSE UNCHANGED <<file_pos, end_of_buffer_offset>>
  /\ UNCHANGED <<fixedVars, buffer, eof, last_record_offset, resyncing,
                 record_type, delivered, reported>>

(* sequentialFileSkip fails: readLogRecord returns false.                  *)
SkipFails ==
  /\ rpc = "ready"
  /\ MustSkip
  /\ InitialBlock > 0
  /\ end_of_buffer_offset' = InitialBlock
  /\ ReportThroughRecover("end")
  /\ UNCHANGED <<fixedVars, file_pos, buffer, eof, last_record_offset,
                 resyncing, localVars, fragment, record_type, delivered>>
------------------------------------------------------------------------------
(***************************************************************************)
(* readPhysicalRecord.                                                     *)
(***************************************************************************)
ReturnType(t) ==
  /\ record_type' = t
  /\ UNCHANGED <<fixedVars, last_record_offset, resyncing, localVars,
                 delivered>>

(* sequentialFileRead: the next block, or what is left of the file.        *)
NextBlock ==
  LET n == IF Len(disk) - file_pos < BlockSize THEN Len(disk) - file_pos
                                               ELSE BlockSize
  IN  SubSeq(disk, file_pos + 1, file_pos + n)

(* The buffer is too short for a header: read a block into it.  Its        *)
(* pointer is new but its length is not reset, and sequentialFileRead      *)
(* may add to that length instead of setting it (the library the test      *)
(* binaries link does), so the bytes a trailer left may reappear as zeros  *)
(* in front of the block.                                                  *)
FillBuffer ==
  /\ rpc = "physical"
  /\ Len(buffer) < HeaderSize
  /\ ~eof
  /\ \E pad \in {0, Len(buffer)} : buffer' = Zeros(pad) \o NextBlock
  /\ file_pos' = file_pos + Len(NextBlock)
  /\ end_of_buffer_offset' = end_of_buffer_offset + Len(buffer')
  /\ eof' = (Len(buffer') < BlockSize)
  /\ UNCHANGED <<fixedVars, last_record_offset, resyncing, localVars, fragment,
                 record_type, rpc, delivered, reported>>

(* That read fails.                                                        *)
FillFails ==
  /\ rpc = "physical"
  /\ Len(buffer) < HeaderSize
  /\ ~eof
  /\ buffer' = << >>
  /\ eof' = TRUE
  /\ end_of_buffer_offset' = end_of_buffer_offset + Len(buffer)
  /\ ReportThroughRecover("dispatch")
  /\ ReturnType("eof")
  /\ UNCHANGED <<file_pos, fragment>>

(* Nothing, or a truncated header, is left at the end of the file.         *)
EndOfFile ==
  /\ rpc = "physical"
  /\ Len(buffer) < HeaderSize
  /\ eof
  /\ buffer' = << >>
  /\ NoReport("dispatch")
  /\ ReturnType("eof")
  /\ UNCHANGED <<file_pos, eof, end_of_buffer_offset, fragment>>

HasHeader == rpc = "physical" /\ Len(buffer) >= HeaderSize

Header == {buffer[k] : k \in 1..HeaderSize}

(* The physical record whose header may be at the front of the buffer.     *)
FrontRecord == buffer[1].phys

HeaderIntact ==
  \A k \in 1..HeaderSize : buffer[k] = [phys |-> FrontRecord, at |-> k]

HeaderZero == Header = {ZeroCell}

(* What the header says, when its bytes say anything.                      *)
PhysicalLength == HeaderSize + Len(FrontRecord.data)

(* The checksum matches: header and payload are one physical record.       *)
ChecksumOK ==
  /\ HeaderIntact
  /\ PhysicalLength <= Len(buffer)
  /\ SubSeq(buffer, 1, PhysicalLength) = Encode(FrontRecord)

(* Broken variant of BadRecordLength: end of file in any block.            *)
BadRecordLength_IsEof ==
  /\ HasHeader
  /\ ~HeaderZero
  /\ HeaderIntact => PhysicalLength > Len(buffer)
  /\ buffer' = << >>
  /\ NoReport("dispatch")
  /\ ReturnType("eof")
  /\ UNCHANGED <<file_pos, eof, end_of_buffer_offset, fragment>>

(* A header that is not one the writer emitted may say any length.         *)
BadRecordLength ==
  /\ HasHeader
  /\ ~HeaderZero
  /\ HeaderIntact => PhysicalLength > Len(buffer)
  /\ buffer' = << >>
  /\ \/ ~eof /\ Report(Len(buffer), "dispatch") /\ ReturnType("bad")
     \/ eof /\ NoReport("dispatch") /\ ReturnType("eof")
  /\ UNCHANGED <<file_pos, eof, end_of_buffer_offset, fragment>>

(* Type zero with length zero: skip the buffer without reporting a drop.   *)
ZeroLengthRecord ==
  /\ HasHeader
  /\ ~HeaderIntact
  /\ buffer' = << >>
  /\ NoReport("dispatch")
  /\ ReturnType("bad")
  /\ UNCHANGED <<file_pos, eof, end_of_buffer_offset, fragment>>

(* Broken variant of ChecksumMismatch: the buffer is not cleared.          *)
ChecksumMismatch_KeepsBuffer ==
  /\ HasHeader
  /\ ~HeaderZero
  /\ HeaderIntact => PhysicalLength <= Len(buffer)
  /\ ~ChecksumOK
  /\ buffer' = buffer
  /\ Report(Len(buffer), "dispatch")
  /\ ReturnType("bad")
  /\ UNCHANGED <<file_pos, eof, end_of_buffer_offset, fragment>>

(* Drop the rest of the buffer, since the length cannot be trusted.        *)
ChecksumMismatch ==
  /\ HasHeader
  /\ ~HeaderZero
  /\ HeaderIntact => PhysicalLength <= Len(buffer)
  /\ ~ChecksumOK
  /\ buffer' = << >>
  /\ Report(Len(buffer), "dispatch")
  /\ ReturnType("bad")
  /\ UNCHANGED <<file_pos, eof, end_of_buffer_offset, fragment>>

(* Broken variant of TakePhysicalRecord: drops a record that starts at     *)
(* initial_offset itself.                                                   *)
TakePhysicalRecord_OffByOne ==
  /\ HasHeader
  /\ ChecksumOK
  /\ buffer' = SubSeq(buffer, PhysicalLength + 1, Len(buffer))
  /\ NoReport("dispatch")
  /\ IF end_of_buffer_offset - Len(buffer) <= initial_offset
     THEN ReturnType("bad") /\ fragment' = << >>
     ELSE ReturnType(FrontRecord.type) /\ fragment' = FrontRecord.data
  /\ UNCHANGED <<file_pos, eof, end_of_buffer_offset>>

(* A valid physical record, unless it starts before initial_offset.         *)
TakePhysicalRecord ==
  /\ HasHeader
  /\ ChecksumOK
  /\ buffer' = SubSeq(buffer, PhysicalLength + 1, Len(buffer))
  /\ NoReport("dispatch")
  /\ IF end_of_buffer_offset - Len(buffer) < initial_offset
     THEN ReturnType("bad") /\ fragment' = << >>
     ELSE ReturnType(FrontRecord.type) /\ fragment' = FrontRecord.data
  /\ UNCHANGED <<file_pos, eof, end_of_buffer_offset>>
------------------------------------------------------------------------------
(***************************************************************************)
(* readLogRecord's loop: what it does with the physical record.            *)
(***************************************************************************)

(* Broken variant of PhysicalRecordOffset: the header is forgotten.        *)
PhysicalRecordOffset_NoHeader ==
  end_of_buffer_offset - Len(buffer) - Len(fragment)

(* Broken variant of PhysicalRecordOffset: as if the physical record were  *)
(* still in the buffer.                                                    *)
PhysicalRecordOffset_Twice ==
  end_of_buffer_offset - Len(buffer) - 2 * (HeaderSize + Len(fragment))

(* Where the physical record just taken starts.                            *)
PhysicalRecordOffset ==
  end_of_buffer_offset - Len(buffer) - HeaderSize - Len(fragment)

(* While resyncing, the tail of a record that began earlier is skipped.    *)
Skipped == resyncing /\ record_type \in {"middle", "last"}

SkipTail ==
  /\ rpc = "dispatch"
  /\ Skipped
  /\ resyncing' = (record_type = "middle")
  /\ NoReport("physical")
  /\ UNCHANGED <<fixedVars, inputVars, last_record_offset, localVars, fragment,
                 record_type, delivered>>

(* The switch statement is reached with this type.                         *)
Dispatch(t) ==
  /\ rpc = "dispatch"
  /\ ~Skipped
  /\ record_type = t
  /\ resyncing' = FALSE
  /\ UNCHANGED <<fixedVars, inputVars, fragment, record_type>>

(* A fragmented record is abandoned with bytes already collected.          *)
PartialRecord == in_fragmented_record /\ scratch # << >>

Deliver(r, offset) ==
  /\ delivered' = Append(delivered, r)
  /\ last_record_offset' = offset

FullRecord ==
  /\ Dispatch("full")
  /\ IF PartialRecord THEN Report(Len(scratch), "ready") ELSE NoReport("ready")
  /\ prospective_record_offset' = PhysicalRecordOffset
  /\ scratch' = << >>
  /\ IF rpc' = "crashed"
     THEN UNCHANGED <<delivered, last_record_offset>>
     ELSE Deliver(fragment, PhysicalRecordOffset)
  /\ UNCHANGED in_fragmented_record

FirstFragment ==
  /\ Dispatch("first")
  /\ IF PartialRecord THEN Report(Len(scratch), "physical")
                      ELSE NoReport("physical")
  /\ prospective_record_offset' = PhysicalRecordOffset
  /\ scratch' = fragment
  /\ in_fragmented_record' = TRUE
  /\ UNCHANGED <<last_record_offset, delivered>>

(* Broken variant of MiddleFragment: replaces what was collected.          *)
MiddleFragment_Replaces ==
  /\ Dispatch("middle")
  /\ in_fragmented_record
  /\ scratch' = fragment
  /\ NoReport("physical")
  /\ UNCHANGED <<in_fragmented_record, prospective_record_offset,
                 last_record_offset, delivered>>

MiddleFragment ==
  /\ Dispatch("middle")
  /\ in_fragmented_record
  /\ scratch' = scratch \o fragment
  /\ NoReport("physical")
  /\ UNCHANGED <<in_fragmented_record, prospective_record_offset,
                 last_record_offset, delivered>>

LastFragment ==
  /\ Dispatch("last")
  /\ in_fragmented_record
  /\ scratch' = scratch \o fragment
  /\ Deliver(scratch', prospective_record_offset)
  /\ NoReport("ready")
  /\ UNCHANGED <<in_fragmented_record, prospective_record_offset>>

(* Broken variant of MissingStart: the fragment is dropped in silence.     *)
MissingStart_Silent ==
  /\ Dispatch("middle") \/ Dispatch("last")
  /\ ~in_fragmented_record
  /\ NoReport("physical")
  /\ UNCHANGED <<localVars, last_record_offset, delivered>>

(* A middle or last fragment with no first one.                            *)
MissingStart ==
  /\ Dispatch("middle") \/ Dispatch("last")
  /\ ~in_fragmented_record
  /\ Report(Len(fragment), "physical")
  /\ UNCHANGED <<localVars, last_record_offset, delivered>>

(* readLogRecord is handed scratch as the address of its caller's sds and  *)
(* uses it as the sds itself; growing it may kill the process.             *)
ScratchCrash ==
  /\ \/ Dispatch("first")
     \/ in_fragmented_record /\ (Dispatch("middle") \/ Dispatch("last"))
  /\ NoReport("crashed")
  /\ UNCHANGED <<localVars, last_record_offset, delivered>>

(* Broken variant of ReturnEof: an unfinished record is a corruption.      *)
ReturnEof_Reports ==
  /\ Dispatch("eof")
  /\ scratch' = IF in_fragmented_record THEN << >> ELSE scratch
  /\ IF in_fragmented_record THEN Report(Len(scratch), "end")
                             ELSE NoReport("end")
  /\ UNCHANGED <<in_fragmented_record, prospective_record_offset,
                 last_record_offset, delivered>>

(* kEof: what was collected of an unfinished record is forgotten.          *)
ReturnEof ==
  /\ Dispatch("eof")
  /\ scratch' = IF in_fragmented_record THEN << >> ELSE scratch
  /\ NoReport("end")
  /\ UNCHANGED <<in_fragmented_record, prospective_record_offset,
                 last_record_offset, delivered>>

(* Broken variant of BadRecord: the record is not abandoned.               *)
BadRecord_KeepsFragments ==
  /\ Dispatch("bad")
  /\ IF in_fragmented_record THEN Report(Len(scratch), "physical")
                             ELSE NoReport("physical")
  /\ UNCHANGED <<localVars, last_record_offset, delivered>>

BadRecord ==
  /\ Dispatch("bad")
  /\ IF in_fragmented_record
     THEN Report(Len(scratch), "physical") /\ scratch' = << >>
     ELSE NoReport("physical") /\ UNCHANGED scratch
  /\ in_fragmented_record' = FALSE
  /\ UNCHANGED <<prospective_record_offset, last_record_offset, delivered>>

ReadPhysicalRecord ==
  \/ FillBuffer
  \/ FillFails
  \/ EndOfFile
  \/ BadRecordLength
  \/ ZeroLengthRecord
  \/ ChecksumMismatch
  \/ TakePhysicalRecord

DispatchRecord ==
  \/ SkipTail
  \/ FullRecord
  \/ FirstFragment
  \/ MiddleFragment
  \/ LastFragment
  \/ MissingStart
  \/ ScratchCrash
  \/ ReturnEof
  \/ BadRecord

Next ==
  \/ Open
  \/ ReadLogRecord
  \/ SkipFails
  \/ ReadPhysicalRecord
  \/ DispatchRecord

Spec == Init /\ [][Next]_vars
------------------------------------------------------------------------------
TypeOK ==
  /\ file_pos \in Nat
  /\ buffer \in Seq(Cell)
  /\ eof \in BOOLEAN
  /\ last_record_offset \in Nat
  /\ end_of_buffer_offset \in Nat
  /\ initial_offset \in Nat
  /\ resyncing \in BOOLEAN
  /\ in_fragmented_record \in BOOLEAN
  /\ prospective_record_offset \in Nat
  /\ scratch \in Seq(Byte)
  /\ fragment \in Seq(Byte)
  /\ record_type \in ReaderType
  /\ rpc \in ReaderPC
  /\ delivered \in Seq(Seq(Byte))
  /\ reported \in BOOLEAN

(* The reader came to an end, and not because a read or the skip failed:   *)
(* the first sets eof with part of the file unread, the other leaves it    *)
(* before the block it should start at.                                    *)
ReadToTheEnd ==
  rpc = "end" /\ file_pos >= (IF eof THEN Len(disk) ELSE InitialBlock)
==============================================================================
