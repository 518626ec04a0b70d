------------------------------ MODULE LogWriter ------------------------------
(***************************************************************************)
(* logWriter.c, driven the way its callers drive it (dbCreate in db.c and  *)
(* test_log_write in logReader_test.c): create the file, then logAddRecord *)
(* and writableFileSync for each record, then writableFileClose.  An error *)
(* of logAddRecord stops either of them; one of writableFileSync stops     *)
(* dbCreate, while test_log_write goes on with its next record.            *)
(*                                                                         *)
(* One step of logAddRecord is one iteration of its do-while loop, because *)
(* writerEmitPhysicalRecord ends in a flush: what an iteration appends     *)
(* reaches the file at that flush, or not at all if the process dies       *)
(* before it.                                                              *)
(***************************************************************************)
EXTENDS LogFormat

CONSTANTS
  Records,         (* the records a caller may log, sequences of bytes     *)
  MaxRecords,      (* bound on the number of records logged                *)
  TrailerOutcomes  (* what the misdirected append of a block trailer does  *)

(* logAddRecord passes the LogWriter itself, not its file, to the          *)
(* writableFileAppend that should pad a block.  That is undefined          *)
(* behaviour; the file gets no padding, and the process either carries on  *)
(* ("lost") or dies ("crash").                                             *)
ASSUME WriterAssumption ==
  /\ Records \subseteq Seq(Byte)
  /\ MaxRecords \in Nat
  /\ TrailerOutcomes \subseteq {"lost", "crash"}

VARIABLES
  disk,          (* the bytes of the file                                  *)
  synced,        (* how many of them are known to survive a power loss     *)
  block_offset,  (* LogWriter.block_offset                                 *)
  record,        (* the argument of the logAddRecord being executed        *)
  left,          (* its local variables                                    *)
  begin,
  wpc,           (* where the writing process is                           *)
  log,           (* history: every record handed to logAddRecord           *)
  ends,          (* history: file length when each completed record ended  *)
  acked          (* history: how many records were logged and synced       *)

vars == <<disk, synced, block_offset, record, left, begin, wpc, log, ends,
          acked>>

WriterPC == {"idle", "adding", "added", "closed", "failed", "crashed"}

Stopped == wpc \in {"closed", "failed", "crashed"}

(***************************************************************************)
(* The geometry of one iteration.                                          *)
(***************************************************************************)
Leftover == BlockSize - block_offset

NeedsTrailer == Leftover < HeaderSize /\ Leftover > 0

(* Broken variant of StartOffset: a header of which a byte does not fit.   *)
StartOffset_HeaderCut ==
  IF Leftover < HeaderSize - 1 THEN 0 ELSE block_offset

(* Broken variant: switches blocks although a header just fits.            *)
StartOffset_TooEarly == IF Leftover <= HeaderSize THEN 0 ELSE block_offset

(* block_offset once the iteration has switched blocks, if it must.        *)
StartOffset == IF Leftover < HeaderSize THEN 0 ELSE block_offset

Avail == BlockSize - StartOffset - HeaderSize

FragmentLength == IF left < Avail THEN left ELSE Avail

Fragment ==
  LET done == Len(record) - left
  IN  [type |-> FragmentType(begin, left = FragmentLength),
       data |-> SubSeq(record, done + 1, done + FragmentLength)]
------------------------------------------------------------------------------
(* writeLogCreate on a file just created.                                  *)
Init ==
  /\ disk = << >>
  /\ synced = 0
  /\ block_offset = 0
  /\ record = << >>
  /\ left = 0
  /\ begin = FALSE
  /\ wpc = "idle"
  /\ log = << >>
  /\ ends = << >>
  /\ acked = 0

(* A caller enters logAddRecord.                                           *)
LogAddRecord(r) ==
  /\ wpc = "idle"
  /\ Len(log) < MaxRecords
  /\ wpc' = "adding"
  /\ record' = r
  /\ left' = Len(r)
  /\ begin' = TRUE
  /\ log' = Append(log, r)
  /\ UNCHANGED <<disk, synced, block_offset, ends, acked>>

(* An iteration gets past its block switch.                                *)
PastTrailer == NeedsTrailer => "lost" \in TrailerOutcomes

(* Broken variant of Advance: left -= avail.                               *)
Advance_ByAvail ==
  /\ block_offset' = StartOffset + HeaderSize + FragmentLength
  /\ left' = left - Avail
  /\ begin' = FALSE

(* What every iteration does to the writer and to its locals, whatever the *)
(* three calls on the file return.                                         *)
Advance ==
  /\ block_offset' = StartOffset + HeaderSize + FragmentLength
  /\ left' = left - FragmentLength
  /\ begin' = FALSE

(* An iteration whose appends and flush succeed; it returns to the caller  *)
(* when nothing is left.                                                   *)
EmitPhysicalRecord ==
  /\ wpc = "adding"
  /\ PastTrailer
  /\ disk' = disk \o Encode(Fragment)
  /\ Advance
  /\ \/ /\ left' > 0
        /\ UNCHANGED <<wpc, ends>>
     \/ /\ left' = 0
        /\ wpc' = "added"
        /\ ends' = Append(ends, Len(disk'))
  /\ UNCHANGED <<synced, record, log, acked>>

(* An append or the flush fails after n of the bytes reached the file.     *)
(* block_offset moves as if all had, and the error ends the loop.          *)
EmitFails ==
  /\ wpc = "adding"
  /\ PastTrailer
  /\ \E n \in 0..(HeaderSize + FragmentLength - 1) :
        disk' = disk \o SubSeq(Encode(Fragment), 1, n)
  /\ Advance
  /\ wpc' = "failed"
  /\ UNCHANGED <<synced, record, log, ends, acked>>

(* The process dies in the misdirected append of the trailer.              *)
TrailerCrash ==
  /\ wpc = "adding"
  /\ NeedsTrailer
  /\ "crash" \in TrailerOutcomes
  /\ wpc' = "crashed"
  /\ UNCHANGED <<disk, synced, block_offset, record, left, begin, log, ends,
                 acked>>

(* Broken variant of Sync: a sync that failed is taken for one that did    *)
(* not.                                                                    *)
Sync_ErrorIgnored ==
  /\ wpc = "added"
  /\ \/ synced' = Len(disk)
     \/ UNCHANGED synced
  /\ acked' = Len(log)
  /\ wpc' = "idle"
  /\ UNCHANGED <<disk, block_offset, record, left, begin, log, ends>>

(* The caller's writableFileSync after a successful logAddRecord.          *)
Sync ==
  /\ wpc = "added"
  /\ \/ /\ synced' = Len(disk)
        /\ acked' = Len(log)
        /\ wpc' = "idle"
     \/ /\ wpc' \in {"idle", "failed"}
        /\ UNCHANGED <<synced, acked>>
  /\ UNCHANGED <<disk, block_offset, record, left, begin, log, ends>>

(* The caller's writableFileClose once it has logged all it wants to.      *)
Close ==
  /\ wpc = "idle"
  /\ wpc' = "closed"
  /\ UNCHANGED <<disk, synced, block_offset, record, left, begin, log, ends,
                 acked>>

(* The machine stops.  Of the bytes written since the last sync any prefix *)
(* is on the medium; the extent behind it may be there and read as zeros.  *)
(* The memory of the process is gone.                                      *)
PowerLoss ==
  /\ wpc # "crashed"
  /\ \E n \in synced..Len(disk) : \E z \in 0..(Len(disk) - n) :
        disk' = SubSeq(disk, 1, n) \o Zeros(z)
  /\ wpc' = "crashed"
  /\ block_offset' = 0 /\ record' = << >> /\ left' = 0 /\ begin' = FALSE
  /\ UNCHANGED <<synced, log, ends, acked>>

Next ==
  \/ \E r \in Records : LogAddRecord(r)
  \/ EmitPhysicalRecord
  \/ EmitFails
  \/ TrailerCrash
  \/ Sync
  \/ Close
  \/ PowerLoss

Spec == Init /\ [][Next]_vars
------------------------------------------------------------------------------
TypeOK ==
  /\ disk \in Seq(Cell)
  /\ synced \in Nat
  /\ block_offset \in 0..BlockSize
  /\ record \in Seq(Byte)
  /\ left \in 0..Len(record)
  /\ begin \in BOOLEAN
  /\ wpc \in WriterPC
  /\ log \in Seq(Seq(Byte))
  /\ ends \in Seq(Nat)
  /\ acked \in Nat

(* The assertions of the write path, when the iteration that makes them    *)
(* runs: leftover >= 0, room for a header after the block switch, a        *)
(* length two bytes can hold, and a physical record inside its block       *)
(* (logWriter.c:91, 102, 26, 27).                                          *)
AssertsHold ==
  wpc = "adding" =>
    /\ Leftover >= 0
    /\ Avail >= 0
    /\ FragmentLength <= MaxLength
    /\ StartOffset + HeaderSize + FragmentLength <= BlockSize

(* The bytes o+1 .. o+n of the file lie in one block.                      *)
InOneBlock(o, n) ==
  \E q \in 0..o : q * BlockSize <= o /\ o + n <= (q + 1) * BlockSize

(* No physical record crosses a block boundary of the file: the reader,    *)
(* which reads whole blocks, must find every header inside the block it    *)
(* reads.  This is about the file, where AssertsHold is about the          *)
(* writer's own idea of its offset; the two part once a trailer is lost.   *)
NoStraddle ==
  \A i \in DOMAIN disk :
    disk[i].at = 1 => InOneBlock(i - 1, HeaderSize + Len(disk[i].phys.data))

(* While the writer can still append, its block_offset is the offset of    *)
(* the end of the file in its block: after a trailer of fewer than         *)
(* kHeaderSize bytes the next record starts a block, as the comments on    *)
(* logWriter.c:67 and 92 say (the rest is filled with \x00).               *)
OffsetsAgree ==
  ~Stopped => \E q \in 0..Len(disk) : Len(disk) = q * BlockSize + block_offset

(* Whatever was acknowledged is behind the sync point, whole: a power loss *)
(* takes none of the records logged and synced.                            *)
AckedIsOnDisk ==
  \A k \in 1..acked :
    /\ ends[k] <= Len(disk)
    /\ \A i \in 1..ends[k] : Written(disk[i])
==============================================================================
