--------------------------- MODULE LogSystemProofs ---------------------------
(***************************************************************************)
(* What holds of a log file from its creation to its recovery, for all     *)
(* records, block sizes and bounds, wherever the writer stops, whatever    *)
(* happens to the file and whatever the reader's calls return.             *)
(***************************************************************************)
EXTENDS LogSystem, NaturalLemmas, SequenceTheorems

(* What has been proved of the writer.                                     *)
Proved == INSTANCE LogWriterProofs

(* The modules composed here have one format.                              *)
LEMMA SameFormat ==
  /\ Writer!Cell = Cell /\ Reader!Cell = Cell /\ Proved!Cell = Cell
  /\ Reader!RecordType = RecordType /\ Proved!Physical = Physical
  /\ Reader!ZeroCell = ZeroCell
BY DEF Writer!Cell, Reader!Cell, Proved!Cell, Cell, Writer!Physical,
       Reader!Physical, Proved!Physical, Physical, Writer!RecordType,
       Reader!RecordType, Proved!RecordType, RecordType, Reader!ZeroCell,
       ZeroCell, Reader!NoPhysical, NoPhysical

LEMMA SameBytes ==
  /\ \A p : Writer!Encode(p) = Encode(p) /\ Reader!Encode(p) = Encode(p)
           /\ Proved!Encode(p) = Encode(p)
  /\ \A n : Writer!Zeros(n) = Zeros(n) /\ Reader!Zeros(n) = Zeros(n)
           /\ Proved!Zeros(n) = Zeros(n)
BY DEF Writer!Encode, Reader!Encode, Proved!Encode, Encode, Writer!Zeros,
       Reader!Zeros, Proved!Zeros, Zeros, Writer!ZeroCell, Reader!ZeroCell,
       Proved!ZeroCell, ZeroCell, Writer!NoPhysical, Reader!NoPhysical,
       Proved!NoPhysical, NoPhysical

LEMMA SameType == Proved!TypeOK <=> Writer!TypeOK
BY SameFormat
   DEF Proved!TypeOK, Writer!TypeOK, Proved!WriterPC, Writer!WriterPC

LEMMA SameTypeNext == Proved!TypeOK' <=> Writer!TypeOK'
BY SameFormat
   DEF Proved!TypeOK, Writer!TypeOK, Proved!WriterPC, Writer!WriterPC

LEMMA SameFragment ==
  /\ Proved!FragmentLength = Writer!FragmentLength
  /\ Proved!Fragment = Writer!Fragment
<1>1. Proved!FragmentLength = Writer!FragmentLength
  BY DEF Proved!FragmentLength, Writer!FragmentLength, Proved!Avail,
         Writer!Avail, Proved!StartOffset, Writer!StartOffset,
         Proved!Leftover, Writer!Leftover
<1>2. \A b, e : Proved!FragmentType(b, e) = Writer!FragmentType(b, e)
  BY DEF Proved!FragmentType, Writer!FragmentType
<1>. QED
  BY <1>1, <1>2 DEF Proved!Fragment, Writer!Fragment

LEMMA SameEmit ==
  /\ Proved!EmitPhysicalRecord <=> Writer!EmitPhysicalRecord
  /\ Proved!EmitFails <=> Writer!EmitFails
<1>1. Proved!PastTrailer <=> Writer!PastTrailer
  BY DEF Proved!PastTrailer, Writer!PastTrailer, Proved!NeedsTrailer,
         Writer!NeedsTrailer, Proved!Leftover, Writer!Leftover
<1>2. Proved!Advance <=> Writer!Advance
  BY SameFragment DEF Proved!Advance, Writer!Advance, Proved!StartOffset,
         Writer!StartOffset, Proved!Leftover, Writer!Leftover
<1>. QED
  BY <1>1, <1>2, SameFragment, SameBytes
     DEF Proved!EmitPhysicalRecord, Writer!EmitPhysicalRecord,
         Proved!EmitFails, Writer!EmitFails

LEMMA SameNext == Proved!Next <=> Writer!Next
<1>1. Proved!TrailerCrash <=> Writer!TrailerCrash
  BY DEF Proved!TrailerCrash, Writer!TrailerCrash, Proved!NeedsTrailer,
         Writer!NeedsTrailer, Proved!Leftover, Writer!Leftover
<1>2. \A r \in Records : Proved!LogAddRecord(r) <=> Writer!LogAddRecord(r)
  BY DEF Proved!LogAddRecord, Writer!LogAddRecord
<1>3. /\ Proved!Sync <=> Writer!Sync
      /\ Proved!Close <=> Writer!Close
      /\ Proved!PowerLoss <=> Writer!PowerLoss
  BY SameBytes DEF Proved!Sync, Writer!Sync, Proved!Close, Writer!Close,
         Proved!PowerLoss, Writer!PowerLoss
<1>. QED
  BY <1>1, <1>2, <1>3, SameEmit DEF Proved!Next, Writer!Next

LEMMA WriterTypeStep ==
  ASSUME Writer!TypeOK, Writer!Next
  PROVE  Writer!TypeOK'
<1>1. Proved!TypeOK /\ [Proved!Next]_Proved!vars
  BY SameType, SameNext
<1>2. Proved!TypeOK'
  BY <1>1, FormatAssumption, SystemAssumption, Proved!TypeStep
<1>. QED
  BY <1>2, SameTypeNext
------------------------------------------------------------------------------
(***************************************************************************)
(* Types.  That of the reader is inductive together with what keeps its    *)
(* offsets above 0: the buffer ends at end_of_buffer_offset, and a         *)
(* physical record is taken only from behind initial_offset.               *)
(***************************************************************************)

(* A physical record has been taken and has not been looked at yet.        *)
Taken == rpc = "dispatch" /\ record_type \in {"full", "first", "middle", "last"}

Offsets ==
  /\ end_of_buffer_offset >= Len(buffer)
  /\ rpc = "ready" => buffer = << >> \/ last_record_offset >= initial_offset
  /\ in_fragmented_record => prospective_record_offset >= initial_offset
  /\ Taken => Reader!PhysicalRecordOffset >= initial_offset

(* A reader that has not been opened has nothing.                          *)
Fresh ==
  Unread => /\ buffer = << >> /\ file_pos = 0
            /\ ~in_fragmented_record
            /\ delivered = << >>

TypeInv == TypeOK /\ Offsets /\ Fresh

LEMMA InitialBlockType ==
  ASSUME initial_offset \in Nat
  PROVE  Reader!InitialBlock \in Nat
<1>. DEFINE b == BlockSize
            q == initial_offset \div b
            r == initial_offset % b
<1>1. b \in Nat \ {0}
  BY FormatAssumption
<1>2. q \in Nat /\ r \in 0..(b - 1) /\ initial_offset = q * b + r
  BY <1>1
<1>3. q * b \in Nat
  <2>. HIDE DEF q, b
  <2>. QED
    BY <1>1, <1>2
<1>4. initial_offset - r \in Nat
  <2>. HIDE DEF q, b, r
  <2>. QED
    BY <1>1, <1>2, <1>3
<1>. QED
  BY <1>1, <1>4 DEF Reader!InitialBlock

(* Zeros as cells.                                                         *)
LEMMA ZerosType ==
  ASSUME NEW n \in Nat
  PROVE  /\ Zeros(n) \in Seq(Cell) /\ Len(Zeros(n)) = n
         /\ \A k \in 1..n : Zeros(n)[k] = ZeroCell
<1>1. ZeroCell \in Cell
  <2>1. << >> \in Seq(Byte)
    OBVIOUS
  <2>. QED
    BY <2>1 DEF ZeroCell, NoPhysical, Cell, Physical, RecordType
<1>. QED
  BY <1>1 DEF Zeros

LEMMA DiskType ==
  ASSUME TypeOK
  PROVE  /\ disk \in Seq(Cell) /\ Len(disk) \in Nat /\ DOMAIN disk = 1..Len(disk)
         /\ \A i \in 1..Len(disk) : disk[i] \in Cell
<1>1. disk \in Seq(Cell)
  BY SameFormat DEF TypeOK, Writer!TypeOK
<1>. QED
  BY <1>1, LenProperties

(* What a read of the file returns.                                        *)
LEMMA NextBlockType ==
  ASSUME TypeOK
  PROVE  /\ Reader!NextBlock \in Seq(Cell)
         /\ Len(Reader!NextBlock) \in Nat
         /\ \A k \in 1..Len(Reader!NextBlock) :
              /\ file_pos + k \in 1..Len(disk)
              /\ Reader!NextBlock[k] = disk[file_pos + k]
<1>. DEFINE n == IF Len(disk) - file_pos < BlockSize THEN Len(disk) - file_pos
                                                     ELSE BlockSize
            s == SubSeq(disk, file_pos + 1, file_pos + n)
<1>1. /\ file_pos \in Nat /\ BlockSize \in Nat /\ Len(disk) \in Nat
      /\ n \in Int /\ file_pos + n <= Len(disk)
  BY DiskType, FormatAssumption DEF TypeOK, Reader!TypeOK
<1>2. \A i \in (file_pos + 1)..(file_pos + n) : disk[i] \in Cell
  <2>. HIDE DEF n
  <2>. QED
    BY <1>1, DiskType
<1>3. /\ s \in Seq(Cell)
      /\ Len(s) = IF file_pos + 1 <= file_pos + n
                  THEN (file_pos + n) - (file_pos + 1) + 1 ELSE 0
      /\ \A i \in 1..((file_pos + n) - (file_pos + 1) + 1) :
            s[i] = disk[file_pos + 1 + i - 1]
  <2>. HIDE DEF n
  <2>1. file_pos + 1 \in Int /\ file_pos + n \in Int
    BY <1>1
  <2>. QED
    BY <1>2, <2>1, SubSeqProperties
<1>4. /\ s \in Seq(Cell)
      /\ Len(s) = IF n > 0 THEN n ELSE 0
      /\ \A i \in 1..n : s[i] = disk[file_pos + i]
  <2>. HIDE DEF n, s
  <2>1. ASSUME NEW i \in 1..n PROVE s[i] = disk[file_pos + i]
    <3>1. /\ i \in 1..((file_pos + n) - (file_pos + 1) + 1)
          /\ file_pos + 1 + i - 1 = file_pos + i
      BY <1>1
    <3>2. s[i] = disk[file_pos + 1 + i - 1]
      BY <1>3, <3>1
    <3>. QED
      BY <3>1, <3>2
  <2>2. Len(s) = IF n > 0 THEN n ELSE 0
    BY <1>1, <1>3
  <2>. QED
    BY <1>3, <2>1, <2>2
<1>5. Len(s) \in Nat /\ \A k \in 1..Len(s) :
        file_pos + k \in 1..Len(disk) /\ s[k] = disk[file_pos + k]
  <2>. HIDE DEF n, s
  <2>. QED
    BY <1>1, <1>4
<1>. QED
  BY <1>4, <1>5 DEF Reader!NextBlock

(* A report may kill the process; otherwise it goes on.                    *)
LEMMA ReportGoesOn ==
  \A bytes, next :
    Reader!Report(bytes, next) =>
      /\ rpc' \in {next, "crashed"}
      /\ reported \in BOOLEAN => reported' \in BOOLEAN
BY SystemAssumption DEF Reader!Report

LEMMA BufferType ==
  ASSUME TypeOK
  PROVE  /\ buffer \in Seq(Cell) /\ Len(buffer) \in Nat
         /\ \A k \in 1..Len(buffer) : buffer[k] \in Cell
<1>1. buffer \in Seq(Cell)
  BY SameFormat DEF TypeOK, Reader!TypeOK
<1>. QED
  BY <1>1, LenProperties

(* The block read is behind the zeros that were put in front of it.        *)
LEMMA Filled ==
  ASSUME TypeOK, Reader!FillBuffer
  PROVE  \E pad \in {0, Len(buffer)} :
           /\ buffer' \in Seq(Cell)
           /\ Len(buffer') \in Nat
           /\ file_pos' = file_pos + Len(buffer') - pad
           /\ file_pos' \in Nat /\ file_pos' >= file_pos
           /\ \A k \in 1..Len(buffer') :
                /\ k <= pad => buffer'[k] = ZeroCell
                /\ k > pad =>
                     /\ file_pos + k - pad \in 1..Len(disk)
                     /\ buffer'[k] = disk[file_pos + k - pad]
<1>. DEFINE b == Reader!NextBlock
<1>1. PICK pad \in {0, Len(buffer)} : buffer' = Zeros(pad) \o b
  BY SameBytes DEF Reader!FillBuffer
<1>2. pad \in Nat /\ file_pos \in Nat
  BY BufferType DEF TypeOK, Reader!TypeOK
<1>3. /\ b \in Seq(Cell) /\ Len(b) \in Nat
      /\ \A k \in 1..Len(b) : /\ file_pos + k \in 1..Len(disk)
                              /\ b[k] = disk[file_pos + k]
  BY NextBlockType
<1>4. file_pos' = file_pos + Len(b)
  BY DEF Reader!FillBuffer
<1>. HIDE DEF b
<1>. DEFINE z == Zeros(pad)
<1>5. z \in Seq(Cell) /\ Len(z) = pad /\ \A k \in 1..pad : z[k] = ZeroCell
  BY <1>2, ZerosType
<1>6. buffer' = z \o b
  BY <1>1
<1>. HIDE DEF z
<1>7. /\ buffer' \in Seq(Cell) /\ Len(buffer') = pad + Len(b)
      /\ \A k \in 1..(pad + Len(b)) :
           buffer'[k] = IF k <= pad THEN z[k] ELSE b[k - pad]
  <2>1. /\ z \o b \in Seq(Cell) /\ Len(z \o b) = Len(z) + Len(b)
        /\ \A k \in 1..(Len(z) + Len(b)) :
             (z \o b)[k] = IF k <= Len(z) THEN z[k] ELSE b[k - Len(z)]
    BY <1>3, <1>5, ConcatProperties
  <2>. QED
    BY <1>5, <1>6, <2>1
<1>8. ASSUME NEW k \in 1..Len(buffer')
      PROVE  /\ k <= pad => buffer'[k] = ZeroCell
             /\ k > pad => /\ file_pos + k - pad \in 1..Len(disk)
                           /\ buffer'[k] = disk[file_pos + k - pad]
  <2>1. CASE k <= pad
    BY <1>2, <1>3, <1>5, <1>7, <2>1
  <2>2. CASE k > pad
    <3>1. k - pad \in 1..Len(b) /\ buffer'[k] = b[k - pad]
      BY <1>2, <1>3, <1>7, <2>2
    <3>2. file_pos + (k - pad) = file_pos + k - pad
      BY <1>2, <1>3, <1>7
    <3>3. /\ file_pos + (k - pad) \in 1..Len(disk)
          /\ b[k - pad] = disk[file_pos + (k - pad)]
      BY <1>3, <3>1
    <3>. QED
      BY <1>2, <2>2, <3>1, <3>2, <3>3
  <2>. QED
    BY <1>2, <1>7, <2>1, <2>2
<1>9. /\ Len(buffer') \in Nat
      /\ file_pos' = file_pos + Len(buffer') - pad
      /\ file_pos' \in Nat /\ file_pos' >= file_pos
  BY <1>2, <1>3, <1>4, <1>7
<1>. QED
  BY <1>7, <1>8, <1>9

(* A physical record whose checksum matches is in the buffer, whole, and   *)
(* leaves it.                                                              *)
LEMMA TookRecord ==
  ASSUME TypeOK, Reader!TakePhysicalRecord
  PROVE  /\ buffer # << >>
         /\ Reader!FrontRecord \in Physical
         /\ Reader!FrontRecord.data \in Seq(Byte)
         /\ Len(Reader!FrontRecord.data) \in Nat
         /\ Reader!PhysicalLength = HeaderSize + Len(Reader!FrontRecord.data)
         /\ Reader!PhysicalLength \in 1..Len(buffer)
         /\ \A k \in 1..Reader!PhysicalLength :
              buffer[k] = [phys |-> Reader!FrontRecord, at |-> k]
         /\ buffer' \in Seq(Cell)
         /\ Len(buffer') = Len(buffer) - Reader!PhysicalLength
         /\ \A k \in 1..Len(buffer') :
              buffer'[k] = buffer[Reader!PhysicalLength + k]
<1>. DEFINE p == Reader!FrontRecord
            n == Reader!PhysicalLength
<1>1. HeaderSize \in Nat \ {0} /\ Len(buffer) >= HeaderSize /\ Len(buffer) \in Nat
  BY FormatAssumption, BufferType DEF Reader!TakePhysicalRecord, Reader!HasHeader
<1>2. buffer[1] \in Cell /\ buffer # << >>
  BY <1>1, BufferType
<1>3. p \in Physical /\ p.data \in Seq(Byte) /\ Len(p.data) \in Nat
  BY <1>2, LenProperties DEF Reader!FrontRecord, Cell, Physical
<1>4. n = HeaderSize + Len(p.data) /\ n \in 1..Len(buffer)
  BY <1>1, <1>3
     DEF Reader!TakePhysicalRecord, Reader!ChecksumOK, Reader!PhysicalLength
<1>5. SubSeq(buffer, 1, n) = Encode(p)
  BY SameBytes DEF Reader!TakePhysicalRecord, Reader!ChecksumOK
<1>6. buffer' = SubSeq(buffer, n + 1, Len(buffer))
  BY DEF Reader!TakePhysicalRecord
<1>. HIDE DEF n, p
<1>7. \A k \in 1..n : Encode(p)[k] = [phys |-> p, at |-> k]
  BY <1>4 DEF Encode
<1>8. \A k \in 1..n : SubSeq(buffer, 1, n)[k] = buffer[k]
  <2>1. \A i \in 1..n : buffer[i] \in Cell
    BY <1>1, <1>4, BufferType
  <2>2. \A i \in 1..(n - 1 + 1) : SubSeq(buffer, 1, n)[i] = buffer[1 + i - 1]
    BY <1>1, <1>4, <2>1, SubSeqProperties
  <2>3. ASSUME NEW k \in 1..n PROVE SubSeq(buffer, 1, n)[k] = buffer[k]
    <3>1. k \in 1..(n - 1 + 1) /\ 1 + k - 1 = k
      BY <1>1, <1>4
    <3>2. SubSeq(buffer, 1, n)[k] = buffer[1 + k - 1]
      BY <2>2, <3>1
    <3>. QED
      BY <3>1, <3>2
  <2>. QED
    BY <2>3
<1>9. \A k \in 1..n : buffer[k] = [phys |-> p, at |-> k]
  BY <1>5, <1>7, <1>8
<1>10. /\ buffer' \in Seq(Cell)
       /\ Len(buffer') = Len(buffer) - n
       /\ \A k \in 1..Len(buffer') : buffer'[k] = buffer[n + k]
  <2>1. \A i \in (n + 1)..Len(buffer) : buffer[i] \in Cell
    BY <1>1, <1>4, BufferType
  <2>2. n + 1 \in Int /\ Len(buffer) \in Int
    BY <1>1, <1>4
  <2>3. /\ buffer' \in Seq(Cell)
        /\ Len(buffer') = IF n + 1 <= Len(buffer)
                          THEN Len(buffer) - (n + 1) + 1 ELSE 0
        /\ \A i \in 1..(Len(buffer) - (n + 1) + 1) :
              buffer'[i] = buffer[n + 1 + i - 1]
    <3>. DEFINE t == SubSeq(buffer, n + 1, Len(buffer))
    <3>1. /\ t \in Seq(Cell)
          /\ Len(t) = IF n + 1 <= Len(buffer)
                      THEN Len(buffer) - (n + 1) + 1 ELSE 0
          /\ \A i \in 1..(Len(buffer) - (n + 1) + 1) :
                t[i] = buffer[n + 1 + i - 1]
      BY <2>1, <2>2, SubSeqProperties
    <3>. QED
      BY <1>6, <3>1
  <2>4. Len(buffer') = Len(buffer) - n
    <3>1. Len(buffer') = IF n + 1 <= Len(buffer)
                         THEN Len(buffer) - (n + 1) + 1 ELSE 0
      BY <2>3
    <3>2. CASE n + 1 <= Len(buffer)
      BY <1>1, <1>4, <3>1, <3>2
    <3>3. CASE ~(n + 1 <= Len(buffer))
      BY <1>1, <1>4, <3>1, <3>3
    <3>. QED
      BY <3>2, <3>3
  <2>5. ASSUME NEW k \in 1..Len(buffer') PROVE buffer'[k] = buffer[n + k]
    <3>1. k \in 1..(Len(buffer) - (n + 1) + 1) /\ n + 1 + k - 1 = n + k
      BY <1>1, <1>4, <2>4
    <3>2. buffer'[k] = buffer[n + 1 + k - 1]
      BY <2>3, <3>1
    <3>. QED
      BY <3>1, <3>2
  <2>. QED
    BY <2>3, <2>4, <2>5
<1>. QED
  BY <1>2, <1>3, <1>4, <1>9, <1>10 DEF n, p

(* The reader's steps keep its type and its offsets: those of a caller,    *)
LEMMA CallTypes ==
  ASSUME TypeInv, Reader!Open \/ Reader!ReadLogRecord \/ Reader!SkipFails
  PROVE  Reader!TypeOK' /\ Offsets' /\ Fresh'
<1>1. /\ buffer \in Seq(Reader!Cell) /\ Len(buffer) \in Nat
      /\ buffer = << >> => Len(buffer) = 0
  BY BufferType DEF TypeInv, TypeOK, Reader!TypeOK
<1>2. CASE Reader!Open
  <2>1. initial_offset' \in Nat /\ resyncing' \in BOOLEAN
    <3>1. initial_offset' \in Nat
      BY <1>2, SystemAssumption DEF Reader!Open
    <3>2. (initial_offset' > 0) \in BOOLEAN
      BY <3>1
    <3>3. resyncing' = FALSE \/ resyncing' = (initial_offset' > 0)
      BY <1>2, Zenon DEF Reader!Open
    <3>. QED
      BY <3>1, <3>2, <3>3, Zenon
  <2>2. /\ rpc = "closed" /\ rpc' = "ready"
        /\ UNCHANGED <<file_pos, buffer, eof, end_of_buffer_offset,
                       last_record_offset, in_fragmented_record,
                       prospective_record_offset, scratch, fragment,
                       record_type, delivered, reported>>
    BY <1>2 DEF Reader!Open, Reader!inputVars, Reader!localVars
  <2>3. buffer = << >> /\ ~in_fragmented_record
    BY <2>2 DEF TypeInv, Fresh, Unread
  <2>4. Reader!TypeOK'
    BY <2>1, <2>2 DEF TypeInv, TypeOK, Reader!TypeOK, Reader!ReaderPC
  <2>. QED
    BY <2>2, <2>3, <2>4 DEF TypeInv, Offsets, Taken, Fresh, Unread
<1>3. CASE Reader!ReadLogRecord
  <2>1. /\ rpc = "ready" /\ rpc' = "physical"
        /\ ~in_fragmented_record' /\ in_fragmented_record' \in BOOLEAN
        /\ prospective_record_offset' = 0
        /\ scratch' = << >> /\ fragment' = << >>
        /\ UNCHANGED <<initial_offset, buffer, eof, last_record_offset,
                       resyncing, record_type, delivered, reported>>
    BY <1>3 DEF Reader!ReadLogRecord, Reader!fixedVars
  <2>2. Reader!InitialBlock \in Nat
    BY InitialBlockType DEF TypeInv, TypeOK, Reader!TypeOK
  <2>3. /\ file_pos' \in Nat /\ end_of_buffer_offset' \in Nat
        /\ end_of_buffer_offset' >= Len(buffer)
    <3>1. CASE Reader!MustSkip
      <4>1. buffer = << >>
        BY <2>1, <3>1
           DEF TypeInv, Offsets, Reader!MustSkip, TypeOK, Reader!TypeOK
      <4>. QED
        BY <1>1, <1>3, <2>2, <3>1, <4>1
           DEF Reader!ReadLogRecord, TypeInv, TypeOK, Reader!TypeOK
    <3>2. CASE ~Reader!MustSkip
      BY <1>3, <3>2
         DEF Reader!ReadLogRecord, TypeInv, Offsets, TypeOK, Reader!TypeOK
    <3>. QED
      BY <3>1, <3>2
  <2>4. << >> \in Seq(Byte) /\ 0 \in Nat
    OBVIOUS
  <2>5. Reader!TypeOK'
    BY <2>1, <2>3, <2>4 DEF TypeInv, TypeOK, Reader!TypeOK, Reader!ReaderPC
  <2>. QED
    BY <2>1, <2>3, <2>5 DEF Offsets, Taken, Fresh, Unread
<1>4. CASE Reader!SkipFails
  <2>1. /\ rpc = "ready" /\ Reader!MustSkip /\ rpc' \in {"crashed", "end"}
        /\ end_of_buffer_offset' = Reader!InitialBlock
        /\ UNCHANGED <<initial_offset, file_pos, buffer, eof,
                       last_record_offset, resyncing, in_fragmented_record,
                       prospective_record_offset, scratch, fragment,
                       record_type, delivered, reported>>
    BY <1>4 DEF Reader!SkipFails, Reader!ReportThroughRecover,
                Reader!fixedVars, Reader!localVars
  <2>2. Reader!InitialBlock \in Nat
    BY InitialBlockType DEF TypeInv, TypeOK, Reader!TypeOK
  <2>3. buffer = << >>
    BY <2>1 DEF TypeInv, Offsets, Reader!MustSkip, TypeOK, Reader!TypeOK
  <2>4. Reader!TypeOK'
    BY <2>1, <2>2 DEF TypeInv, TypeOK, Reader!TypeOK, Reader!ReaderPC
  <2>. QED
    BY <1>1, <2>1, <2>2, <2>3, <2>4 DEF TypeInv, Offsets, Taken, Fresh, Unread
<1>. QED
  BY <1>2, <1>3, <1>4

(* those that fill or empty the buffer,                                    *)
LEMMA BufferTypes ==
  ASSUME TypeInv,
         \/ Reader!FillBuffer \/ Reader!FillFails \/ Reader!EndOfFile
         \/ Reader!BadRecordLength \/ Reader!ZeroLengthRecord
         \/ Reader!ChecksumMismatch
  PROVE  Reader!TypeOK' /\ Offsets' /\ Fresh'
<1>1. /\ buffer \in Seq(Reader!Cell) /\ Len(buffer) \in Nat
      /\ end_of_buffer_offset \in Nat
      /\ rpc = "physical" /\ in_fragmented_record =>
           prospective_record_offset >= initial_offset
  BY BufferType DEF TypeInv, TypeOK, Reader!TypeOK, Offsets
<1>2. CASE Reader!FillBuffer
  <2>1. /\ buffer' \in Seq(Reader!Cell) /\ Len(buffer') \in Nat
        /\ file_pos' \in Nat
    BY <1>2, Filled, SameFormat DEF TypeInv
  <2>2. /\ rpc = "physical" /\ rpc' = rpc
        /\ eof' \in BOOLEAN
        /\ end_of_buffer_offset' = end_of_buffer_offset + Len(buffer')
        /\ UNCHANGED <<initial_offset, last_record_offset, resyncing,
                       in_fragmented_record, prospective_record_offset,
                       scratch, fragment, record_type, delivered, reported>>
    BY <1>2 DEF Reader!FillBuffer, Reader!fixedVars, Reader!localVars
  <2>3. /\ end_of_buffer_offset' \in Nat
        /\ end_of_buffer_offset' >= Len(buffer')
    BY <1>1, <2>1, <2>2
  <2>4. Reader!TypeOK'
    BY <2>1, <2>2, <2>3 DEF TypeInv, TypeOK, Reader!TypeOK
  <2>. QED
    BY <2>2, <2>3, <2>4 DEF TypeInv, Offsets, Taken, Fresh, Unread
<1>3. CASE ~Reader!FillBuffer
  <2>1. /\ rpc = "physical" /\ rpc' \in {"dispatch", "crashed"}
        /\ reported' \in BOOLEAN
        /\ buffer' = << >>
        /\ eof' \in BOOLEAN
        /\ end_of_buffer_offset' \in {end_of_buffer_offset,
                                      end_of_buffer_offset + Len(buffer)}
        /\ record_type' \in {"eof", "bad"}
        /\ UNCHANGED <<initial_offset, file_pos, last_record_offset, resyncing,
                       in_fragmented_record, prospective_record_offset,
                       scratch, fragment, delivered>>
    <3>1. reported \in BOOLEAN /\ eof \in BOOLEAN
      BY DEF TypeInv, TypeOK, Reader!TypeOK
    <3>2. CASE Reader!FillFails
      BY <3>1, <3>2 DEF Reader!FillFails, Reader!ReportThroughRecover,
         Reader!ReturnType, Reader!fixedVars, Reader!localVars
    <3>3. CASE Reader!EndOfFile
      BY <3>1, <3>3 DEF Reader!EndOfFile, Reader!NoReport,
         Reader!ReturnType, Reader!fixedVars, Reader!localVars
    <3>4. CASE Reader!BadRecordLength
      BY <3>1, <3>4, ReportGoesOn
         DEF Reader!BadRecordLength, Reader!HasHeader, Reader!NoReport,
         Reader!ReturnType, Reader!fixedVars, Reader!localVars
    <3>5. CASE Reader!ZeroLengthRecord
      BY <3>1, <3>5 DEF Reader!ZeroLengthRecord, Reader!HasHeader,
         Reader!NoReport, Reader!ReturnType, Reader!fixedVars,
         Reader!localVars
    <3>6. CASE Reader!ChecksumMismatch
      BY <3>1, <3>6, ReportGoesOn
         DEF Reader!ChecksumMismatch, Reader!HasHeader,
         Reader!ReturnType, Reader!fixedVars, Reader!localVars
    <3>. QED
      BY <1>3, <3>2, <3>3, <3>4, <3>5, <3>6
  <2>2. << >> \in Seq(Reader!Cell) /\ Len(<< >>) = 0
    OBVIOUS
  <2>3. end_of_buffer_offset' \in Nat /\ end_of_buffer_offset' >= Len(buffer')
    BY <1>1, <2>1, <2>2
  <2>4. Reader!TypeOK'
    <3>1. rpc' \in Reader!ReaderPC /\ record_type' \in Reader!ReaderType
      BY <2>1 DEF Reader!ReaderPC, Reader!ReaderType
    <3>. QED
      BY <2>1, <2>2, <2>3, <3>1 DEF TypeInv, TypeOK, Reader!TypeOK
  <2>5. ~Taken' /\ rpc' # "ready" /\ ~Unread'
    BY <2>1 DEF Taken, Unread
  <2>. QED
    BY <2>1, <2>3, <2>4, <2>5 DEF TypeInv, Offsets, Fresh
<1>. QED
  BY <1>2, <1>3

(* the one that takes a physical record,                                   *)
LEMMA TakeTypes ==
  ASSUME TypeInv, Reader!TakePhysicalRecord
  PROVE  Reader!TypeOK' /\ Offsets' /\ Fresh'
<1>. DEFINE p == Reader!FrontRecord
            n == Reader!PhysicalLength
<1>1. /\ p \in Physical /\ p.data \in Seq(Byte) /\ Len(p.data) \in Nat
      /\ n = HeaderSize + Len(p.data) /\ n \in 1..Len(buffer)
      /\ buffer' \in Seq(Reader!Cell) /\ Len(buffer') = Len(buffer) - n
      /\ HeaderSize \in Nat
  BY TookRecord, SameFormat, FormatAssumption DEF TypeInv
<1>2. /\ rpc = "physical" /\ rpc' = "dispatch"
      /\ UNCHANGED <<initial_offset, file_pos, eof, end_of_buffer_offset,
                     last_record_offset, resyncing, in_fragmented_record,
                     prospective_record_offset, scratch, delivered, reported>>
      /\ \/ record_type' = "bad" /\ fragment' = << >>
         \/ /\ ~(end_of_buffer_offset - Len(buffer) < initial_offset)
            /\ record_type' = p.type /\ fragment' = p.data
  BY DEF Reader!TakePhysicalRecord, Reader!HasHeader, Reader!NoReport,
         Reader!ReturnType, Reader!fixedVars, Reader!localVars
<1>. HIDE DEF p, n
<1>3. /\ end_of_buffer_offset \in Nat /\ initial_offset \in Nat
      /\ Len(buffer) \in Nat /\ end_of_buffer_offset >= Len(buffer)
  BY BufferType DEF TypeInv, TypeOK, Reader!TypeOK, Offsets
<1>4. p.type \in RecordType
  BY <1>1 DEF Physical
<1>5. record_type' \in Reader!ReaderType
  <2>1. record_type' = "bad" \/ record_type' = p.type
    BY <1>2
  <2>2. Reader!RecordType = RecordType
    BY SameFormat
  <2>. QED
    BY <1>4, <2>1, <2>2 DEF Reader!ReaderType
<1>6. fragment' \in Seq(Byte)
  <2>1. fragment' = << >> \/ fragment' = p.data
    BY <1>2
  <2>2. << >> \in Seq(Byte)
    OBVIOUS
  <2>. QED
    BY <1>1, <2>1, <2>2
<1>7. Reader!TypeOK'
  BY <1>1, <1>2, <1>5, <1>6 DEF TypeInv, TypeOK, Reader!TypeOK, Reader!ReaderPC
<1>8. Taken' => Reader!PhysicalRecordOffset' >= initial_offset'
  <2>1. CASE record_type' = "bad"
    BY <2>1 DEF Taken
  <2>2. CASE /\ ~(end_of_buffer_offset - Len(buffer) < initial_offset)
             /\ fragment' = p.data
    <3>1. Reader!PhysicalRecordOffset' =
            end_of_buffer_offset - Len(buffer') - HeaderSize - Len(p.data)
      BY <1>2, <2>2 DEF Reader!PhysicalRecordOffset
    <3>. QED
      BY <1>1, <1>2, <1>3, <2>2, <3>1
  <2>. QED
    BY <1>2, <2>1, <2>2
<1>9. end_of_buffer_offset' >= Len(buffer')
  BY <1>1, <1>2, <1>3
<1>. QED
  BY <1>2, <1>7, <1>8, <1>9 DEF TypeInv, Offsets, Fresh, Unread

(* and those of readLogRecord's loop.                                      *)
LEMMA DispatchTypes ==
  ASSUME TypeInv, Reader!DispatchRecord
  PROVE  Reader!TypeOK' /\ Offsets' /\ Fresh'
<1>1. /\ scratch \in Seq(Byte) /\ fragment \in Seq(Byte) /\ << >> \in Seq(Byte)
      /\ scratch \o fragment \in Seq(Byte)
      /\ delivered \in Seq(Seq(Byte))
      /\ reported \in BOOLEAN /\ resyncing \in BOOLEAN
      /\ in_fragmented_record \in BOOLEAN
      /\ last_record_offset \in Nat /\ prospective_record_offset \in Nat
      /\ initial_offset \in Nat
  BY DEF TypeInv, TypeOK, Reader!TypeOK
<1>2. /\ in_fragmented_record => prospective_record_offset >= initial_offset
      /\ rpc = "dispatch" /\ record_type \in {"full", "first", "middle", "last"} =>
           /\ Reader!PhysicalRecordOffset >= initial_offset
           /\ Reader!PhysicalRecordOffset \in Nat
  <2>1. Reader!PhysicalRecordOffset \in Int
    <3>1. /\ Len(buffer) \in Nat /\ Len(fragment) \in Nat
          /\ HeaderSize \in Nat /\ end_of_buffer_offset \in Nat
      BY <1>1, BufferType, FormatAssumption, LenProperties
         DEF TypeInv, TypeOK, Reader!TypeOK
    <3>. QED
      BY <3>1 DEF Reader!PhysicalRecordOffset
  <2>. QED
    BY <1>1, <2>1 DEF TypeInv, Offsets, Taken
<1>3. \A r \in Seq(Byte) : Append(delivered, r) \in Seq(Seq(Byte))
  BY <1>1, AppendProperties
<1>4. /\ rpc = "dispatch"
      /\ UNCHANGED <<initial_offset, file_pos, buffer, eof,
                     end_of_buffer_offset, fragment, record_type>>
      /\ rpc' \in {"physical", "ready", "end", "crashed"}
      /\ reported' \in BOOLEAN
      /\ resyncing' \in BOOLEAN
  <2>. USE DEF Reader!fixedVars, Reader!inputVars, Reader!NoReport,
               Reader!Dispatch
  <2>1. CASE Reader!SkipTail
    <3>1. (record_type = "middle") \in BOOLEAN
      OBVIOUS
    <3>. QED
      BY <1>1, <2>1, <3>1 DEF Reader!SkipTail
  <2>2. CASE Reader!FullRecord
    BY <1>1, <2>2, ReportGoesOn DEF Reader!FullRecord
  <2>3. CASE Reader!FirstFragment
    BY <1>1, <2>3, ReportGoesOn DEF Reader!FirstFragment
  <2>4. CASE Reader!MiddleFragment
    BY <1>1, <2>4 DEF Reader!MiddleFragment
  <2>5. CASE Reader!LastFragment
    BY <1>1, <2>5 DEF Reader!LastFragment
  <2>6. CASE Reader!MissingStart
    BY <1>1, <2>6, ReportGoesOn DEF Reader!MissingStart
  <2>7. CASE Reader!ScratchCrash
    BY <1>1, <2>7 DEF Reader!ScratchCrash
  <2>8. CASE Reader!ReturnEof
    BY <1>1, <2>8 DEF Reader!ReturnEof
  <2>9. CASE Reader!BadRecord
    BY <1>1, <2>9, ReportGoesOn DEF Reader!BadRecord
  <2>. QED
    BY <2>1, <2>2, <2>3, <2>4, <2>5, <2>6, <2>7, <2>8, <2>9
       DEF Reader!DispatchRecord
<1>5. /\ scratch' \in Seq(Byte) /\ delivered' \in Seq(Seq(Byte))
      /\ in_fragmented_record' \in BOOLEAN
      /\ last_record_offset' \in Nat /\ prospective_record_offset' \in Nat
      /\ rpc' = "ready" => last_record_offset' >= initial_offset
      /\ in_fragmented_record' => prospective_record_offset' >= initial_offset
  <2>. USE DEF Reader!localVars, Reader!NoReport, Reader!Dispatch,
               Reader!Deliver
  <2>1. CASE Reader!SkipTail
    BY <1>1, <1>2, <2>1 DEF Reader!SkipTail
  <2>2. CASE Reader!FullRecord
    <3>1. /\ rpc = "dispatch" /\ record_type = "full"
          /\ prospective_record_offset' = Reader!PhysicalRecordOffset
          /\ scratch' = << >>
          /\ \/ UNCHANGED <<delivered, last_record_offset>> /\ rpc' = "crashed"
             \/ /\ delivered' = Append(delivered, fragment)
                /\ last_record_offset' = Reader!PhysicalRecordOffset
          /\ UNCHANGED in_fragmented_record
      BY <2>2 DEF Reader!FullRecord
    <3>. QED
      BY <1>1, <1>2, <1>3, <3>1
  <2>3. CASE Reader!FirstFragment
    <3>1. /\ rpc = "dispatch" /\ record_type = "first"
          /\ prospective_record_offset' = Reader!PhysicalRecordOffset
          /\ scratch' = fragment
          /\ in_fragmented_record' = TRUE
          /\ UNCHANGED <<delivered, last_record_offset>>
          /\ rpc' \in {"physical", "crashed"}
      BY <2>3, ReportGoesOn DEF Reader!FirstFragment
    <3>. QED
      BY <1>1, <1>2, <3>1
  <2>4. CASE Reader!MiddleFragment
    BY <1>1, <1>2, <2>4 DEF Reader!MiddleFragment
  <2>5. CASE Reader!LastFragment
    <3>1. /\ in_fragmented_record
          /\ scratch' = scratch \o fragment
          /\ delivered' = Append(delivered, scratch')
          /\ last_record_offset' = prospective_record_offset
          /\ UNCHANGED <<in_fragmented_record, prospective_record_offset>>
      BY <2>5 DEF Reader!LastFragment
    <3>. QED
      BY <1>1, <1>2, <1>3, <3>1
  <2>6. CASE Reader!MissingStart
    <3>1. /\ UNCHANGED <<in_fragmented_record, prospective_record_offset,
                         scratch, last_record_offset, delivered>>
          /\ rpc' \in {"physical", "crashed"}
      BY <2>6, ReportGoesOn DEF Reader!MissingStart
    <3>. QED
      BY <1>1, <1>2, <3>1
  <2>7. CASE Reader!ScratchCrash
    BY <1>1, <1>2, <2>7 DEF Reader!ScratchCrash
  <2>8. CASE Reader!ReturnEof
    BY <1>1, <1>2, <2>8 DEF Reader!ReturnEof
  <2>9. CASE Reader!BadRecord
    <3>1. /\ ~in_fragmented_record' /\ in_fragmented_record' \in BOOLEAN
          /\ scratch' \in {scratch, << >>}
          /\ UNCHANGED <<prospective_record_offset, last_record_offset,
                         delivered>>
          /\ rpc' \in {"physical", "crashed"}
      BY <2>9, ReportGoesOn DEF Reader!BadRecord
    <3>. QED
      BY <1>1, <3>1
  <2>. QED
    BY <2>1, <2>2, <2>3, <2>4, <2>5, <2>6, <2>7, <2>8, <2>9
       DEF Reader!DispatchRecord
<1>6. Reader!TypeOK'
  <2>1. rpc' \in Reader!ReaderPC
    BY <1>4 DEF Reader!ReaderPC
  <2>. QED
    BY <1>4, <1>5, <2>1 DEF TypeInv, TypeOK, Reader!TypeOK
<1>7. ~Taken' /\ ~Unread'
  BY <1>4 DEF Taken, Unread
<1>. QED
  BY <1>4, <1>5, <1>6, <1>7 DEF TypeInv, Offsets, Fresh

LEMMA ReaderTypes ==
  ASSUME TypeInv, Reader!Next
  PROVE  Reader!TypeOK' /\ Offsets' /\ Fresh'
BY CallTypes, BufferTypes, TakeTypes, DispatchTypes
   DEF Reader!Next, Reader!ReadPhysicalRecord

LEMMA TypeStep ==
  ASSUME TypeInv, [Next]_vars
  PROVE  TypeInv'
<1>1. /\ Writer!TypeOK /\ Reader!TypeOK /\ damage \in 0..MaxDamage
      /\ aligned \in BOOLEAN /\ Offsets /\ Fresh
  BY DEF TypeInv, TypeOK
<1>2. ASSUME UNCHANGED readerVars
      PROVE  Reader!TypeOK' /\ Offsets' /\ Fresh'
  <2>1. Reader!TypeOK'
    BY <1>1, <1>2 DEF Reader!TypeOK, readerVars
  <2>2. Offsets' /\ Fresh'
    BY <1>1, <1>2 DEF Offsets, Taken, Fresh, Unread, readerVars,
                      Reader!PhysicalRecordOffset
  <2>. QED
    BY <2>1, <2>2
<1>3. CASE Write
  <2>1. Writer!TypeOK' /\ UNCHANGED readerVars /\ damage' = damage
    BY <1>1, <1>3, WriterTypeStep DEF Write
  <2>2. aligned' \in BOOLEAN
    BY <1>3 DEF Write
  <2>. QED
    BY <1>1, <1>2, <2>1, <2>2 DEF TypeInv, TypeOK
<1>4. CASE Damage
  <2>1. /\ damage' \in 0..MaxDamage
        /\ aligned' = aligned /\ UNCHANGED readerVars
    BY <1>1, <1>4, SystemAssumption DEF Damage
  <2>2. disk' \in Seq(Writer!Cell)
    <3>1. PICK i \in 1..Len(disk) : disk' = [disk EXCEPT ![i] = JunkCell]
      BY <1>4 DEF Damage
    <3>2. JunkCell \in Cell
      <4>1. << >> \in Seq(Byte)
        OBVIOUS
      <4>. QED
        BY <4>1 DEF JunkCell, NoPhysical, Cell, Physical, RecordType
    <3>. QED
      BY <1>1, <3>1, <3>2, ExceptSeq, SameFormat DEF Writer!TypeOK
  <2>3. Writer!TypeOK'
    BY <1>1, <1>4, <2>2 DEF Damage, writerVars, Writer!TypeOK
  <2>. QED
    BY <1>1, <1>2, <2>1, <2>3 DEF TypeInv, TypeOK
<1>5. CASE Read
  <2>1. Reader!TypeOK' /\ Offsets' /\ Fresh'
    BY <1>5, ReaderTypes DEF Read
  <2>2. /\ disk' = disk /\ UNCHANGED writerVars
        /\ damage' = damage /\ aligned' = aligned
    BY <1>5 DEF Read, Reader!Next, Reader!Open, Reader!ReadLogRecord,
       Reader!SkipFails, Reader!ReadPhysicalRecord, Reader!FillBuffer,
       Reader!FillFails, Reader!EndOfFile, Reader!BadRecordLength,
       Reader!ZeroLengthRecord, Reader!ChecksumMismatch,
       Reader!TakePhysicalRecord, Reader!ReturnType, Reader!DispatchRecord,
       Reader!SkipTail, Reader!FullRecord, Reader!FirstFragment,
       Reader!MiddleFragment, Reader!LastFragment, Reader!MissingStart,
       Reader!ScratchCrash, Reader!ReturnEof, Reader!BadRecord,
       Reader!Dispatch, Reader!fixedVars
  <2>3. Writer!TypeOK'
    BY <1>1, <2>2 DEF Writer!TypeOK, writerVars
  <2>. QED
    BY <1>1, <2>1, <2>2, <2>3 DEF TypeInv, TypeOK
<1>6. CASE UNCHANGED vars
  <2>1. UNCHANGED readerVars /\ UNCHANGED writerVars /\ disk' = disk
        /\ damage' = damage /\ aligned' = aligned
    BY <1>6 DEF vars
  <2>2. Writer!TypeOK'
    BY <1>1, <2>1 DEF Writer!TypeOK, writerVars
  <2>. QED
    BY <1>1, <1>2, <2>1, <2>2 DEF TypeInv, TypeOK
<1>. QED
  BY <1>3, <1>4, <1>5, <1>6 DEF Next

LEMMA InitTypes ==
  ASSUME Init
  PROVE  TypeInv
<1>1. Writer!TypeOK
  <2>1. Proved!Init
    BY DEF Init, Writer!Init, Proved!Init
  <2>2. Proved!TypeOK
    BY <2>1, FormatAssumption, SystemAssumption, Proved!InitType
  <2>. QED
    BY <2>2, SameType
<1>2. /\ << >> \in Seq(Reader!Cell) /\ << >> \in Seq(Byte)
      /\ << >> \in Seq(Seq(Byte)) /\ Len(<< >>) = 0
  OBVIOUS
<1>3. Reader!TypeOK /\ Offsets /\ Fresh
  <2>1. Reader!TypeOK
    BY <1>2 DEF Init, Reader!Init, Reader!TypeOK, Reader!ReaderType,
                Reader!ReaderPC
  <2>. QED
    BY <1>2, <2>1 DEF Init, Reader!Init, Offsets, Taken, Fresh, Unread
<1>. QED
  BY <1>1, <1>3, SystemAssumption DEF TypeInv, TypeOK, Init

(* The state of the whole has its type, wherever the writer stops,         *)
(* whatever happens to the file and wherever the reader starts: none of    *)
(* the offsets that logReader.c subtracts goes below 0.                    *)
THEOREM SystemTypeCorrect == Spec => []TypeOK
<1>1. Init => TypeInv
  BY InitTypes
<1>2. TypeInv /\ [Next]_vars => TypeInv'
  BY TypeStep
<1>3. TypeInv => TypeOK
  BY DEF TypeInv
<1>. QED
  BY <1>1, <1>2, <1>3, PTL DEF Spec

------------------------------------------------------------------------------
(***************************************************************************)
(* Subsequences.                                                           *)
(***************************************************************************)

(* f is the function that Subsequence(s, S) evaluates.                     *)
Collects(f, s, S) ==
  \A k \in 0..Len(s) :
    f[k] = IF k = 0 THEN << >>
           ELSE IF k \in S THEN Append(f[k - 1], s[k]) ELSE f[k - 1]

LEMMA SubsequenceDefined ==
  ASSUME NEW T, NEW s \in Seq(T), NEW S
  PROVE  \E f : Collects(f, s, S) /\ f[Len(s)] = Subsequence(s, S)
<1>. DEFINE upto[k \in 0..Len(s)] ==
              IF k = 0 THEN << >>
              ELSE IF k \in S THEN Append(upto[k - 1], s[k]) ELSE upto[k - 1]
            Step == [x \in Seq(T) \X (1..Len(s)) |->
                       IF x[2] \in S THEN Append(x[1], s[x[2]]) ELSE x[1]]
            Def(f) == f = [k \in 0..Len(s) |->
              IF k = 0 THEN << >>
              ELSE IF k \in S THEN Append(f[k - 1], s[k]) ELSE f[k - 1]]
<1>0. Len(s) \in Nat /\ \A k \in 1..Len(s) : s[k] \in T
  BY LenProperties
<1>1. Step \in [Seq(T) \X (1..Len(s)) -> Seq(T)]
  <2>1. \A q \in Seq(T), k \in 1..Len(s) : Append(q, s[k]) \in Seq(T)
    BY <1>0, AppendProperties
  <2>. QED
    BY <2>1
<1>2. << >> \in Seq(T)
  OBVIOUS
<1>3. PICK g : Defines(g, 0..Len(s), Seq(T), << >>, Step)
  <2>. HIDE DEF Step
  <2>. QED
    BY <1>0, <1>1, <1>2, Recursion
<1>4. ASSUME NEW k \in 1..Len(s)
      PROVE  g[k] = IF k \in S THEN Append(g[k - 1], s[k]) ELSE g[k - 1]
  <2>1. g[k] = Step[<<g[k - 1], k>>] /\ g[k - 1] \in Seq(T)
    <3>. HIDE DEF Step
    <3>1. k \in 0..Len(s) /\ k # 0 /\ k - 1 \in 0..Len(s)
      BY <1>0
    <3>2. g \in [0..Len(s) -> Seq(T)]
      BY <1>3 DEF Defines
    <3>. QED
      BY <1>3, <3>1, <3>2 DEF Defines
  <2>. QED
    BY <2>1
<1>5. Def(g)
  <2>1. g = [k \in 0..Len(s) |-> g[k]]
    BY <1>3 DEF Defines
  <2>2. \A k \in 0..Len(s) : g[k] =
          IF k = 0 THEN << >>
          ELSE IF k \in S THEN Append(g[k - 1], s[k]) ELSE g[k - 1]
    <3>1. g[0] = << >>
      BY <1>3 DEF Defines
    <3>. QED
      BY <1>0, <1>4, <3>1
  <2>. QED
    BY <2>1, <2>2, Zenon
<1>6. upto = CHOOSE f : Def(f)
  BY DEF upto
<1>7. Def(upto)
  <2>. HIDE DEF Def, upto
  <2>. QED
    BY <1>5, <1>6
<1>8. Collects(upto, s, S)
  <2>. HIDE DEF upto
  <2>. QED
    BY <1>7 DEF Collects
<1>9. upto[Len(s)] = Subsequence(s, S)
  BY DEF Subsequence
<1>. HIDE DEF upto
<1>. QED
  BY <1>8, <1>9

Agree(S, U, n) == \A k \in 1..n : k \in S <=> k \in U
NoneBehind(S, n) == \A k \in S : ~(k > n)

(* Two ways to collect the same agree.                                     *)
LEMMA CollectsSame ==
  ASSUME NEW T, NEW s \in Seq(T), NEW S, NEW U, NEW f, NEW g, NEW n \in 0..Len(s),
         Collects(f, s, S), Collects(g, s, U),
         Agree(S, U, n)
  PROVE  f[n] = g[n]
<1>. DEFINE Same == {k \in Nat : k <= n => f[k] = g[k]}
<1>0. Len(s) \in Nat
  BY LenProperties
<1>1. 0 \in Same
  BY <1>0 DEF Collects
<1>2. ASSUME NEW k \in Nat, k \in Same
      PROVE  k + 1 \in Same
  <2>. SUFFICES ASSUME k + 1 <= n
                PROVE  f[k + 1] = g[k + 1]
    OBVIOUS
  <2>1. f[k] = g[k]
    BY <1>0, <1>2
  <2>2. k + 1 \in 0..Len(s) /\ k + 1 # 0 /\ (k + 1) - 1 = k
    BY <1>0
  <2>3. k + 1 \in S <=> k + 1 \in U
    BY <1>0 DEF Agree
  <2>. QED
    BY <2>1, <2>2, <2>3 DEF Collects
<1>3. n \in Same
  <2>. HIDE DEF Same
  <2>. QED
    BY <1>1, <1>2, Induction
<1>. QED
  BY <1>3

(* Nothing is collected behind the last one.                               *)
LEMMA CollectsNoMore ==
  ASSUME NEW T, NEW s \in Seq(T), NEW S, NEW f, NEW n \in 0..Len(s),
         Collects(f, s, S), NoneBehind(S, n)
  PROVE  f[Len(s)] = f[n]
<1>. DEFINE Same == {k \in Nat : n + k <= Len(s) => f[n + k] = f[n]}
<1>0. Len(s) \in Nat
  BY LenProperties
<1>1. 0 \in Same
  BY <1>0
<1>2. ASSUME NEW k \in Nat, k \in Same
      PROVE  k + 1 \in Same
  <2>. SUFFICES ASSUME n + (k + 1) <= Len(s)
                PROVE  f[n + (k + 1)] = f[n]
    OBVIOUS
  <2>1. f[n + k] = f[n]
    BY <1>0, <1>2
  <2>. DEFINE m == n + (k + 1)
  <2>2. m \in 0..Len(s) /\ m # 0 /\ m - 1 = n + k /\ m > n
    BY <1>0
  <2>3. m \notin S
    BY <2>2 DEF NoneBehind
  <2>. QED
    <3>. HIDE DEF m
    <3>. QED
      BY <2>1, <2>2, <2>3 DEF Collects, m
<1>3. Len(s) - n \in Same
  <2>1. Len(s) - n \in Nat
    BY <1>0
  <2>. HIDE DEF Same
  <2>. QED
    BY <1>1, <1>2, <2>1, Induction
<1>. QED
  BY <1>0, <1>3

LEMMA SubsequenceOfNone ==
  ASSUME NEW T, NEW s \in Seq(T)
  PROVE  Subsequence(s, {}) = << >>
<1>1. PICK f : Collects(f, s, {}) /\ f[Len(s)] = Subsequence(s, {})
  BY SubsequenceDefined
<1>2. 0 \in 0..Len(s) /\ NoneBehind({}, 0)
  BY LenProperties DEF NoneBehind
<1>3. f[Len(s)] = f[0]
  BY <1>1, <1>2, CollectsNoMore
<1>4. f[0] = << >>
  BY <1>1, <1>2 DEF Collects
<1>. QED
  BY <1>1, <1>3, <1>4

(* One more element, behind the others.                                    *)
LEMMA SubsequenceGrows ==
  ASSUME NEW T, NEW s \in Seq(T), NEW S, NEW n \in 1..Len(s),
         \A k \in S : k < n, S \subseteq Int
  PROVE  Subsequence(s, S \cup {n}) = Append(Subsequence(s, S), s[n])
<1>. DEFINE U == S \cup {n}
<1>0. Len(s) \in Nat /\ n - 1 \in 0..Len(s) /\ n \in 0..Len(s) /\ n # 0
  BY LenProperties
<1>1. PICK f : Collects(f, s, S) /\ f[Len(s)] = Subsequence(s, S)
  BY SubsequenceDefined
<1>2. PICK g : Collects(g, s, U) /\ g[Len(s)] = Subsequence(s, U)
  BY SubsequenceDefined
<1>3. Agree(S, U, n - 1)
  BY <1>0 DEF Agree
<1>4. NoneBehind(U, n)
  BY <1>0 DEF NoneBehind
<1>5. NoneBehind(S, n - 1)
  BY <1>0 DEF NoneBehind
<1>6. n \in U
  OBVIOUS
<1>. HIDE DEF U
<1>7. f[n - 1] = g[n - 1]
  BY <1>0, <1>1, <1>2, <1>3, CollectsSame
<1>8. g[Len(s)] = g[n] /\ f[Len(s)] = f[n - 1]
  BY <1>0, <1>1, <1>2, <1>4, <1>5, CollectsNoMore
<1>9. g[n] = Append(g[n - 1], s[n])
  BY <1>0, <1>2, <1>6 DEF Collects
<1>. QED
  BY <1>1, <1>2, <1>7, <1>8, <1>9 DEF U

(* What lies behind the elements that are collected does not matter.       *)
LEMMA SubsequenceOfPrefix ==
  ASSUME NEW T, NEW t \in Seq(T), NEW x \in T, NEW U \in SUBSET (1..Len(t))
  PROVE  Subsequence(Append(t, x), U) = Subsequence(t, U)
<1>1. PICK s : s = Append(t, x)
  OBVIOUS
<1>2. /\ s \in Seq(T) /\ Len(t) \in Nat /\ Len(s) = Len(t) + 1
      /\ \A k \in 1..Len(t) : s[k] = t[k]
  BY <1>1, AppendProperties, LenProperties
<1>3. PICK f : Collects(f, t, U) /\ f[Len(t)] = Subsequence(t, U)
  BY SubsequenceDefined
<1>4. PICK g : Collects(g, s, U) /\ g[Len(s)] = Subsequence(s, U)
  BY <1>2, SubsequenceDefined
<1>5. Collects(g, t, U)
  <2>1. ASSUME NEW k \in 0..Len(t)
        PROVE  g[k] = IF k = 0 THEN << >>
                      ELSE IF k \in U THEN Append(g[k - 1], t[k]) ELSE g[k - 1]
    <3>1. k \in 0..Len(s) /\ (k = 0 \/ s[k] = t[k])
      BY <1>2
    <3>. QED
      BY <1>4, <3>1 DEF Collects
  <2>. QED
    BY <2>1 DEF Collects
<1>6. f[Len(t)] = g[Len(t)]
  <2>1. PICK n \in 0..Len(t) : n = Len(t)
    BY <1>2
  <2>2. Agree(U, U, n) /\ Collects(f, t, U)
    BY <1>3 DEF Agree
  <2>3. f[n] = g[n]
    BY <1>5, <2>2, CollectsSame
  <2>. QED
    BY <2>1, <2>3
<1>7. g[Len(s)] = g[Len(t)]
  <2>1. Len(t) \in 0..Len(s)
    BY <1>2
  <2>2. NoneBehind(U, Len(t))
    BY <1>2 DEF NoneBehind
  <2>. QED
    BY <1>2, <1>4, <2>1, <2>2, CollectsNoMore
<1>. QED
  BY <1>1, <1>3, <1>4, <1>6, <1>7

(* Who collects more has all that another one has.                         *)
LEMMA SubsequenceOfSubsequence ==
  ASSUME NEW T, NEW s \in Seq(T), NEW S, NEW U \in SUBSET S
  PROVE  IsSubsequence(Subsequence(s, U), Subsequence(s, S))
<1>1. Len(s) \in Nat /\ \A k \in 1..Len(s) : s[k] \in T
  BY LenProperties
<1>2. PICK f : Collects(f, s, S) /\ f[Len(s)] = Subsequence(s, S)
  BY SubsequenceDefined
<1>3. PICK g : Collects(g, s, U) /\ g[Len(s)] = Subsequence(s, U)
  BY SubsequenceDefined
<1>. DEFINE Part(n) ==
              /\ f[n] \in Seq(T)
              /\ \E W \in SUBSET (1..Len(f[n])) : g[n] = Subsequence(f[n], W)
            P == {n \in Nat : n <= Len(s) => Part(n)}
<1>4. 0 \in P
  <2>1. f[0] = << >> /\ g[0] = << >>
    <3>1. 0 \in 0..Len(s)
      BY <1>1
    <3>. QED
      BY <1>2, <1>3, <3>1 DEF Collects
  <2>2. << >> \in Seq(T) /\ {} \in SUBSET (1..Len(<< >>))
    OBVIOUS
  <2>3. Subsequence(<< >>, {}) = << >>
    BY <2>2, SubsequenceOfNone
  <2>. QED
    BY <2>1, <2>2, <2>3
<1>5. ASSUME NEW n \in Nat, n \in P
      PROVE  n + 1 \in P
  <2>1. SUFFICES ASSUME n + 1 <= Len(s) PROVE Part(n + 1)
    OBVIOUS
  <2>2. /\ n <= Len(s) /\ n + 1 \in 0..Len(s) /\ n + 1 # 0 /\ (n + 1) - 1 = n
        /\ n + 1 \in 1..Len(s)
    BY <1>1, <2>1
  <2>3. Part(n)
    BY <1>5, <2>2
  <2>4. PICK t \in Seq(T) : t = f[n]
    BY <2>3
  <2>5. PICK W \in SUBSET (1..Len(t)) : g[n] = Subsequence(t, W)
    BY <2>3, <2>4
  <2>6. PICK x \in T : x = s[n + 1]
    BY <1>1, <2>2
  <2>7. /\ f[n + 1] = IF n + 1 \in S THEN Append(t, x) ELSE t
        /\ g[n + 1] = IF n + 1 \in U THEN Append(g[n], x) ELSE g[n]
    BY <1>2, <1>3, <2>2, <2>4, <2>6 DEF Collects
  <2>8. PICK l : l = Len(t) + 1
    OBVIOUS
  <2>9. /\ Append(t, x) \in Seq(T) /\ Len(Append(t, x)) = l
        /\ Append(t, x)[l] = x /\ Len(t) \in Nat
    BY <2>8, AppendProperties, LenProperties
  <2>10. W \in SUBSET (1..l) /\ l \in 1..l
    BY <2>8, <2>9
  <2>11. Subsequence(Append(t, x), W) = g[n]
    BY <2>5, SubsequenceOfPrefix
  <2>12. CASE n + 1 \in U
    <3>1. Subsequence(Append(t, x), W \cup {l}) = Append(g[n], x)
      <4>1. \A k \in W : k < l
        BY <2>8, <2>9
      <4>2. W \subseteq Int
        OBVIOUS
      <4>3. PICK a \in Seq(T) : a = Append(t, x)
        BY <2>9
      <4>4. l \in 1..Len(a) /\ a[l] = x
        BY <2>9, <2>10, <4>3
      <4>5. Subsequence(a, W \cup {l}) = Append(Subsequence(a, W), a[l])
        BY <4>1, <4>2, <4>4, SubsequenceGrows
      <4>. QED
        BY <2>11, <4>3, <4>4, <4>5
    <3>2. f[n + 1] = Append(t, x) /\ g[n + 1] = Append(g[n], x)
      BY <2>7, <2>12
    <3>3. W \cup {l} \in SUBSET (1..Len(f[n + 1]))
      BY <2>9, <2>10, <3>2
    <3>. QED
      BY <2>9, <3>1, <3>2, <3>3
  <2>13. CASE n + 1 \in S /\ n + 1 \notin U
    <3>1. f[n + 1] = Append(t, x) /\ g[n + 1] = g[n]
      BY <2>7, <2>13
    <3>. QED
      BY <2>9, <2>10, <2>11, <3>1
  <2>14. CASE n + 1 \notin S
    <3>1. f[n + 1] = t /\ g[n + 1] = g[n]
      BY <2>7, <2>14
    <3>. QED
      BY <2>5, <3>1
  <2>. QED
    BY <2>12, <2>13, <2>14
<1>6. Part(Len(s))
  <2>. HIDE DEF Part
  <2>1. Nat \subseteq P
    <3>. HIDE DEF P
    <3>. QED
      BY <1>4, <1>5, Induction
  <2>. QED
    BY <1>1, <2>1
<1>7. DOMAIN f[Len(s)] = 1..Len(f[Len(s)])
  BY <1>6
<1>. QED
  BY <1>2, <1>3, <1>6, <1>7 DEF IsSubsequence

(* What is collected of two sets, one behind the other.                    *)
LEMMA SubsequenceJoins ==
  ASSUME NEW T, NEW s \in Seq(T), NEW S \in SUBSET Int, NEW U \in SUBSET Int,
         \A i \in S : \A j \in U : i < j
  PROVE  Subsequence(s, S \cup U) = Subsequence(s, S) \o Subsequence(s, U)
<1>. DEFINE B == S \cup U
<1>1. Len(s) \in Nat /\ \A k \in 1..Len(s) : s[k] \in T
  BY LenProperties
<1>2. PICK f : Collects(f, s, S) /\ f[Len(s)] = Subsequence(s, S)
  BY SubsequenceDefined
<1>3. PICK g : Collects(g, s, U) /\ g[Len(s)] = Subsequence(s, U)
  BY SubsequenceDefined
<1>4. PICK h : Collects(h, s, B) /\ h[Len(s)] = Subsequence(s, B)
  BY SubsequenceDefined
<1>. DEFINE Joins(n) ==
              /\ f[n] \in Seq(T) /\ g[n] \in Seq(T)
              /\ h[n] = f[n] \o g[n]
              /\ (\A j \in U : j > n) => g[n] = << >>
            P == {n \in Nat : n <= Len(s) => Joins(n)}
<1>5. 0 \in P
  <2>1. 0 \in 0..Len(s)
    BY <1>1
  <2>2. f[0] = << >> /\ g[0] = << >> /\ h[0] = << >>
    BY <1>2, <1>3, <1>4, <2>1 DEF Collects
  <2>3. << >> \in Seq(T) /\ << >> \o << >> = << >>
    OBVIOUS
  <2>. QED
    BY <2>2, <2>3
<1>6. ASSUME NEW n \in Nat, n \in P
      PROVE  n + 1 \in P
  <2>1. SUFFICES ASSUME n + 1 <= Len(s) PROVE Joins(n + 1)
    <3>. HIDE DEF Joins
    <3>. QED
      OBVIOUS
  <2>2. /\ n <= Len(s) /\ n + 1 \in 0..Len(s) /\ n + 1 # 0 /\ (n + 1) - 1 = n
        /\ n + 1 \in 1..Len(s)
    BY <1>1, <2>1
  <2>3. Joins(n)
    BY <1>6, <2>2
  <2>4. PICK a \in Seq(T) : a = f[n]
    BY <2>3
  <2>5. PICK b \in Seq(T) : b = g[n]
    BY <2>3
  <2>6. PICK x \in T : x = s[n + 1]
    BY <1>1, <2>2
  <2>7. /\ h[n] = a \o b
        /\ (\A j \in U : j > n) => b = << >>
    BY <2>3, <2>4, <2>5
  <2>8. f[n + 1] = IF n + 1 \in S THEN Append(a, x) ELSE a
    BY <1>2, <2>2, <2>4, <2>6 DEF Collects
  <2>9. g[n + 1] = IF n + 1 \in U THEN Append(b, x) ELSE b
    BY <1>3, <2>2, <2>5, <2>6 DEF Collects
  <2>10. h[n + 1] = IF n + 1 \in B THEN Append(a \o b, x) ELSE a \o b
    <3>. HIDE DEF B
    <3>. QED
      BY <1>4, <2>2, <2>6, <2>7 DEF Collects
  <2>11. Append(a, x) \in Seq(T) /\ Append(b, x) \in Seq(T)
    BY AppendProperties
  <2>12. CASE n + 1 \in S
    <3>1. \A j \in U : j > n + 1
      BY <2>12
    <3>2. \A j \in U : j > n
      BY <3>1
    <3>3. n + 1 \notin U
      BY <3>1
    <3>4. b = << >>
      BY <2>7, <3>2
    <3>5. a \o b = a /\ Append(a, x) \o b = Append(a, x)
      BY <2>11, <3>4
    <3>6. f[n + 1] = Append(a, x) /\ g[n + 1] = b /\ h[n + 1] = Append(a, x)
      BY <2>8, <2>9, <2>10, <2>12, <3>3, <3>5
    <3>. QED
      BY <2>11, <3>4, <3>5, <3>6
  <2>13. CASE n + 1 \in U
    <3>1. n + 1 \notin S
      BY <2>13
    <3>2. f[n + 1] = a /\ g[n + 1] = Append(b, x) /\ h[n + 1] = Append(a \o b, x)
      BY <2>8, <2>9, <2>10, <2>13, <3>1
    <3>3. Append(a \o b, x) = a \o Append(b, x)
      OBVIOUS
    <3>4. ~\A j \in U : j > n + 1
      BY <2>13
    <3>. QED
      BY <2>11, <3>2, <3>3, <3>4
  <2>14. CASE n + 1 \notin S /\ n + 1 \notin U
    <3>1. f[n + 1] = a /\ g[n + 1] = b /\ h[n + 1] = a \o b
      BY <2>8, <2>9, <2>10, <2>14
    <3>2. (\A j \in U : j > n + 1) => \A j \in U : j > n
      OBVIOUS
    <3>. QED
      BY <2>7, <3>1, <3>2
  <2>. QED
    BY <2>12, <2>13, <2>14
<1>7. Joins(Len(s))
  <2>. HIDE DEF Joins
  <2>1. Nat \subseteq P
    <3>. HIDE DEF P
    <3>. QED
      BY <1>5, <1>6, Induction
  <2>. QED
    BY <1>1, <2>1
<1>. HIDE DEF B
<1>. QED
  BY <1>2, <1>3, <1>4, <1>7 DEF B

(* The first m elements are collected as they are.                         *)
LEMMA SubsequenceOfSegment ==
  ASSUME NEW T, NEW s \in Seq(T), NEW m \in 0..Len(s)
  PROVE  Subsequence(s, 1..m) = SubSeq(s, 1, m)
<1>1. Len(s) \in Nat /\ \A k \in 1..Len(s) : s[k] \in T
  BY LenProperties
<1>2. PICK f : Collects(f, s, 1..m) /\ f[Len(s)] = Subsequence(s, 1..m)
  BY SubsequenceDefined
<1>. DEFINE P == {n \in Nat : n <= m => f[n] = SubSeq(s, 1, n)}
<1>3. 0 \in P
  <2>1. 0 \in 0..Len(s)
    BY <1>1
  <2>2. f[0] = << >>
    BY <1>2, <2>1 DEF Collects
  <2>3. SubSeq(s, 1, 0) = << >>
    OBVIOUS
  <2>. QED
    BY <2>2, <2>3
<1>4. ASSUME NEW n \in Nat, n \in P
      PROVE  n + 1 \in P
  <2>1. SUFFICES ASSUME n + 1 <= m PROVE f[n + 1] = SubSeq(s, 1, n + 1)
    OBVIOUS
  <2>2. /\ n <= m /\ n + 1 \in 0..Len(s) /\ n + 1 # 0 /\ (n + 1) - 1 = n
        /\ n + 1 \in 1..Len(s) /\ n + 1 \in 1..m
    BY <1>1, <2>1
  <2>3. f[n] = SubSeq(s, 1, n)
    BY <1>4, <2>2
  <2>4. f[n + 1] = Append(f[n], s[n + 1])
    BY <1>2, <2>2 DEF Collects
  <2>5. Append(SubSeq(s, 1, n), s[n + 1]) = SubSeq(s, 1, n + 1)
    BY <1>1, <2>2
  <2>. QED
    BY <2>3, <2>4, <2>5
<1>5. f[m] = SubSeq(s, 1, m)
  <2>1. m \in Nat
    BY <1>1
  <2>2. Nat \subseteq P
    <3>. HIDE DEF P
    <3>. QED
      BY <1>3, <1>4, Induction
  <2>. QED
    BY <2>1, <2>2
<1>6. NoneBehind(1..m, m)
  BY <1>1 DEF NoneBehind
<1>7. f[Len(s)] = f[m]
  BY <1>2, <1>6, CollectsNoMore
<1>. QED
  BY <1>2, <1>5, <1>7

------------------------------------------------------------------------------
(***************************************************************************)
(* Nothing is invented.  The file alone does not say where a record ends;  *)
(* the invariant speaks of the layout the writer meant it to have: for     *)
(* every byte, which byte of which fragment of which record it is.  What   *)
(* is in the file is where the layout has it, or is damage.  The reader    *)
(* stands at a place of the file; what it has collected is what the layout *)
(* has up to there of the record at that place, unless it can neither take *)
(* a physical record out of its buffer nor fill it.                        *)
(***************************************************************************)

(* The fragment is the first of its record, or the last.                   *)
Opens(p) == p.type \in {"full", "first"}
Closes(p) == p.type \in {"full", "last"}

Size(p) == HeaderSize + Len(p.data)

(* Where the data of an origin's fragment ends in its record.              *)
EndOf(g) == g.from + Len(g.phys.data)

(* The last byte of a fragment.                                            *)
IsEnd(g) == g.at = Size(g.phys)

Origin == [phys : Physical, at : Nat, rec : Nat, from : Nat]

(* An origin is a byte of a fragment of the record it names.               *)
FragmentOf(g) ==
  /\ g.at \in 1..Size(g.phys)
  /\ g.rec \in 1..Len(log)
  /\ EndOf(g) <= Len(log[g.rec])
  /\ g.phys.data = SubSeq(log[g.rec], g.from + 1, EndOf(g))
  /\ Opens(g.phys) => g.from = 0
  /\ Closes(g.phys) => EndOf(g) = Len(log[g.rec])

(* h is k bytes before g in the same fragment.                             *)
Before(h, g, k) ==
  h.phys = g.phys /\ h.rec = g.rec /\ h.from = g.from /\ h.at = g.at - k

(* A fragment that starts behind h goes on with h's record unless it opens *)
(* one.                                                                    *)
Follows(g, h) ==
  /\ IsEnd(h)
  /\ Opens(g.phys) \/ (g.rec = h.rec /\ g.from = EndOf(h))

Fragments(G) == \A i \in 1..Len(G) : FragmentOf(G[i])

Whole(G) ==
  \A i \in 1..Len(G) :
    /\ G[i].at <= i
    /\ \A k \in 0..(G[i].at - 1) : Before(G[i - k], G[i], k)

Chained(G) ==
  \A i \in 1..Len(G) : \A j \in 1..Len(G) :
    i = j + 1 /\ G[i].at = 1 => Follows(G[i], G[j])

Ordered(G) ==
  \A i \in 1..Len(G) : \A j \in 1..Len(G) :
    i < j => /\ G[i].rec <= G[j].rec
             /\ IsEnd(G[i]) /\ Closes(G[i].phys) => G[i].rec < G[j].rec

(* G says of every byte of the log, as the writer meant it, which one of   *)
(* which fragment it is, and where in which record its data start.         *)
Layout(G) ==
  G \in Seq(Origin) /\ Fragments(G) /\ Whole(G) /\ Chained(G) /\ Ordered(G)

(* What the log wrote to the file is where G has it.                       *)
OnDisk(G) ==
  \A i \in 1..Len(disk) :
    Written(disk[i]) =>
      i <= Len(G) /\ disk[i].phys = G[i].phys /\ disk[i].at = G[i].at

(* The writer is at the end of G, and of the record it is adding as much   *)
(* is left as the last fragment leaves.                                    *)
WriterAt(G) ==
  ~Writer!Stopped =>
    /\ Len(disk) = Len(G)
    /\ Len(G) > 0 => IsEnd(G[Len(G)])
    /\ wpc = "adding" =>
         /\ Len(log) > 0 /\ record = log[Len(log)]
         /\ begin => /\ left = Len(record)
                     /\ \A i \in 1..Len(G) : G[i].rec < Len(log)
         /\ ~begin => /\ left > 0 /\ Len(G) > 0
                      /\ G[Len(G)].rec = Len(log)
                      /\ EndOf(G[Len(G)]) = Len(record) - left
         /\ \A i \in 1..Len(G) :
              IsEnd(G[i]) /\ Closes(G[i].phys) => G[i].rec < Len(log)

(* How far the reader has come in the file.                                *)
Place == file_pos - Len(buffer)

(* The buffer is the piece of the file behind that place.                  *)
Contiguous ==
  \A k \in 1..Len(buffer) :
    Place + k \in 1..Len(disk) /\ buffer[k] = disk[Place + k]

(* The reader can take no physical record out of the buffer, nor fill it.  *)
Stuck == IF Len(buffer) < HeaderSize THEN eof ELSE buffer[1].at # 1

Holds(G) ==
  Taken =>
    /\ Contiguous
    /\ Place \in 1..Len(G)
    /\ IsEnd(G[Place])
    /\ G[Place].phys = [type |-> record_type, data |-> fragment]

(* What is collected of a record is what comes before the next fragment.   *)
Collected(G) ==
  in_fragmented_record =>
    /\ ~resyncing
    /\ rpc = "physical" =>
         \/ Stuck
         \/ /\ Contiguous
            /\ Place \in 1..Len(G)
            /\ IsEnd(G[Place])
            /\ scratch = SubSeq(log[G[Place].rec], 1, EndOf(G[Place]))
    /\ Taken /\ ~Opens(G[Place].phys) =>
         scratch = SubSeq(log[G[Place].rec], 1, G[Place].from)

(* The fragments that have not been looked at are of later records.        *)
Passed(G, S) ==
  \A k \in S : \A i \in 1..Len(G) :
    i > Place \/ (i = Place /\ Taken) => G[i].rec > k

DeliveredOf(G) ==
  \E S \in SUBSET (1..Len(log)) :
    delivered = Subsequence(log, S) /\ Passed(G, S)

ReaderAt(G) ==
  (Contiguous \/ Stuck) /\ Holds(G) /\ Collected(G) /\ DeliveredOf(G)

LogInv(G) == Layout(G) /\ OnDisk(G) /\ WriterAt(G) /\ ReaderAt(G)

(***************************************************************************)
(* The writer's side.                                                      *)
(***************************************************************************)

(* G and behind it a fragment of record r whose data start at from.        *)
Grown(G, p, r, from) ==
  [i \in 1..(Len(G) + Size(p)) |->
     IF i <= Len(G) THEN G[i]
     ELSE [phys |-> p, at |-> i - Len(G), rec |-> r, from |-> from]]

(* The fragment may come behind G.                                         *)
Fits(G, p, r, from) ==
  /\ FragmentOf([phys |-> p, at |-> 1, rec |-> r, from |-> from])
  /\ Len(G) > 0 => IsEnd(G[Len(G)])
  /\ ~Opens(p) =>
       Len(G) > 0 /\ G[Len(G)].rec = r /\ from = EndOf(G[Len(G)])
  /\ \A i \in 1..Len(G) : /\ G[i].rec <= r
                          /\ IsEnd(G[i]) /\ Closes(G[i].phys) => G[i].rec < r

Extends(H, G, p, r, from) ==
  /\ H \in Seq(Origin)
  /\ Len(G) \in Nat /\ Size(p) \in Nat \ {0} /\ Size(p) >= HeaderSize
  /\ Len(H) = Len(G) + Size(p)
  /\ \A i \in 1..Len(G) : H[i] = G[i]
  /\ \A k \in 1..Size(p) :
       H[Len(G) + k] = [phys |-> p, at |-> k, rec |-> r, from |-> from]

LEMMA GrownCells ==
  ASSUME NEW G \in Seq(Origin), NEW p \in Physical, NEW r \in Nat, NEW from \in Nat
  PROVE  Extends(Grown(G, p, r, from), G, p, r, from)
<1>. DEFINE H == Grown(G, p, r, from)
            o(k) == [phys |-> p, at |-> k, rec |-> r, from |-> from]
<1>1. /\ Len(G) \in Nat /\ Len(p.data) \in Nat
      /\ \A i \in 1..Len(G) : G[i] \in Origin
  BY LenProperties DEF Physical
<1>2. Size(p) \in Nat \ {0} /\ Size(p) >= HeaderSize
  BY <1>1, FormatAssumption DEF Size
<1>3. \A k \in Nat : o(k) \in Origin
  BY DEF Origin
<1>4. \A i \in 1..(Len(G) + Size(p)) :
        (IF i <= Len(G) THEN G[i] ELSE o(i - Len(G))) \in Origin
  <2>. HIDE DEF o
  <2>. QED
    BY <1>1, <1>2, <1>3
<1>5. H \in Seq(Origin) /\ Len(H) = Len(G) + Size(p)
  <2>. DEFINE e(i) == IF i <= Len(G) THEN G[i] ELSE o(i - Len(G))
              m == Len(G) + Size(p)
  <2>1. m \in Nat /\ \A i \in 1..m : e(i) \in Origin
    BY <1>1, <1>2, <1>4
  <2>2. H = [i \in 1..m |-> e(i)]
    BY DEF Grown
  <2>3. [i \in 1..m |-> e(i)] \in Seq(Origin) /\ Len([i \in 1..m |-> e(i)]) = m
    <3>. HIDE DEF e, m
    <3>. QED
      BY <2>1
  <2>. HIDE DEF e, H
  <2>. QED
    BY <2>2, <2>3
<1>6. \A i \in 1..Len(G) : H[i] = G[i]
  BY <1>1, <1>2 DEF Grown
<1>7. ASSUME NEW k \in 1..Size(p)
      PROVE  H[Len(G) + k] = o(k)
  <2>1. /\ Len(G) + k \in 1..(Len(G) + Size(p)) /\ ~(Len(G) + k <= Len(G))
        /\ (Len(G) + k) - Len(G) = k
    BY <1>1, <1>2
  <2>. QED
    BY <2>1 DEF Grown
<1>. HIDE DEF H
<1>8. Extends(H, G, p, r, from)
  BY <1>1, <1>2, <1>5, <1>6, <1>7 DEF Extends
<1>. QED
  BY <1>8 DEF H

LEMMA GrownLayout ==
  ASSUME log \in Seq(Seq(Byte)),
         NEW G, Layout(G), NEW p \in Physical, NEW r \in Nat, NEW from \in Nat,
         Fits(G, p, r, from)
  PROVE  Layout(Grown(G, p, r, from))
<1>. DEFINE H == Grown(G, p, r, from)
            n == Size(p)
            o(k) == [phys |-> p, at |-> k, rec |-> r, from |-> from]
<1>1. /\ H \in Seq(Origin)
      /\ Len(G) \in Nat /\ n \in Nat \ {0} /\ n >= HeaderSize
      /\ Len(H) = Len(G) + n
      /\ \A i \in 1..Len(G) : H[i] = G[i]
      /\ \A k \in 1..n : H[Len(G) + k] = o(k)
  <2>1. G \in Seq(Origin)
    BY DEF Layout
  <2>. QED
    <3>1. Extends(H, G, p, r, from)
      BY <2>1, GrownCells
    <3>. HIDE DEF H
    <3>. QED
      BY <3>1 DEF Extends
<1>2. \A i \in 1..Len(G) : G[i] \in Origin
  BY LenProperties DEF Layout
<1>. HIDE DEF H, n
<1>3. ASSUME NEW i \in 1..Len(H)
      PROVE  \/ i \in 1..Len(G) /\ H[i] = G[i]
             \/ /\ i - Len(G) \in 1..n
                /\ H[i] = o(i - Len(G))
  <2>1. CASE i <= Len(G)
    BY <1>1, <2>1
  <2>2. CASE ~(i <= Len(G))
    <3>. DEFINE k == i - Len(G)
    <3>1. k \in 1..n /\ Len(G) + k = i
      BY <1>1, <2>2
    <3>. HIDE DEF k
    <3>2. H[i] = o(k)
      BY <1>1, <3>1
    <3>. QED
      BY <3>1, <3>2 DEF k
  <2>. QED
    BY <2>1, <2>2
<1>4. \A k \in 1..n : FragmentOf(o(k))
  BY DEF Fits, FragmentOf, EndOf, n
<1>5. Fragments(H)
  <2>. SUFFICES ASSUME NEW i \in 1..Len(H)
                PROVE  FragmentOf(H[i])
    BY DEF Fragments
  <2>1. CASE i \in 1..Len(G) /\ H[i] = G[i]
    BY <2>1 DEF Layout, Fragments
  <2>2. CASE i - Len(G) \in 1..n /\ H[i] = o(i - Len(G))
    BY <1>4, <2>2
  <2>. QED
    BY <1>3, <2>1, <2>2
<1>6. Whole(H)
  <2>. SUFFICES ASSUME NEW i \in 1..Len(H)
                PROVE  /\ H[i].at <= i
                       /\ \A k \in 0..(H[i].at - 1) : Before(H[i - k], H[i], k)
    BY DEF Whole
  <2>1. CASE i \in 1..Len(G) /\ H[i] = G[i]
    <3>1. /\ G[i].at <= i /\ G[i].at \in Nat
          /\ \A k \in 0..(G[i].at - 1) : Before(G[i - k], G[i], k)
      BY <1>2, <2>1 DEF Layout, Whole, Origin
    <3>2. \A k \in 0..(G[i].at - 1) : i - k \in 1..Len(G)
      BY <1>1, <2>1, <3>1
    <3>. QED
      BY <1>1, <2>1, <3>1, <3>2
  <2>2. CASE i - Len(G) \in 1..n /\ H[i] = o(i - Len(G))
    <3>. DEFINE m == i - Len(G)
    <3>1. m \in 1..n /\ i = Len(G) + m /\ H[i] = o(m) /\ H[i].at = m
      BY <1>1, <2>2
    <3>. HIDE DEF m
    <3>2. ASSUME NEW k \in 0..(m - 1)
          PROVE  Before(H[i - k], H[i], k)
      <4>1. m - k \in 1..n /\ i - k = Len(G) + (m - k)
        BY <1>1, <3>1
      <4>2. H[Len(G) + (m - k)] = o(m - k)
        BY <1>1, <4>1
      <4>3. H[i - k] = o(m - k)
        BY <4>1, <4>2
      <4>. QED
        BY <3>1, <4>3 DEF Before
    <3>. QED
      BY <1>1, <3>1, <3>2
  <2>. QED
    BY <1>3, <2>1, <2>2
<1>7. Chained(H)
  <2>. SUFFICES ASSUME NEW i \in 1..Len(H), NEW j \in 1..Len(H),
                       i = j + 1, H[i].at = 1
                PROVE  Follows(H[i], H[j])
    BY DEF Chained
  <2>1. CASE i \in 1..Len(G) /\ H[i] = G[i]
    <3>1. j \in 1..Len(G) /\ H[j] = G[j]
      BY <1>1, <2>1
    <3>. QED
      BY <2>1, <3>1 DEF Layout, Chained
  <2>2. CASE i - Len(G) \in 1..n /\ H[i] = o(i - Len(G))
    <3>1. i - Len(G) = 1
      BY <2>2
    <3>2. j = Len(G) /\ Len(G) > 0
      BY <1>1, <3>1
    <3>4. H[j] = G[Len(G)]
      BY <1>1, <3>2
    <3>3. H[i].phys = p /\ H[i].rec = r /\ H[i].from = from
      BY <2>2
    <3>. QED
      BY <3>2, <3>3, <3>4 DEF Follows, Fits
  <2>. QED
    BY <1>3, <2>1, <2>2
<1>8. Ordered(H)
  <2>. SUFFICES ASSUME NEW i \in 1..Len(H), NEW j \in 1..Len(H), i < j
                PROVE  /\ H[i].rec <= H[j].rec
                       /\ IsEnd(H[i]) /\ Closes(H[i].phys) => H[i].rec < H[j].rec
    BY DEF Ordered
  <2>1. CASE j \in 1..Len(G) /\ H[j] = G[j]
    <3>1. i \in 1..Len(G) /\ H[i] = G[i]
      BY <1>1, <2>1
    <3>. QED
      BY <2>1, <3>1 DEF Layout, Ordered
  <2>2. CASE j - Len(G) \in 1..n /\ H[j] = o(j - Len(G))
    <3>1. H[j].rec = r
      BY <2>2
    <3>2. CASE i \in 1..Len(G) /\ H[i] = G[i]
      BY <3>1, <3>2 DEF Fits
    <3>3. CASE i - Len(G) \in 1..n /\ H[i] = o(i - Len(G))
      <4>1. H[i].rec = r /\ H[i].phys = p /\ H[i].at = i - Len(G)
        BY <3>3
      <4>2. H[i].at < n
        BY <1>1, <2>2, <4>1
      <4>. QED
        BY <3>1, <4>1, <4>2 DEF IsEnd, n
    <3>. QED
      BY <1>3, <3>2, <3>3
  <2>. QED
    BY <1>3, <2>1, <2>2
<1>. QED
  BY <1>1, <1>5, <1>6, <1>7, <1>8 DEF Layout, H

LEMMA FragmentFits ==
  ASSUME TypeInv, wpc = "adding", NEW G, Layout(G), WriterAt(G)
  PROVE  LET p == Writer!Fragment
             from == Len(record) - left
         IN  /\ p \in Physical /\ Len(p.data) = Writer!FragmentLength
             /\ from \in Nat /\ Len(log) \in Nat
             /\ Writer!FragmentLength \in 0..left /\ left \in Nat
             /\ Closes(p) <=> left = Writer!FragmentLength
             /\ Opens(p) <=> begin
             /\ Fits(G, p, Len(log), from)
<1>. DEFINE p == Writer!Fragment
            n == Writer!FragmentLength
            from == Len(record) - left
            r == Len(log)
<1>1. /\ Proved!TypeOK
      /\ record \in Seq(Byte) /\ Len(record) \in Nat
      /\ left \in Nat /\ left <= Len(record)
      /\ log \in Seq(Seq(Byte)) /\ Len(log) \in Nat
      /\ begin \in BOOLEAN
  BY SameType, LenProperties DEF TypeInv, TypeOK, Writer!TypeOK
<1>2. n \in 0..left
  BY <1>1, FormatAssumption, SystemAssumption, Proved!Geometry, SameFragment
<1>3. p \in Physical /\ Len(p.data) = n
  BY <1>1, FormatAssumption, SystemAssumption, Proved!FragmentProperties,
     SameFragment, SameFormat
<1>4. from \in Nat /\ from + n <= Len(record)
  BY <1>1, <1>2
<1>5. /\ p.data = SubSeq(record, from + 1, from + n)
      /\ p.type = Writer!FragmentType(begin, left = n)
  BY DEF Writer!Fragment
<1>6. /\ Len(log) > 0 /\ record = log[r]
      /\ begin => left = Len(record)
      /\ ~begin => /\ left > 0 /\ Len(G) > 0
                   /\ G[Len(G)].rec = r /\ EndOf(G[Len(G)]) = from
      /\ \A i \in 1..Len(G) :
           IsEnd(G[i]) /\ Closes(G[i].phys) => G[i].rec < r
      /\ Len(G) > 0 => IsEnd(G[Len(G)])
  BY DEF WriterAt, Writer!Stopped
<1>7. (Opens(p) <=> begin) /\ (Closes(p) <=> left = n)
  <2>. DEFINE c == left = n
  <2>0. c \in BOOLEAN
    OBVIOUS
  <2>1. p.type = IF begin THEN IF c THEN "full" ELSE "first"
                          ELSE IF c THEN "last" ELSE "middle"
    BY <1>5 DEF Writer!FragmentType
  <2>2. (Opens(p) <=> begin) /\ (Closes(p) <=> c)
    <3>. HIDE DEF c, p
    <3>. QED
      BY <2>0, <2>1, <1>1 DEF Opens, Closes
  <2>. QED
    BY <2>2
<1>8. Fits(G, p, r, from)
  <2>. DEFINE g == [phys |-> p, at |-> 1, rec |-> r, from |-> from]
  <2>1. FragmentOf(g)
    <3>1. /\ g.phys = p /\ g.at = 1 /\ g.rec = r /\ g.from = from
          /\ EndOf(g) = from + n
      BY <1>3 DEF EndOf
    <3>. HIDE DEF g, p, n, from, r
    <3>2. 1 \in 1..Size(p)
      BY <1>2, <1>3, FormatAssumption, <1>1 DEF Size
    <3>3. r \in 1..Len(log)
      BY <1>1, <1>6 DEF r
    <3>4. Opens(p) => from = 0
      BY <1>1, <1>6, <1>7 DEF from
    <3>5. Closes(p) => from + n = Len(record)
      BY <1>1, <1>7 DEF from
    <3>. QED
      BY <1>4, <1>5, <1>6, <3>1, <3>2, <3>3, <3>4, <3>5 DEF FragmentOf
  <2>2. ~Opens(p) =>
          Len(G) > 0 /\ G[Len(G)].rec = r /\ from = EndOf(G[Len(G)])
    BY <1>6, <1>7
  <2>3. \A i \in 1..Len(G) : G[i].rec <= r
    BY DEF Layout, Fragments, FragmentOf
  <2>. HIDE DEF p, n, from, r
  <2>. QED
    BY <1>6, <2>1, <2>2, <2>3 DEF Fits
<1>. QED
  BY <1>1, <1>2, <1>3, <1>4, <1>7, <1>8

(* A reader that has not been opened is at the start of any layout.        *)
LEMMA FreshReader ==
  ASSUME TypeInv', Unread', NEW G
  PROVE  ReaderAt(G)'
<1>1. /\ buffer' = << >> /\ ~in_fragmented_record' /\ delivered' = << >>
      /\ Len(buffer') = 0 /\ log' \in Seq(Seq(Byte)) /\ ~Taken'
  BY DEF TypeInv, Fresh, TypeOK, Writer!TypeOK, Taken, Unread
<1>2. Contiguous'
  BY <1>1 DEF Contiguous
<1>3. DeliveredOf(G)'
  <2>1. delivered' = Subsequence(log', {})
    BY <1>1, SubsequenceOfNone
  <2>2. Passed(G, {})'
    BY DEF Passed
  <2>3. {} \in SUBSET (1..Len(log'))
    OBVIOUS
  <2>. QED
    BY <2>1, <2>2, <2>3 DEF DeliveredOf
<1>. QED
  BY <1>1, <1>2, <1>3 DEF ReaderAt, Holds, Collected

(* An iteration of logAddRecord puts m bytes of fragment p behind the      *)
(* file, all of them if its calls succeed.                                 *)
Emits(G, p, r, from, m) ==
  /\ p \in Physical /\ r = Len(log) /\ r \in Nat /\ from \in Nat
  /\ Fits(G, p, r, from)
  /\ Opens(p) <=> begin
  /\ Closes(p) <=> left' = 0
  /\ ~begin' /\ left' \in Nat
  /\ EndOf([phys |-> p, at |-> 1, rec |-> r, from |-> from]) =
       Len(record) - left'
  /\ m \in 0..Size(p)
  /\ Len(disk') = Len(disk) + m
  /\ Writer!EmitPhysicalRecord => m = Size(p)
  /\ Writer!EmitFails => m < Size(p)
  /\ \A i \in 1..Len(disk) : disk'[i] = disk[i]
  /\ \A k \in 1..m : /\ disk'[Len(disk) + k].phys = p
                     /\ disk'[Len(disk) + k].at = k

LEMMA EmitAppends ==
  ASSUME TypeInv, NEW G, Layout(G), WriterAt(G),
         Writer!EmitPhysicalRecord \/ Writer!EmitFails
  PROVE  \E p, r, from, m : Emits(G, p, r, from, m)
<1>. DEFINE f == Writer!Fragment
            l == Writer!FragmentLength
            o == Len(record) - left
<1>0. wpc = "adding" /\ left' = left - l /\ begin' = FALSE
  BY DEF Writer!EmitPhysicalRecord, Writer!EmitFails, Writer!Advance
<1>1. PICK p, r, from, n : p = f /\ r = Len(log) /\ from = o /\ n = l
  OBVIOUS
<1>2. /\ p \in Physical /\ Len(p.data) = n
      /\ from \in Nat /\ r \in Nat
      /\ n \in 0..left /\ left \in Nat
      /\ (Closes(p) <=> left = n) /\ (Opens(p) <=> begin)
      /\ Fits(G, p, r, from)
  BY <1>0, <1>1, FragmentFits
<1>. HIDE DEF f, l, o
<1>4. Len(record) \in Nat
  BY LenProperties DEF TypeInv, TypeOK, Writer!TypeOK
<1>5. Size(p) = HeaderSize + n
  BY <1>2 DEF Size
<1>8. PICK m \in 0..(HeaderSize + n) :
        /\ Len(disk') = Len(disk) + m
        /\ Writer!EmitPhysicalRecord => m = HeaderSize + n
        /\ Writer!EmitFails => m < HeaderSize + n
        /\ \A i \in 1..Len(disk) : disk'[i] = disk[i]
        /\ \A k \in 1..m : disk'[Len(disk) + k].phys = p
                           /\ disk'[Len(disk) + k].at = k
  <2>1. Proved!TypeOK
    BY SameType DEF TypeInv, TypeOK
  <2>2. PICK m \in 0..(HeaderSize + n) :
          /\ disk' = disk \o SubSeq(Proved!Encode(Proved!Fragment), 1, m)
          /\ Writer!EmitPhysicalRecord => m = HeaderSize + n
          /\ Writer!EmitFails => m < HeaderSize + n
    <3>0. HeaderSize + n \in Nat /\ HeaderSize \in Nat /\ n \in Nat
      BY <1>2, FormatAssumption
    <3>1. CASE Writer!EmitPhysicalRecord
      <4>1. disk' = disk \o Proved!Encode(Proved!Fragment)
        BY <3>1, SameBytes, SameFragment DEF Writer!EmitPhysicalRecord
      <4>2. ~Writer!EmitFails
        BY <3>1 DEF Writer!EmitPhysicalRecord, Writer!EmitFails
      <4>3. Proved!Encode(Proved!Fragment) =
              SubSeq(Proved!Encode(Proved!Fragment), 1, HeaderSize + n)
        BY <2>1, <1>1, FormatAssumption, SystemAssumption,
           Proved!WholeEncode, SameFragment DEF l
      <4>4. HeaderSize + n \in 0..(HeaderSize + n)
        BY <3>0
      <4>. QED
        BY <4>1, <4>2, <4>3, <4>4
    <3>2. CASE Writer!EmitFails
      <4>0. /\ Writer!Encode(Writer!Fragment) = Proved!Encode(Proved!Fragment)
            /\ n = Writer!FragmentLength
        <5>1. n = Writer!FragmentLength
          BY <1>1 DEF l
        <5>2. Writer!Encode(Writer!Fragment) = Encode(Writer!Fragment)
          BY SameBytes
        <5>3. Proved!Encode(Proved!Fragment) = Encode(Proved!Fragment)
          BY SameBytes
        <5>. QED
          BY <5>1, <5>2, <5>3, SameFragment
      <4>1. PICK m \in 0..(HeaderSize + n - 1) :
              disk' = disk \o SubSeq(Proved!Encode(Proved!Fragment), 1, m)
        BY <3>2, <4>0 DEF Writer!EmitFails
      <4>2. m \in 0..(HeaderSize + n) /\ m < HeaderSize + n
        BY <3>0
      <4>3. ~Writer!EmitPhysicalRecord
        BY <3>2 DEF Writer!EmitPhysicalRecord, Writer!EmitFails
      <4>. QED
        BY <4>1, <4>2, <4>3
    <3>. QED
      BY <3>1, <3>2
  <2>3. m \in 0..(HeaderSize + Proved!FragmentLength)
    BY <1>1, <2>2, SameFragment DEF l
  <2>4. /\ Len(disk') = Len(disk) + m
        /\ \A i \in 1..Len(disk) : disk'[i] = disk[i]
        /\ \A k \in 1..m : /\ disk'[Len(disk) + k].phys = Proved!Fragment
                           /\ disk'[Len(disk) + k].at = k
    BY <2>1, <2>2, <2>3, FormatAssumption, SystemAssumption,
       Proved!AppendToDisk
  <2>. QED
    BY <1>1, <2>2, <2>4, SameFragment DEF f
<1>9. /\ left' = left - n /\ left' \in Nat
      /\ left' = 0 <=> left = n
      /\ from + n = Len(record) - left'
  <2>1. left' = left - n /\ from = Len(record) - left
    BY <1>0, <1>1 DEF l, o
  <2>. QED
    BY <1>2, <1>4, <2>1
<1>10. EndOf([phys |-> p, at |-> 1, rec |-> r, from |-> from]) = from + n
  BY <1>2 DEF EndOf
<1>. QED
  BY <1>0, <1>1, <1>2, <1>5, <1>8, <1>9, <1>10 DEF Emits

(* What it does to the file is laid out.                                   *)
LEMMA EmitKeepsLayout ==
  ASSUME TypeInv, NEW G, Layout(G), OnDisk(G), WriterAt(G),
         Writer!EmitPhysicalRecord \/ Writer!EmitFails,
         NEW p, NEW r, NEW from, NEW m, Emits(G, p, r, from, m)
  PROVE  LET H == Grown(G, p, r, from)
         IN  Layout(H)' /\ OnDisk(H)' /\ WriterAt(H)'
<1>0. wpc = "adding" /\ log' = log /\ record' = record
  BY DEF Writer!EmitPhysicalRecord, Writer!EmitFails
<1>2. /\ p \in Physical /\ from \in Nat /\ r \in Nat /\ r = Len(log)
      /\ Fits(G, p, r, from) /\ ~begin' /\ left' \in Nat
      /\ Closes(p) <=> left' = 0
      /\ EndOf([phys |-> p, at |-> 1, rec |-> r, from |-> from]) =
           Len(record) - left'
  BY DEF Emits
<1>3. PICK H : H = Grown(G, p, r, from)
  OBVIOUS
<1>4. log \in Seq(Seq(Byte))
  BY DEF TypeInv, TypeOK, Writer!TypeOK
<1>5. Layout(H)
  BY <1>2, <1>3, <1>4, GrownLayout
<1>6. Extends(H, G, p, r, from)
  <2>1. G \in Seq(Origin)
    BY DEF Layout
  <2>. QED
    BY <1>2, <1>3, <2>1, GrownCells
<1>7. Layout(H)'
  BY <1>0, <1>5 DEF Layout, Fragments, FragmentOf
<1>8. /\ m \in 0..Size(p)
      /\ Len(disk') = Len(disk) + m
      /\ Writer!EmitPhysicalRecord => m = Size(p)
      /\ \A i \in 1..Len(disk) : disk'[i] = disk[i]
      /\ \A k \in 1..m : disk'[Len(disk) + k].phys = p
                         /\ disk'[Len(disk) + k].at = k
  BY DEF Emits
<1>9. /\ Len(disk) \in Nat /\ Len(disk) = Len(G)
      /\ Size(p) \in Nat \ {0} /\ m \in Nat /\ m <= Size(p)
  BY <1>0, <1>6, <1>8, DiskType DEF TypeInv, WriterAt, Writer!Stopped, Extends
<1>10. OnDisk(H)'
  <2>. SUFFICES ASSUME NEW i \in 1..Len(disk'), Written(disk'[i])
                PROVE  /\ i <= Len(H) /\ disk'[i].phys = H[i].phys
                       /\ disk'[i].at = H[i].at
    BY DEF OnDisk
  <2>1. CASE i <= Len(disk)
    <3>1. i \in 1..Len(disk) /\ disk'[i] = disk[i]
      BY <1>8, <1>9, <2>1
    <3>2. i \in 1..Len(G) /\ disk[i].phys = G[i].phys /\ disk[i].at = G[i].at
      BY <1>9, <3>1 DEF OnDisk
    <3>. QED
      BY <1>6, <3>1, <3>2 DEF Extends
  <2>2. CASE ~(i <= Len(disk))
    <3>1. PICK k \in 1..m : i = Len(disk) + k
      <4>0. Len(disk') = Len(disk) + m /\ i \in 1..Len(disk')
        BY <1>8
      <4>1. i - Len(disk) \in 1..m /\ i = Len(disk) + (i - Len(disk))
        BY <1>9, <2>2, <4>0
      <4>. QED
        BY <4>1
    <3>2. k \in 1..Size(p) /\ i = Len(G) + k
      BY <1>9, <3>1
    <3>3. H[i] = [phys |-> p, at |-> k, rec |-> r, from |-> from]
      BY <1>6, <3>2 DEF Extends
    <3>4. disk'[i].phys = p /\ disk'[i].at = k
      BY <1>8, <3>1
    <3>. QED
      BY <1>6, <1>9, <3>2, <3>3, <3>4 DEF Extends
  <2>. QED
    BY <2>1, <2>2
<1>11. WriterAt(H)'
  <2>1. CASE Writer!EmitFails
    BY <2>1 DEF Writer!EmitFails, WriterAt, Writer!Stopped
  <2>2. CASE Writer!EmitPhysicalRecord
    <3>1. Len(disk') = Len(H)
      BY <1>6, <1>8, <1>9, <2>2 DEF Extends
    <3>2. Len(H) > 0
          /\ H[Len(H)] = [phys |-> p, at |-> Size(p), rec |-> r, from |-> from]
      <4>1. Size(p) \in 1..Size(p)
        BY <1>9
      <4>. QED
        BY <1>6, <4>1 DEF Extends
    <3>3. IsEnd(H[Len(H)])
      BY <3>2 DEF IsEnd
    <3>4. wpc' = "adding" =>
            /\ Len(log) > 0 /\ record = log[Len(log)]
            /\ left' > 0
            /\ H[Len(H)].rec = Len(log)
            /\ EndOf(H[Len(H)]) = Len(record) - left'
            /\ \A i \in 1..Len(H) :
                 IsEnd(H[i]) /\ Closes(H[i].phys) => H[i].rec < Len(log)
      <4>. SUFFICES ASSUME wpc' = "adding"
                    PROVE  /\ Len(log) > 0 /\ record = log[Len(log)]
                           /\ left' > 0
                           /\ H[Len(H)].rec = Len(log)
                           /\ EndOf(H[Len(H)]) = Len(record) - left'
                           /\ \A i \in 1..Len(H) :
                                IsEnd(H[i]) /\ Closes(H[i].phys) =>
                                  H[i].rec < Len(log)
        OBVIOUS
      <4>1. left' > 0
        BY <2>2 DEF Writer!EmitPhysicalRecord
      <4>2. ~Closes(p)
        BY <1>2, <4>1
      <4>3. EndOf(H[Len(H)]) = Len(record) - left'
        BY <1>2, <3>2 DEF EndOf
      <4>4. ASSUME NEW i \in 1..Len(H), IsEnd(H[i]), Closes(H[i].phys)
            PROVE  H[i].rec < Len(log)
        <5>1. CASE i <= Len(G)
          <6>1. i \in 1..Len(G) /\ H[i] = G[i]
            BY <1>6, <5>1 DEF Extends
          <6>. QED
            BY <1>2, <4>4, <6>1 DEF Fits
        <5>2. CASE ~(i <= Len(G))
          <6>1. PICK k \in 1..Size(p) : i = Len(G) + k
            <7>1. i - Len(G) \in 1..Size(p) /\ i = Len(G) + (i - Len(G))
              BY <1>6, <1>9, <5>2 DEF Extends
            <7>. QED
              BY <7>1
          <6>2. H[i].phys = p
            <7>1. H[Len(G) + k] =
                    [phys |-> p, at |-> k, rec |-> r, from |-> from]
              BY <1>6, <6>1 DEF Extends
            <7>. QED
              BY <6>1, <7>1
          <6>. QED
            BY <4>2, <4>4, <6>2
        <5>. QED
          BY <5>1, <5>2
      <4>5. Len(log) > 0 /\ record = log[Len(log)]
        BY <1>0 DEF WriterAt, Writer!Stopped
      <4>. QED
        BY <1>2, <3>2, <4>1, <4>3, <4>4, <4>5
    <3>. QED
      BY <1>0, <1>2, <3>1, <3>2, <3>3, <3>4 DEF WriterAt
  <2>. QED
    BY <2>1, <2>2
<1>. QED
  BY <1>3, <1>7, <1>10, <1>11

(* The other steps of the writer, and damage, keep the layout.             *)
LEMMA OthersKeepLayout ==
  ASSUME TypeInv, TypeInv', Write, NEW G, LogInv(G),
         ~(Writer!EmitPhysicalRecord \/ Writer!EmitFails)
  PROVE  LogInv(G)'
<1>1. Layout(G) /\ OnDisk(G) /\ WriterAt(G)
  BY DEF LogInv
<1>2. Writer!Next /\ Unread'
  BY DEF Write, Unread, readerVars
<1>3. \A H : ReaderAt(H)'
  BY <1>2, FreshReader
<1>4. SUFFICES Layout(G)' /\ OnDisk(G)' /\ WriterAt(G)'
  BY <1>3 DEF LogInv
<1>5. log \in Seq(Seq(Byte)) /\ Len(log) \in Nat
  BY LenProperties DEF TypeInv, TypeOK, Writer!TypeOK
<1>6. ASSUME NEW r \in Records, Writer!LogAddRecord(r)
      PROVE  Layout(G)' /\ OnDisk(G)' /\ WriterAt(G)'
  <2>1. /\ wpc = "idle" /\ wpc' = "adding" /\ disk' = disk /\ begin' = TRUE
        /\ log' = Append(log, r) /\ record' = r /\ left' = Len(r)
    BY <1>6 DEF Writer!LogAddRecord
  <2>2. r \in Seq(Byte)
    BY SystemAssumption
  <2>3. /\ Len(log') = Len(log) + 1 /\ log'[Len(log) + 1] = r
        /\ \A k \in 1..Len(log) : log'[k] = log[k]
    BY <1>5, <2>1, <2>2, AppendProperties
  <2>4. Layout(G)'
    <3>1. Fragments(G)'
      <4>1. \A i \in 1..Len(G) : FragmentOf(G[i])
        BY <1>1 DEF Layout, Fragments
      <4>2. ASSUME NEW g, FragmentOf(g)
            PROVE  FragmentOf(g)'
        <5>1. g.rec \in 1..Len(log)
          BY <4>2 DEF FragmentOf
        <5>2. g.rec \in 1..Len(log') /\ log'[g.rec] = log[g.rec]
          BY <1>5, <2>3, <5>1
        <5>. QED
          BY <4>2, <5>2 DEF FragmentOf
      <4>. QED
        BY <4>1, <4>2 DEF Fragments
    <3>. QED
      BY <1>1, <3>1 DEF Layout
  <2>5. \A i \in 1..Len(G) : G[i].rec < Len(log')
    BY <1>1, <1>5, <2>3 DEF Layout, Fragments, FragmentOf
  <2>6. Len(disk) = Len(G) /\ (Len(G) > 0 => IsEnd(G[Len(G)]))
    BY <1>1, <2>1 DEF WriterAt, Writer!Stopped
  <2>7. Len(log') > 0 /\ record' = log'[Len(log')]
    BY <1>5, <2>1, <2>3
  <2>8. WriterAt(G)'
    BY <2>1, <2>5, <2>6, <2>7 DEF WriterAt
  <2>. QED
    BY <1>1, <2>1, <2>4, <2>8 DEF OnDisk
<1>8. ASSUME log' = log PROVE Layout(G)'
  BY <1>1, <1>8 DEF Layout, Fragments, FragmentOf
<1>9. CASE Writer!TrailerCrash \/ Writer!Sync \/ Writer!Close
  <2>1. /\ disk' = disk /\ log' = log
        /\ wpc' \in {"crashed", "idle", "failed", "closed"}
        /\ wpc \in {"adding", "added", "idle"}
    BY <1>9 DEF Writer!TrailerCrash, Writer!Sync, Writer!Close
  <2>2. OnDisk(G)'
    BY <1>1, <2>1 DEF OnDisk
  <2>3. WriterAt(G)'
    BY <1>1, <2>1 DEF WriterAt, Writer!Stopped
  <2>. QED
    BY <1>8, <2>1, <2>2, <2>3
<1>10. CASE Writer!PowerLoss
  <2>1. PICK n \in synced..Len(disk) : \E z \in 0..(Len(disk) - n) :
          disk' = SubSeq(disk, 1, n) \o Writer!Zeros(z)
    BY <1>10 DEF Writer!PowerLoss
  <2>2. PICK z \in 0..(Len(disk) - n) :
          disk' = SubSeq(disk, 1, n) \o Zeros(z)
    BY <2>1, SameBytes
  <2>3. n \in 0..Len(disk) /\ z \in Nat /\ Len(disk) \in Nat
    BY DiskType DEF TypeInv, TypeOK, Writer!TypeOK
  <2>. DEFINE d == SubSeq(disk, 1, n)
              e == Zeros(z)
  <2>4. d \in Seq(Cell) /\ Len(d) = n /\ \A i \in 1..n : d[i] = disk[i]
    <3>1. \A i \in 1..n : disk[i] \in Cell
      BY <2>3, DiskType DEF TypeInv
    <3>2. /\ d \in Seq(Cell)
          /\ Len(d) = IF 1 <= n THEN n - 1 + 1 ELSE 0
          /\ \A i \in 1..(n - 1 + 1) : d[i] = disk[1 + i - 1]
      BY <2>3, <3>1, SubSeqProperties
    <3>. HIDE DEF d
    <3>3. Len(d) = n
      BY <2>3, <3>2
    <3>4. ASSUME NEW i \in 1..n PROVE d[i] = disk[i]
      <4>1. i \in 1..(n - 1 + 1) /\ 1 + i - 1 = i
        BY <2>3
      <4>2. d[i] = disk[1 + i - 1]
        BY <3>2, <4>1
      <4>. QED
        BY <4>1, <4>2
    <3>. QED
      BY <3>2, <3>3, <3>4
  <2>5. e \in Seq(Cell) /\ Len(e) = z /\ \A i \in 1..z : e[i] = ZeroCell
    BY <2>3, ZerosType
  <2>6. disk' = d \o e
    BY <2>2
  <2>. HIDE DEF d, e
  <2>7. /\ Len(d \o e) = n + z
        /\ \A i \in 1..(n + z) :
             (d \o e)[i] = IF i <= n THEN d[i] ELSE e[i - n]
    BY <2>4, <2>5, ConcatProperties
  <2>8. ASSUME NEW i \in 1..Len(disk'), Written(disk'[i])
        PROVE  i \in 1..Len(disk) /\ disk'[i] = disk[i]
    <3>1. CASE i <= n
      BY <2>3, <2>4, <2>6, <2>7, <3>1
    <3>2. CASE ~(i <= n)
      <4>1. i - n \in 1..z /\ disk'[i] = e[i - n]
        BY <2>3, <2>6, <2>7, <3>2
      <4>2. disk'[i] = ZeroCell
        BY <2>5, <4>1
      <4>. QED
        BY <2>8, <4>2 DEF Written, ZeroCell
    <3>. QED
      BY <3>1, <3>2
  <2>9. OnDisk(G)'
    BY <1>1, <2>8 DEF OnDisk
  <2>10. WriterAt(G)'
    BY <1>10 DEF Writer!PowerLoss, WriterAt, Writer!Stopped
  <2>11. log' = log
    BY <1>10 DEF Writer!PowerLoss
  <2>. QED
    BY <1>8, <2>9, <2>10, <2>11
<1>. QED
  BY <1>2, <1>6, <1>9, <1>10 DEF Writer!Next

LEMMA WriteKeepsLayout ==
  ASSUME TypeInv, TypeInv', Write, NEW G, LogInv(G)
  PROVE  \E H : LogInv(H)'
<1>1. CASE Writer!EmitPhysicalRecord \/ Writer!EmitFails
  <2>1. Layout(G) /\ OnDisk(G) /\ WriterAt(G)
    BY DEF LogInv
  <2>2. PICK p, r, from, m : Emits(G, p, r, from, m)
    BY <1>1, <2>1, EmitAppends
  <2>3. PICK H : H = Grown(G, p, r, from)
    OBVIOUS
  <2>4. Layout(H)' /\ OnDisk(H)' /\ WriterAt(H)'
    BY <1>1, <2>1, <2>2, <2>3, EmitKeepsLayout
  <2>5. ReaderAt(H)'
    BY FreshReader DEF Write, Unread, readerVars
  <2>. QED
    BY <2>4, <2>5 DEF LogInv
<1>. QED
  BY <1>1, OthersKeepLayout

LEMMA DamageKeepsLayout ==
  ASSUME TypeInv, TypeInv', Damage, NEW G, LogInv(G)
  PROVE  LogInv(G)'
<1>1. Layout(G) /\ OnDisk(G) /\ WriterAt(G)
  BY DEF LogInv
<1>2. Unread' /\ log' = log /\ wpc' = wpc /\ Writer!Stopped
  BY DEF Damage, Unread, readerVars, writerVars
<1>3. PICK i \in 1..Len(disk) : disk' = [disk EXCEPT ![i] = JunkCell]
  BY DEF Damage
<1>4. /\ Len(disk') = Len(disk)
      /\ \A k \in 1..Len(disk) :
           disk'[k] = IF k = i THEN JunkCell ELSE disk[k]
  BY <1>3, DiskType DEF TypeInv
<1>5. OnDisk(G)'
  BY <1>1, <1>4 DEF OnDisk, Written, JunkCell
<1>6. Layout(G)'
  BY <1>1, <1>2 DEF Layout, Fragments, FragmentOf
<1>7. WriterAt(G)'
  BY <1>2 DEF WriterAt, Writer!Stopped
<1>. QED
  BY <1>2, <1>5, <1>6, <1>7, FreshReader DEF LogInv

(***************************************************************************)
(* The reader's side.                                                      *)
(***************************************************************************)
LEMMA ReaderLeavesFile ==
  ASSUME Reader!Next
  PROVE  disk' = disk
BY DEF Reader!Next, Reader!Open, Reader!ReadLogRecord,
   Reader!SkipFails, Reader!ReadPhysicalRecord, Reader!FillBuffer,
   Reader!FillFails, Reader!EndOfFile, Reader!BadRecordLength,
   Reader!ZeroLengthRecord, Reader!ChecksumMismatch,
   Reader!TakePhysicalRecord, Reader!ReturnType, Reader!DispatchRecord,
   Reader!SkipTail, Reader!FullRecord, Reader!FirstFragment,
   Reader!MiddleFragment, Reader!LastFragment, Reader!MissingStart,
   Reader!ScratchCrash, Reader!ReturnEof, Reader!BadRecord,
   Reader!Dispatch, Reader!fixedVars

(* What the reader has passed stays passed when it moves on.               *)
LEMMA PlaceMoves ==
  ASSUME NEW G, DeliveredOf(G), log' = log, delivered' = delivered,
         ~Taken', ~Taken, Place \in Int, Place' \in Int, Place <= Place'
  PROVE  DeliveredOf(G)'
<1>1. PICK S \in SUBSET (1..Len(log)) :
             delivered = Subsequence(log, S) /\ Passed(G, S)
  BY DEF DeliveredOf
<1>2. Passed(G, S)'
  <2>1. ASSUME NEW k \in S, NEW i \in 1..Len(G), i > Place'
        PROVE  G[i].rec > k
    <3>1. i > Place
      BY <2>1
    <3>. QED
      BY <1>1, <3>1 DEF Passed
  <2>. QED
    BY <2>1 DEF Passed
<1>. QED
  BY <1>1, <1>2 DEF DeliveredOf

LEMMA PlaceType ==
  ASSUME TypeOK
  PROVE  Place \in Int /\ file_pos \in Nat /\ Len(buffer) \in Nat
         /\ Place = file_pos - Len(buffer)
BY BufferType DEF Place, TypeOK, Reader!TypeOK

(* An emptied buffer: the rest of it is passed over.                       *)
LEMMA EmptiedBuffer ==
  ASSUME TypeInv, TypeInv', NEW G, ReaderAt(G), log' = log, disk' = disk,
         \/ Reader!FillFails \/ Reader!EndOfFile \/ Reader!BadRecordLength
         \/ Reader!ZeroLengthRecord \/ Reader!ChecksumMismatch
  PROVE  ReaderAt(G)'
<1>1. /\ rpc = "physical" /\ rpc' \in {"dispatch", "crashed"}
      /\ record_type' \in {"eof", "bad"} /\ buffer' = << >>
      /\ UNCHANGED <<file_pos, resyncing, in_fragmented_record, delivered>>
  BY ReportGoesOn
     DEF Reader!FillFails, Reader!EndOfFile, Reader!BadRecordLength,
     Reader!ZeroLengthRecord, Reader!ChecksumMismatch, Reader!HasHeader,
     Reader!ReportThroughRecover, Reader!NoReport, Reader!ReturnType,
     Reader!fixedVars, Reader!localVars
<1>2. ~Taken /\ ~Taken'
  BY <1>1 DEF Taken
<1>3. Place \in Int /\ Place' \in Int /\ Place <= Place' /\ Len(buffer') = 0
  BY <1>1, PlaceType DEF TypeInv, Place
<1>4. DeliveredOf(G)'
  BY <1>1, <1>2, <1>3, PlaceMoves DEF ReaderAt
<1>5. Contiguous'
  BY <1>3 DEF Contiguous
<1>. QED
  BY <1>1, <1>2, <1>4, <1>5 DEF ReaderAt, Holds, Collected

(* The calls that do not take from the buffer.                             *)
LEMMA CallKeepsPlace ==
  ASSUME TypeInv, TypeInv', NEW G, ReaderAt(G), log' = log, disk' = disk,
         Reader!Open \/ Reader!ReadLogRecord \/ Reader!SkipFails
  PROVE  ReaderAt(G)'
<1>1. CASE Reader!Open \/ Reader!SkipFails
  <2>1. /\ rpc \in {"closed", "ready"}
        /\ rpc' \in {"ready", "end", "crashed"}
        /\ rpc = "closed" \/ resyncing' = resyncing
        /\ UNCHANGED <<file_pos, buffer, eof, in_fragmented_record, delivered>>
    BY <1>1 DEF Reader!Open, Reader!SkipFails, Reader!ReportThroughRecover,
       Reader!inputVars, Reader!localVars
  <2>2. ~Taken /\ ~Taken' /\ Place' = Place /\ (Contiguous' <=> Contiguous)
        /\ (Stuck' <=> Stuck)
    BY <2>1 DEF Taken, Place, Contiguous, Stuck
  <2>3. DeliveredOf(G)'
    BY <2>1, <2>2, PlaceType, PlaceMoves DEF ReaderAt, TypeInv
  <2>4. Collected(G)'
    BY <2>1, <2>2 DEF ReaderAt, Collected, TypeInv, Fresh, Unread
  <2>. QED
    BY <2>2, <2>3, <2>4 DEF ReaderAt, Holds
<1>2. CASE Reader!ReadLogRecord
  <2>1. /\ rpc = "ready" /\ rpc' = "physical" /\ ~in_fragmented_record'
        /\ UNCHANGED <<buffer, eof, delivered>>
        /\ \/ Reader!MustSkip /\ file_pos' = file_pos + Reader!InitialBlock
           \/ UNCHANGED file_pos
    BY <1>2 DEF Reader!ReadLogRecord, Reader!fixedVars
  <2>2. ~Taken /\ ~Taken'
    BY <2>1 DEF Taken
  <2>3. /\ Place \in Int /\ Place' \in Int /\ Place <= Place'
        /\ Contiguous \/ Stuck => (Contiguous \/ Stuck)'
    <3>1. CASE Reader!MustSkip /\ file_pos' = file_pos + Reader!InitialBlock
      <4>1. buffer = << >>
        BY <2>1, <3>1
           DEF TypeInv, Offsets, Reader!MustSkip, TypeOK, Reader!TypeOK
      <4>2. Reader!InitialBlock \in Nat
        BY InitialBlockType DEF TypeInv, TypeOK, Reader!TypeOK
      <4>3. Place \in Int /\ Place' \in Int /\ Place <= Place'
        BY <2>1, <3>1, <4>2, PlaceType DEF TypeInv, Place
      <4>4. Contiguous'
        BY <2>1, <4>1 DEF Contiguous
      <4>. QED
        BY <4>3, <4>4
    <3>2. CASE UNCHANGED file_pos
      BY <2>1, <3>2, PlaceType DEF TypeInv, Place, Contiguous, Stuck
    <3>. QED
      BY <2>1, <3>1, <3>2
  <2>4. DeliveredOf(G)'
    BY <2>1, <2>2, <2>3, PlaceMoves DEF ReaderAt
  <2>. QED
    BY <2>1, <2>2, <2>3, <2>4 DEF ReaderAt, Holds, Collected
<1>. QED
  BY <1>1, <1>2

(* A buffer too short for a header, read behind: what was left in it       *)
(* began a fragment, so that the next block begins inside of one, or       *)
(* behind zeros.                                                           *)
LEMMA FillKeepsPlace ==
  ASSUME TypeInv, TypeInv', NEW G, LogInv(G), log' = log, disk' = disk,
         Reader!FillBuffer
  PROVE  ReaderAt(G)'
<1>1. /\ rpc = "physical" /\ rpc' = "physical"
      /\ Len(buffer) < HeaderSize /\ ~eof
      /\ eof' = (Len(buffer') < BlockSize)
      /\ UNCHANGED <<resyncing, in_fragmented_record, scratch, delivered>>
  BY DEF Reader!FillBuffer, Reader!fixedVars, Reader!localVars
<1>2. PICK pad \in {0, Len(buffer)} :
        /\ Len(buffer') \in Nat
        /\ file_pos' = file_pos + Len(buffer') - pad
        /\ \A k \in 1..Len(buffer') :
             /\ k <= pad => buffer'[k] = ZeroCell
             /\ k > pad => /\ file_pos + k - pad \in 1..Len(disk)
                           /\ buffer'[k] = disk[file_pos + k - pad]
  BY Filled DEF TypeInv
<1>3. /\ file_pos \in Nat /\ Len(buffer) \in Nat /\ Len(disk) \in Nat
      /\ HeaderSize \in Nat \ {0} /\ HeaderSize < BlockSize /\ BlockSize \in Nat
      /\ Place = file_pos - Len(buffer)
      /\ Place' = file_pos - pad
  BY <1>2, PlaceType, DiskType, FormatAssumption DEF TypeInv, Place
<1>4. ~Taken /\ ~Taken'
  BY <1>1 DEF Taken
<1>5. DeliveredOf(G)'
  <2>1. DeliveredOf(G) /\ delivered' = delivered
    BY <1>1 DEF LogInv, ReaderAt
  <2>2. pad \in 0..Len(buffer)
    BY <1>2, <1>3
  <2>3. Place \in Int /\ Place' \in Int /\ Place <= Place'
    <3>1. Place \in Int
      BY <1>3, PlaceType DEF TypeInv
    <3>2. Place' = file_pos - pad
      BY <1>3
    <3>3. file_pos - pad \in Int /\ file_pos - Len(buffer) <= file_pos - pad
      BY <1>3, <2>2
    <3>. QED
      BY <1>3, <3>1, <3>2, <3>3
  <2>. QED
    BY <1>4, <2>1, <2>3, PlaceMoves
<1>6. Len(buffer') < HeaderSize => Stuck'
  <2>1. Len(buffer') < HeaderSize => Len(buffer') < BlockSize
    BY <1>2, <1>3
  <2>. QED
    BY <1>1, <2>1, Zenon DEF Stuck
<1>7. CASE pad = Len(buffer) /\ pad > 0
  <2>1. Len(buffer') >= HeaderSize => Stuck'
    <3>. SUFFICES ASSUME Len(buffer') >= HeaderSize PROVE Stuck'
      OBVIOUS
    <3>1. 1 \in 1..Len(buffer') /\ 1 <= pad
      BY <1>2, <1>3, <1>7
    <3>2. buffer'[1] = ZeroCell
      BY <1>2, <3>1
    <3>. QED
      BY <1>2, <1>3, <3>2 DEF Stuck, ZeroCell
  <2>2. Stuck'
    BY <1>2, <1>3, <1>6, <2>1
  <2>3. Collected(G)'
    BY <1>1, <1>4, <2>2 DEF LogInv, ReaderAt, Collected
  <2>. QED
    BY <1>4, <1>5, <2>2, <2>3 DEF ReaderAt, Holds
<1>8. CASE pad = 0
  <2>1. Place' = file_pos
    BY <1>3, <1>8
  <2>2. \A k \in 1..Len(buffer') :
          file_pos + k \in 1..Len(disk) /\ buffer'[k] = disk[file_pos + k]
    <3>1. ASSUME NEW k \in 1..Len(buffer')
          PROVE  file_pos + k \in 1..Len(disk) /\ buffer'[k] = disk[file_pos + k]
      <4>1. k > pad /\ file_pos + k - pad = file_pos + k
        BY <1>2, <1>3, <1>8
      <4>. QED
        BY <1>2, <4>1
    <3>. QED
      BY <3>1
  <2>3. Contiguous'
    BY <2>1, <2>2 DEF Contiguous
  <2>4. ASSUME in_fragmented_record
        PROVE  \/ Stuck'
               \/ /\ Place' \in 1..Len(G)
                  /\ IsEnd(G[Place'])
                  /\ scratch' = SubSeq(log[G[Place'].rec], 1, EndOf(G[Place']))
    <3>1. /\ Contiguous
          /\ Place \in 1..Len(G)
          /\ IsEnd(G[Place])
          /\ scratch = SubSeq(log[G[Place].rec], 1, EndOf(G[Place]))
      BY <1>1, <2>4 DEF LogInv, ReaderAt, Collected, Stuck
    <3>2. CASE Len(buffer) = 0
      BY <1>1, <1>3, <2>1, <3>1, <3>2
    <3>3. CASE Len(buffer) > 0 /\ Len(buffer') >= HeaderSize
      <4>. SUFFICES ASSUME buffer'[1].at = 1 PROVE FALSE
        BY <1>2, <1>3, <3>3 DEF Stuck
      <4>1. /\ file_pos + 1 \in 1..Len(disk)
            /\ buffer'[1] = disk[file_pos + 1]
        <5>1. 1 \in 1..Len(buffer')
          BY <1>2, <1>3, <3>3
        <5>. QED
          BY <2>2, <5>1
      <4>. DEFINE i == file_pos + 1
      <4>2. i <= Len(G) /\ G[i].at = 1
        BY <4>1 DEF LogInv, OnDisk, Written
      <4>3. Len(G) \in Nat /\ \A j \in 1..Len(G) : G[j] \in Origin
        BY LenProperties DEF LogInv, Layout
      <4>4. file_pos \in 1..Len(G) /\ i \in 1..Len(G)
        BY <1>3, <3>1, <3>3, <4>2, <4>3
      <4>5. IsEnd(G[file_pos])
        BY <4>2, <4>4 DEF LogInv, Layout, Chained, Follows
      <4>6. /\ G[file_pos].phys \in Physical
            /\ Len(G[file_pos].phys.data) \in Nat
        BY <4>3, <4>4, LenProperties DEF Origin, Physical
      <4>7. G[file_pos].at = HeaderSize + Len(G[file_pos].phys.data)
        BY <4>5 DEF IsEnd, Size
      <4>8. Len(buffer) \in 0..(G[file_pos].at - 1)
        BY <1>1, <1>3, <4>6, <4>7
      <4>9. Before(G[file_pos - Len(buffer)], G[file_pos], Len(buffer))
        BY <4>4, <4>8 DEF LogInv, Layout, Whole
      <4>10. Before(G[Place], G[file_pos], Len(buffer))
        BY <1>3, <4>9
      <4>11. /\ G[Place].at = G[file_pos].at - Len(buffer)
             /\ G[Place].at = G[file_pos].at
        BY <3>1, <4>7, <4>10 DEF Before, IsEnd, Size
      <4>. QED
        BY <1>3, <3>3, <4>6, <4>7, <4>11
    <3>. QED
      BY <1>2, <1>3, <1>6, <3>2, <3>3
  <2>5. Collected(G)'
    BY <1>1, <1>4, <2>3, <2>4 DEF LogInv, ReaderAt, Collected
  <2>. QED
    BY <1>4, <1>5, <2>3, <2>5 DEF ReaderAt, Holds
<1>. QED
  BY <1>2, <1>3, <1>7, <1>8

(* A physical record taken out of the buffer is the one that the writer    *)
(* put at that place of the file, whole: n bytes.                          *)
Takes(G, p, n) ==
  /\ p \in Physical /\ n \in Nat /\ n = Size(p) /\ n >= 1 /\ n >= HeaderSize
  /\ Contiguous /\ Place \in Int /\ Place' = Place + n /\ Place' <= Len(disk)
  /\ n <= Len(buffer) /\ buffer[1] = [phys |-> p, at |-> 1]
  /\ Len(buffer') = Len(buffer) - n /\ Len(buffer) \in Nat
  /\ \A k \in 1..Len(buffer') : buffer'[k] = buffer[n + k]
  /\ Place' \in 1..Len(G)
  /\ G[Place'].phys = p /\ G[Place'].at = n /\ IsEnd(G[Place'])
  /\ Place + 1 \in 1..Len(G) /\ G[Place + 1].at = 1
  /\ G[Place + 1].phys = p
  /\ G[Place + 1].rec = G[Place'].rec
  /\ G[Place + 1].from = G[Place'].from

LEMMA TakesFragment ==
  ASSUME TypeInv, NEW G, LogInv(G), Reader!TakePhysicalRecord
  PROVE  Takes(G, Reader!FrontRecord, Reader!PhysicalLength)
<1>. DEFINE p == Reader!FrontRecord
            n == Reader!PhysicalLength
<1>1. Len(buffer) >= HeaderSize /\ UNCHANGED file_pos
  BY DEF Reader!TakePhysicalRecord, Reader!HasHeader
<1>2. /\ p \in Physical /\ Len(p.data) \in Nat
      /\ n = HeaderSize + Len(p.data) /\ n \in 1..Len(buffer)
      /\ \A k \in 1..n : buffer[k] = [phys |-> p, at |-> k]
      /\ Len(buffer') = Len(buffer) - n
      /\ \A k \in 1..Len(buffer') : buffer'[k] = buffer[n + k]
  BY TookRecord DEF TypeInv
<1>. HIDE DEF p, n
<1>3. /\ Place \in Int /\ file_pos \in Nat /\ Len(buffer) \in Nat
      /\ Len(disk) \in Nat /\ HeaderSize \in Nat \ {0}
      /\ Place' = Place + n
  <2>1. /\ Place \in Int /\ file_pos \in Nat /\ Len(buffer) \in Nat
        /\ Len(disk) \in Nat /\ HeaderSize \in Nat \ {0}
        /\ Place = file_pos - Len(buffer)
    BY PlaceType, DiskType, FormatAssumption DEF TypeInv
  <2>2. Place' = file_pos - Len(buffer')
    BY <1>1 DEF Place
  <2>. QED
    BY <1>2, <2>1, <2>2
<1>4. n \in Nat /\ n >= 1
  BY <1>2, <1>3
<1>5. Contiguous
  <2>1. 1 \in 1..n /\ buffer[1] = [phys |-> p, at |-> 1]
    BY <1>2, <1>4
  <2>2. ~(Len(buffer) < HeaderSize)
    BY <1>1, <1>3
  <2>. QED
    BY <2>1, <2>2 DEF LogInv, ReaderAt, Stuck
<1>6. Len(G) \in Nat /\ \A j \in 1..Len(G) : G[j] \in Origin
  BY LenProperties DEF LogInv, Layout
<1>7. \A k \in 1..n : /\ Place + k \in 1..Len(G)
                      /\ G[Place + k].phys = p /\ G[Place + k].at = k
  <2>1. ASSUME NEW k \in 1..n
        PROVE  /\ Place + k \in 1..Len(G)
               /\ G[Place + k].phys = p /\ G[Place + k].at = k
    <3>1. k \in 1..Len(buffer) /\ k > 0
      BY <1>2, <1>3
    <3>2. Place + k \in 1..Len(disk) /\ buffer[k] = disk[Place + k]
      BY <1>5, <3>1 DEF Contiguous
    <3>3. disk[Place + k].phys = p /\ disk[Place + k].at = k
      <4>1. buffer[k] = [phys |-> p, at |-> k]
        BY <1>2
      <4>. QED
        BY <3>2, <4>1
    <3>4. /\ Place + k <= Len(G)
          /\ G[Place + k].phys = p /\ G[Place + k].at = k
      BY <3>1, <3>2, <3>3 DEF LogInv, OnDisk, Written
    <3>. QED
      BY <1>3, <1>6, <3>2, <3>4
  <2>. QED
    BY <2>1
<1>8. /\ Place' \in 1..Len(G)
      /\ G[Place'].phys = p /\ G[Place'].at = n /\ IsEnd(G[Place'])
  <2>1. n \in 1..n
    BY <1>4
  <2>. QED
    BY <1>2, <1>3, <1>7, <2>1 DEF IsEnd, Size
<1>9. /\ Place + 1 \in 1..Len(G) /\ G[Place + 1].at = 1
      /\ G[Place + 1].phys = p
      /\ G[Place + 1].rec = G[Place'].rec
      /\ G[Place + 1].from = G[Place'].from
  <2>1. 1 \in 1..n /\ n - 1 \in 0..(G[Place'].at - 1)
    BY <1>4, <1>8
  <2>2. Before(G[Place' - (n - 1)], G[Place'], n - 1)
    BY <1>8, <2>1 DEF LogInv, Layout, Whole
  <2>3. Place' - (n - 1) = Place + 1
    BY <1>3, <1>4
  <2>4. Before(G[Place + 1], G[Place'], n - 1)
    BY <2>2, <2>3
  <2>. QED
    BY <1>7, <2>1, <2>4 DEF Before
<1>10. n = Size(p) /\ n >= HeaderSize
  BY <1>2, <1>3 DEF Size
<1>11. Place' <= Len(disk) /\ buffer[1] = [phys |-> p, at |-> 1]
  <2>1. n \in 1..Len(buffer) /\ 1 \in 1..n
    BY <1>2, <1>4
  <2>2. Place + n \in 1..Len(disk)
    BY <1>5, <2>1 DEF Contiguous
  <2>. QED
    BY <1>2, <1>3, <2>1, <2>2
<1>12. n <= Len(buffer)
  BY <1>2, <1>3
<1>13. Takes(G, p, n)
  BY <1>2, <1>3, <1>4, <1>5, <1>8, <1>9, <1>10, <1>11, <1>12 DEF Takes
<1>. QED
  BY <1>13 DEF p, n

(* What is left of the buffer stays where it is in the file.               *)
LEMMA RestIsContiguous ==
  ASSUME NEW G, NEW p, NEW n, Takes(G, p, n), disk' = disk
  PROVE  Contiguous'
<1>1. /\ n \in Nat /\ n <= Len(buffer) /\ Len(buffer) \in Nat
      /\ Contiguous /\ Place \in Int /\ Place' = Place + n
      /\ Len(buffer') = Len(buffer) - n
      /\ \A k \in 1..Len(buffer') : buffer'[k] = buffer[n + k]
  BY DEF Takes
<1>2. ASSUME NEW k \in 1..Len(buffer')
      PROVE  Place' + k \in 1..Len(disk) /\ buffer'[k] = disk[Place' + k]
  <2>1. n + k \in 1..Len(buffer)
    BY <1>1
  <2>2. Place + (n + k) \in 1..Len(disk) /\ buffer[n + k] = disk[Place + (n + k)]
    BY <1>1, <2>1 DEF Contiguous
  <2>3. Place + (n + k) = Place' + k
    BY <1>1
  <2>. QED
    BY <1>1, <2>2, <2>3
<1>. QED
  BY <1>2 DEF Contiguous

(* It goes on with what was collected if it does not open a record.        *)
LEMMA TakeKeepsPlace ==
  ASSUME TypeInv, TypeInv', NEW G, LogInv(G), log' = log, disk' = disk,
         Reader!TakePhysicalRecord
  PROVE  ReaderAt(G)'
<1>. DEFINE p == Reader!FrontRecord
            n == Reader!PhysicalLength
<1>1. /\ rpc = "physical" /\ rpc' = "dispatch" /\ Len(buffer) >= HeaderSize
      /\ UNCHANGED <<file_pos, eof, resyncing, in_fragmented_record, scratch,
                     delivered>>
      /\ \/ record_type' = "bad"
         \/ record_type' = p.type /\ fragment' = p.data
  BY DEF Reader!TakePhysicalRecord, Reader!HasHeader, Reader!NoReport,
     Reader!ReturnType, Reader!fixedVars, Reader!localVars
<1>2. Takes(G, p, n)
  BY TakesFragment
<1>. HIDE DEF p, n
<1>3. /\ p \in Physical /\ n \in Nat /\ n >= 1 /\ n <= Len(buffer)
      /\ Contiguous /\ Place \in Int /\ Place' = Place + n
      /\ buffer[1] = [phys |-> p, at |-> 1]
      /\ Len(buffer') = Len(buffer) - n /\ Len(buffer) \in Nat
      /\ \A k \in 1..Len(buffer') : buffer'[k] = buffer[n + k]
  BY <1>2 DEF Takes
<1>8. /\ Place' \in 1..Len(G)
      /\ G[Place'].phys = p /\ G[Place'].at = n /\ IsEnd(G[Place'])
  BY <1>2 DEF Takes
<1>9. /\ Place + 1 \in 1..Len(G) /\ G[Place + 1].at = 1
      /\ G[Place + 1].phys = p
      /\ G[Place + 1].rec = G[Place'].rec
      /\ G[Place + 1].from = G[Place'].from
  BY <1>2 DEF Takes
<1>10. Contiguous'
  BY <1>2, RestIsContiguous
<1>11. Holds(G)'
  <2>1. Taken' => p = [type |-> record_type', data |-> fragment']
    BY <1>1, <1>3 DEF Taken, Physical
  <2>. QED
    BY <1>8, <1>10, <2>1 DEF Holds
<1>12. Collected(G)'
  <2>1. CASE in_fragmented_record
    <3>1. /\ ~resyncing /\ Place \in 1..Len(G)
          /\ scratch = SubSeq(log[G[Place].rec], 1, EndOf(G[Place]))
      <4>1. ~Stuck
        <5>1. ~(Len(buffer) < HeaderSize)
          BY <1>1, <1>3, FormatAssumption
        <5>. QED
          BY <1>3, <5>1 DEF Stuck
      <4>. QED
        BY <1>1, <2>1, <4>1 DEF LogInv, ReaderAt, Collected
    <3>2. Follows(G[Place + 1], G[Place])
      BY <1>9, <3>1 DEF LogInv, Layout, Chained
    <3>3. ~Opens(p) => scratch = SubSeq(log[G[Place'].rec], 1, G[Place'].from)
      BY <1>9, <3>1, <3>2 DEF Follows
    <3>. QED
      BY <1>1, <1>8, <3>1, <3>3 DEF Collected
  <2>2. CASE ~in_fragmented_record
    BY <1>1, <2>2 DEF Collected
  <2>. QED
    BY <2>1, <2>2
<1>13. DeliveredOf(G)'
  <2>1. PICK S \in SUBSET (1..Len(log)) :
               delivered = Subsequence(log, S) /\ Passed(G, S)
    BY DEF LogInv, ReaderAt, DeliveredOf
  <2>2. Passed(G, S)'
    <3>1. ASSUME NEW k \in S, NEW i \in 1..Len(G), i > Place' \/ i = Place'
          PROVE  G[i].rec > k
      <4>1. i > Place
        BY <1>3, <3>1
      <4>. QED
        BY <2>1, <4>1 DEF Passed
    <3>. QED
      BY <3>1 DEF Passed
  <2>. QED
    BY <1>1, <2>1, <2>2 DEF DeliveredOf
<1>. QED
  BY <1>10, <1>11, <1>12, <1>13 DEF ReaderAt

(* A fragment's data behind what comes before it of its record.            *)
LEMMA Joined ==
  ASSUME TypeOK, NEW g \in Origin, FragmentOf(g)
  PROVE  SubSeq(log[g.rec], 1, g.from) \o g.phys.data
           = SubSeq(log[g.rec], 1, EndOf(g))
<1>. DEFINE s == log[g.rec]
<1>1. s \in Seq(Byte) /\ Len(s) \in Nat
  <2>1. g.rec \in 1..Len(log) /\ log \in Seq(Seq(Byte))
    BY DEF FragmentOf, TypeOK, Writer!TypeOK
  <2>. QED
    BY <2>1, LenProperties
<1>2. g.phys.data = SubSeq(s, g.from + 1, EndOf(g)) /\ EndOf(g) <= Len(s)
  BY DEF FragmentOf
<1>. HIDE DEF s
<1>3. g.from \in Nat /\ Len(g.phys.data) \in Nat
  BY LenProperties DEF Origin, Physical
<1>4. g.from \in (1 - 1)..Len(s) /\ EndOf(g) \in g.from..Len(s)
      /\ 1 \in 1..(Len(s) + 1)
  BY <1>1, <1>2, <1>3 DEF EndOf
<1>5. SubSeq(s, 1, g.from) \o SubSeq(s, g.from + 1, EndOf(g))
        = SubSeq(s, 1, EndOf(g))
  BY <1>1, <1>4, ConcatAdjacentSubSeq
<1>6. SubSeq(s, 1, g.from) \o g.phys.data = SubSeq(s, 1, EndOf(g))
  BY <1>2, <1>5
<1>. QED
  BY <1>6 DEF s

(* The record that ends at the reader's place joins those it has returned. *)
LEMMA DeliversNext ==
  ASSUME TypeOK, NEW G, Layout(G), Holds(G), Taken, ~Taken',
         Closes(G[Place].phys), log' = log, Place' = Place,
         NEW S \in SUBSET (1..Len(log)), Passed(G, S),
         delivered = Subsequence(log, S),
         delivered' = Append(delivered, log[G[Place].rec])
  PROVE  LET U == S \cup {G[Place].rec}
         IN  /\ U \in SUBSET (1..Len(log)) /\ Passed(G, U)'
             /\ delivered' = Subsequence(log, U)
<1>1. Place \in 1..Len(G) /\ IsEnd(G[Place])
  BY DEF Holds
<1>2. FragmentOf(G[Place])
  BY <1>1 DEF Layout, Fragments
<1>3. PICK r \in 1..Len(log) : r = G[Place].rec
  BY <1>2 DEF FragmentOf
<1>4. log \in Seq(Seq(Byte)) /\ Len(log) \in Nat
  BY LenProperties DEF TypeOK, Writer!TypeOK
<1>5. S \subseteq Int /\ \A k \in S : k < r
  <2>1. \A k \in S : G[Place].rec > k
    BY <1>1 DEF Passed
  <2>. QED
    BY <1>3, <1>4, <2>1
<1>6. Subsequence(log, S \cup {r}) = Append(Subsequence(log, S), log[r])
  BY <1>3, <1>4, <1>5, SubsequenceGrows
<1>7. Passed(G, S \cup {r})'
  <2>1. ASSUME NEW k \in S \cup {r}, NEW i \in 1..Len(G), i > Place
        PROVE  G[i].rec > k
    <3>1. CASE k \in S
      BY <2>1, <3>1 DEF Passed
    <3>2. CASE k = r
      <4>1. G[i].rec \in 1..Len(log)
        BY DEF Layout, Fragments, FragmentOf
      <4>2. Place < i
        BY <1>1, <2>1
      <4>3. r < G[i].rec
        BY <1>1, <1>3, <4>2 DEF Layout, Ordered
      <4>. QED
        BY <1>3, <1>4, <3>2, <4>1, <4>3
    <3>. QED
      BY <3>1, <3>2
  <2>. QED
    BY <2>1 DEF Passed
<1>. QED
  BY <1>3, <1>6, <1>7

(* The last fragment of a record was taken: the whole of it is delivered.  *)
LEMMA DeliversRecord ==
  ASSUME TypeOK, NEW G, Layout(G), Holds(G), DeliveredOf(G), Taken, ~Taken',
         Closes(G[Place].phys),
         delivered' = Append(delivered, SubSeq(log[G[Place].rec], 1,
                                               EndOf(G[Place]))),
         log' = log, Place' = Place
  PROVE  DeliveredOf(G)'
<1>1. Place \in 1..Len(G)
  BY DEF Holds
<1>2. FragmentOf(G[Place])
  BY <1>1 DEF Layout, Fragments
<1>3. PICK r \in 1..Len(log) :
             r = G[Place].rec /\ EndOf(G[Place]) = Len(log[r])
  BY <1>2 DEF FragmentOf
<1>4. delivered' = Append(delivered, log[r])
  <2>1. log[r] \in Seq(Byte)
    BY <1>3 DEF TypeOK, Writer!TypeOK
  <2>2. SubSeq(log[G[Place].rec], 1, EndOf(G[Place])) = log[r]
    BY <1>3, <2>1, SubSeqFull
  <2>. QED
    BY <2>2
<1>5. PICK S \in SUBSET (1..Len(log)) :
             delivered = Subsequence(log, S) /\ Passed(G, S)
  BY DEF DeliveredOf
<1>6. PICK U : U = S \cup {r}
  OBVIOUS
<1>7. /\ U \in SUBSET (1..Len(log)) /\ Passed(G, U)'
      /\ delivered' = Subsequence(log, U)
  BY <1>3, <1>4, <1>5, <1>6, DeliversNext
<1>8. Subsequence(log, U)' = Subsequence(log, U)
  BY DEF Subsequence
<1>. QED
  BY <1>7, <1>8 DEF DeliveredOf

(* The steps of readLogRecord's loop.                                      *)
LEMMA DispatchKeepsPlace ==
  ASSUME TypeInv, TypeInv', NEW G, LogInv(G), log' = log, disk' = disk,
         Reader!DispatchRecord
  PROVE  ReaderAt(G)'
<1>0. /\ Layout(G) /\ Holds(G) /\ Collected(G) /\ DeliveredOf(G)
      /\ Contiguous \/ Stuck
      /\ TypeOK
  BY DEF LogInv, ReaderAt, TypeInv
<1>1. /\ rpc = "dispatch" /\ rpc' \in {"physical", "ready", "end", "crashed"}
      /\ UNCHANGED <<file_pos, buffer, eof>>
  BY ReportGoesOn
     DEF Reader!DispatchRecord, Reader!SkipTail, Reader!FullRecord,
     Reader!FirstFragment, Reader!MiddleFragment, Reader!LastFragment,
     Reader!MissingStart, Reader!ScratchCrash, Reader!ReturnEof,
     Reader!BadRecord, Reader!Dispatch, Reader!NoReport, Reader!inputVars
<1>2. /\ Place' = Place /\ ~Taken' /\ (Contiguous \/ Stuck)' /\ Holds(G)'
      /\ Contiguous => Contiguous'
  BY <1>0, <1>1 DEF Place, Taken, Contiguous, Stuck, Holds
<1>3. ASSUME delivered' = delivered
      PROVE  DeliveredOf(G)'
  <2>1. PICK S \in SUBSET (1..Len(log)) :
               delivered = Subsequence(log, S) /\ Passed(G, S)
    BY <1>0 DEF DeliveredOf
  <2>2. Passed(G, S)'
    BY <1>2, <2>1 DEF Passed
  <2>. QED
    BY <1>3, <2>1, <2>2 DEF DeliveredOf
<1>4. ASSUME NEW t \in {"full", "first", "middle", "last"}, Reader!Dispatch(t)
      PROVE  /\ Taken /\ ~resyncing' /\ Contiguous'
             /\ Place \in 1..Len(G) /\ IsEnd(G[Place])
             /\ G[Place] \in Origin /\ FragmentOf(G[Place])
             /\ G[Place].phys = [type |-> t, data |-> fragment]
  <2>1. Taken /\ record_type = t /\ ~resyncing'
    BY <1>4 DEF Reader!Dispatch, Taken
  <2>. QED
    BY <1>0, <1>2, <2>1 DEF Holds, Layout, Fragments
<1>5. CASE Reader!SkipTail
  <2>1. resyncing /\ delivered' = delivered
        /\ in_fragmented_record' = in_fragmented_record
    BY <1>5 DEF Reader!SkipTail, Reader!Skipped, Reader!localVars
  <2>2. Collected(G)'
    BY <1>0, <2>1 DEF Collected
  <2>. QED
    BY <1>2, <1>3, <2>1, <2>2 DEF ReaderAt
<1>6. CASE Reader!FullRecord
  <2>1. Reader!Dispatch("full") /\ rpc' \in {"ready", "crashed"}
        /\ \/ delivered' = delivered
           \/ delivered' = Append(delivered, fragment)
    BY <1>6, ReportGoesOn DEF Reader!FullRecord, Reader!NoReport, Reader!Deliver
  <2>2. /\ Taken /\ ~resyncing'
        /\ Place \in 1..Len(G)
        /\ G[Place] \in Origin /\ FragmentOf(G[Place])
        /\ G[Place].phys = [type |-> "full", data |-> fragment]
    BY <1>4, <2>1
  <2>3. Collected(G)'
    BY <1>2, <2>1, <2>2 DEF Collected
  <2>4. Closes(G[Place].phys) /\ Opens(G[Place].phys)
    BY <2>2 DEF Closes, Opens
  <2>5. fragment = SubSeq(log[G[Place].rec], 1, EndOf(G[Place]))
    BY <2>2 DEF FragmentOf, Opens
  <2>6. DeliveredOf(G)'
    BY <1>0, <1>2, <1>3, <2>1, <2>2, <2>4, <2>5, DeliversRecord
  <2>. QED
    BY <1>2, <2>3, <2>6 DEF ReaderAt
<1>7. CASE Reader!FirstFragment
  <2>1. Reader!Dispatch("first") /\ delivered' = delivered
        /\ scratch' = fragment
    BY <1>7 DEF Reader!FirstFragment
  <2>2. /\ Taken /\ ~resyncing' /\ Contiguous'
        /\ Place \in 1..Len(G) /\ IsEnd(G[Place])
        /\ FragmentOf(G[Place])
        /\ G[Place].phys = [type |-> "first", data |-> fragment]
    BY <1>4, <2>1
  <2>3. fragment = SubSeq(log[G[Place].rec], 1, EndOf(G[Place]))
    BY <2>2 DEF FragmentOf, Opens
  <2>4. Collected(G)'
    BY <1>2, <2>1, <2>2, <2>3 DEF Collected
  <2>. QED
    BY <1>2, <1>3, <2>1, <2>4 DEF ReaderAt
<1>8. ASSUME NEW t \in {"middle", "last"}, Reader!Dispatch(t),
             in_fragmented_record, scratch' = scratch \o fragment
      PROVE  scratch' = SubSeq(log[G[Place].rec], 1, EndOf(G[Place]))
  <2>1. /\ Taken
        /\ G[Place] \in Origin /\ FragmentOf(G[Place])
        /\ G[Place].phys = [type |-> t, data |-> fragment]
    BY <1>4, <1>8
  <2>2. scratch = SubSeq(log[G[Place].rec], 1, G[Place].from)
    BY <1>0, <1>8, <2>1 DEF Collected, Opens
  <2>3. G[Place].phys.data = fragment
    BY <2>1
  <2>. QED
    BY <1>0, <1>8, <2>1, <2>2, <2>3, Joined
<1>9. CASE Reader!MiddleFragment
  <2>1. Reader!Dispatch("middle") /\ in_fragmented_record
        /\ delivered' = delivered /\ scratch' = scratch \o fragment
    BY <1>9 DEF Reader!MiddleFragment
  <2>2. /\ ~resyncing' /\ Contiguous' /\ Place \in 1..Len(G)
        /\ IsEnd(G[Place])
    BY <1>4, <2>1
  <2>3. scratch' = SubSeq(log[G[Place].rec], 1, EndOf(G[Place]))
    BY <1>8, <2>1
  <2>4. Collected(G)'
    BY <1>2, <2>2, <2>3 DEF Collected
  <2>. QED
    BY <1>2, <1>3, <2>1, <2>4 DEF ReaderAt
<1>10. CASE Reader!LastFragment
  <2>1. Reader!Dispatch("last") /\ in_fragmented_record /\ rpc' = "ready"
        /\ delivered' = Append(delivered, scratch')
        /\ scratch' = scratch \o fragment
    BY <1>10 DEF Reader!LastFragment, Reader!Deliver, Reader!NoReport
  <2>2. /\ Taken /\ ~resyncing'
        /\ G[Place].phys = [type |-> "last", data |-> fragment]
    BY <1>4, <2>1
  <2>3. scratch' = SubSeq(log[G[Place].rec], 1, EndOf(G[Place]))
    BY <1>8, <2>1
  <2>4. Closes(G[Place].phys)
    BY <2>2 DEF Closes
  <2>5. DeliveredOf(G)'
    BY <1>0, <1>2, <2>1, <2>2, <2>3, <2>4, DeliversRecord
  <2>6. Collected(G)'
    BY <1>2, <2>1, <2>2 DEF Collected
  <2>. QED
    BY <1>2, <2>5, <2>6 DEF ReaderAt
<1>11. CASE Reader!MissingStart \/ Reader!ScratchCrash
            \/ Reader!ReturnEof \/ Reader!BadRecord
  <2>1. /\ delivered' = delivered /\ ~resyncing'
        /\ rpc' = "physical" => ~in_fragmented_record'
    BY <1>11, ReportGoesOn
       DEF Reader!MissingStart, Reader!ScratchCrash, Reader!ReturnEof,
       Reader!BadRecord, Reader!Dispatch, Reader!NoReport, Reader!localVars
  <2>2. Collected(G)'
    BY <1>2, <2>1 DEF Collected
  <2>. QED
    BY <1>2, <1>3, <2>1, <2>2 DEF ReaderAt
<1>. QED
  BY <1>5, <1>6, <1>7, <1>9, <1>10, <1>11 DEF Reader!DispatchRecord

LEMMA ReadKeepsLayout ==
  ASSUME TypeInv, TypeInv', Read, NEW G, LogInv(G)
  PROVE  LogInv(G)'
<1>1. /\ Reader!Next /\ Writer!Stopped /\ UNCHANGED writerVars
      /\ disk' = disk /\ log' = log /\ wpc' = wpc
  BY ReaderLeavesFile DEF Read, writerVars
<1>2. Layout(G)' /\ OnDisk(G)' /\ WriterAt(G)'
  BY <1>1 DEF LogInv, Layout, Fragments, FragmentOf, OnDisk, WriterAt,
              Writer!Stopped
<1>3. ReaderAt(G)
  BY DEF LogInv
<1>4. ReaderAt(G)'
  BY <1>1, <1>3, CallKeepsPlace, EmptiedBuffer, FillKeepsPlace,
     TakeKeepsPlace, DispatchKeepsPlace
     DEF Reader!Next, Reader!ReadPhysicalRecord
<1>. QED
  BY <1>2, <1>4 DEF LogInv

LEMMA InitLayout ==
  ASSUME Init
  PROVE  LogInv(<< >>)
<1>1. /\ disk = << >> /\ log = << >> /\ wpc = "idle" /\ buffer = << >>
      /\ rpc = "closed" /\ ~in_fragmented_record /\ delivered = << >>
  BY DEF Init, Writer!Init, Reader!Init
<1>2. << >> \in Seq(Origin) /\ Len(<< >>) = 0 /\ << >> \in Seq(Seq(Byte))
  OBVIOUS
<1>3. \A G : Len(G) = 0 => Fragments(G) /\ Whole(G) /\ Chained(G) /\ Ordered(G)
  BY DEF Fragments, Whole, Chained, Ordered
<1>4. Layout(<< >>)
  BY <1>2, <1>3 DEF Layout
<1>5. OnDisk(<< >>) /\ WriterAt(<< >>)
  BY <1>1, <1>2 DEF OnDisk, WriterAt
<1>6. DeliveredOf(<< >>)
  <2>1. delivered = Subsequence(log, {})
    BY <1>1, <1>2, SubsequenceOfNone
  <2>2. Passed(<< >>, {})
    BY DEF Passed
  <2>. QED
    BY <2>1, <2>2 DEF DeliveredOf
<1>7. ReaderAt(<< >>)
  BY <1>1, <1>2, <1>6 DEF ReaderAt, Contiguous, Holds, Taken, Collected
<1>. QED
  BY <1>4, <1>5, <1>7 DEF LogInv

LaidOut == \E G : LogInv(G)

LEMMA LaidOutStep ==
  ASSUME TypeInv, TypeInv', LaidOut, [Next]_vars
  PROVE  LaidOut'
<1>1. PICK G : LogInv(G)
  BY DEF LaidOut
<1>2. CASE Write
  BY <1>1, <1>2, WriteKeepsLayout DEF LaidOut
<1>3. CASE Damage
  BY <1>1, <1>3, DamageKeepsLayout DEF LaidOut
<1>4. CASE Read
  BY <1>1, <1>4, ReadKeepsLayout DEF LaidOut
<1>5. CASE UNCHANGED vars
  <2>1. LogInv(G)'
    BY <1>1, <1>5
       DEF vars, writerVars, readerVars, LogInv, Layout, Fragments, FragmentOf,
       OnDisk, WriterAt, Writer!Stopped, ReaderAt, Contiguous, Stuck, Holds,
       Collected, DeliveredOf, Passed, Taken, Place
  <2>. QED
    BY <2>1 DEF LaidOut
<1>. QED
  BY <1>2, <1>3, <1>4, <1>5 DEF Next

(* Whatever the writer left of the log, whatever damage was done to it and *)
(* wherever the reader starts, each record that readLogRecord returns was  *)
(* handed to logAddRecord, whole, and they come in the order they were     *)
(* logged: what readLogRecord collects in scratch is never of two records. *)
THEOREM NothingIsInvented == Spec => []NothingInvented
<1>. DEFINE Inv == TypeInv /\ LaidOut
<1>1. Init => Inv
  BY InitTypes, InitLayout DEF LaidOut
<1>2. Inv /\ [Next]_vars => Inv'
  BY TypeStep, LaidOutStep
<1>3. Inv => NothingInvented
  <2>. SUFFICES ASSUME Inv PROVE NothingInvented
    OBVIOUS
  <2>1. PICK G : DeliveredOf(G)
    BY DEF LaidOut, LogInv, ReaderAt
  <2>2. PICK S \in SUBSET (1..Len(log)) : delivered = Subsequence(log, S)
    BY <2>1 DEF DeliveredOf
  <2>3. DOMAIN log = 1..Len(log)
    BY LenProperties DEF TypeInv, TypeOK, Writer!TypeOK
  <2>. QED
    BY <2>2, <2>3 DEF NothingInvented, IsSubsequence
<1>. HIDE DEF Inv
<1>. QED
  BY <1>1, <1>2, <1>3, PTL DEF Spec
==============================================================================
