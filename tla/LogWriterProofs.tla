--------------------------- MODULE LogWriterProofs ---------------------------
(***************************************************************************)
(* What holds of LogWriter for all records, block sizes and bounds.        *)
(***************************************************************************)
EXTENDS LogWriter, SequenceTheorems, TLAPS

(***************************************************************************)
(* The format and the geometry of an iteration.                            *)
(***************************************************************************)

(* Every physical record encodes to cells of its own, numbered from 1.     *)
LEMMA EncodeProperties ==
  ASSUME NEW p \in Physical
  PROVE  /\ Encode(p) \in Seq(Cell)
         /\ Len(Encode(p)) = HeaderSize + Len(p.data)
         /\ \A k \in 1..Len(Encode(p)) :
              Encode(p)[k].phys = p /\ Encode(p)[k].at = k
<1>1. HeaderSize + Len(p.data) \in Nat
  BY FormatAssumption, LenProperties DEF Physical
<1>2. \A k \in 1..(HeaderSize + Len(p.data)) : [phys |-> p, at |-> k] \in Cell
  BY <1>1 DEF Cell
<1>3. Encode(p) \in Seq(Cell) /\ Len(Encode(p)) = HeaderSize + Len(p.data)
  BY <1>1, <1>2 DEF Encode
<1>. QED
  BY <1>1, <1>3 DEF Encode

LEMMA ZerosProperties ==
  ASSUME NEW z \in Nat
  PROVE  /\ Zeros(z) \in Seq(Cell)
         /\ Len(Zeros(z)) = z
         /\ \A k \in 1..z : Zeros(z)[k].at = 0
<1>1. << >> \in Seq(Byte)
  OBVIOUS
<1>2. ZeroCell \in Cell /\ ZeroCell.at = 0
  BY <1>1 DEF ZeroCell, NoPhysical, Cell, Physical, RecordType
<1>. QED
  BY <1>2 DEF Zeros

(* The arithmetic of lines 90-106 stays inside the block: what the four    *)
(* assertions of the write path ask of it.                                 *)
LEMMA Geometry ==
  ASSUME TypeOK
  PROVE  /\ Leftover \in Nat
         /\ StartOffset \in Nat
         /\ Avail \in Nat
         /\ FragmentLength \in 0..left
         /\ FragmentLength <= MaxLength
         /\ StartOffset + HeaderSize + FragmentLength <= BlockSize
<1>1. left \in Nat
  BY LenProperties DEF TypeOK
<1>2. block_offset \in 0..BlockSize
  BY DEF TypeOK
<1>3. Leftover \in Nat /\ StartOffset \in Nat
  BY <1>2, FormatAssumption DEF Leftover, StartOffset
<1>4. Avail \in Nat /\ Avail = BlockSize - StartOffset - HeaderSize
  BY <1>2, FormatAssumption DEF Avail, StartOffset, Leftover
<1>5. FragmentLength \in 0..left /\ FragmentLength <= Avail
  BY <1>1, <1>4 DEF FragmentLength
<1>. QED
  BY <1>3, <1>4, <1>5, FormatAssumption

(* The physical record of an iteration is well formed.                     *)
LEMMA FragmentProperties ==
  ASSUME TypeOK
  PROVE  /\ Fragment \in Physical
         /\ Len(Fragment.data) = FragmentLength
<1>1. /\ record \in Seq(Byte)
      /\ left \in 0..Len(record)
      /\ FragmentLength \in 0..left
      /\ Len(record) \in Nat
  BY Geometry, LenProperties DEF TypeOK
<1>. DEFINE done == Len(record) - left
            data == SubSeq(record, done + 1, done + FragmentLength)
<1>2. done + 1 \in 1..(Len(record) + 1) /\ done + FragmentLength \in 0..Len(record)
  BY <1>1
<1>3. data \in Seq(Byte) /\ Len(data) = FragmentLength
  BY <1>1, <1>2, SubSeqProperties
<1>4. Fragment = [type |-> FragmentType(begin, left = FragmentLength),
                  data |-> data]
  BY DEF Fragment
<1>5. FragmentType(begin, left = FragmentLength) \in RecordType
  BY DEF FragmentType, RecordType
<1>. QED
  BY <1>3, <1>4, <1>5 DEF Physical

(* What an append leaves in the file: the old bytes, and a prefix of the   *)
(* physical record of the iteration.                                       *)
LEMMA AppendToDisk ==
  ASSUME TypeOK,
         NEW n \in 0..(HeaderSize + FragmentLength),
         disk' = disk \o SubSeq(Encode(Fragment), 1, n)
  PROVE  /\ disk' \in Seq(Cell)
         /\ Len(disk') = Len(disk) + n
         /\ \A i \in 1..Len(disk) : disk'[i] = disk[i]
         /\ \A k \in 1..n : /\ disk'[Len(disk) + k].phys = Fragment
                           /\ disk'[Len(disk) + k].at = k
<1>. DEFINE e == Encode(Fragment)
            s == SubSeq(e, 1, n)
<1>0. FragmentLength \in Nat
  BY Geometry, LenProperties DEF TypeOK
<1>1. /\ e \in Seq(Cell)
      /\ Len(e) = HeaderSize + FragmentLength
      /\ \A k \in 1..Len(e) : e[k].phys = Fragment /\ e[k].at = k
  BY FragmentProperties, EncodeProperties
<1>2. s \in Seq(Cell) /\ Len(s) = n /\ \A k \in 1..n : s[k] = e[k]
  <2>. HIDE DEF e
  <2>. QED
    BY <1>0, <1>1, FormatAssumption, SubSeqProperties
<1>3. disk \in Seq(Cell) /\ disk' = disk \o s
  BY DEF TypeOK
<1>4. n \in Nat /\ Len(disk) \in Nat
  BY <1>2, <1>3, LenProperties
<1>5. /\ disk' \in Seq(Cell)
      /\ Len(disk') = Len(disk) + n
      /\ \A i \in 1..Len(disk) : disk'[i] = disk[i]
      /\ \A k \in 1..n : disk'[Len(disk) + k] = s[k]
  <2>. HIDE DEF s
  <2>. QED
    BY <1>2, <1>3, <1>4, ConcatProperties
<1>6. \A k \in 1..n : e[k].phys = Fragment /\ e[k].at = k
  <2>. HIDE DEF e
  <2>. QED
    BY <1>0, <1>1, FormatAssumption
<1>. QED
  BY <1>2, <1>5, <1>6

LEMMA SizeType ==
  ASSUME TypeOK
  PROVE  FragmentLength \in Nat /\ HeaderSize \in Nat \ {0}
BY Geometry, LenProperties, FormatAssumption DEF TypeOK

(* An iteration that succeeds appends the whole physical record.           *)
LEMMA WholeEncode ==
  ASSUME TypeOK
  PROVE  Encode(Fragment) = SubSeq(Encode(Fragment), 1, HeaderSize + FragmentLength)
<1>1. /\ Encode(Fragment) \in Seq(Cell)
      /\ Len(Encode(Fragment)) = HeaderSize + FragmentLength
  BY FragmentProperties, EncodeProperties
<1>2. Encode(Fragment) = SubSeq(Encode(Fragment), 1, Len(Encode(Fragment)))
  BY <1>1, SubSeqFull
<1>. QED
  BY <1>1, <1>2, LenProperties

LEMMA EmitAppends ==
  ASSUME TypeOK, EmitPhysicalRecord \/ EmitFails
  PROVE  \E n \in 0..(HeaderSize + FragmentLength) :
            disk' = disk \o SubSeq(Encode(Fragment), 1, n)
<1>1. CASE EmitPhysicalRecord
  <2>1. disk' = disk \o SubSeq(Encode(Fragment), 1, HeaderSize + FragmentLength)
    BY <1>1, WholeEncode DEF EmitPhysicalRecord
  <2>2. HeaderSize + FragmentLength \in 0..(HeaderSize + FragmentLength)
    BY SizeType
  <2>. QED
    BY <2>1, <2>2
<1>2. CASE EmitFails
  <2>1. PICK n \in 0..(HeaderSize + FragmentLength - 1) :
               disk' = disk \o SubSeq(Encode(Fragment), 1, n)
    BY <1>2 DEF EmitFails
  <2>2. n \in 0..(HeaderSize + FragmentLength)
    BY SizeType
  <2>. QED
    BY <2>1, <2>2
<1>. QED
  BY <1>1, <1>2

(* What a power loss leaves: a prefix of the file, and zeros.              *)
LEMMA TornDisk ==
  ASSUME TypeOK,
         NEW n \in synced..Len(disk), NEW z \in 0..(Len(disk) - n),
         disk' = SubSeq(disk, 1, n) \o Zeros(z)
  PROVE  /\ disk' \in Seq(Cell)
         /\ Len(disk') = n + z
         /\ \A i \in 1..n : disk'[i] = disk[i]
         /\ \A i \in (n + 1)..(n + z) : disk'[i].at = 0
<1>. DEFINE kept == SubSeq(disk, 1, n)
            tail == Zeros(z)
<1>1. disk \in Seq(Cell) /\ Len(disk) \in Nat /\ n \in 0..Len(disk) /\ z \in Nat
  BY LenProperties DEF TypeOK
<1>2. kept \in Seq(Cell) /\ Len(kept) = n /\ \A i \in 1..n : kept[i] = disk[i]
  BY <1>1, SubSeqProperties
<1>3. tail \in Seq(Cell) /\ Len(tail) = z /\ \A i \in 1..z : tail[i].at = 0
  BY <1>1, ZerosProperties
<1>4. /\ disk' \in Seq(Cell)
      /\ Len(disk') = n + z
      /\ \A i \in 1..n : disk'[i] = kept[i]
      /\ \A i \in 1..z : disk'[n + i] = tail[i]
  <2>. HIDE DEF kept, tail
  <2>1. disk' = kept \o tail
    BY DEF kept, tail
  <2>2. /\ kept \o tail \in Seq(Cell)
        /\ Len(kept \o tail) = n + z
        /\ \A i \in 1..(n + z) :
             (kept \o tail)[i] = IF i <= n THEN kept[i] ELSE tail[i - n]
    BY <1>2, <1>3, ConcatProperties
  <2>3. \A i \in 1..n : i \in 1..(n + z) /\ i <= n
    BY <1>1
  <2>4. \A i \in 1..z : n + i \in 1..(n + z) /\ ~(n + i <= n) /\ (n + i) - n = i
    BY <1>1
  <2>. QED
    BY <2>1, <2>2, <2>3, <2>4
<1>5. \A i \in (n + 1)..(n + z) : i - n \in 1..z /\ i = n + (i - n)
  BY <1>1
<1>. HIDE DEF kept, tail
<1>6. \A i \in (n + 1)..(n + z) : disk'[i] = tail[i - n]
  BY <1>4, <1>5
<1>. QED
  BY <1>2, <1>3, <1>4, <1>5, <1>6
------------------------------------------------------------------------------
LEMMA InitType == ASSUME Init PROVE TypeOK
<1>1. << >> \in Seq(Cell) /\ << >> \in Seq(Byte) /\ << >> \in Seq(Nat)
      /\ << >> \in Seq(Seq(Byte)) /\ Len(<< >>) = 0
  OBVIOUS
<1>2. 0 \in 0..BlockSize
  BY FormatAssumption
<1>3. disk \in Seq(Cell) /\ record \in Seq(Byte)
  BY <1>1 DEF Init
<1>4. log \in Seq(Seq(Byte)) /\ ends \in Seq(Nat)
  BY <1>1 DEF Init
<1>5. left \in 0..Len(record) /\ block_offset \in 0..BlockSize
  BY <1>1, <1>2 DEF Init
<1>6. synced \in Nat /\ acked \in Nat /\ begin \in BOOLEAN /\ wpc \in WriterPC
  BY DEF Init, WriterPC
<1>. QED
  BY <1>3, <1>4, <1>5, <1>6 DEF TypeOK

(* No step breaks the type.                                                *)
LEMMA TypeStep == ASSUME TypeOK, [Next]_vars PROVE TypeOK'
<1>1. ASSUME NEW r \in Records, LogAddRecord(r)
      PROVE  TypeOK'
  <2>1. r \in Seq(Byte)
    BY WriterAssumption
  <2>2. log' \in Seq(Seq(Byte))
    BY <1>1, <2>1, AppendProperties DEF LogAddRecord, TypeOK
  <2>. QED
    BY <1>1, <2>1, <2>2, LenProperties DEF LogAddRecord, TypeOK, WriterPC
<1>2. ASSUME Advance
      PROVE  /\ block_offset' \in 0..BlockSize
             /\ left' \in 0..Len(record)
             /\ begin' \in BOOLEAN
  <2>1. left \in Nat /\ Len(record) \in Nat /\ left <= Len(record)
    BY LenProperties DEF TypeOK
  <2>2. /\ StartOffset \in Nat
        /\ FragmentLength \in 0..left
        /\ StartOffset + HeaderSize + FragmentLength <= BlockSize
    BY Geometry
  <2>3. block_offset' \in 0..BlockSize
    BY <1>2, <2>1, <2>2, FormatAssumption DEF Advance
  <2>4. left' \in 0..Len(record)
    BY <1>2, <2>1, <2>2 DEF Advance
  <2>. QED
    BY <1>2, <2>3, <2>4 DEF Advance
<1>3. CASE EmitPhysicalRecord
  <2>1. disk' \in Seq(Cell)
    BY <1>3, EmitAppends, AppendToDisk
  <2>2. ends' \in Seq(Nat)
    <3>1. ends \in Seq(Nat) /\ Len(disk') \in Nat
      BY <2>1, LenProperties DEF TypeOK
    <3>2. Append(ends, Len(disk')) \in Seq(Nat)
      BY <3>1, AppendProperties
    <3>. QED
      BY <1>3, <3>1, <3>2 DEF EmitPhysicalRecord
  <2>3. wpc' \in WriterPC
    BY <1>3 DEF EmitPhysicalRecord, TypeOK, WriterPC
  <2>. QED
    BY <1>2, <1>3, <2>1, <2>2, <2>3 DEF EmitPhysicalRecord, TypeOK
<1>4. CASE EmitFails
  <2>1. disk' \in Seq(Cell)
    BY <1>4, EmitAppends, AppendToDisk
  <2>. QED
    BY <1>2, <1>4, <2>1 DEF EmitFails, TypeOK, WriterPC
<1>5. CASE TrailerCrash
  BY <1>5 DEF TrailerCrash, TypeOK, WriterPC
<1>6. CASE Sync
  BY <1>6, LenProperties DEF Sync, TypeOK, WriterPC
<1>7. CASE Close
  BY <1>7 DEF Close, TypeOK, WriterPC
<1>8. CASE PowerLoss
  <2>1. disk' \in Seq(Cell)
    BY <1>8, TornDisk DEF PowerLoss
  <2>2. << >> \in Seq(Byte) /\ Len(<< >>) = 0
    OBVIOUS
  <2>3. record' \in Seq(Byte) /\ left' \in 0..Len(record')
    BY <1>8, <2>2 DEF PowerLoss
  <2>4. block_offset' \in 0..BlockSize
    BY <1>8, FormatAssumption DEF PowerLoss
  <2>5. /\ synced' \in Nat /\ begin' \in BOOLEAN /\ wpc' \in WriterPC
        /\ log' \in Seq(Seq(Byte)) /\ ends' \in Seq(Nat) /\ acked' \in Nat
    BY <1>8 DEF PowerLoss, TypeOK, WriterPC
  <2>. QED
    BY <2>1, <2>3, <2>4, <2>5 DEF TypeOK
<1>9. CASE UNCHANGED vars
  BY <1>9 DEF vars, TypeOK
<1>. QED
  BY <1>1, <1>3, <1>4, <1>5, <1>6, <1>7, <1>8, <1>9 DEF Next

(* The writer's state has its type; in particular block_offset never       *)
(* passes the end of a block, whatever the three calls on the file return. *)
THEOREM TypeCorrect == Spec => []TypeOK
<1>1. Init => TypeOK
  BY InitType
<1>2. TypeOK /\ [Next]_vars => TypeOK'
  BY TypeStep
<1>. QED
  BY <1>1, <1>2, PTL DEF Spec

(* None of the assertions of logAddRecord and writerEmitPhysicalRecord     *)
(* fails, whatever was logged before and whatever failed.                  *)
THEOREM AssertionsNeverFail == Spec => []AssertsHold
<1>1. TypeOK => AssertsHold
  BY Geometry DEF AssertsHold
<1>. QED
  BY <1>1, TypeCorrect, PTL
------------------------------------------------------------------------------
(***************************************************************************)
(* Durability.  AckedIsOnDisk is not inductive: it needs to know that what *)
(* is acknowledged ends before the sync point, that the sync point is in   *)
(* the file and has only written bytes before it, and, while the process   *)
(* runs, that every completed record is in the file.                       *)
(***************************************************************************)
LiveFile ==
  wpc # "crashed" =>
    /\ \A k \in DOMAIN ends : ends[k] <= Len(disk)
    /\ \A i \in 1..Len(disk) : Written(disk[i])

SyncedFile ==
  /\ synced <= Len(disk)
  /\ \A i \in 1..synced : Written(disk[i])

AckedIsSynced ==
  /\ acked <= Len(ends)
  /\ \A k \in 1..acked : ends[k] <= synced

EndsMatchLog ==
  /\ wpc \in {"idle", "added"} => Len(ends) = Len(log)
  /\ wpc = "adding" => Len(ends) + 1 = Len(log)

DurabilityInv ==
  TypeOK /\ LiveFile /\ SyncedFile /\ AckedIsSynced /\ EndsMatchLog

(* Appending keeps the file's bytes, and adds written ones.                *)
LEMMA AppendKeepsWritten ==
  ASSUME TypeOK, LiveFile, SyncedFile, wpc # "crashed",
         NEW n \in 0..(HeaderSize + FragmentLength),
         disk' = disk \o SubSeq(Encode(Fragment), 1, n)
  PROVE  /\ Len(disk') \in Nat /\ Len(disk) <= Len(disk')
         /\ \A i \in 1..Len(disk') : Written(disk'[i])
<1>1. /\ Len(disk') = Len(disk) + n
      /\ \A i \in 1..Len(disk) : disk'[i] = disk[i]
      /\ \A k \in 1..n : disk'[Len(disk) + k].at = k
  BY AppendToDisk
<1>2. Len(disk) \in Nat /\ n \in Nat
  BY LenProperties, SizeType DEF TypeOK
<1>3. ASSUME NEW i \in 1..Len(disk') PROVE Written(disk'[i])
  <2>1. CASE i \in 1..Len(disk)
    BY <1>1, <2>1 DEF LiveFile
  <2>2. CASE i \notin 1..Len(disk)
    <3>1. i - Len(disk) \in 1..n /\ i = Len(disk) + (i - Len(disk))
      BY <1>1, <1>2, <2>2
    <3>2. disk'[i].at = i - Len(disk)
      BY <1>1, <3>1
    <3>. QED
      BY <3>1, <3>2 DEF Written
  <2>. QED
    BY <2>1, <2>2
<1>. QED
  BY <1>1, <1>2, <1>3

(* An iteration preserves the durability invariant, however much of it     *)
(* reaches the file.                                                       *)
LEMMA EmitKeepsDurability ==
  ASSUME DurabilityInv, EmitPhysicalRecord \/ EmitFails
  PROVE  LiveFile' /\ SyncedFile' /\ AckedIsSynced' /\ EndsMatchLog'
<1>1. PICK n \in 0..(HeaderSize + FragmentLength) :
             disk' = disk \o SubSeq(Encode(Fragment), 1, n)
  BY EmitAppends DEF DurabilityInv
<1>2. wpc = "adding" /\ Len(ends) + 1 = Len(log)
  BY DEF EmitPhysicalRecord, EmitFails, DurabilityInv, EndsMatchLog
<1>3. /\ Len(disk') \in Nat /\ Len(disk) <= Len(disk')
      /\ \A i \in 1..Len(disk') : Written(disk'[i])
  BY <1>1, <1>2, AppendKeepsWritten DEF DurabilityInv
<1>4. /\ Len(disk) \in Nat /\ Len(ends) \in Nat /\ Len(log) \in Nat
      /\ synced \in Nat /\ acked \in Nat
      /\ \A k \in DOMAIN ends : ends[k] \in Nat
      /\ DOMAIN ends = 1..Len(ends)
      /\ ends \in Seq(Nat)
  BY LenProperties, ElementOfSeq DEF DurabilityInv, TypeOK
<1>5. \/ ends' = ends /\ wpc' \in {"adding", "failed"}
      \/ ends' = Append(ends, Len(disk')) /\ wpc' = "added"
  BY <1>2 DEF EmitPhysicalRecord, EmitFails
<1>6. /\ Len(ends') \in Nat /\ Len(ends) <= Len(ends')
      /\ DOMAIN ends' = 1..Len(ends')
      /\ \A k \in 1..Len(ends) : ends'[k] = ends[k]
      /\ wpc' = "added" => Len(ends') = Len(ends) + 1
      /\ wpc' = "adding" => Len(ends') = Len(ends)
      /\ \A k \in 1..Len(ends') : k \in 1..Len(ends) \/ ends'[k] = Len(disk')
  <2>1. CASE ends' = ends /\ wpc' \in {"adding", "failed"}
    <3>1. ends' = ends /\ wpc' # "added"
      BY <2>1
    <3>2. Len(ends) <= Len(ends)
      BY <1>4
    <3>3. \A k \in 1..Len(ends') : k \in 1..Len(ends)
      BY <3>1
    <3>. QED
      BY <1>4, <3>1, <3>2, <3>3, Zenon
  <2>2. CASE ends' = Append(ends, Len(disk')) /\ wpc' = "added"
    <3>. DEFINE e == Append(ends, Len(disk'))
    <3>1. /\ e \in Seq(Nat)
          /\ Len(e) = Len(ends) + 1
          /\ \A k \in 1..Len(ends) : e[k] = ends[k]
          /\ e[Len(ends) + 1] = Len(disk')
      BY <1>3, <1>4, AppendProperties
    <3>2. DOMAIN e = 1..Len(e)
      BY <3>1, LenProperties
    <3>. HIDE DEF e
    <3>3. \A k \in 1..Len(e) : k \in 1..Len(ends) \/ k = Len(ends) + 1
      BY <1>4, <3>1
    <3>4. \A k \in 1..Len(e) : k \in 1..Len(ends) \/ e[k] = Len(disk')
      BY <3>1, <3>3
    <3>5. ends' = e
      BY <2>2 DEF e
    <3>. QED
      BY <1>4, <2>2, <3>1, <3>2, <3>4, <3>5
  <2>. QED
    BY <1>5, <2>1, <2>2
<1>7. \A k \in 1..Len(ends') : ends'[k] <= Len(disk')
  <2>1. ASSUME NEW k \in 1..Len(ends) PROVE ends'[k] <= Len(disk')
    <3>1. ends[k] <= Len(disk) /\ ends[k] \in Nat
      BY <1>2, <1>4 DEF DurabilityInv, LiveFile
    <3>2. ends'[k] = ends[k]
      BY <1>6
    <3>. QED
      BY <1>3, <1>4, <3>1, <3>2
  <2>2. Len(disk') <= Len(disk')
    BY <1>3
  <2>. QED
    BY <1>6, <2>1, <2>2
<1>8. LiveFile'
  BY <1>3, <1>6, <1>7 DEF LiveFile
<1>9. synced' = synced /\ acked' = acked /\ log' = log
  BY DEF EmitPhysicalRecord, EmitFails
<1>10. SyncedFile'
  BY <1>3, <1>4, <1>9 DEF SyncedFile, DurabilityInv
<1>11. AckedIsSynced'
  <2>1. acked <= Len(ends) /\ \A k \in 1..acked : ends[k] <= synced
    BY DEF AckedIsSynced, DurabilityInv
  <2>2. \A k \in 1..acked : k \in 1..Len(ends)
    BY <1>4, <2>1
  <2>3. \A k \in 1..acked : ends'[k] <= synced
    BY <1>6, <2>1, <2>2
  <2>4. acked <= Len(ends')
    <3>1. Len(ends') \in Nat /\ Len(ends) <= Len(ends')
      BY <1>6
    <3>. QED
      BY <1>4, <2>1, <3>1
  <2>. QED
    BY <1>9, <2>3, <2>4 DEF AckedIsSynced
<1>12. EndsMatchLog'
  BY <1>2, <1>4, <1>5, <1>6, <1>9 DEF EndsMatchLog
<1>. QED
  BY <1>8, <1>10, <1>11, <1>12

(* A power loss keeps what is synced.                                      *)
LEMMA PowerLossKeepsSynced ==
  ASSUME DurabilityInv, PowerLoss
  PROVE  SyncedFile'
<1>0. PICK n \in synced..Len(disk) : \E z \in 0..(Len(disk) - n) :
             disk' = SubSeq(disk, 1, n) \o Zeros(z)
  BY DEF PowerLoss
<1>1. PICK z \in 0..(Len(disk) - n) : disk' = SubSeq(disk, 1, n) \o Zeros(z)
  BY <1>0
<1>2. Len(disk') = n + z /\ \A i \in 1..n : disk'[i] = disk[i]
  BY <1>1, TornDisk DEF DurabilityInv
<1>3. synced \in Nat /\ Len(disk) \in Nat /\ synced' = synced
  BY LenProperties DEF DurabilityInv, TypeOK, PowerLoss
<1>. QED
  BY <1>1, <1>2, <1>3 DEF SyncedFile, DurabilityInv

(* The invariant holds, and keeps what was acknowledged.                   *)
LEMMA DurabilityInit == ASSUME Init PROVE DurabilityInv
<1>1. Len(<< >>) = 0 /\ DOMAIN << >> = {}
  OBVIOUS
<1>2. LiveFile /\ SyncedFile /\ AckedIsSynced /\ EndsMatchLog
  BY <1>1 DEF Init, LiveFile, SyncedFile, AckedIsSynced, EndsMatchLog
<1>. QED
  BY <1>2, InitType DEF DurabilityInv

LEMMA DurabilityStep ==
  ASSUME DurabilityInv, TypeOK', [Next]_vars
  PROVE  DurabilityInv'
<1>. SUFFICES LiveFile' /\ SyncedFile' /\ AckedIsSynced' /\ EndsMatchLog'
  BY DEF DurabilityInv
<1>1. ASSUME NEW r \in Records, LogAddRecord(r)
      PROVE  LiveFile' /\ SyncedFile' /\ AckedIsSynced' /\ EndsMatchLog'
  <2>1. r \in Seq(Byte) /\ log \in Seq(Seq(Byte))
    BY WriterAssumption DEF DurabilityInv, TypeOK
  <2>2. Len(log') = Len(log) + 1
    BY <1>1, <2>1, AppendProperties DEF LogAddRecord
  <2>3. EndsMatchLog'
    BY <1>1, <2>2 DEF LogAddRecord, EndsMatchLog, DurabilityInv
  <2>. QED
    BY <1>1, <2>3
    DEF LogAddRecord, DurabilityInv, LiveFile, SyncedFile, AckedIsSynced
<1>2. CASE EmitPhysicalRecord \/ EmitFails
  BY <1>2, EmitKeepsDurability
<1>3. CASE TrailerCrash
  BY <1>3 DEF TrailerCrash, DurabilityInv, LiveFile, SyncedFile,
              AckedIsSynced, EndsMatchLog
<1>4. CASE Sync
  <2>1. /\ wpc = "added" /\ Len(ends) = Len(log)
        /\ Len(ends) \in Nat /\ Len(disk) \in Nat /\ DOMAIN ends = 1..Len(ends)
    BY <1>4, LenProperties DEF Sync, DurabilityInv, EndsMatchLog, TypeOK
  <2>2. /\ disk' = disk /\ ends' = ends /\ log' = log
        /\ wpc' \in {"idle", "failed"}
        /\ \/ synced' = Len(disk) /\ acked' = Len(log)
           \/ synced' = synced /\ acked' = acked
    BY <1>4 DEF Sync
  <2>3. LiveFile' /\ EndsMatchLog'
    BY <2>1, <2>2 DEF DurabilityInv, LiveFile, EndsMatchLog
  <2>4. SyncedFile'
    BY <2>1, <2>2 DEF DurabilityInv, LiveFile, SyncedFile
  <2>5. AckedIsSynced'
    BY <2>1, <2>2 DEF DurabilityInv, LiveFile, AckedIsSynced
  <2>. QED
    BY <2>3, <2>4, <2>5
<1>5. CASE Close
  BY <1>5 DEF Close, DurabilityInv, LiveFile, SyncedFile, AckedIsSynced,
              EndsMatchLog
<1>6. CASE PowerLoss
  <2>1. SyncedFile'
    BY <1>6, PowerLossKeepsSynced
  <2>. QED
    BY <1>6, <2>1
    DEF PowerLoss, DurabilityInv, LiveFile, AckedIsSynced, EndsMatchLog
<1>7. CASE UNCHANGED vars
  BY <1>7
  DEF vars, DurabilityInv, LiveFile, SyncedFile, AckedIsSynced, EndsMatchLog
<1>. QED
  BY <1>1, <1>2, <1>3, <1>4, <1>5, <1>6, <1>7 DEF Next

LEMMA DurabilityKept == ASSUME DurabilityInv PROVE AckedIsOnDisk
<1>. SUFFICES ASSUME NEW k \in 1..acked
              PROVE  /\ ends[k] <= Len(disk)
                     /\ \A i \in 1..ends[k] : Written(disk[i])
  BY DEF AckedIsOnDisk
<1>1. /\ synced \in Nat /\ acked \in Nat /\ Len(ends) \in Nat /\ Len(disk) \in Nat
      /\ acked <= Len(ends)
      /\ ends[k] <= synced /\ synced <= Len(disk)
  BY LenProperties DEF DurabilityInv, TypeOK, AckedIsSynced, SyncedFile
<1>2. ends[k] \in Nat
  <2>1. k \in 1..Len(ends)
    BY <1>1
  <2>. QED
    BY <2>1, ElementOfSeq DEF DurabilityInv, TypeOK
<1>3. \A i \in 1..synced : Written(disk[i])
  BY DEF DurabilityInv, SyncedFile
<1>. QED
  BY <1>1, <1>2, <1>3

(***************************************************************************)
(* What a stop leaves of the file, and what was logged.                    *)
(***************************************************************************)

(* Zeros are only behind all that was written.                             *)
NoHoles ==
  \A i \in 1..Len(disk) :
    Written(disk[i]) => \A j \in 1..i : Written(disk[j])

FromRecords == \A k \in 1..Len(log) : log[k] \in Records

LEMMA NoHolesStep ==
  ASSUME DurabilityInv, DurabilityInv', NoHoles, [Next]_vars
  PROVE  NoHoles'
<1>1. CASE wpc' # "crashed"
  <2>1. \A i \in 1..Len(disk') : Written(disk'[i])
    BY <1>1 DEF DurabilityInv, LiveFile
  <2>2. Len(disk') \in Nat
    BY LenProperties DEF DurabilityInv, TypeOK
  <2>. QED
    BY <2>1, <2>2 DEF NoHoles
<1>2. CASE disk' = disk
  BY <1>2 DEF NoHoles
<1>3. CASE PowerLoss
  <2>0. PICK n \in synced..Len(disk) : \E z \in 0..(Len(disk) - n) :
               disk' = SubSeq(disk, 1, n) \o Zeros(z)
    BY <1>3 DEF PowerLoss
  <2>1. PICK z \in 0..(Len(disk) - n) : disk' = SubSeq(disk, 1, n) \o Zeros(z)
    BY <2>0
  <2>2. /\ Len(disk') = n + z
        /\ \A i \in 1..n : disk'[i] = disk[i]
        /\ \A i \in (n + 1)..(n + z) : disk'[i].at = 0
    BY <2>1, TornDisk DEF DurabilityInv
  <2>3. n \in Nat /\ z \in Nat /\ n <= Len(disk) /\ Len(disk) \in Nat
    BY LenProperties DEF DurabilityInv, TypeOK
  <2>4. \A i \in 1..n : Written(disk'[i])
    <3>1. \A i \in 1..Len(disk) : Written(disk[i])
      BY <1>3 DEF PowerLoss, DurabilityInv, LiveFile
    <3>. QED
      BY <2>2, <2>3, <3>1
  <2>5. \A i \in (n + 1)..(n + z) : ~Written(disk'[i])
    BY <2>2 DEF Written
  <2>. QED
    BY <2>2, <2>3, <2>4, <2>5 DEF NoHoles
<1>4. wpc' # "crashed" \/ disk' = disk \/ PowerLoss
  BY DEF Next, LogAddRecord, EmitPhysicalRecord, EmitFails, TrailerCrash, Sync,
         Close, vars
<1>. QED
  BY <1>1, <1>2, <1>3, <1>4

LEMMA FromRecordsStep ==
  ASSUME TypeOK, FromRecords, [Next]_vars
  PROVE  FromRecords'
<1>1. CASE log' = log
  BY <1>1 DEF FromRecords
<1>2. ASSUME NEW r \in Records, LogAddRecord(r)
      PROVE  FromRecords'
  <2>1. r \in Seq(Byte) /\ log \in Seq(Seq(Byte)) /\ log' = Append(log, r)
    BY <1>2, WriterAssumption DEF TypeOK, LogAddRecord
  <2>2. /\ Len(log') = Len(log) + 1 /\ Len(log) \in Nat
        /\ \A k \in 1..Len(log) : log'[k] = log[k]
        /\ log'[Len(log) + 1] = r
    BY <2>1, AppendProperties, LenProperties
  <2>. QED
    BY <2>2 DEF FromRecords
<1>3. log' = log \/ \E r \in Records : LogAddRecord(r)
  BY DEF Next, EmitPhysicalRecord, EmitFails, TrailerCrash, Sync, Close,
         PowerLoss, vars
<1>. QED
  BY <1>1, <1>2, <1>3

(* No power loss, failed call or crash takes a byte of a record whose      *)
(* writableFileSync returned: the promise behind logging and syncing every *)
(* record before the next one.                                             *)
THEOREM AckedSurvives == Spec => []AckedIsOnDisk
<1>1. Init => DurabilityInv
  BY DurabilityInit
<1>2. DurabilityInv /\ TypeOK' /\ [Next]_vars => DurabilityInv'
  BY DurabilityStep
<1>3. DurabilityInv => AckedIsOnDisk
  BY DurabilityKept
<1>. QED
  BY <1>1, <1>2, <1>3, TypeCorrect, PTL DEF Spec
------------------------------------------------------------------------------
(***************************************************************************)
(* Alignment, when no trailer is lost.  NoStraddle alone is not inductive: *)
(* it needs block_offset to be the place of the end of the file.           *)
(***************************************************************************)
AlignmentInv == OffsetsAgree /\ NoStraddle

LEMMA Multiples ==
  ASSUME NEW q \in Nat, NEW b \in Nat \ {0}
  PROVE  q * b \in Nat /\ q <= q * b /\ (q + 1) * b = q * b + b
<1>1. q * b \in Nat /\ (q + 1) * b = q * b + b
  OBVIOUS
<1>2. q * b = q + q * (b - 1)
  OBVIOUS
<1>3. b - 1 \in Nat
  OBVIOUS
<1>4. q * (b - 1) \in Nat
  BY <1>3
<1>. QED
  BY <1>1, <1>2, <1>4

(* The next physical record starts at StartOffset of some block.           *)
LEMMA NextRecordAligned ==
  ASSUME TypeOK, OffsetsAgree, wpc = "adding", PastTrailer,
         "lost" \notin TrailerOutcomes
  PROVE  \E q \in 0..Len(disk) : Len(disk) = q * BlockSize + StartOffset
<1>1. PICK q \in 0..Len(disk) : Len(disk) = q * BlockSize + block_offset
  BY DEF OffsetsAgree, Stopped
<1>2. /\ Len(disk) \in Nat /\ q \in Nat /\ block_offset \in 0..BlockSize
      /\ BlockSize \in Nat \ {0} /\ HeaderSize \in Nat
  BY LenProperties, FormatAssumption DEF TypeOK
<1>3. CASE Leftover >= HeaderSize
  <2>1. StartOffset = block_offset
    BY <1>2, <1>3 DEF StartOffset, Leftover
  <2>. QED
    BY <1>1, <2>1
<1>4. CASE Leftover < HeaderSize
  <2>1. block_offset = BlockSize /\ StartOffset = 0
    BY <1>2, <1>4 DEF PastTrailer, NeedsTrailer, Leftover, StartOffset
  <2>2. /\ q * BlockSize \in Nat
        /\ (q + 1) * BlockSize = q * BlockSize + BlockSize
        /\ q + 1 <= (q + 1) * BlockSize
    <3>1. q + 1 \in Nat
      BY <1>2
    <3>. QED
      BY <1>2, <3>1, Multiples
  <2>3. Len(disk) = (q + 1) * BlockSize + StartOffset
    BY <1>1, <1>2, <2>1, <2>2
  <2>4. q + 1 \in 0..Len(disk)
    BY <1>1, <1>2, <2>1, <2>2
  <2>. QED
    BY <2>3, <2>4
<1>. QED
  BY <1>2, <1>3, <1>4 DEF Leftover

(* A physical record that starts there ends in the same block.             *)
LEMMA EmitKeepsNoStraddle ==
  ASSUME TypeOK, AlignmentInv, "lost" \notin TrailerOutcomes,
         EmitPhysicalRecord \/ EmitFails
  PROVE  NoStraddle'
<1>1. PICK n \in 0..(HeaderSize + FragmentLength) :
             disk' = disk \o SubSeq(Encode(Fragment), 1, n)
  BY EmitAppends
<1>2. /\ Len(disk') = Len(disk) + n
      /\ \A i \in 1..Len(disk) : disk'[i] = disk[i]
      /\ \A k \in 1..n : /\ disk'[Len(disk) + k].phys = Fragment
                        /\ disk'[Len(disk) + k].at = k
      /\ disk' \in Seq(Cell)
  BY <1>1, AppendToDisk
<1>3. PICK q \in 0..Len(disk) : Len(disk) = q * BlockSize + StartOffset
  BY NextRecordAligned DEF AlignmentInv, EmitPhysicalRecord, EmitFails
<1>4. /\ Len(disk) \in Nat /\ q \in Nat /\ n \in Nat /\ StartOffset \in Nat
      /\ BlockSize \in Nat \ {0}
      /\ StartOffset + HeaderSize + FragmentLength <= BlockSize
      /\ q * BlockSize \in Nat /\ q <= q * BlockSize
      /\ (q + 1) * BlockSize = q * BlockSize + BlockSize
  <2>1. BlockSize \in Nat \ {0}
    BY FormatAssumption
  <2>2. Len(disk) \in Nat /\ q \in Nat /\ n \in Nat
    BY LenProperties, SizeType DEF TypeOK
  <2>. QED
    BY <2>1, <2>2, Geometry, Multiples
<1>5. InOneBlock(Len(disk), HeaderSize + FragmentLength)
  <2>1. q \in 0..Len(disk) /\ q * BlockSize <= Len(disk)
    BY <1>3, <1>4
  <2>2. Len(disk) + (HeaderSize + FragmentLength) <= (q + 1) * BlockSize
    BY <1>3, <1>4, SizeType
  <2>. QED
    BY <2>1, <2>2 DEF InOneBlock
<1>. SUFFICES ASSUME NEW i \in 1..Len(disk'), disk'[i].at = 1
              PROVE  InOneBlock(i - 1, HeaderSize + Len(disk'[i].phys.data))
  BY <1>2, LenProperties DEF NoStraddle, InOneBlock
<1>6. CASE i \in 1..Len(disk)
  <2>1. i \in DOMAIN disk /\ disk'[i] = disk[i]
    BY <1>2, <1>6, LenProperties DEF TypeOK
  <2>. QED
    BY <2>1 DEF AlignmentInv, NoStraddle
<1>7. CASE i \notin 1..Len(disk)
  <2>1. i - Len(disk) \in 1..n /\ i = Len(disk) + (i - Len(disk))
    BY <1>2, <1>4, <1>7
  <2>2. disk'[i].at = i - Len(disk) /\ disk'[i].phys = Fragment
    BY <1>2, <2>1
  <2>3. i - 1 = Len(disk)
    <3>1. i \in Int /\ i - Len(disk) = 1
      BY <2>2
    <3>. QED
      BY <1>4, <3>1
  <2>4. Len(disk'[i].phys.data) = FragmentLength
    BY <2>2, FragmentProperties
  <2>. QED
    BY <1>5, <2>3, <2>4
<1>. QED
  BY <1>6, <1>7

LEMMA EmitKeepsOffsetsAgree ==
  ASSUME TypeOK, AlignmentInv, "lost" \notin TrailerOutcomes, EmitPhysicalRecord
  PROVE  OffsetsAgree'
<1>1. PICK q \in 0..Len(disk) : Len(disk) = q * BlockSize + StartOffset
  BY NextRecordAligned DEF AlignmentInv, EmitPhysicalRecord
<1>2. Len(disk') = Len(disk) + (HeaderSize + FragmentLength)
  <2>1. disk' = disk \o SubSeq(Encode(Fragment), 1, HeaderSize + FragmentLength)
    BY WholeEncode DEF EmitPhysicalRecord
  <2>2. HeaderSize + FragmentLength \in 0..(HeaderSize + FragmentLength)
    BY SizeType
  <2>. QED
    BY <2>1, <2>2, AppendToDisk
<1>3. block_offset' = StartOffset + HeaderSize + FragmentLength
  BY DEF EmitPhysicalRecord, Advance
<1>4. /\ Len(disk) \in Nat /\ q \in Nat /\ StartOffset \in Nat
      /\ q * BlockSize \in Nat
  <2>1. Len(disk) \in Nat /\ q \in Nat /\ BlockSize \in Nat \ {0}
    BY LenProperties, FormatAssumption DEF TypeOK
  <2>. QED
    BY <2>1, Geometry, Multiples
<1>5. Len(disk') = q * BlockSize + block_offset'
  BY <1>1, <1>2, <1>3, <1>4, SizeType
<1>6. q \in 0..Len(disk')
  BY <1>1, <1>2, <1>4, SizeType
<1>. QED
  BY <1>5, <1>6 DEF OffsetsAgree

(* A prefix of an aligned file, with zeros behind it, is aligned.          *)
LEMMA PowerLossKeepsNoStraddle ==
  ASSUME TypeOK, NoStraddle, PowerLoss
  PROVE  NoStraddle'
<1>0. PICK n \in synced..Len(disk) : \E z \in 0..(Len(disk) - n) :
             disk' = SubSeq(disk, 1, n) \o Zeros(z)
  BY DEF PowerLoss
<1>1. PICK z \in 0..(Len(disk) - n) : disk' = SubSeq(disk, 1, n) \o Zeros(z)
  BY <1>0
<1>2. /\ Len(disk') = n + z
      /\ \A i \in 1..n : disk'[i] = disk[i]
      /\ \A i \in (n + 1)..(n + z) : disk'[i].at = 0
      /\ disk' \in Seq(Cell)
  BY <1>1, TornDisk
<1>3. synced \in Nat /\ Len(disk) \in Nat /\ n \in 0..Len(disk) /\ z \in Nat
  BY LenProperties DEF TypeOK
<1>. SUFFICES ASSUME NEW i \in 1..Len(disk'), disk'[i].at = 1
              PROVE  InOneBlock(i - 1, HeaderSize + Len(disk'[i].phys.data))
  BY <1>2, LenProperties DEF NoStraddle, InOneBlock
<1>4. i \in 1..n
  BY <1>2, <1>3
<1>5. i \in DOMAIN disk /\ disk'[i] = disk[i]
  BY <1>2, <1>3, <1>4, LenProperties DEF TypeOK
<1>. QED
  BY <1>5 DEF NoStraddle

(* It holds as long as no trailer is lost.                                 *)
LEMMA AlignmentInit == ASSUME Init PROVE AlignmentInv
<1>1. Len(disk) = 0 /\ DOMAIN disk = {} /\ block_offset = 0
  BY DEF Init
<1>2. 0 \in 0..Len(disk) /\ Len(disk) = 0 * BlockSize + block_offset
  BY <1>1, FormatAssumption
<1>. QED
  BY <1>1, <1>2 DEF AlignmentInv, OffsetsAgree, NoStraddle

LEMMA AlignmentStep ==
  ASSUME AlignmentInv, TypeOK, "lost" \notin TrailerOutcomes, [Next]_vars
  PROVE  AlignmentInv'
<1>1. ASSUME UNCHANGED <<disk, block_offset>>, Stopped => Stopped'
      PROVE  AlignmentInv'
  BY <1>1 DEF AlignmentInv, OffsetsAgree, NoStraddle, InOneBlock
<1>2. ASSUME NEW r \in Records, LogAddRecord(r)
      PROVE  AlignmentInv'
  BY <1>1, <1>2 DEF LogAddRecord, Stopped
<1>3. CASE EmitPhysicalRecord
  BY <1>3, EmitKeepsNoStraddle, EmitKeepsOffsetsAgree DEF AlignmentInv
<1>4. CASE EmitFails
  <2>1. OffsetsAgree'
    BY <1>4 DEF EmitFails, OffsetsAgree, Stopped
  <2>. QED
    BY <1>4, <2>1, EmitKeepsNoStraddle DEF AlignmentInv
<1>5. CASE TrailerCrash
  BY <1>1, <1>5 DEF TrailerCrash, Stopped
<1>6. CASE Sync
  BY <1>1, <1>6 DEF Sync, Stopped
<1>7. CASE Close
  BY <1>1, <1>7 DEF Close, Stopped
<1>8. CASE PowerLoss
  <2>1. OffsetsAgree'
    BY <1>8 DEF PowerLoss, OffsetsAgree, Stopped
  <2>. QED
    BY <1>8, <2>1, PowerLossKeepsNoStraddle DEF AlignmentInv
<1>9. CASE UNCHANGED vars
  BY <1>1, <1>9 DEF vars, Stopped
<1>. QED
  BY <1>2, <1>3, <1>4, <1>5, <1>6, <1>7, <1>8, <1>9 DEF Next

(* As long as no trailer is lost, the blocks of the file are where the     *)
(* reader will look for them: the writer's offset is that of the file, and *)
(* no physical record crosses a block boundary.                            *)
THEOREM AlignedUnlessLost ==
  ASSUME "lost" \notin TrailerOutcomes
  PROVE  Spec => [](OffsetsAgree /\ NoStraddle)
<1>1. Init => AlignmentInv
  BY AlignmentInit
<1>2. AlignmentInv /\ TypeOK /\ [Next]_vars => AlignmentInv'
  BY AlignmentStep
<1>3. AlignmentInv => OffsetsAgree /\ NoStraddle
  BY DEF AlignmentInv
<1>. QED
  BY <1>1, <1>2, <1>3, TypeCorrect, PTL DEF Spec
==============================================================================
