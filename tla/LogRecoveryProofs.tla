-------------------------- MODULE LogRecoveryProofs --------------------------
(***************************************************************************)
(* What is read back of a log whose blocks are where the writer believed   *)
(* them to be: at which offsets, how much of it when bytes were damaged,   *)
(* and with what reports; and that the log implements RecordLog when       *)
(* nothing was damaged.  For all records, block sizes and bounds, wherever *)
(* the writer stops.                                                       *)
(***************************************************************************)
EXTENDS LogSystemProofs

(***************************************************************************)
(* The writer's side.  The layout agrees with ends: the k-th record that   *)
(* was completed is what lies between its start and its end.               *)
(***************************************************************************)

Covered(G) == Len(disk) <= Len(G)

FirstOpens(G) == Len(G) > 0 => Opens(G[1].phys)

Starts(G) ==
  \A i \in 1..Len(G) :
    G[i].at = 1 /\ Opens(G[i].phys) =>
      G[i].rec <= Len(ends) + 1 /\ StartOf(G[i].rec) = i - 1

Ends(G) ==
  \A k \in 1..Len(ends) :
    /\ ends[k] \in 1..Len(G)
    /\ G[ends[k]].rec = k
    /\ IsEnd(G[ends[k]])
    /\ Closes(G[ends[k]].phys)

(* A record whose last byte is in the file was completed.                  *)
Ended(G) ==
  \A i \in 1..Len(disk) :
    IsEnd(G[i]) /\ Closes(G[i].phys) => G[i].rec <= Len(ends)

WriterEnds(G) ==
  /\ Len(ends) <= Len(log)
  /\ wpc = "adding" => Len(log) = Len(ends) + 1
  /\ wpc \in {"idle", "added"} => Len(log) = Len(ends)
  /\ wpc \in {"idle", "added"} \/ (wpc = "adding" /\ begin) =>
       Len(G) = StartOf(Len(ends) + 1)

Numbered(G) ==
  Covered(G) /\ FirstOpens(G) /\ Starts(G) /\ Ends(G) /\ Ended(G)
    /\ WriterEnds(G)

(* No fragment crosses a block boundary.                                   *)
Straight(G) ==
  aligned => \A i \in 1..Len(G) :
               G[i].at = 1 => Writer!InOneBlock(i - 1, Size(G[i].phys))

WrittenInv(G) == LogInv(G) /\ Numbered(G) /\ Straight(G)

LEMMA EndsType ==
  ASSUME TypeOK
  PROVE  /\ ends \in Seq(Nat) /\ Len(ends) \in Nat /\ DOMAIN ends = 1..Len(ends)
         /\ \A k \in 1..Len(ends) : ends[k] \in Nat
         /\ log \in Seq(Seq(Byte)) /\ Len(log) \in Nat
BY LenProperties DEF TypeOK, Writer!TypeOK

(* A completed record is counted: what is said of the others stays.        *)
LEMMA OneMoreEnd ==
  ASSUME TypeOK, NEW e \in Nat, ends' = Append(ends, e)
  PROVE  /\ Len(ends') = Len(ends) + 1
         /\ \A k \in 1..Len(ends) : ends'[k] = ends[k]
         /\ ends'[Len(ends) + 1] = e
         /\ \A k \in 1..(Len(ends) + 1) : StartOf(k)' = StartOf(k)
         /\ StartOf(Len(ends) + 1)' = e
<1>1. /\ Len(ends') = Len(ends) + 1
      /\ \A k \in 1..Len(ends) : ends'[k] = ends[k]
      /\ ends'[Len(ends) + 1] = e
  BY EndsType, AppendProperties
<1>2. ASSUME NEW k \in 1..(Len(ends) + 1)
      PROVE  StartOf(k)' = StartOf(k)
  <2>1. CASE k = 1
    BY <2>1 DEF StartOf
  <2>2. CASE k # 1
    <3>1. k - 1 \in 1..Len(ends)
      BY <2>2, EndsType
    <3>2. ends'[k - 1] = ends[k - 1]
      BY <1>1, <3>1
    <3>. QED
      BY <2>2, <3>2 DEF StartOf
  <2>. QED
    BY <2>1, <2>2
<1>3. StartOf(Len(ends) + 1)' = e
  <2>1. /\ Len(ends') + 1 # 1
        /\ (Len(ends') + 1) - 1 = Len(ends) + 1
    BY <1>1, EndsType
  <2>. QED
    BY <1>1, <2>1 DEF StartOf
<1>. QED
  BY <1>1, <1>2, <1>3

(* Steps that neither lengthen the file nor complete a record.             *)
LEMMA StaysNumbered ==
  ASSUME TypeInv, NEW G, Numbered(G), ends' = ends, Len(disk') \in Nat,
         Len(disk') <= Len(disk), Len(log) <= Len(log'),
         \/ wpc' = wpc /\ begin' = begin /\ log' = log
         \/ wpc' \notin {"idle", "adding", "added"}
         \/ wpc = "added" /\ wpc' = "idle" /\ log' = log
         \/ wpc = "idle" /\ wpc' = "adding" /\ Len(log') = Len(log) + 1
  PROVE  Numbered(G)'
<1>1. Len(disk) \in Nat /\ Len(ends) \in Nat /\ Len(log) \in Nat
  BY DiskType, EndsType DEF TypeInv
<1>2. \A k : StartOf(k)' = StartOf(k)
  BY DEF StartOf
<1>3. Starts(G)' /\ Ends(G)' /\ FirstOpens(G)'
  BY <1>2 DEF Numbered, Starts, Ends, FirstOpens
<1>4. Ended(G)' /\ (Len(disk) <= Len(G) => Len(disk') <= Len(G))
  BY <1>1 DEF Numbered, Ended, Covered
<1>5. Covered(G)'
  <2>1. Len(disk) <= Len(G)
    BY DEF Numbered, Covered
  <2>. QED
    BY <1>4, <2>1 DEF Covered
<1>6. WriterEnds(G)'
  <2>1. StartOf(Len(ends) + 1)' = StartOf(Len(ends) + 1)
    BY <1>2
  <2>. QED
    BY <1>1, <2>1 DEF Numbered, WriterEnds
<1>. QED
  BY <1>3, <1>4, <1>5, <1>6 DEF Numbered

(* A fragment of which at least a byte reached the file.                   *)
LEMMA EmitStaysNumbered ==
  ASSUME TypeInv, NEW G, Layout(G), WriterAt(G), Numbered(G),
         Writer!EmitPhysicalRecord \/ Writer!EmitFails,
         NEW p, NEW r, NEW from, NEW m, Emits(G, p, r, from, m)
  PROVE  Numbered(Grown(G, p, r, from))'
<1>1. PICK H : H = Grown(G, p, r, from)
  OBVIOUS
<1>2. /\ p \in Physical /\ r = Len(log) /\ r \in Nat /\ from \in Nat
      /\ Fits(G, p, r, from)
      /\ Opens(p) <=> begin
      /\ Closes(p) <=> left' = 0
      /\ ~begin'
      /\ m \in 0..Size(p) /\ Len(disk') = Len(disk) + m
      /\ Writer!EmitPhysicalRecord => m = Size(p)
      /\ Writer!EmitFails => m < Size(p)
  BY DEF Emits
<1>3. Extends(H, G, p, r, from)
  BY <1>1, <1>2, GrownCells DEF Layout
<1>4. /\ H \in Seq(Origin)
      /\ Len(G) \in Nat /\ Size(p) \in Nat \ {0}
      /\ Len(H) = Len(G) + Size(p)
      /\ \A i \in 1..Len(G) : H[i] = G[i]
      /\ \A k \in 1..Size(p) :
           H[Len(G) + k] = [phys |-> p, at |-> k, rec |-> r, from |-> from]
  BY <1>3 DEF Extends
<1>5. /\ Len(disk) \in Nat /\ Len(ends) \in Nat /\ Len(disk) = Len(G)
      /\ \A k \in 1..Len(ends) : ends[k] \in Nat
  BY DiskType, EndsType DEF TypeInv, WriterAt, Writer!Stopped,
     Writer!EmitPhysicalRecord, Writer!EmitFails
<1>6. /\ wpc = "adding" /\ log' = log /\ r = Len(ends) + 1
      /\ begin => Len(G) = StartOf(r)
  BY <1>2 DEF Numbered, WriterEnds, Writer!EmitPhysicalRecord, Writer!EmitFails
<1>. DEFINE Done == ends' = Append(ends, Len(disk')) /\ wpc' = "added"
                      /\ Closes(p) /\ m = Size(p)
<1>7. \/ ends' = ends /\ wpc' = "failed" /\ m < Size(p)
      \/ ends' = ends /\ wpc' = "adding" /\ ~Closes(p)
      \/ Done
  <2>1. CASE Writer!EmitFails
    BY <1>2, <2>1 DEF Writer!EmitFails
  <2>2. CASE Writer!EmitPhysicalRecord
    <3>1. CASE left' > 0 /\ UNCHANGED <<wpc, ends>>
      BY <1>2, <1>6, <3>1
    <3>2. CASE left' = 0 /\ wpc' = "added" /\ ends' = Append(ends, Len(disk'))
      BY <1>2, <2>2, <3>2
    <3>. QED
      BY <2>2, <3>1, <3>2 DEF Writer!EmitPhysicalRecord
  <2>. QED
    BY <2>1, <2>2
<1>8. Done => /\ Len(disk') = Len(H) /\ Len(disk') \in Nat
              /\ Len(ends') = r /\ ends'[r] = Len(H)
              /\ StartOf(Len(ends) + 1)' = Len(H)
  <2>. SUFFICES ASSUME Done
                PROVE  /\ Len(disk') = Len(H) /\ Len(disk') \in Nat
                       /\ Len(ends') = r /\ ends'[r] = Len(H)
                       /\ StartOf(Len(ends) + 1)' = Len(H)
    OBVIOUS
  <2>1. Len(disk') = Len(H) /\ Len(disk') \in Nat
    BY <1>2, <1>4, <1>5
  <2>2. TypeOK
    BY DEF TypeInv
  <2>3. PICK e \in Nat : e = Len(disk')
    BY <2>1
  <2>4. ends' = Append(ends, e)
    BY <2>3
  <2>. HIDE DEF Done
  <2>. QED
    BY <1>6, <2>1, <2>2, <2>3, <2>4, OneMoreEnd
<1>9. /\ Len(ends') >= Len(ends) /\ Len(ends') \in Nat
      /\ \A k \in 1..Len(ends) : ends'[k] = ends[k]
      /\ \A k \in 1..(Len(ends) + 1) : StartOf(k)' = StartOf(k)
  <2>1. CASE ends' = ends
    BY <1>5, <2>1 DEF StartOf
  <2>2. CASE Done
    <3>1. TypeOK
      BY DEF TypeInv
    <3>2. PICK e \in Nat : e = Len(disk')
      BY <1>8, <2>2
    <3>3. ends' = Append(ends, e)
      BY <2>2, <3>2
    <3>. HIDE DEF Done
    <3>. QED
      BY <1>5, <3>1, <3>3, OneMoreEnd
  <2>. QED
    BY <1>7, <2>1, <2>2
<1>10. ASSUME NEW i \in 1..Len(H)
       PROVE  \/ i \in 1..Len(G) /\ H[i] = G[i]
              \/ \E k \in 1..Size(p) :
                   /\ i = Len(G) + k
                   /\ H[i] = [phys |-> p, at |-> k, rec |-> r, from |-> from]
  <2>1. CASE i <= Len(G)
    BY <1>4, <2>1
  <2>2. CASE ~(i <= Len(G))
    <3>1. PICK k \in 1..Size(p) : i = Len(G) + k
      <4>1. i - Len(G) \in 1..Size(p) /\ i = Len(G) + (i - Len(G))
        BY <1>4, <2>2
      <4>. QED
        BY <4>1
    <3>. QED
      BY <1>4, <3>1
  <2>. QED
    BY <2>1, <2>2
<1>11. Covered(H)'
  BY <1>2, <1>4, <1>5 DEF Covered
<1>12. FirstOpens(H)'
  <2>1. CASE Len(G) > 0
    <3>1. 1 \in 1..Len(G) /\ H[1] = G[1]
      BY <1>4, <2>1
    <3>. QED
      BY <2>1, <3>1 DEF Numbered, FirstOpens
  <2>2. CASE ~(Len(G) > 0)
    <3>1. Opens(p)
      BY <1>2, <2>2 DEF Fits
    <3>2. 1 \in 1..Size(p) /\ Len(G) + 1 = 1
      BY <1>4, <2>2
    <3>3. H[1].phys = p
      <4>1. H[Len(G) + 1] = [phys |-> p, at |-> 1, rec |-> r, from |-> from]
        BY <1>4, <3>2
      <4>. QED
        BY <3>2, <4>1
    <3>. QED
      BY <3>1, <3>3 DEF FirstOpens
  <2>. QED
    BY <2>1, <2>2
<1>13. Starts(H)'
  <2>. SUFFICES ASSUME NEW i \in 1..Len(H), H[i].at = 1, Opens(H[i].phys)
                PROVE  H[i].rec <= Len(ends') + 1 /\ StartOf(H[i].rec)' = i - 1
    BY DEF Starts
  <2>1. CASE i \in 1..Len(G) /\ H[i] = G[i]
    <3>1. H[i].rec <= Len(ends) + 1 /\ StartOf(H[i].rec) = i - 1
      BY <2>1 DEF Numbered, Starts
    <3>2. H[i].rec \in 1..(Len(ends) + 1)
      <4>1. G[i].rec \in 1..Len(log)
        BY <2>1 DEF Layout, Fragments, FragmentOf
      <4>. QED
        BY <2>1, <3>1, <4>1, <1>5
    <3>3. StartOf(H[i].rec)' = StartOf(H[i].rec)
      BY <1>9, <3>2
    <3>. QED
      BY <1>5, <1>9, <3>1, <3>2, <3>3
  <2>2. CASE \E k \in 1..Size(p) :
               /\ i = Len(G) + k
               /\ H[i] = [phys |-> p, at |-> k, rec |-> r, from |-> from]
    <3>1. i = Len(G) + 1 /\ H[i].rec = r /\ H[i].phys = p
      BY <2>2
    <3>2. Len(G) = StartOf(r)
      BY <1>2, <1>6, <3>1
    <3>3. r \in 1..(Len(ends) + 1)
      BY <1>5, <1>6
    <3>4. StartOf(r)' = StartOf(r)
      BY <1>9, <3>3
    <3>. QED
      BY <1>4, <1>5, <1>6, <1>9, <3>1, <3>2, <3>4
  <2>. QED
    BY <1>10, <2>1, <2>2
<1>14. Ends(H)'
  <2>. SUFFICES ASSUME NEW k \in 1..Len(ends')
                PROVE  /\ ends'[k] \in 1..Len(H)
                       /\ H[ends'[k]].rec = k
                       /\ IsEnd(H[ends'[k]])
                       /\ Closes(H[ends'[k]].phys)
    BY DEF Ends
  <2>1. CASE k <= Len(ends)
    <3>1. k \in 1..Len(ends) /\ ends'[k] = ends[k]
      BY <1>5, <1>9, <2>1
    <3>2. /\ ends[k] \in 1..Len(G) /\ G[ends[k]].rec = k
          /\ IsEnd(G[ends[k]]) /\ Closes(G[ends[k]].phys)
      BY <3>1 DEF Numbered, Ends
    <3>. QED
      BY <1>4, <3>1, <3>2
  <2>2. CASE ~(k <= Len(ends))
    <3>1. Done /\ k = r
      BY <1>5, <1>6, <1>7, <1>8, <1>9, <2>2
    <3>2. ends'[k] = Len(H) /\ Size(p) \in 1..Size(p) /\ Len(H) \in 1..Len(H)
      BY <1>4, <1>8, <3>1
    <3>3. H[Len(H)] = [phys |-> p, at |-> Size(p), rec |-> r, from |-> from]
      BY <1>4, <3>2
    <3>. QED
      BY <3>1, <3>2, <3>3 DEF IsEnd
  <2>. QED
    BY <2>1, <2>2
<1>15. Ended(H)'
  <2>. SUFFICES ASSUME NEW i \in 1..Len(disk'), IsEnd(H[i]), Closes(H[i].phys)
                PROVE  H[i].rec <= Len(ends')
    BY DEF Ended
  <2>0. i \in 1..Len(H)
    BY <1>2, <1>4, <1>5
  <2>1. CASE i \in 1..Len(G) /\ H[i] = G[i]
    <3>1. G[i].rec <= Len(ends)
      BY <1>5, <2>1 DEF Numbered, Ended
    <3>2. G[i] \in Origin
      BY <2>1, ElementOfSeq DEF Layout
    <3>3. G[i].rec \in Nat
      BY <3>2 DEF Origin
    <3>. QED
      BY <1>5, <1>9, <2>1, <3>1, <3>3
  <2>2. CASE \E k \in 1..Size(p) :
               /\ i = Len(G) + k
               /\ H[i] = [phys |-> p, at |-> k, rec |-> r, from |-> from]
    <3>1. i = Len(G) + Size(p) /\ H[i].rec = r /\ H[i].phys = p
      BY <2>2 DEF IsEnd
    <3>2. m = Size(p)
      BY <1>2, <1>4, <1>5, <3>1
    <3>3. Done
      BY <1>4, <1>7, <3>1, <3>2
    <3>. QED
      BY <1>2, <1>8, <3>1, <3>3
  <2>. QED
    BY <1>10, <2>0, <2>1, <2>2
<1>16. WriterEnds(H)'
  <2>1. CASE Done
    <3>1. Len(ends') = r /\ Len(H) = StartOf(Len(ends) + 1)' /\ wpc' = "added"
      BY <1>8, <2>1
    <3>. QED
      BY <1>2, <1>6, <3>1 DEF WriterEnds
  <2>2. CASE ends' = ends /\ wpc' \in {"failed", "adding"}
    BY <1>2, <1>5, <1>6, <2>2 DEF WriterEnds
  <2>. QED
    BY <1>7, <2>1, <2>2
<1>. QED
  BY <1>1, <1>11, <1>12, <1>13, <1>14, <1>15, <1>16 DEF Numbered

(* What does not touch the file as it is laid out: of a fragment of which  *)
(* no byte reached the file nothing is known.                              *)
LEMMA NothingEmitted ==
  ASSUME TypeInv, TypeInv', Write, NEW G, WrittenInv(G),
         Writer!EmitFails,
         NEW p, NEW r, NEW from, Emits(G, p, r, from, 0)
  PROVE  WrittenInv(G)'
<1>1. /\ Layout(G) /\ OnDisk(G) /\ Numbered(G) /\ Straight(G)
      /\ Len(disk) \in Nat
  BY DiskType DEF WrittenInv, LogInv, TypeInv
<1>2. /\ Len(disk') = Len(disk) /\ \A i \in 1..Len(disk) : disk'[i] = disk[i]
  BY <1>1 DEF Emits
<1>3. /\ log' = log /\ ends' = ends /\ wpc' = "failed"
      /\ aligned' => aligned
  BY DEF Writer!EmitFails, Write
<1>4. Layout(G)' /\ OnDisk(G)' /\ WriterAt(G)'
  BY <1>1, <1>2, <1>3
     DEF Layout, Fragments, FragmentOf, OnDisk, WriterAt, Writer!Stopped
<1>5. ReaderAt(G)'
  BY FreshReader DEF Write, Unread, readerVars
<1>6. Numbered(G)'
  <2>1. Len(log) <= Len(log')
    BY <1>3, EndsType DEF TypeInv
  <2>. QED
    BY <1>1, <1>2, <1>3, <2>1, StaysNumbered
<1>7. Straight(G)'
  BY <1>1, <1>3 DEF Straight, Writer!InOneBlock
<1>. QED
  BY <1>4, <1>5, <1>6, <1>7 DEF WrittenInv, LogInv

LEMMA EmitStaysStraight ==
  ASSUME TypeInv, TypeInv', Write, NEW G, Layout(G), WriterAt(G), Straight(G),
         Writer!EmitPhysicalRecord \/ Writer!EmitFails,
         NEW p, NEW r, NEW from, NEW m, Emits(G, p, r, from, m), m # 0
  PROVE  Straight(Grown(G, p, r, from))'
<1>1. PICK H : H = Grown(G, p, r, from)
  OBVIOUS
<1>2. /\ p \in Physical /\ r \in Nat /\ from \in Nat
      /\ m \in 0..Size(p) /\ Len(disk') = Len(disk) + m
      /\ \A k \in 1..m : disk'[Len(disk) + k].phys = p
                         /\ disk'[Len(disk) + k].at = k
  BY DEF Emits
<1>3. Extends(H, G, p, r, from)
  BY <1>1, <1>2, GrownCells DEF Layout
<1>4. /\ Len(G) \in Nat /\ Size(p) \in Nat \ {0}
      /\ Len(H) = Len(G) + Size(p)
      /\ \A i \in 1..Len(G) : H[i] = G[i]
      /\ \A k \in 1..Size(p) :
           H[Len(G) + k] = [phys |-> p, at |-> k, rec |-> r, from |-> from]
  BY <1>3 DEF Extends
<1>5. Len(disk) = Len(G) /\ Len(disk) \in Nat
  BY DiskType DEF TypeInv, WriterAt, Writer!Stopped,
     Writer!EmitPhysicalRecord, Writer!EmitFails
<1>6. SUFFICES ASSUME aligned', NEW i \in 1..Len(H), H[i].at = 1
               PROVE  Writer!InOneBlock(i - 1, Size(H[i].phys))
  BY <1>1 DEF Straight, Writer!InOneBlock
<1>7. aligned /\ Writer!NoStraddle'
  BY <1>6 DEF Write
<1>8. CASE i <= Len(G)
  <2>1. i \in 1..Len(G) /\ H[i] = G[i]
    BY <1>4, <1>8
  <2>. QED
    BY <1>6, <1>7, <2>1 DEF Straight
<1>9. CASE ~(i <= Len(G))
  <2>1. PICK k \in 1..Size(p) : i = Len(G) + k
    <3>1. i - Len(G) \in 1..Size(p) /\ i = Len(G) + (i - Len(G))
      BY <1>4, <1>9
    <3>. QED
      BY <3>1
  <2>2. H[i] = [phys |-> p, at |-> k, rec |-> r, from |-> from]
    BY <1>4, <2>1
  <2>3. k = 1 /\ i = Len(disk) + 1 /\ H[i].phys = p
    BY <1>5, <1>6, <2>1, <2>2
  <2>4. 1 \in 1..m /\ i \in 1..Len(disk')
    BY <1>2, <1>4, <1>5, <2>3
  <2>5. disk'[i].phys = p /\ disk'[i].at = 1
    BY <1>2, <2>3, <2>4
  <2>6. i \in DOMAIN disk'
    <3>1. i \in 1..Len(disk') /\ disk' \in Seq(Cell)
      BY <2>4, SameFormat DEF TypeInv, TypeOK, Writer!TypeOK
    <3>. QED
      BY <3>1, LenProperties
  <2>7. Writer!InOneBlock(i - 1, HeaderSize + Len(p.data))
    BY <1>7, <2>5, <2>6 DEF Writer!NoStraddle, Writer!InOneBlock
  <2>. QED
    BY <2>3, <2>7 DEF Size
<1>. QED
  BY <1>8, <1>9

(* The other steps of the writer, which only cut the file short, if they   *)
(* change it at all.                                                       *)
LEMMA OthersStayWritten ==
  ASSUME TypeInv, TypeInv', Write, NEW G, WrittenInv(G),
         ~(Writer!EmitPhysicalRecord \/ Writer!EmitFails)
  PROVE  WrittenInv(G)'
<1>1. LogInv(G) /\ Numbered(G) /\ Straight(G) /\ TypeOK
  BY DEF WrittenInv, TypeInv
<1>2. LogInv(G)'
  BY <1>1, OthersKeepLayout
<1>3. /\ Len(disk) \in Nat /\ Len(disk') \in Nat
      /\ disk \in Seq(Cell) /\ \A i \in 1..Len(disk) : disk[i] \in Cell
      /\ log \in Seq(Seq(Byte)) /\ Len(log) \in Nat
  <2>1. disk' \in Seq(Cell)
    BY SameFormat DEF TypeInv, TypeOK, Writer!TypeOK
  <2>. QED
    BY <1>1, <2>1, DiskType, EndsType, LenProperties
<1>4. /\ ends' = ends
      /\ Len(disk') <= Len(disk)
      /\ Len(log) <= Len(log')
      /\ \/ wpc' = wpc /\ begin' = begin /\ log' = log
         \/ wpc' \notin {"idle", "adding", "added"}
         \/ wpc = "added" /\ wpc' = "idle" /\ log' = log
         \/ wpc = "idle" /\ wpc' = "adding" /\ Len(log') = Len(log) + 1
  <2>1. ASSUME NEW r \in Records, Writer!LogAddRecord(r)
        PROVE  /\ ends' = ends /\ disk' = disk
               /\ wpc = "idle" /\ wpc' = "adding" /\ Len(log') = Len(log) + 1
    <3>1. r \in Seq(Byte)
      BY SystemAssumption
    <3>. QED
      BY <1>3, <2>1, <3>1, AppendProperties DEF Writer!LogAddRecord
  <2>2. ASSUME Writer!PowerLoss
        PROVE  /\ ends' = ends /\ log' = log /\ wpc' = "crashed"
               /\ Len(disk') <= Len(disk)
    <3>0. PICK n \in synced..Len(disk) : \E z \in 0..(Len(disk) - n) :
                 disk' = SubSeq(disk, 1, n) \o Zeros(z)
      BY <2>2, SameBytes DEF Writer!PowerLoss
    <3>1. PICK z \in 0..(Len(disk) - n) : disk' = SubSeq(disk, 1, n) \o Zeros(z)
      BY <3>0
    <3>2. synced \in Nat
      BY <1>1 DEF TypeOK, Writer!TypeOK
    <3>3. n \in 0..Len(disk) /\ n \in Nat /\ z \in Nat /\ n + z <= Len(disk)
      BY <1>3, <3>2
    <3>4. SubSeq(disk, 1, n) \in Seq(Cell) /\ Len(SubSeq(disk, 1, n)) = n
      <4>1. \A i \in 1..n : disk[i] \in Cell
        BY <1>3, <3>3
      <4>2. /\ SubSeq(disk, 1, n) \in Seq(Cell)
            /\ Len(SubSeq(disk, 1, n)) = IF 1 <= n THEN n - 1 + 1 ELSE 0
        BY <3>3, <4>1, SubSeqProperties
      <4>. QED
        BY <3>3, <4>2
    <3>5. Zeros(z) \in Seq(Cell) /\ Len(Zeros(z)) = z
      BY <3>3, ZerosType
    <3>6. Len(disk') = n + z
      BY <3>1, <3>4, <3>5, ConcatProperties
    <3>. QED
      BY <1>3, <2>2, <3>3, <3>6 DEF Writer!PowerLoss
  <2>3. ASSUME Writer!TrailerCrash \/ Writer!Sync \/ Writer!Close
        PROVE  /\ ends' = ends /\ log' = log /\ disk' = disk
               /\ \/ wpc' \notin {"idle", "adding", "added"}
                  \/ wpc = "added" /\ wpc' = "idle"
    BY <2>3 DEF Writer!TrailerCrash, Writer!Sync, Writer!Close
  <2>. QED
    BY <1>3, <2>1, <2>2, <2>3 DEF Write, Writer!Next
<1>5. Numbered(G)'
  BY <1>1, <1>3, <1>4, StaysNumbered
<1>6. Straight(G)'
  BY <1>1 DEF Straight, Writer!InOneBlock, Write
<1>. QED
  BY <1>2, <1>5, <1>6 DEF WrittenInv

LEMMA WriteStaysWritten ==
  ASSUME TypeInv, TypeInv', Write, NEW G, WrittenInv(G)
  PROVE  \E H : WrittenInv(H)'
<1>1. /\ Layout(G) /\ OnDisk(G) /\ WriterAt(G) /\ Numbered(G) /\ Straight(G)
  BY DEF WrittenInv, LogInv
<1>2. CASE Writer!EmitPhysicalRecord \/ Writer!EmitFails
  <2>1. PICK p, r, from, m : Emits(G, p, r, from, m)
    BY <1>1, <1>2, EmitAppends
  <2>2. CASE m # 0
    <3>1. PICK H : H = Grown(G, p, r, from)
      OBVIOUS
    <3>2. Layout(H)' /\ OnDisk(H)' /\ WriterAt(H)'
      BY <1>1, <1>2, <2>1, <3>1, EmitKeepsLayout
    <3>3. Numbered(H)'
      BY <1>1, <1>2, <2>1, <3>1, EmitStaysNumbered
    <3>4. Straight(H)'
      BY <1>1, <1>2, <2>1, <2>2, <3>1, EmitStaysStraight
    <3>5. ReaderAt(H)'
      BY FreshReader DEF Write, Unread, readerVars
    <3>. QED
      BY <3>2, <3>3, <3>4, <3>5 DEF WrittenInv, LogInv
  <2>3. CASE m = 0
    <3>1. Writer!EmitFails
      <4>1. Size(p) # 0
        <5>1. p.data \in Seq(Byte)
          BY <2>1 DEF Emits, Physical
        <5>. QED
          BY <5>1, LenProperties, FormatAssumption DEF Size
      <4>. QED
        BY <1>2, <2>1, <2>3, <4>1 DEF Emits
    <3>2. Emits(G, p, r, from, 0)
      BY <2>1, <2>3
    <3>. QED
      BY <3>1, <3>2, NothingEmitted
  <2>. QED
    BY <2>2, <2>3
<1>. QED
  BY <1>2, OthersStayWritten

(* Damage and the reader leave what was written of the log.                *)
LEMMA FileStaysWritten ==
  ASSUME TypeInv, TypeInv', Damage \/ Read \/ UNCHANGED vars,
         NEW G, WrittenInv(G)
  PROVE  WrittenInv(G)'
<1>1. LogInv(G) /\ Numbered(G) /\ Straight(G) /\ TypeOK
  BY DEF WrittenInv, TypeInv
<1>2. LogInv(G)'
  <2>1. CASE UNCHANGED vars
    BY <1>1, <2>1
       DEF vars, writerVars, readerVars, LogInv, Layout, Fragments, FragmentOf,
       OnDisk, WriterAt, Writer!Stopped, ReaderAt, Contiguous, Stuck, Holds,
       Collected, DeliveredOf, Passed, Taken, Place
  <2>. QED
    BY <1>1, <2>1, DamageKeepsLayout, ReadKeepsLayout
<1>3. /\ Len(disk) \in Nat
      /\ Len(disk') = Len(disk)
      /\ ends' = ends /\ log' = log /\ wpc' = wpc /\ begin' = begin
      /\ aligned' = aligned
  <2>1. Len(disk) \in Nat /\ disk \in Seq(Cell)
    BY <1>1, DiskType
  <2>2. CASE Damage
    <3>1. PICK i \in 1..Len(disk) : disk' = [disk EXCEPT ![i] = JunkCell]
      BY <2>2 DEF Damage
    <3>2. Len(disk') = Len(disk)
      BY <2>1, <3>1
    <3>. QED
      BY <2>1, <2>2, <3>2 DEF Damage, writerVars
  <2>3. CASE Read
    BY <2>1, <2>3, ReaderLeavesFile DEF Read, writerVars
  <2>4. CASE UNCHANGED vars
    BY <2>1, <2>4 DEF vars, writerVars
  <2>. QED
    BY <2>2, <2>3, <2>4
<1>4. Numbered(G)'
  <2>1. Len(disk') \in Nat /\ Len(disk') <= Len(disk) /\ Len(log) <= Len(log')
    BY <1>1, <1>3, EndsType
  <2>. QED
    BY <1>1, <1>3, <2>1, StaysNumbered
<1>5. Straight(G)'
  BY <1>1, <1>3 DEF Straight, Writer!InOneBlock
<1>. QED
  BY <1>2, <1>4, <1>5 DEF WrittenInv

------------------------------------------------------------------------------
(***************************************************************************)
(* Where fragments lie.                                                    *)
(***************************************************************************)

(* What begins before the end of a block and is in one block ends there.   *)
LEMMA EndsInBlock ==
  ASSUME NEW o \in Nat, NEW n \in Nat, NEW q \in Nat,
         Writer!InOneBlock(o, n), o < q * BlockSize
  PROVE  o + n <= q * BlockSize
<1>1. PICK c \in 0..o :
             c * BlockSize <= o /\ o + n <= (c + 1) * BlockSize
  BY DEF Writer!InOneBlock
<1>2. c \in Nat /\ BlockSize \in Nat \ {0}
  BY FormatAssumption
<1>3. /\ c * BlockSize \in Nat /\ q * BlockSize \in Nat
      /\ (c + 1) * BlockSize \in Nat
  BY <1>2
<1>4. c < q
  <2>1. SUFFICES ASSUME q <= c PROVE FALSE
    BY <1>2
  <2>2. q * BlockSize <= c * BlockSize
    BY <1>2, <2>1
  <2>. QED
    BY <1>1, <1>3, <2>2
<1>5. (c + 1) * BlockSize <= q * BlockSize
  BY <1>2, <1>4
<1>. QED
  BY <1>1, <1>3, <1>5

LEMMA LayoutTypes ==
  ASSUME NEW G, Layout(G), log \in Seq(Seq(Byte))
  PROVE  /\ Len(G) \in Nat
         /\ \A i \in 1..Len(G) :
              /\ G[i] \in Origin /\ G[i].phys \in Physical
              /\ G[i].at \in 1..Size(G[i].phys) /\ G[i].at <= i
              /\ Size(G[i].phys) \in Nat /\ Size(G[i].phys) >= HeaderSize
              /\ G[i].rec \in 1..Len(log) /\ G[i].rec \in Nat
              /\ G[i].from \in Nat
              /\ Len(G[i].phys.data) \in Nat
<1>1. Len(G) \in Nat /\ \A i \in 1..Len(G) : G[i] \in Origin
  BY LenProperties DEF Layout
<1>2. ASSUME NEW i \in 1..Len(G)
      PROVE  /\ G[i] \in Origin /\ G[i].phys \in Physical
             /\ G[i].at \in 1..Size(G[i].phys) /\ G[i].at <= i
             /\ Size(G[i].phys) \in Nat /\ Size(G[i].phys) >= HeaderSize
             /\ G[i].rec \in 1..Len(log) /\ G[i].rec \in Nat
             /\ G[i].from \in Nat
             /\ Len(G[i].phys.data) \in Nat
  <2>1. /\ G[i] \in Origin /\ G[i].phys \in Physical /\ G[i].from \in Nat
        /\ G[i].rec \in Nat /\ G[i].phys.data \in Seq(Byte)
    BY <1>1 DEF Origin, Physical
  <2>2. Len(G[i].phys.data) \in Nat
    BY <2>1, LenProperties
  <2>3. Size(G[i].phys) \in Nat /\ Size(G[i].phys) >= HeaderSize
    BY <2>2, FormatAssumption DEF Size
  <2>4. G[i].at \in 1..Size(G[i].phys) /\ G[i].rec \in 1..Len(log)
    BY DEF Layout, Fragments, FragmentOf
  <2>5. G[i].at <= i
    BY DEF Layout, Whole
  <2>. QED
    BY <2>1, <2>2, <2>3, <2>4, <2>5
<1>. QED
  BY <1>1, <1>2

(* Where the fragment starts that the i-th byte is of.                     *)
FirstOf(G, i) == i - G[i].at + 1

LEMMA FragmentStarts ==
  ASSUME NEW G, Layout(G), log \in Seq(Seq(Byte)), NEW i \in 1..Len(G)
  PROVE  /\ FirstOf(G, i) \in 1..i /\ FirstOf(G, i) \in 1..Len(G)
         /\ G[FirstOf(G, i)].at = 1
         /\ G[FirstOf(G, i)].phys = G[i].phys
         /\ G[FirstOf(G, i)].rec = G[i].rec
         /\ G[FirstOf(G, i)].from = G[i].from
<1>1. Len(G) \in Nat /\ G[i].at \in Nat /\ G[i].at >= 1 /\ G[i].at <= i
  BY LayoutTypes
<1>2. G[i].at - 1 \in 0..(G[i].at - 1) /\ i - (G[i].at - 1) = FirstOf(G, i)
  BY <1>1 DEF FirstOf
<1>3. Before(G[i - (G[i].at - 1)], G[i], G[i].at - 1)
  BY <1>2 DEF Layout, Whole
<1>4. Before(G[FirstOf(G, i)], G[i], G[i].at - 1)
  BY <1>2, <1>3
<1>5. G[i].at - (G[i].at - 1) = 1
  BY <1>1
<1>. QED
  BY <1>1, <1>4, <1>5 DEF Before, FirstOf

(* Behind the end of a fragment another one starts.                        *)
LEMMA NextStarts ==
  ASSUME NEW G, Layout(G), log \in Seq(Seq(Byte)),
         NEW i \in 1..Len(G), i + 1 \in 1..Len(G), IsEnd(G[i])
  PROVE  G[i + 1].at = 1
<1>. DEFINE j == i + 1
<1>1. /\ G[j].at \in Nat /\ G[j].at >= 1 /\ G[j].at <= Size(G[j].phys)
      /\ Size(G[j].phys) \in Nat /\ j \in Nat
  BY LayoutTypes
<1>2. SUFFICES ASSUME G[j].at # 1 PROVE FALSE
  OBVIOUS
<1>3. 1 \in 0..(G[j].at - 1) /\ j - 1 = i
  BY <1>1, <1>2
<1>4. Before(G[i], G[j], 1)
  <2>1. Before(G[j - 1], G[j], 1)
    BY <1>3 DEF Layout, Whole
  <2>. QED
    BY <1>3, <2>1
<1>. HIDE DEF j
<1>. QED
  BY <1>1, <1>4 DEF Before, IsEnd

(* A block starts with a fragment.                                         *)
LEMMA BlockStarts ==
  ASSUME NEW G, Layout(G), log \in Seq(Seq(Byte)), Straight(G), aligned,
         NEW q \in Nat, q * BlockSize < Len(G)
  PROVE  q * BlockSize + 1 \in 1..Len(G) /\ G[q * BlockSize + 1].at = 1
<1>1. /\ Len(G) \in Nat /\ q * BlockSize \in Nat
  BY LayoutTypes, FormatAssumption
<1>2. PICK e \in Nat : e = q * BlockSize
  BY <1>1
<1>3. e + 1 \in 1..Len(G)
  BY <1>1, <1>2
<1>4. SUFFICES ASSUME G[e + 1].at # 1 PROVE FALSE
  BY <1>2, <1>3
<1>5. PICK i : i = e + 1
  OBVIOUS
<1>6. /\ i \in 1..Len(G) /\ i \in Nat
      /\ G[i].at \in Nat /\ G[i].at >= 1 /\ G[i].at <= i
      /\ G[i].at <= Size(G[i].phys) /\ Size(G[i].phys) \in Nat
  BY <1>3, <1>5, LayoutTypes
<1>7. PICK s : s = FirstOf(G, i)
  OBVIOUS
<1>8. s \in 1..Len(G) /\ G[s].at = 1 /\ G[s].phys = G[i].phys /\ s \in Nat
  BY <1>6, <1>7, FragmentStarts
<1>9. s - 1 \in Nat /\ s - 1 < e /\ s - 1 + G[i].at = i
  <2>1. PICK a \in Nat : a = G[i].at
    BY <1>6
  <2>2. a # 1 /\ a >= 1
    BY <1>4, <1>5, <1>6, <2>1
  <2>3. s = i - a + 1
    BY <1>7, <2>1 DEF FirstOf
  <2>4. s - 1 \in Nat /\ s - 1 < e /\ s - 1 + a = i
    BY <1>5, <1>8, <2>2, <2>3
  <2>. QED
    BY <2>1, <2>4
<1>10. Writer!InOneBlock(s - 1, Size(G[i].phys))
  BY <1>8 DEF Straight
<1>11. s - 1 + Size(G[i].phys) <= e
  BY <1>2, <1>6, <1>9, <1>10, EndsInBlock
<1>. QED
  BY <1>5, <1>6, <1>8, <1>9, <1>11

------------------------------------------------------------------------------
(***************************************************************************)
(* Where the reader is in the file.                                        *)
(***************************************************************************)

(* A reader that may still skip to its first block has read nothing.       *)
Calls ==
  /\ Unread => /\ ~eof /\ end_of_buffer_offset = 0 /\ last_record_offset = 0
               /\ ~resyncing /\ ~reported /\ initial_offset = 0
  /\ rpc = "ready" =>
       \/ last_record_offset >= initial_offset
       \/ /\ buffer = << >> /\ ~eof
          /\ file_pos = 0 /\ end_of_buffer_offset = 0

AtBlock ==
  (\E q \in Nat : file_pos = q * BlockSize) \/ (eof /\ file_pos = Len(disk))

(* The buffer is the rest of a block.                                      *)
Within ==
  buffer # << >> =>
    \E q \in Nat :
      /\ q * BlockSize <= Place
      /\ file_pos <= (q + 1) * BlockSize
      /\ IF eof THEN file_pos = Len(disk) ELSE file_pos = (q + 1) * BlockSize

Steady(G) ==
  aligned =>
    /\ Contiguous
    /\ AtBlock
    /\ Within
    /\ buffer # << >> => G[Place + 1].at = 1
    /\ rpc \notin {"end", "crashed"} => end_of_buffer_offset = file_pos

(* What the code does before its buffer is filled again: nothing is left   *)
(* in it, because a header that starts in a block ends in it.              *)
LEMMA FragmentAhead ==
  ASSUME TypeInv, NEW G, WrittenInv(G), Steady(G), aligned, buffer # << >>
  PROVE  /\ Place \in Nat /\ Place < Len(disk)
         /\ Place + 1 \in 1..Len(disk) /\ Place + 1 \in 1..Len(G)
         /\ G[Place + 1].at = 1
         /\ Writer!InOneBlock(Place, Size(G[Place + 1].phys))
         /\ ~eof \/ Place + Size(G[Place + 1].phys) <= Len(disk)
              => Size(G[Place + 1].phys) <= Len(buffer)
<1>1. /\ file_pos \in Nat /\ Len(buffer) \in Nat /\ Len(buffer) > 0
      /\ Place \in Int /\ Place = file_pos - Len(buffer) /\ Len(disk) \in Nat
      /\ log \in Seq(Seq(Byte))
  <2>1. TypeOK
    BY DEF TypeInv
  <2>2. buffer \in Seq(Cell)
    BY <2>1, BufferType
  <2>. QED
    BY <2>1, <2>2, DiskType, EndsType, PlaceType, EmptySeq, LenProperties
<1>2. /\ Contiguous /\ Within /\ G[Place + 1].at = 1
      /\ Layout(G) /\ Straight(G) /\ Covered(G)
  BY DEF Steady, WrittenInv, LogInv, Numbered
<1>3. Place + 1 \in 1..Len(disk)
  <2>1. 1 \in 1..Len(buffer)
    BY <1>1
  <2>. QED
    BY <1>2, <2>1 DEF Contiguous
<1>4. Place \in Nat /\ Place < Len(disk) /\ Place + 1 \in 1..Len(G)
      /\ (Place + 1) - 1 = Place
  <2>1. Len(G) \in Nat
    BY <1>1, <1>2, LayoutTypes
  <2>. QED
    BY <1>1, <1>2, <1>3, <2>1 DEF Covered
<1>5. PICK n : n = Size(G[Place + 1].phys)
  OBVIOUS
<1>6. n \in Nat
  BY <1>1, <1>2, <1>4, <1>5, LayoutTypes
<1>7. Writer!InOneBlock(Place, n)
  <2>1. Writer!InOneBlock((Place + 1) - 1, Size(G[Place + 1].phys))
    BY <1>2, <1>4 DEF Straight
  <2>. QED
    BY <1>4, <1>5, <2>1
<1>8. CASE eof
  <2>1. file_pos = Len(disk)
    BY <1>2, <1>8 DEF Within
  <2>2. Place + n <= Len(disk) => n <= Len(buffer)
    BY <1>1, <1>6, <2>1
  <2>. QED
    BY <1>2, <1>3, <1>4, <1>5, <1>7, <1>8, <2>2
<1>9. CASE ~eof
  <2>1. PICK q \in Nat : file_pos = (q + 1) * BlockSize
    BY <1>2, <1>9 DEF Within
  <2>2. q + 1 \in Nat /\ Place < (q + 1) * BlockSize
    BY <1>1, <2>1
  <2>3. Place + n <= (q + 1) * BlockSize
    BY <1>4, <1>6, <1>7, <2>2, EndsInBlock
  <2>4. n <= Len(buffer)
    BY <1>1, <1>6, <2>1, <2>3
  <2>. QED
    BY <1>2, <1>3, <1>4, <1>5, <1>7, <1>9, <2>4
<1>. QED
  BY <1>8, <1>9

LEMMA NothingLeftOver ==
  ASSUME TypeInv, NEW G, WrittenInv(G), Steady(G), aligned,
         Len(buffer) < HeaderSize, ~eof
  PROVE  buffer = << >> /\ Len(buffer) = 0
<1>1. buffer = << >>
  <2>1. SUFFICES ASSUME buffer # << >> PROVE FALSE
    OBVIOUS
  <2>2. /\ Place + 1 \in 1..Len(G)
        /\ Size(G[Place + 1].phys) <= Len(buffer)
    BY <2>1, FragmentAhead
  <2>3. Layout(G) /\ log \in Seq(Seq(Byte)) /\ Len(buffer) \in Nat
    BY EndsType, BufferType DEF WrittenInv, LogInv, TypeInv
  <2>4. /\ Size(G[Place + 1].phys) \in Nat
        /\ Size(G[Place + 1].phys) >= HeaderSize
    BY <2>2, <2>3, LayoutTypes
  <2>. QED
    BY <2>2, <2>3, <2>4, FormatAssumption
<1>. QED
  BY <1>1

(* The reader's first block begins where a block does.                     *)
LEMMA InitialBlockStarts ==
  ASSUME initial_offset \in Nat
  PROVE  \E q \in Nat : Reader!InitialBlock = q * BlockSize
<1>1. /\ BlockSize \in Nat \ {0}
      /\ initial_offset \div BlockSize \in Nat
      /\ (initial_offset % BlockSize) \in Nat
  BY FormatAssumption
<1>2. PICK q, r : q = initial_offset \div BlockSize /\ r = (initial_offset % BlockSize)
  OBVIOUS
<1>3. initial_offset = q * BlockSize + r /\ q * BlockSize \in Nat
  <2>1. initial_offset = BlockSize * (initial_offset \div BlockSize)
                           + (initial_offset % BlockSize)
    BY <1>1
  <2>2. BlockSize * q = q * BlockSize /\ q * BlockSize \in Nat
    BY <1>1, <1>2
  <2>. QED
    BY <1>2, <2>1, <2>2
<1>4. initial_offset - r = q * BlockSize
  BY <1>1, <1>2, <1>3
<1>5. q * BlockSize + BlockSize = (q + 1) * BlockSize /\ q + 1 \in Nat
  BY <1>1, <1>2
<1>6. Reader!InitialBlock \in {q * BlockSize, (q + 1) * BlockSize}
  BY <1>2, <1>4, <1>5 DEF Reader!InitialBlock
<1>. QED
  BY <1>1, <1>2, <1>5, <1>6

(* How much of the file a read returns.                                    *)
LEMMA NextBlockLength ==
  ASSUME TypeOK
  PROVE  LET n == Len(Reader!NextBlock)
         IN  /\ n \in 0..BlockSize
             /\ n < BlockSize /\ n # 0 => file_pos + n = Len(disk)
             /\ n = 0 => Len(disk) <= file_pos
<1>. DEFINE n == IF Len(disk) - file_pos < BlockSize THEN Len(disk) - file_pos
                                                     ELSE BlockSize
            s == SubSeq(disk, file_pos + 1, file_pos + n)
<1>1. /\ file_pos \in Nat /\ BlockSize \in Nat \ {0} /\ Len(disk) \in Nat
      /\ n \in Int /\ file_pos + n <= Len(disk)
  BY DiskType, FormatAssumption DEF TypeOK, Reader!TypeOK
<1>2. Len(s) = IF n > 0 THEN n ELSE 0
  <2>. HIDE DEF n
  <2>1. \A i \in (file_pos + 1)..(file_pos + n) : disk[i] \in Cell
    BY <1>1, DiskType
  <2>2. file_pos + 1 \in Int /\ file_pos + n \in Int
    BY <1>1
  <2>3. Len(s) = IF file_pos + 1 <= file_pos + n
                 THEN (file_pos + n) - (file_pos + 1) + 1 ELSE 0
    BY <2>1, <2>2, SubSeqProperties
  <2>. QED
    BY <1>1, <2>3
<1>3. Reader!NextBlock = s
  BY DEF Reader!NextBlock
<1>. HIDE DEF s
<1>. QED
  BY <1>1, <1>2, <1>3

(* A block is read where the reader is.                                    *)
LEMMA FillIsSteady ==
  ASSUME TypeInv, TypeInv', NEW G, WrittenInv(G), Steady(G), aligned,
         Reader!FillBuffer, disk' = disk
  PROVE  /\ Place' = Place /\ Place = file_pos /\ Contiguous' /\ AtBlock'
         /\ Within'
         /\ buffer' # << >> => G[Place' + 1].at = 1
         /\ rpc = "physical" /\ rpc' = "physical"
         /\ end_of_buffer_offset' = file_pos'
<1>1. /\ TypeOK /\ WrittenInv(G) /\ Layout(G) /\ Straight(G) /\ Covered(G)
      /\ log \in Seq(Seq(Byte))
  BY EndsType DEF TypeInv, WrittenInv, LogInv, Numbered
<1>2. /\ rpc = "physical" /\ rpc' = "physical"
      /\ Len(buffer) < HeaderSize /\ ~eof
      /\ file_pos' = file_pos + Len(Reader!NextBlock)
      /\ end_of_buffer_offset' = end_of_buffer_offset + Len(buffer')
      /\ eof' = (Len(buffer') < BlockSize)
  BY DEF Reader!FillBuffer
<1>3. buffer = << >> /\ Len(buffer) = 0
  BY <1>2, NothingLeftOver
<1>4. /\ buffer' \in Seq(Cell) /\ Len(buffer') \in Nat
      /\ file_pos \in Nat /\ file_pos' \in Nat
      /\ file_pos' = file_pos + Len(buffer')
      /\ \A k \in 1..Len(buffer') : /\ file_pos + k \in 1..Len(disk)
                                    /\ buffer'[k] = disk[file_pos + k]
  <2>1. PICK pad \in {0, Len(buffer)} :
           /\ buffer' \in Seq(Cell)
           /\ Len(buffer') \in Nat
           /\ file_pos' = file_pos + Len(buffer') - pad
           /\ file_pos' \in Nat /\ file_pos' >= file_pos
           /\ \A k \in 1..Len(buffer') :
                /\ k <= pad => buffer'[k] = ZeroCell
                /\ k > pad =>
                     /\ file_pos + k - pad \in 1..Len(disk)
                     /\ buffer'[k] = disk[file_pos + k - pad]
    BY <1>1, Filled
  <2>2. pad = 0 /\ file_pos \in Nat
    BY <1>1, <1>3, PlaceType
  <2>3. ASSUME NEW k \in 1..Len(buffer')
        PROVE  file_pos + k \in 1..Len(disk) /\ buffer'[k] = disk[file_pos + k]
    <3>1. k > pad /\ file_pos + k - pad = file_pos + k
      BY <2>2
    <3>. QED
      BY <2>1, <3>1
  <2>. QED
    BY <2>1, <2>2, <2>3
<1>5. /\ Place = file_pos /\ Place' = file_pos
  BY <1>3, <1>4 DEF Place
<1>6. Contiguous'
  BY <1>4, <1>5 DEF Contiguous
<1>7. PICK n : n = Len(buffer')
  OBVIOUS
<1>15. eof' <=> n < BlockSize
  BY <1>2, <1>7
<1>8. /\ n \in 0..BlockSize
      /\ n < BlockSize /\ n # 0 => file_pos + n = Len(disk)
      /\ BlockSize \in Nat \ {0} /\ Len(disk) \in Nat
  <2>1. n = Len(Reader!NextBlock)
    <3>1. Len(Reader!NextBlock) \in Nat
      BY <1>1, NextBlockType
    <3>. QED
      BY <1>2, <1>4, <1>7, <3>1
  <2>. QED
    BY <1>1, <2>1, NextBlockLength, DiskType, FormatAssumption
<1>9. PICK q \in Nat : file_pos = q * BlockSize
  BY <1>1, <1>2 DEF Steady, AtBlock
<1>10. (q + 1) * BlockSize = file_pos + BlockSize /\ q + 1 \in Nat
  BY <1>8, <1>9
<1>11. AtBlock'
  <2>1. CASE n = BlockSize
    <3>1. file_pos' = (q + 1) * BlockSize
      BY <1>4, <1>7, <1>10, <2>1
    <3>. QED
      BY <1>10, <3>1 DEF AtBlock
  <2>2. CASE n = 0
    <3>1. file_pos' = q * BlockSize
      BY <1>4, <1>7, <1>9, <2>2
    <3>. QED
      BY <3>1 DEF AtBlock
  <2>3. CASE n # BlockSize /\ n # 0
    <3>1. n < BlockSize
      BY <1>8, <2>3
    <3>2. file_pos' = Len(disk')
      BY <1>4, <1>7, <1>8, <2>3, <3>1
    <3>. QED
      BY <1>15, <3>1, <3>2 DEF AtBlock
  <2>. QED
    BY <2>1, <2>2, <2>3
<1>12. Within'
  <2>1. SUFFICES ASSUME buffer' # << >>
                 PROVE  \E c \in Nat :
                          /\ c * BlockSize <= Place'
                          /\ file_pos' <= (c + 1) * BlockSize
                          /\ IF eof' THEN file_pos' = Len(disk')
                                     ELSE file_pos' = (c + 1) * BlockSize
    BY DEF Within
  <2>2. n # 0
    BY <1>4, <1>7, <2>1, EmptySeq
  <2>3. q * BlockSize <= Place'
    BY <1>4, <1>5, <1>9
  <2>4. file_pos' <= (q + 1) * BlockSize
    BY <1>4, <1>7, <1>8, <1>10
  <2>5. eof' => file_pos' = Len(disk')
    BY <1>4, <1>7, <1>8, <1>15, <2>2
  <2>6. ~eof' => file_pos' = (q + 1) * BlockSize
    <3>1. ~(n < BlockSize) => file_pos' = (q + 1) * BlockSize
      BY <1>4, <1>7, <1>8, <1>10
    <3>. QED
      BY <1>15, <3>1
  <2>. QED
    BY <2>3, <2>4, <2>5, <2>6
<1>13. ASSUME buffer' # << >>
       PROVE  G[Place' + 1].at = 1
  <2>1. 1 \in 1..Len(buffer')
    BY <1>4, <1>13, EmptySeq
  <2>2. file_pos + 1 \in 1..Len(disk)
    BY <1>4, <2>1
  <2>3. Len(G) \in Nat /\ Len(disk) <= Len(G)
    BY <1>1, LayoutTypes DEF Covered
  <2>4. q * BlockSize < Len(G)
    BY <1>4, <1>8, <1>9, <2>2, <2>3
  <2>. QED
    BY <1>1, <1>5, <1>9, <2>4, BlockStarts
<1>14. end_of_buffer_offset' = file_pos'
  <2>1. end_of_buffer_offset = file_pos
    BY <1>2 DEF Steady
  <2>. QED
    BY <1>2, <1>4, <2>1
<1>. QED
  BY <1>2, <1>5, <1>6, <1>11, <1>12, <1>13, <1>14

LEMMA FreshIsSteady ==
  ASSUME TypeInv', Calls', Unread', NEW G
  PROVE  Steady(G)'
<1>1. /\ buffer' = << >> /\ file_pos' = 0 /\ end_of_buffer_offset' = 0
      /\ Len(buffer') = 0
  BY DEF TypeInv, Fresh, Calls
<1>2. Contiguous' /\ Within'
  BY <1>1 DEF Contiguous, Within
<1>3. AtBlock'
  <2>1. file_pos' = 0 * BlockSize /\ 0 \in Nat
    BY <1>1, FormatAssumption
  <2>. QED
    BY <2>1 DEF AtBlock
<1>. QED
  BY <1>1, <1>2, <1>3 DEF Steady

(* Calls of the reader.                                                    *)
LEMMA CallIsSteady ==
  ASSUME TypeInv, TypeInv', Calls, NEW G, Steady(G), aligned, disk' = disk,
         Reader!Open \/ Reader!ReadLogRecord \/ Reader!SkipFails
  PROVE  /\ Contiguous' /\ AtBlock' /\ Within'
         /\ buffer' # << >> => G[Place' + 1].at = 1
         /\ rpc' \notin {"end", "crashed"} => end_of_buffer_offset' = file_pos'
<1>1. /\ Contiguous /\ AtBlock /\ Within
      /\ buffer # << >> => G[Place + 1].at = 1
      /\ rpc \notin {"end", "crashed"} => end_of_buffer_offset = file_pos
  BY DEF Steady
<1>2. buffer' = buffer /\ eof' = eof /\ initial_offset \in Nat
  BY DEF Reader!Open, Reader!ReadLogRecord, Reader!SkipFails,
     Reader!inputVars, TypeInv, TypeOK, Reader!TypeOK
<1>3. CASE file_pos' = file_pos
  <2>1. Contiguous' /\ AtBlock' /\ Within' /\ Place' = Place
    BY <1>1, <1>2, <1>3 DEF Contiguous, AtBlock, Within, Place
  <2>2. rpc' \notin {"end", "crashed"} => end_of_buffer_offset' = file_pos'
    <3>1. CASE Reader!Open
      BY <1>1, <1>3, <3>1 DEF Reader!Open, Reader!inputVars
    <3>2. CASE Reader!ReadLogRecord /\ ~Reader!MustSkip
      BY <1>1, <1>3, <3>2 DEF Reader!ReadLogRecord
    <3>3. CASE Reader!ReadLogRecord /\ Reader!MustSkip
      <4>1. /\ file_pos' = file_pos + Reader!InitialBlock
            /\ end_of_buffer_offset' = Reader!InitialBlock
            /\ rpc = "ready"
        BY <3>3 DEF Reader!ReadLogRecord
      <4>2. file_pos = 0
        BY <3>3, <4>1 DEF Calls, Reader!MustSkip, TypeInv, TypeOK, Reader!TypeOK
      <4>3. Reader!InitialBlock \in Nat
        BY <1>2, InitialBlockType
      <4>. QED
        BY <4>1, <4>2, <4>3
    <3>4. CASE Reader!SkipFails
      BY <3>4 DEF Reader!SkipFails, Reader!ReportThroughRecover
    <3>. QED
      BY <3>1, <3>2, <3>3, <3>4
  <2>. QED
    BY <1>1, <1>2, <2>1, <2>2
<1>4. CASE file_pos' # file_pos
  <2>1. Reader!ReadLogRecord /\ Reader!MustSkip
    BY <1>4 DEF Reader!Open, Reader!ReadLogRecord, Reader!SkipFails,
       Reader!inputVars
  <2>2. /\ file_pos' = file_pos + Reader!InitialBlock
        /\ end_of_buffer_offset' = Reader!InitialBlock
        /\ rpc = "ready"
    BY <2>1 DEF Reader!ReadLogRecord
  <2>3. file_pos = 0 /\ buffer = << >>
    BY <2>1, <2>2 DEF Calls, Reader!MustSkip, TypeInv, TypeOK, Reader!TypeOK
  <2>4. PICK q \in Nat : Reader!InitialBlock = q * BlockSize
    BY <1>2, InitialBlockStarts
  <2>5. file_pos' = q * BlockSize /\ end_of_buffer_offset' = file_pos'
    <3>1. Reader!InitialBlock \in Nat
      BY <1>2, InitialBlockType
    <3>. QED
      BY <2>2, <2>3, <2>4, <3>1
  <2>6. AtBlock'
    BY <2>5 DEF AtBlock
  <2>7. buffer' = << >> /\ Len(buffer') = 0
    BY <1>2, <2>3
  <2>8. Contiguous' /\ Within'
    BY <2>7 DEF Contiguous, Within
  <2>. QED
    BY <2>5, <2>6, <2>7, <2>8
<1>. QED
  BY <1>3, <1>4

(* Dropping the buffer leaves the reader between two blocks, or at the end *)
(* of the file.                                                            *)
LEMMA DropIsSteady ==
  ASSUME TypeInv, TypeInv', NEW G, WrittenInv(G), Steady(G), aligned,
         disk' = disk,
         \/ Reader!FillFails \/ Reader!EndOfFile \/ Reader!BadRecordLength
         \/ Reader!ZeroLengthRecord \/ Reader!ChecksumMismatch
  PROVE  /\ Contiguous' /\ AtBlock' /\ Within'
         /\ buffer' = << >> /\ file_pos' = file_pos
         /\ rpc = "physical" /\ rpc' \in {"dispatch", "crashed"}
         /\ end_of_buffer_offset' = file_pos'
<1>1. /\ AtBlock
      /\ rpc \notin {"end", "crashed"} => end_of_buffer_offset = file_pos
  BY DEF Steady
<1>2. /\ buffer' = << >> /\ Len(buffer') = 0 /\ file_pos' = file_pos
      /\ rpc = "physical" /\ rpc' \in {"dispatch", "crashed"}
      /\ \/ eof' = eof /\ end_of_buffer_offset' = end_of_buffer_offset
         \/ /\ ~eof /\ Len(buffer) < HeaderSize
            /\ end_of_buffer_offset' = end_of_buffer_offset + Len(buffer)
  BY ReportGoesOn
     DEF Reader!FillFails, Reader!EndOfFile, Reader!BadRecordLength,
     Reader!ZeroLengthRecord, Reader!ChecksumMismatch, Reader!NoReport,
     Reader!ReportThroughRecover, Reader!HasHeader
<1>3. Contiguous' /\ Within'
  BY <1>2 DEF Contiguous, Within
<1>4. AtBlock' /\ end_of_buffer_offset' = file_pos'
  <2>1. CASE eof' = eof /\ end_of_buffer_offset' = end_of_buffer_offset
    BY <1>1, <1>2, <2>1 DEF AtBlock
  <2>2. CASE /\ ~eof /\ Len(buffer) < HeaderSize
             /\ end_of_buffer_offset' = end_of_buffer_offset + Len(buffer)
    <3>1. Len(buffer) = 0
      BY <2>2, NothingLeftOver
    <3>2. end_of_buffer_offset \in Nat /\ file_pos \in Nat
      BY DEF TypeInv, TypeOK, Reader!TypeOK
    <3>3. end_of_buffer_offset' = file_pos'
      BY <1>1, <1>2, <2>2, <3>1, <3>2
    <3>4. AtBlock'
      BY <1>1, <1>2, <2>2 DEF AtBlock
    <3>. QED
      BY <3>3, <3>4
  <2>. QED
    BY <1>2, <2>1, <2>2
<1>. QED
  BY <1>2, <1>3, <1>4

LEMMA TakeIsSteady ==
  ASSUME TypeInv, TypeInv', NEW G, WrittenInv(G), Steady(G), aligned,
         disk' = disk, Reader!TakePhysicalRecord
  PROVE  /\ Contiguous' /\ AtBlock' /\ Within'
         /\ buffer' # << >> => G[Place' + 1].at = 1
         /\ rpc = "physical" /\ rpc' = "dispatch"
         /\ end_of_buffer_offset' = file_pos'
<1>. DEFINE p == Reader!FrontRecord
            n == Reader!PhysicalLength
<1>1. /\ AtBlock /\ Within /\ end_of_buffer_offset = file_pos
      /\ rpc = "physical" /\ rpc' = "dispatch"
      /\ UNCHANGED <<file_pos, eof, end_of_buffer_offset>>
  BY DEF Steady, Reader!TakePhysicalRecord, Reader!HasHeader, Reader!NoReport
<1>2. Takes(G, p, n)
  BY TakesFragment DEF WrittenInv
<1>. HIDE DEF p, n
<1>3. /\ n \in Nat /\ n >= 1 /\ n <= Len(buffer) /\ Len(buffer) \in Nat
      /\ Place \in Int /\ Place' = Place + n
      /\ Place' \in 1..Len(G) /\ IsEnd(G[Place'])
      /\ Len(buffer') = Len(buffer) - n
  BY <1>2 DEF Takes
<1>4. Contiguous'
  BY <1>2, RestIsContiguous
<1>5. AtBlock'
  BY <1>1 DEF AtBlock
<1>6. buffer # << >>
  BY <1>3
<1>7. Within'
  <2>1. PICK q \in Nat :
           /\ q * BlockSize <= Place
           /\ file_pos <= (q + 1) * BlockSize
           /\ IF eof THEN file_pos = Len(disk)
                     ELSE file_pos = (q + 1) * BlockSize
    BY <1>1, <1>6 DEF Within
  <2>2. q * BlockSize <= Place'
    <3>1. q * BlockSize \in Nat
      BY FormatAssumption
    <3>. QED
      BY <1>3, <2>1, <3>1
  <2>. QED
    BY <1>1, <2>1, <2>2 DEF Within
<1>8. ASSUME buffer' # << >>
      PROVE  G[Place' + 1].at = 1
  <2>1. 1 \in 1..Len(buffer')
    <3>1. buffer' \in Seq(Cell) /\ Len(buffer') \in Nat
      BY SameFormat, LenProperties DEF TypeInv, TypeOK, Reader!TypeOK
    <3>. QED
      BY <1>8, <3>1, EmptySeq
  <2>2. Place' + 1 \in 1..Len(disk)
    BY <1>4, <2>1 DEF Contiguous
  <2>3. /\ Layout(G) /\ Covered(G) /\ log \in Seq(Seq(Byte))
        /\ Len(disk) \in Nat
    BY EndsType, DiskType DEF WrittenInv, LogInv, Numbered, TypeInv
  <2>4. Len(G) \in Nat
    BY <2>3, LayoutTypes
  <2>5. PICK i \in 1..Len(G) : i = Place'
    BY <1>3
  <2>6. i + 1 \in 1..Len(G) /\ IsEnd(G[i])
    BY <1>3, <2>2, <2>3, <2>4, <2>5 DEF Covered
  <2>7. G[i + 1].at = 1
    BY <2>3, <2>6, NextStarts
  <2>. QED
    BY <2>5, <2>7
<1>. QED
  BY <1>1, <1>4, <1>5, <1>7, <1>8

LEMMA DispatchLeavesBuffer ==
  ASSUME Reader!DispatchRecord
  PROVE  /\ rpc = "dispatch" /\ rpc' \in {"physical", "ready", "end", "crashed"}
         /\ UNCHANGED <<file_pos, buffer, eof, end_of_buffer_offset,
                        initial_offset, fragment, record_type>>
BY ReportGoesOn
   DEF Reader!DispatchRecord, Reader!SkipTail, Reader!FullRecord,
   Reader!FirstFragment, Reader!MiddleFragment, Reader!LastFragment,
   Reader!MissingStart, Reader!ScratchCrash, Reader!ReturnEof,
   Reader!BadRecord, Reader!Dispatch, Reader!NoReport, Reader!inputVars,
   Reader!fixedVars

LEMMA ReadIsSteady ==
  ASSUME TypeInv, TypeInv', Calls, NEW G, WrittenInv(G), Steady(G), Read
  PROVE  Steady(G)'
<1>1. Reader!Next /\ disk' = disk /\ aligned' = aligned
  BY ReaderLeavesFile DEF Read
<1>2. SUFFICES ASSUME aligned
               PROVE  /\ Contiguous' /\ AtBlock' /\ Within'
                      /\ buffer' # << >> => G[Place' + 1].at = 1
                      /\ rpc' \notin {"end", "crashed"} =>
                           end_of_buffer_offset' = file_pos'
  BY <1>1 DEF Steady
<1>3. CASE Reader!Open \/ Reader!ReadLogRecord \/ Reader!SkipFails
  BY <1>1, <1>2, <1>3, CallIsSteady
<1>4. CASE Reader!FillBuffer
  BY <1>1, <1>2, <1>4, FillIsSteady
<1>5. CASE \/ Reader!FillFails \/ Reader!EndOfFile \/ Reader!BadRecordLength
           \/ Reader!ZeroLengthRecord \/ Reader!ChecksumMismatch
  BY <1>1, <1>2, <1>5, DropIsSteady
<1>6. CASE Reader!TakePhysicalRecord
  BY <1>1, <1>2, <1>6, TakeIsSteady
<1>7. CASE Reader!DispatchRecord
  <2>1. /\ rpc = "dispatch" /\ UNCHANGED <<file_pos, buffer, eof,
                                           end_of_buffer_offset>>
    BY <1>7, DispatchLeavesBuffer
  <2>2. Contiguous' /\ AtBlock' /\ Within' /\ Place' = Place
    BY <1>1, <1>2, <2>1 DEF Steady, Contiguous, AtBlock, Within, Place
  <2>. QED
    BY <1>2, <2>1, <2>2 DEF Steady
<1>. QED
  BY <1>1, <1>3, <1>4, <1>5, <1>6, <1>7 DEF Reader!Next, Reader!ReadPhysicalRecord

LEMMA CallsStep ==
  ASSUME TypeInv, Calls, [Next]_vars
  PROVE  Calls'
<1>1. CASE Write \/ Damage \/ UNCHANGED vars
  BY <1>1 DEF Calls, Unread, Write, Damage, vars, readerVars
<1>2. CASE Read
  <2>1. CASE Reader!Open
    <3>1. /\ Unread /\ rpc' = "ready" /\ UNCHANGED Reader!inputVars
      BY <2>1 DEF Reader!Open, Unread
    <3>. QED
      BY <3>1 DEF Calls, Unread, Reader!inputVars, TypeInv, Fresh
  <2>2. CASE Reader!ReadLogRecord \/ Reader!SkipFails
    BY <2>2 DEF Reader!ReadLogRecord, Reader!SkipFails,
       Reader!ReportThroughRecover, Calls, Unread
  <2>3. CASE Reader!ReadPhysicalRecord
    <3>1. rpc' \in {"physical", "dispatch", "crashed"}
      BY <2>3, ReportGoesOn
         DEF Reader!ReadPhysicalRecord, Reader!FillBuffer, Reader!FillFails,
         Reader!EndOfFile, Reader!BadRecordLength, Reader!ZeroLengthRecord,
         Reader!ChecksumMismatch, Reader!TakePhysicalRecord, Reader!NoReport,
         Reader!ReportThroughRecover
    <3>. QED
      BY <3>1 DEF Calls, Unread
  <2>4. CASE Reader!DispatchRecord
    <3>1. rpc = "dispatch" /\ rpc' # "closed" /\ initial_offset' = initial_offset
      BY <2>4, DispatchLeavesBuffer
    <3>2. SUFFICES ASSUME rpc' = "ready"
                   PROVE  last_record_offset' >= initial_offset
      BY <3>1 DEF Calls, Unread
    <3>3. Reader!FullRecord \/ Reader!LastFragment
      BY <2>4, <3>2, ReportGoesOn
         DEF Reader!DispatchRecord, Reader!SkipTail,
         Reader!FirstFragment, Reader!MiddleFragment,
         Reader!MissingStart, Reader!ScratchCrash, Reader!ReturnEof,
         Reader!BadRecord, Reader!NoReport
    <3>4. CASE Reader!FullRecord
      <4>1. last_record_offset' = Reader!PhysicalRecordOffset /\ Taken
        BY <3>1, <3>2, <3>4 DEF Reader!FullRecord, Reader!Deliver,
           Reader!Dispatch, Taken
      <4>. QED
        BY <4>1 DEF TypeInv, Offsets
    <3>5. CASE Reader!LastFragment
      <4>1. last_record_offset' = prospective_record_offset
            /\ in_fragmented_record
        BY <3>5 DEF Reader!LastFragment, Reader!Deliver
      <4>. QED
        BY <4>1 DEF TypeInv, Offsets
    <3>. QED
      BY <3>3, <3>4, <3>5
  <2>. QED
    BY <1>2, <2>1, <2>2, <2>3, <2>4 DEF Read, Reader!Next
<1>. QED
  BY <1>1, <1>2 DEF Next

------------------------------------------------------------------------------
(***************************************************************************)
(* Offsets.                                                                *)
(***************************************************************************)

(* Wherever the reader is in a record, it knows where the record starts.   *)
Exact(G) ==
  aligned =>
    /\ Taken => Place <= Len(disk) /\ Written(disk[Place])
    /\ in_fragmented_record /\ rpc = "physical" =>
         /\ Place \in 1..Len(G)
         /\ IsEnd(G[Place])
         /\ prospective_record_offset = StartOf(G[Place].rec)
    /\ in_fragmented_record /\ Taken /\ ~Opens(G[Place].phys) =>
         prospective_record_offset = StartOf(G[Place].rec)
    /\ rpc = "ready" /\ delivered # << >> =>
         \E k \in DOMAIN ends :
           last_record_offset = StartOf(k) /\ log[k] = delivered[Len(delivered)]

(* The physical record just taken, when a record of the log starts with it *)
(* and when one ends with it.                                              *)
LEMMA TakenOffset ==
  ASSUME TypeInv, NEW G, WrittenInv(G), Steady(G), Exact(G), aligned, Taken
  PROVE  /\ Place \in 1..Len(G) /\ IsEnd(G[Place])
         /\ G[Place].phys = [type |-> record_type, data |-> fragment]
         /\ Opens(G[Place].phys) =>
              Reader!PhysicalRecordOffset = StartOf(G[Place].rec)
         /\ Closes(G[Place].phys) => G[Place].rec \in DOMAIN ends
<1>1. /\ Place \in 1..Len(G) /\ IsEnd(G[Place])
      /\ G[Place].phys = [type |-> record_type, data |-> fragment]
      /\ Layout(G) /\ Starts(G) /\ Ended(G) /\ TypeOK
  BY DEF WrittenInv, LogInv, ReaderAt, Holds, Numbered, TypeInv
<1>2. /\ log \in Seq(Seq(Byte)) /\ DOMAIN ends = 1..Len(ends) /\ Len(ends) \in Nat
      /\ Len(disk) \in Nat
  BY <1>1, EndsType, DiskType
<1>3. /\ Len(G) \in Nat /\ Place \in Nat /\ G[Place].rec \in Nat
      /\ G[Place].rec >= 1 /\ G[Place].at = Size(G[Place].phys)
      /\ Size(G[Place].phys) \in Nat
  <2>1. PICK i \in 1..Len(G) : i = Place
    BY <1>1
  <2>. QED
    BY <1>1, <1>2, <2>1, LayoutTypes DEF IsEnd
<1>4. ASSUME Opens(G[Place].phys)
      PROVE  Reader!PhysicalRecordOffset = StartOf(G[Place].rec)
  <2>1. PICK s : s = FirstOf(G, Place)
    OBVIOUS
  <2>2. /\ s \in 1..Len(G) /\ G[s].at = 1 /\ G[s].phys = G[Place].phys
        /\ G[s].rec = G[Place].rec
    <3>1. PICK i \in 1..Len(G) : i = Place
      BY <1>1
    <3>. QED
      BY <1>1, <1>2, <2>1, <3>1, FragmentStarts
  <2>3. StartOf(G[Place].rec) = s - 1
    BY <1>1, <1>4, <2>2 DEF Starts
  <2>4. s = Place - Size(G[Place].phys) + 1
    BY <1>3, <2>1 DEF FirstOf
  <2>5. Size(G[Place].phys) = HeaderSize + Len(fragment)
    BY <1>1 DEF Size
  <2>6. Reader!PhysicalRecordOffset = Place - HeaderSize - Len(fragment)
    <3>1. end_of_buffer_offset = file_pos
      BY DEF Steady, Taken
    <3>. QED
      BY <3>1 DEF Reader!PhysicalRecordOffset, Place
  <2>7. HeaderSize \in Nat /\ Len(fragment) \in Nat
    BY FormatAssumption, LenProperties DEF TypeInv, TypeOK, Reader!TypeOK
  <2>8. Place - HeaderSize - Len(fragment) = s - 1
    BY <1>3, <2>4, <2>5, <2>7
  <2>. QED
    BY <2>3, <2>6, <2>8
<1>5. ASSUME Closes(G[Place].phys)
      PROVE  G[Place].rec \in DOMAIN ends
  <2>1. Place \in 1..Len(disk)
    BY <1>1, <1>2, <1>3 DEF Exact
  <2>2. G[Place].rec <= Len(ends)
    BY <1>1, <1>5, <2>1 DEF Ended
  <2>. QED
    BY <1>2, <1>3, <2>2
<1>. QED
  BY <1>1, <1>4, <1>5

LEMMA LastDelivered ==
  ASSUME TypeInv, NEW r \in Seq(Byte), delivered' = Append(delivered, r)
  PROVE  delivered'[Len(delivered')] = r
<1>1. delivered \in Seq(Seq(Byte))
  BY DEF TypeInv, TypeOK, Reader!TypeOK
<1>. QED
  BY <1>1, AppendProperties, LenProperties

(* The record that ends with the fragment at the reader's place.           *)
LEMMA DeliveredIsLogged ==
  ASSUME TypeInv, NEW G, WrittenInv(G), Taken, Closes(G[Place].phys),
         Opens(G[Place].phys) \/ in_fragmented_record
  PROVE  LET r == IF Opens(G[Place].phys) THEN fragment ELSE scratch \o fragment
         IN  r = log[G[Place].rec] /\ r \in Seq(Byte)
<1>1. /\ Place \in 1..Len(G) /\ G[Place].phys = [type |-> record_type, data |-> fragment]
      /\ Layout(G) /\ Collected(G) /\ TypeOK
  BY DEF WrittenInv, LogInv, ReaderAt, Holds, TypeInv
<1>2. log \in Seq(Seq(Byte))
  BY <1>1, EndsType
<1>3. PICK g : g = G[Place]
  OBVIOUS
<1>4. /\ g \in Origin /\ g.rec \in 1..Len(log) /\ FragmentOf(g)
      /\ g.phys.data = fragment
  <2>1. PICK i \in 1..Len(G) : i = Place
    BY <1>1
  <2>. QED
    BY <1>1, <1>2, <1>3, <2>1, LayoutTypes DEF Layout, Fragments
<1>5. log[g.rec] \in Seq(Byte)
  BY <1>2, <1>4, LenProperties
<1>6. SubSeq(log[g.rec], 1, EndOf(g)) = log[g.rec]
  <2>1. EndOf(g) = Len(log[g.rec])
    BY <1>3, <1>4 DEF FragmentOf
  <2>. QED
    BY <1>5, <2>1, SubSeqFull
<1>7. CASE Opens(g.phys)
  <2>0. g.from + 1 = 1
    BY <1>4, <1>7 DEF FragmentOf
  <2>1. fragment = SubSeq(log[g.rec], 1, EndOf(g))
    BY <1>4, <2>0 DEF FragmentOf
  <2>. QED
    BY <1>3, <1>5, <1>6, <1>7, <2>1
<1>8. CASE ~Opens(g.phys)
  <2>1. scratch = SubSeq(log[g.rec], 1, g.from)
    BY <1>1, <1>3, <1>8 DEF Collected
  <2>2. scratch \o fragment = SubSeq(log[g.rec], 1, EndOf(g))
    BY <1>1, <1>4, <2>1, Joined
  <2>. QED
    BY <1>3, <1>5, <1>6, <1>8, <2>2
<1>. QED
  BY <1>7, <1>8

LEMMA TakeIsExact ==
  ASSUME TypeInv, TypeInv', NEW G, WrittenInv(G), Steady(G), Exact(G),
         disk' = disk, ends' = ends, log' = log, aligned,
         Reader!TakePhysicalRecord
  PROVE  /\ rpc' = "dispatch"
         /\ Place' <= Len(disk) /\ Written(disk[Place'])
         /\ in_fragmented_record' /\ ~Opens(G[Place'].phys) =>
              prospective_record_offset' = StartOf(G[Place'].rec)
<1>. DEFINE p == Reader!FrontRecord
            n == Reader!PhysicalLength
<1>1. /\ rpc = "physical" /\ rpc' = "dispatch"
      /\ UNCHANGED <<in_fragmented_record, prospective_record_offset>>
  BY DEF Reader!TakePhysicalRecord, Reader!HasHeader, Reader!NoReport,
     Reader!ReturnType, Reader!localVars
<1>2. Takes(G, p, n)
  BY TakesFragment DEF WrittenInv
<1>5. \A k \in 1..n : buffer[k] = [phys |-> p, at |-> k]
  BY TookRecord DEF TypeInv
<1>. HIDE DEF p, n
<1>3. /\ Place' <= Len(disk) /\ Place + 1 \in 1..Len(G)
      /\ G[Place'].phys = p /\ G[Place + 1].at = 1 /\ G[Place + 1].phys = p
      /\ G[Place + 1].rec = G[Place'].rec
  BY <1>2 DEF Takes
<1>6. Written(disk[Place'])
  <2>1. /\ n \in 1..n /\ n \in 1..Len(buffer) /\ Place' = Place + n /\ n > 0
    BY <1>2 DEF Takes
  <2>2. buffer[n] = disk[Place']
    BY <1>2, <2>1 DEF Takes, Contiguous
  <2>3. buffer[n] = [phys |-> p, at |-> n]
    BY <1>5, <2>1
  <2>4. disk[Place'].at = n
    BY <2>2, <2>3
  <2>. QED
    BY <2>1, <2>4 DEF Written
<1>4. ASSUME in_fragmented_record, ~Opens(p)
      PROVE  prospective_record_offset = StartOf(G[Place'].rec)
  <2>1. /\ Place \in 1..Len(G)
        /\ prospective_record_offset = StartOf(G[Place].rec)
    BY <1>1, <1>4 DEF Exact
  <2>2. Follows(G[Place + 1], G[Place])
    BY <1>3, <2>1 DEF WrittenInv, LogInv, Layout, Chained
  <2>3. G[Place + 1].rec = G[Place].rec
    BY <1>3, <1>4, <2>2 DEF Follows
  <2>. QED
    BY <1>3, <2>1, <2>3
<1>. QED
  BY <1>1, <1>3, <1>4, <1>6

LEMMA DispatchIsExact ==
  ASSUME TypeInv, TypeInv', NEW G, WrittenInv(G), Steady(G), Exact(G),
         disk' = disk, ends' = ends, log' = log, aligned' = aligned,
         Reader!DispatchRecord
  PROVE  Exact(G)'
<1>1. SUFFICES ASSUME aligned
               PROVE  Exact(G)'
  BY DEF Exact
<1>2. /\ rpc = "dispatch" /\ rpc' # "dispatch"
      /\ UNCHANGED <<file_pos, buffer>> /\ Place' = Place /\ ~Taken'
  BY DispatchLeavesBuffer DEF Place, Taken
<1>3. \A k : StartOf(k)' = StartOf(k)
  BY DEF StartOf
<1>. DEFINE At == /\ Place \in 1..Len(G) /\ IsEnd(G[Place])
                  /\ prospective_record_offset' = StartOf(G[Place].rec)
            Here == \E k \in DOMAIN ends :
                      /\ last_record_offset' = StartOf(k)
                      /\ log[k] = delivered'[Len(delivered')]
<1>4. SUFFICES /\ in_fragmented_record' /\ rpc' = "physical" => At
               /\ rpc' = "ready" => Here
  BY <1>2, <1>3 DEF Exact
<1>5. ASSUME NEW t \in {"full", "first", "middle", "last"}, Reader!Dispatch(t)
      PROVE  /\ Taken /\ G[Place].phys.type = t
             /\ Place \in 1..Len(G) /\ IsEnd(G[Place])
             /\ t \in {"full", "first"} =>
                  Reader!PhysicalRecordOffset = StartOf(G[Place].rec)
             /\ t \in {"full", "last"} => G[Place].rec \in DOMAIN ends
             /\ t \in {"middle", "last"} /\ in_fragmented_record =>
                  prospective_record_offset = StartOf(G[Place].rec)
  <2>1. Taken /\ record_type = t
    BY <1>5 DEF Reader!Dispatch, Taken
  <2>2. /\ Place \in 1..Len(G) /\ IsEnd(G[Place])
        /\ G[Place].phys.type = t
        /\ Opens(G[Place].phys) =>
             Reader!PhysicalRecordOffset = StartOf(G[Place].rec)
        /\ Closes(G[Place].phys) => G[Place].rec \in DOMAIN ends
    BY <1>1, <2>1, TakenOffset
  <2>3. ~Opens(G[Place].phys) /\ in_fragmented_record =>
          prospective_record_offset = StartOf(G[Place].rec)
    BY <1>1, <2>1 DEF Exact
  <2>. QED
    BY <2>1, <2>2, <2>3 DEF Opens, Closes
<1>6. CASE Reader!FullRecord
  <2>1. SUFFICES ASSUME rpc' = "ready" PROVE Here
    BY <1>6, ReportGoesOn DEF Reader!FullRecord, Reader!NoReport
  <2>2. /\ Reader!Dispatch("full")
        /\ last_record_offset' = Reader!PhysicalRecordOffset
        /\ delivered' = Append(delivered, fragment)
    BY <1>6, <2>1 DEF Reader!FullRecord, Reader!Deliver
  <2>3. /\ Taken /\ G[Place].phys.type = "full"
        /\ Reader!PhysicalRecordOffset = StartOf(G[Place].rec)
        /\ G[Place].rec \in DOMAIN ends
    BY <1>5, <2>2
  <2>4. fragment = log[G[Place].rec] /\ fragment \in Seq(Byte)
    BY <2>3, DeliveredIsLogged DEF Opens, Closes
  <2>5. delivered'[Len(delivered')] = fragment
    BY <2>2, <2>4, LastDelivered
  <2>. QED
    BY <2>2, <2>3, <2>4, <2>5
<1>7. CASE Reader!FirstFragment
  <2>1. /\ Reader!Dispatch("first") /\ rpc' # "ready"
        /\ prospective_record_offset' = Reader!PhysicalRecordOffset
    BY <1>7, ReportGoesOn DEF Reader!FirstFragment, Reader!NoReport
  <2>. QED
    BY <1>5, <2>1
<1>8. CASE Reader!MiddleFragment
  <2>1. /\ Reader!Dispatch("middle") /\ rpc' = "physical"
        /\ in_fragmented_record
        /\ prospective_record_offset' = prospective_record_offset
    BY <1>8 DEF Reader!MiddleFragment, Reader!NoReport
  <2>. QED
    BY <1>5, <2>1
<1>9. CASE Reader!LastFragment
  <2>1. /\ Reader!Dispatch("last") /\ rpc' = "ready"
        /\ in_fragmented_record
        /\ last_record_offset' = prospective_record_offset
        /\ delivered' = Append(delivered, scratch \o fragment)
    BY <1>9 DEF Reader!LastFragment, Reader!NoReport, Reader!Deliver
  <2>2. /\ Taken /\ G[Place].phys.type = "last"
        /\ G[Place].rec \in DOMAIN ends
        /\ prospective_record_offset = StartOf(G[Place].rec)
    BY <1>5, <2>1
  <2>3. /\ scratch \o fragment = log[G[Place].rec]
        /\ scratch \o fragment \in Seq(Byte)
    BY <2>1, <2>2, DeliveredIsLogged DEF Opens, Closes
  <2>4. delivered'[Len(delivered')] = scratch \o fragment
    BY <2>1, <2>3, LastDelivered
  <2>. QED
    BY <2>1, <2>2, <2>3, <2>4
<1>10. CASE Reader!SkipTail
  <2>1. resyncing /\ rpc' = "physical"
        /\ in_fragmented_record' = in_fragmented_record
    BY <1>10 DEF Reader!SkipTail, Reader!Skipped, Reader!localVars,
       Reader!NoReport
  <2>2. ~in_fragmented_record
    BY <2>1 DEF WrittenInv, LogInv, ReaderAt, Collected
  <2>. QED
    BY <2>1, <2>2
<1>11. CASE Reader!MissingStart \/ Reader!ScratchCrash
            \/ Reader!ReturnEof \/ Reader!BadRecord
  <2>1. /\ rpc' # "ready"
        /\ rpc' = "physical" => ~in_fragmented_record'
    BY <1>11, ReportGoesOn
       DEF Reader!MissingStart, Reader!ScratchCrash, Reader!ReturnEof,
       Reader!BadRecord, Reader!NoReport, Reader!localVars
  <2>. QED
    BY <2>1
<1>. QED
  BY <1>6, <1>7, <1>8, <1>9, <1>10, <1>11 DEF Reader!DispatchRecord

LEMMA ReadIsExact ==
  ASSUME TypeInv, TypeInv', NEW G, WrittenInv(G), Steady(G), Exact(G), Read
  PROVE  Exact(G)'
<1>1. /\ Reader!Next /\ disk' = disk /\ aligned' = aligned
      /\ ends' = ends /\ log' = log
  BY ReaderLeavesFile DEF Read, writerVars
<1>2. \A k : StartOf(k)' = StartOf(k)
  BY <1>1 DEF StartOf
<1>3. CASE Reader!DispatchRecord
  BY <1>1, <1>3, DispatchIsExact
<1>4. CASE ~Reader!DispatchRecord
  <2>1. SUFFICES ASSUME aligned PROVE Exact(G)'
    BY <1>1 DEF Exact
  <2>2. CASE Reader!Open
    <3>1. Unread /\ rpc' = "ready" /\ delivered' = delivered /\ ~Taken'
      BY <2>2 DEF Reader!Open, Unread, Taken
    <3>. QED
      BY <3>1 DEF Exact, TypeInv, Fresh
  <2>3. CASE Reader!ReadLogRecord \/ Reader!SkipFails
    <3>1. /\ rpc' # "ready" /\ ~Taken'
          /\ rpc' = "physical" => ~in_fragmented_record'
      BY <2>3 DEF Reader!ReadLogRecord, Reader!SkipFails,
         Reader!ReportThroughRecover, Taken
    <3>. QED
      BY <3>1 DEF Exact
  <2>4. CASE Reader!FillBuffer
    <3>1. Place' = Place /\ rpc = "physical" /\ rpc' = "physical"
      BY <1>1, <2>1, <2>4, FillIsSteady
    <3>2. UNCHANGED <<in_fragmented_record, prospective_record_offset>>
      BY <2>4 DEF Reader!FillBuffer, Reader!localVars
    <3>3. ~Taken'
      BY <3>1 DEF Taken
    <3>. QED
      BY <1>2, <2>1, <3>1, <3>2, <3>3 DEF Exact
  <2>5. CASE \/ Reader!FillFails \/ Reader!EndOfFile \/ Reader!BadRecordLength
             \/ Reader!ZeroLengthRecord \/ Reader!ChecksumMismatch
    <3>1. rpc' \in {"dispatch", "crashed"}
      BY <1>1, <2>1, <2>5, DropIsSteady
    <3>2. record_type' \in {"eof", "bad"}
      BY <2>5 DEF Reader!FillFails, Reader!EndOfFile, Reader!BadRecordLength,
         Reader!ZeroLengthRecord, Reader!ChecksumMismatch, Reader!ReturnType
    <3>3. ~Taken'
      BY <3>2 DEF Taken
    <3>. QED
      BY <3>1, <3>3 DEF Exact
  <2>6. CASE Reader!TakePhysicalRecord
    <3>1. /\ rpc' = "dispatch"
          /\ Place' <= Len(disk) /\ Written(disk[Place'])
          /\ in_fragmented_record' /\ ~Opens(G[Place'].phys) =>
               prospective_record_offset' = StartOf(G[Place'].rec)
      BY <1>1, <2>1, <2>6, TakeIsExact
    <3>. QED
      BY <1>1, <1>2, <3>1 DEF Exact
  <2>. QED
    BY <1>1, <1>4, <2>2, <2>3, <2>4, <2>5, <2>6
       DEF Reader!Next, Reader!ReadPhysicalRecord
<1>. QED
  BY <1>3, <1>4

LEMMA FreshIsExact ==
  ASSUME TypeInv', Unread', NEW G
  PROVE  Exact(G)'
BY DEF TypeInv, Fresh, Exact, Taken, Unread

------------------------------------------------------------------------------
(***************************************************************************)
(* Where records lie.                                                      *)
(***************************************************************************)

(* The bytes of a fragment follow its first one.                           *)
LEMMA ForwardRun ==
  ASSUME NEW G, Layout(G), log \in Seq(Seq(Byte)),
         NEW i \in 1..Len(G), G[i].at = 1, NEW k \in Nat,
         k < Size(G[i].phys), i + k \in 1..Len(G)
  PROVE  /\ G[i + k].at = k + 1 /\ G[i + k].phys = G[i].phys
         /\ G[i + k].rec = G[i].rec /\ G[i + k].from = G[i].from
<1>. DEFINE Same(c) == /\ G[i + c].at = c + 1 /\ G[i + c].phys = G[i].phys
                       /\ G[i + c].rec = G[i].rec /\ G[i + c].from = G[i].from
            T == {c \in Nat : c < Size(G[i].phys) /\ i + c \in 1..Len(G) => Same(c)}
<1>1. Len(G) \in Nat /\ i \in Nat /\ Size(G[i].phys) \in Nat
  BY LayoutTypes
<1>2. 0 \in T
  BY <1>1
<1>3. ASSUME NEW c \in Nat, c \in T
      PROVE  c + 1 \in T
  <2>1. SUFFICES ASSUME c + 1 < Size(G[i].phys), i + (c + 1) \in 1..Len(G)
                 PROVE  Same(c + 1)
    OBVIOUS
  <2>2. i + c \in 1..Len(G) /\ c < Size(G[i].phys)
    BY <1>1, <2>1
  <2>3. Same(c)
    BY <1>3, <2>2
  <2>4. PICK j \in 1..Len(G) : j = i + (c + 1)
    BY <2>1
  <2>5. j - 1 = i + c /\ j = (i + c) + 1
    BY <1>1, <2>4
  <2>6. /\ G[j].at \in Nat /\ G[j].at >= 1
    <3>1. G[j].at \in 1..Size(G[j].phys) /\ Size(G[j].phys) \in Nat
      BY LayoutTypes
    <3>. QED
      BY <3>1
  <2>7. G[j].at # 1
    <3>1. SUFFICES ASSUME G[j].at = 1 PROVE FALSE
      OBVIOUS
    <3>2. IsEnd(G[i + c])
      <4>1. PICK l \in 1..Len(G) : l = i + c
        BY <2>2
      <4>2. Follows(G[j], G[l])
        BY <2>5, <3>1, <4>1 DEF Layout, Chained
      <4>. QED
        BY <4>1, <4>2 DEF Follows
    <3>3. c + 1 = Size(G[i].phys)
      BY <2>3, <3>2 DEF IsEnd
    <3>. QED
      BY <1>1, <2>1, <3>3
  <2>8. Before(G[i + c], G[j], 1)
    <3>1. 1 \in 0..(G[j].at - 1)
      BY <2>6, <2>7
    <3>2. Before(G[j - 1], G[j], 1)
      BY <3>1 DEF Layout, Whole
    <3>. QED
      BY <2>5, <3>2
  <2>9. G[j].at = (c + 1) + 1
    BY <2>3, <2>6, <2>8 DEF Before
  <2>. QED
    BY <2>3, <2>4, <2>8, <2>9 DEF Before
<1>4. k \in T
  <2>. HIDE DEF T
  <2>1. Nat \subseteq T
    BY <1>2, <1>3, Induction
  <2>. QED
    BY <2>1
<1>. QED
  BY <1>4

(* No other fragment ends within one.                                      *)
LEMMA EndInRun ==
  ASSUME NEW G, Layout(G), log \in Seq(Seq(Byte)),
         NEW i \in 1..Len(G), G[i].at = 1,
         NEW e \in 1..Len(G), i <= e, IsEnd(G[e])
  PROVE  i + Size(G[i].phys) <= e + 1
<1>1. /\ Len(G) \in Nat /\ i \in Nat /\ e \in Nat /\ Size(G[i].phys) \in Nat
  <2>1. Len(G) \in Nat /\ Size(G[i].phys) \in Nat
    BY LayoutTypes
  <2>. QED
    BY <2>1
<1>2. SUFFICES ASSUME e + 1 < i + Size(G[i].phys) PROVE FALSE
  BY <1>1
<1>3. PICK k : k = e - i
  OBVIOUS
<1>4. k \in Nat /\ i + k = e /\ k + 1 < Size(G[i].phys)
  BY <1>1, <1>2, <1>3
<1>5. k < Size(G[i].phys) /\ i + k \in 1..Len(G)
  BY <1>1, <1>4
<1>6. G[i + k].at = k + 1 /\ G[i + k].phys = G[i].phys
  BY <1>4, <1>5, ForwardRun
<1>. QED
  BY <1>1, <1>4, <1>6 DEF IsEnd

LEMMA RecordExtent ==
  ASSUME TypeInv, NEW G, WrittenInv(G), NEW k \in DOMAIN ends
  PROVE  /\ k \in 1..Len(ends) /\ ends[k] \in 1..Len(G)
         /\ G[ends[k]].rec = k /\ IsEnd(G[ends[k]]) /\ Closes(G[ends[k]].phys)
         /\ StartOf(k) \in Nat /\ StartOf(k) < ends[k]
         /\ \A i \in 1..Len(G) :
              G[i].rec = k <=> StartOf(k) < i /\ i <= ends[k]
         /\ StartOf(k) + 1 \in 1..Len(G)
         /\ G[StartOf(k) + 1].at = 1
         /\ Opens(G[StartOf(k) + 1].phys)
<1>1. /\ Layout(G) /\ Ends(G) /\ FirstOpens(G) /\ log \in Seq(Seq(Byte))
      /\ DOMAIN ends = 1..Len(ends) /\ Len(ends) \in Nat
  BY EndsType DEF WrittenInv, LogInv, Numbered, TypeInv
<1>2. /\ Len(G) \in Nat
      /\ \A i \in 1..Len(G) : G[i].rec \in Nat /\ G[i].rec >= 1
  <2>1. /\ Len(G) \in Nat
        /\ \A i \in 1..Len(G) : G[i].rec \in 1..Len(log) /\ G[i].rec \in Nat
    BY <1>1, LayoutTypes
  <2>. QED
    BY <2>1
<1>3. /\ k \in 1..Len(ends) /\ ends[k] \in 1..Len(G)
      /\ G[ends[k]].rec = k /\ IsEnd(G[ends[k]]) /\ Closes(G[ends[k]].phys)
  BY <1>1 DEF Ends
<1>4. CASE k = 1
  <2>1. StartOf(k) = 0
    BY <1>4 DEF StartOf
  <2>2. ASSUME NEW i \in 1..Len(G)
        PROVE  G[i].rec = k <=> StartOf(k) < i /\ i <= ends[k]
    <3>1. PICK e \in 1..Len(G) : e = ends[k]
      BY <1>3
    <3>2. CASE i <= e
      <4>1. i < e => G[i].rec <= G[e].rec
        BY <1>1 DEF Layout, Ordered
      <4>2. G[i].rec <= k
        BY <1>2, <1>3, <3>1, <3>2, <4>1
      <4>3. G[i].rec = k
        BY <1>2, <1>4, <4>2
      <4>. QED
        BY <1>2, <2>1, <3>1, <3>2, <4>3
    <3>3. CASE ~(i <= e)
      <4>1. e < i
        BY <1>2, <3>3
      <4>2. G[e].rec < G[i].rec
        BY <1>1, <1>3, <3>1, <4>1 DEF Layout, Ordered
      <4>. QED
        BY <1>2, <1>3, <3>1, <3>3, <4>2
    <3>. QED
      BY <3>2, <3>3
  <2>3. StartOf(k) + 1 = 1 /\ 1 \in 1..Len(G)
    BY <1>2, <1>3, <2>1
  <2>4. Opens(G[1].phys) /\ G[1].at = 1
    <3>1. G[1].at \in Nat /\ G[1].at >= 1 /\ G[1].at <= 1
      BY <1>1, <2>3, LayoutTypes
    <3>. QED
      BY <1>1, <1>2, <2>3, <3>1 DEF FirstOpens
  <2>. QED
    BY <1>2, <1>3, <2>1, <2>2, <2>3, <2>4
<1>5. CASE k # 1
  <2>1. PICK d : d = ends[k - 1]
    OBVIOUS
  <2>2. /\ StartOf(k) = d /\ d \in 1..Len(G) /\ d \in Nat
        /\ G[d].rec = k - 1 /\ IsEnd(G[d]) /\ Closes(G[d].phys)
    <3>1. k - 1 \in 1..Len(ends)
      BY <1>1, <1>3, <1>5
    <3>. QED
      BY <1>1, <1>5, <2>1, <3>1 DEF Ends, StartOf
  <2>3. PICK e \in 1..Len(G) : e = ends[k]
    BY <1>3
  <2>4. d < e
    <3>1. SUFFICES ASSUME e <= d PROVE FALSE
      BY <1>2, <2>2
    <3>2. e < d => G[e].rec <= G[d].rec
      BY <1>1, <2>2 DEF Layout, Ordered
    <3>3. k <= k - 1
      BY <1>1, <1>2, <1>3, <2>2, <2>3, <3>1, <3>2
    <3>. QED
      BY <1>3, <3>3
  <2>5. ASSUME NEW i \in 1..Len(G)
        PROVE  G[i].rec = k <=> d < i /\ i <= e
    <3>1. i < e => G[i].rec <= G[e].rec
      BY <1>1 DEF Layout, Ordered
    <3>2. e < i => G[e].rec < G[i].rec
      BY <1>1, <1>3, <2>3 DEF Layout, Ordered
    <3>3. d < i => G[d].rec < G[i].rec
      BY <1>1, <2>2 DEF Layout, Ordered
    <3>4. i < d => G[i].rec <= G[d].rec
      BY <1>1, <2>2 DEF Layout, Ordered
    <3>5. /\ G[i].rec \in Nat /\ G[e].rec = k /\ G[d].rec = k - 1 /\ k \in Nat
          /\ i \in Nat /\ e \in Nat
      BY <1>2, <1>3, <2>2, <2>3
    <3>6. i = d => G[i].rec = k - 1
      BY <2>2
    <3>7. i = e => G[i].rec = k
      BY <1>3, <2>3
    <3>8. CASE i <= d
      BY <2>2, <2>4, <3>4, <3>5, <3>6, <3>8
    <3>9. CASE d < i /\ i <= e
      BY <2>2, <2>4, <3>1, <3>3, <3>5, <3>7, <3>9
    <3>10. CASE e < i
      BY <2>2, <2>4, <3>2, <3>5, <3>10
    <3>. QED
      BY <2>2, <3>5, <3>8, <3>9, <3>10
  <2>6. d + 1 \in 1..Len(G)
    BY <1>2, <2>2, <2>3, <2>4
  <2>7. G[d + 1].at = 1
    BY <1>1, <2>2, <2>6, NextStarts
  <2>8. Opens(G[d + 1].phys)
    <3>1. PICK i \in 1..Len(G) : i = d + 1
      BY <2>6
    <3>2. Follows(G[i], G[d])
      BY <1>1, <2>2, <2>7, <3>1 DEF Layout, Chained
    <3>3. d < i
      BY <2>2, <3>1
    <3>4. G[d].rec < G[i].rec
      BY <1>1, <2>2, <3>3 DEF Layout, Ordered
    <3>5. G[d].rec \in Nat /\ G[i].rec \in Nat
      BY <1>2, <2>2
    <3>. QED
      BY <3>1, <3>2, <3>4, <3>5 DEF Follows
  <2>. QED
    BY <1>2, <1>3, <2>2, <2>3, <2>4, <2>5, <2>6, <2>7, <2>8
<1>. QED
  BY <1>4, <1>5

(***************************************************************************)
(* What is at the front of the buffer when the next fragment is, or a part *)
(* of it, as the writer wrote it.                                          *)
(***************************************************************************)
LEMMA FrontIsFragment ==
  ASSUME TypeInv, NEW G, WrittenInv(G), Steady(G), aligned, buffer # << >>,
         NEW m \in Nat, m <= Len(buffer), m <= Size(G[Place + 1].phys),
         \A k \in 1..m : Written(disk[Place + k])
  PROVE  \A k \in 1..m : buffer[k] = [phys |-> G[Place + 1].phys, at |-> k]
<1>1. /\ Layout(G) /\ OnDisk(G) /\ Contiguous /\ log \in Seq(Seq(Byte))
      /\ Len(buffer) \in Nat /\ Len(disk) \in Nat
  BY EndsType, BufferType, DiskType
     DEF TypeInv, WrittenInv, LogInv, Steady
<1>2. /\ Place \in Nat /\ Place + 1 \in 1..Len(G) /\ G[Place + 1].at = 1
  BY FragmentAhead
<1>3. PICK s \in 1..Len(G) : s = Place + 1
  BY <1>2
<1>4. SUFFICES ASSUME NEW k \in 1..m
               PROVE  buffer[k] = [phys |-> G[s].phys, at |-> k]
  BY <1>3
<1>5. k \in 1..Len(buffer) /\ k - 1 \in Nat /\ Place + k = s + (k - 1)
      /\ (k - 1) + 1 = k
  <2>1. k \in Nat /\ k >= 1 /\ k <= m
    BY <1>4
  <2>2. k <= Len(buffer)
    BY <1>1, <2>1
  <2>3. PICK o \in Nat : o = Place
    BY <1>2
  <2>4. o + k = s + (k - 1)
    BY <1>3, <2>1, <2>3
  <2>. QED
    BY <1>1, <2>1, <2>2, <2>3, <2>4
<1>6. Place + k \in 1..Len(disk) /\ buffer[k] = disk[Place + k]
  BY <1>1, <1>5 DEF Contiguous
<1>7. /\ Place + k <= Len(G) /\ disk[Place + k].phys = G[Place + k].phys
      /\ disk[Place + k].at = G[Place + k].at
  BY <1>1, <1>4, <1>6 DEF OnDisk
<1>8. s + (k - 1) \in 1..Len(G) /\ k - 1 < Size(G[s].phys)
  <2>1. Len(G) \in Nat /\ Size(G[s].phys) \in Nat
    BY <1>1, LayoutTypes
  <2>. QED
    BY <1>2, <1>3, <1>5, <1>6, <1>7, <2>1
<1>9. G[Place + k].at = k /\ G[Place + k].phys = G[s].phys
  <2>1. PICK c \in Nat : c = k - 1
    BY <1>5
  <2>2. s + c \in 1..Len(G) /\ c < Size(G[s].phys)
    BY <1>8, <2>1
  <2>3. s \in 1..Len(G) /\ G[s].at = 1
    BY <1>2, <1>3
  <2>4. G[s + c].at = c + 1 /\ G[s + c].phys = G[s].phys
    BY <1>1, <2>2, <2>3, ForwardRun
  <2>. QED
    BY <1>5, <2>1, <2>4
<1>10. buffer[k] \in Cell
  BY <1>5, BufferType DEF TypeInv
<1>. QED
  BY <1>6, <1>7, <1>9, <1>10 DEF Cell

LEMMA FrontIsWhole ==
  ASSUME TypeInv, NEW G, WrittenInv(G), Steady(G), aligned, buffer # << >>,
         Size(G[Place + 1].phys) <= Len(buffer),
         \A k \in 1..Size(G[Place + 1].phys) : Written(disk[Place + k])
  PROVE  /\ Len(buffer) >= HeaderSize
         /\ Reader!HeaderIntact /\ Reader!ChecksumOK
         /\ Reader!PhysicalLength <= Len(buffer)
<1>1. /\ Layout(G) /\ log \in Seq(Seq(Byte)) /\ Len(buffer) \in Nat
      /\ \A k \in 1..Len(buffer) : buffer[k] \in Cell
      /\ HeaderSize \in Nat \ {0}
  BY EndsType, BufferType, FormatAssumption DEF TypeInv, WrittenInv, LogInv
<1>2. Place + 1 \in 1..Len(G)
  BY FragmentAhead
<1>3. PICK p, n : p = G[Place + 1].phys /\ n = Size(p)
  OBVIOUS
<1>4. n \in Nat /\ n >= HeaderSize /\ n <= Len(buffer) /\ n = HeaderSize + Len(p.data)
  <2>1. PICK i \in 1..Len(G) : i = Place + 1
    BY <1>2
  <2>2. Size(G[i].phys) \in Nat /\ Size(G[i].phys) >= HeaderSize
    BY <1>1, LayoutTypes
  <2>. QED
    BY <1>3, <2>1, <2>2 DEF Size
<1>5. \A k \in 1..n : buffer[k] = [phys |-> p, at |-> k]
  <2>1. /\ n <= Size(G[Place + 1].phys)
        /\ \A k \in 1..n : Written(disk[Place + k])
    BY <1>3, <1>4
  <2>2. \A k \in 1..n : buffer[k] = [phys |-> G[Place + 1].phys, at |-> k]
    BY <1>4, <2>1, FrontIsFragment
  <2>. QED
    BY <1>3, <2>2
<1>6. Reader!FrontRecord = p
  <2>1. 1 \in 1..n
    BY <1>1, <1>4
  <2>2. buffer[1] = [phys |-> p, at |-> 1]
    BY <1>5, <2>1
  <2>. QED
    BY <2>2 DEF Reader!FrontRecord
<1>7. Reader!HeaderIntact
  <2>1. \A k \in 1..HeaderSize : k \in 1..n
    BY <1>1, <1>4
  <2>. QED
    BY <1>5, <1>6, <2>1 DEF Reader!HeaderIntact
<1>8. Reader!PhysicalLength = n
  BY <1>4, <1>6 DEF Reader!PhysicalLength
<1>9. SubSeq(buffer, 1, n) = Encode(p)
  <2>1. \A i \in 1..n : buffer[i] \in Cell
    BY <1>1, <1>4
  <2>2. /\ SubSeq(buffer, 1, n) \in Seq(Cell)
        /\ Len(SubSeq(buffer, 1, n)) = IF 1 <= n THEN n - 1 + 1 ELSE 0
        /\ \A i \in 1..(n - 1 + 1) : SubSeq(buffer, 1, n)[i] = buffer[1 + i - 1]
    BY <1>4, <2>1, SubSeqProperties
  <2>3. Encode(p) = [k \in 1..n |-> [phys |-> p, at |-> k]]
    BY <1>4 DEF Encode
  <2>4. \A k \in 1..n : [phys |-> p, at |-> k] \in Cell
    BY <1>5, <2>1
  <2>5. Encode(p) \in Seq(Cell) /\ Len(Encode(p)) = n
        /\ \A k \in 1..n : Encode(p)[k] = [phys |-> p, at |-> k]
    BY <1>4, <2>3, <2>4
  <2>6. Len(SubSeq(buffer, 1, n)) = n
    BY <1>1, <1>4, <2>2
  <2>7. ASSUME NEW i \in 1..n
        PROVE  SubSeq(buffer, 1, n)[i] = Encode(p)[i]
    <3>1. i \in 1..(n - 1 + 1) /\ 1 + i - 1 = i
      BY <1>4
    <3>2. SubSeq(buffer, 1, n)[i] = buffer[i]
      BY <2>2, <3>1
    <3>. QED
      BY <1>5, <2>5, <3>2
  <2>. QED
    BY <2>2, <2>5, <2>6, <2>7, SeqEqual
<1>10. Reader!ChecksumOK
  BY <1>4, <1>6, <1>7, <1>8, <1>9, SameBytes DEF Reader!ChecksumOK
<1>. QED
  BY <1>1, <1>4, <1>7, <1>8, <1>10

LEMMA FrontLength ==
  ASSUME TypeInv, buffer # << >>
  PROVE  Reader!PhysicalLength \in Int
<1>1. Len(buffer) # 0 /\ Len(buffer) \in Nat
  BY BufferType, EmptySeq DEF TypeInv
<1>2. buffer[1] \in Cell
  <2>1. 1 \in 1..Len(buffer)
    BY <1>1
  <2>. QED
    BY <2>1, BufferType DEF TypeInv
<1>3. Len(buffer[1].phys.data) \in Nat
  BY <1>2, LenProperties DEF Cell, Physical
<1>. QED
  BY <1>3, FormatAssumption DEF Reader!PhysicalLength, Reader!FrontRecord

------------------------------------------------------------------------------
(***************************************************************************)
(* Reports.                                                                *)
(***************************************************************************)
Clean == aligned /\ initial_offset = 0 /\ Undamaged(0, Len(disk))

(* The reader is at the start of the file or behind a record.              *)
Between(G) ==
  \/ Place = 0
  \/ Place \in 1..Len(G) /\ IsEnd(G[Place]) /\ Closes(G[Place].phys)

(* The reader meets the fragments of the log one after the other.          *)
Quiet(G) ==
  Clean =>
    /\ ~reported /\ ~resyncing
    /\ rpc = "dispatch" => record_type # "bad"
    /\ rpc = "ready" \/ (rpc = "physical" /\ ~in_fragmented_record) => Between(G)
    /\ rpc = "physical" /\ in_fragmented_record => ~Closes(G[Place].phys)
    /\ Taken => (in_fragmented_record <=> ~Opens(G[Place].phys))

LEMMA CleanFront ==
  ASSUME TypeInv, NEW G, WrittenInv(G), Steady(G), Clean, Reader!HasHeader
  PROVE  /\ Reader!HeaderIntact
         /\ Reader!PhysicalLength <= Len(buffer) => Reader!ChecksumOK
         /\ ~eof => Reader!PhysicalLength <= Len(buffer)
<1>1. /\ Layout(G) /\ Contiguous /\ log \in Seq(Seq(Byte))
      /\ Len(buffer) \in Nat /\ Len(disk) \in Nat
      /\ HeaderSize \in Nat \ {0} /\ Len(buffer) >= HeaderSize /\ aligned
      /\ \A i \in 1..Len(disk) : Written(disk[i])
  <2>1. \A i \in (0 + 1)..Len(disk) : Written(disk[i])
    BY DEF Clean, Undamaged
  <2>2. aligned /\ 0 + 1 = 1
    BY DEF Clean
  <2>. QED
    BY <2>1, <2>2, EndsType, BufferType, DiskType, FormatAssumption
       DEF TypeInv, WrittenInv, LogInv, Steady, Reader!HasHeader
<1>2. buffer # << >>
  <2>1. Len(<< >>) = 0
    OBVIOUS
  <2>. QED
    BY <1>1, <2>1
<1>3. Place + 1 \in 1..Len(G)
  BY <1>1, <1>2, FragmentAhead
<1>4. PICK p, n : p = G[Place + 1].phys /\ n = Size(p)
  OBVIOUS
<1>5. n \in Nat /\ n >= HeaderSize /\ n = HeaderSize + Len(p.data)
  <2>1. PICK i \in 1..Len(G) : i = Place + 1
    BY <1>3
  <2>2. Size(G[i].phys) \in Nat /\ Size(G[i].phys) >= HeaderSize
    BY <1>1, LayoutTypes
  <2>. QED
    BY <1>4, <2>1, <2>2 DEF Size
<1>6. \A k \in 1..Len(buffer) : Written(disk[Place + k])
  BY <1>1 DEF Contiguous
<1>7. \A k \in 1..HeaderSize : buffer[k] = [phys |-> p, at |-> k]
  <2>1. /\ HeaderSize <= Size(G[Place + 1].phys)
        /\ \A k \in 1..HeaderSize : Written(disk[Place + k])
    BY <1>1, <1>4, <1>5, <1>6
  <2>2. \A k \in 1..HeaderSize : buffer[k] = [phys |-> G[Place + 1].phys, at |-> k]
    BY <1>1, <1>2, <2>1, FrontIsFragment
  <2>. QED
    BY <1>4, <2>2
<1>8. Reader!FrontRecord = p
  <2>1. 1 \in 1..HeaderSize
    BY <1>1
  <2>2. buffer[1] = [phys |-> p, at |-> 1]
    BY <1>7, <2>1
  <2>. QED
    BY <2>2 DEF Reader!FrontRecord
<1>9. Reader!HeaderIntact /\ Reader!PhysicalLength = n
  BY <1>5, <1>7, <1>8 DEF Reader!HeaderIntact, Reader!PhysicalLength
<1>10. ASSUME n <= Len(buffer)
       PROVE  Reader!ChecksumOK
  <2>1. \A k \in 1..Size(G[Place + 1].phys) : Written(disk[Place + k])
    BY <1>1, <1>4, <1>5, <1>6, <1>10
  <2>2. Size(G[Place + 1].phys) <= Len(buffer)
    BY <1>4, <1>10
  <2>. QED
    BY <1>1, <1>2, <2>1, <2>2, FrontIsWhole
<1>11. ~eof => n <= Len(buffer)
  BY <1>1, <1>2, <1>4, FragmentAhead
<1>. QED
  BY <1>9, <1>10, <1>11

LEMMA DropIsQuiet ==
  ASSUME TypeInv, NEW G, WrittenInv(G), Steady(G), Quiet(G), Clean,
         \/ Reader!FillFails \/ Reader!EndOfFile \/ Reader!BadRecordLength
         \/ Reader!ZeroLengthRecord \/ Reader!ChecksumMismatch
  PROVE  /\ reported' = reported /\ record_type' = "eof"
<1>1. CASE Reader!FillFails \/ Reader!EndOfFile
  BY <1>1 DEF Reader!FillFails, Reader!EndOfFile, Reader!ReturnType,
     Reader!NoReport, Reader!ReportThroughRecover
<1>2. CASE Reader!BadRecordLength
  <2>1. /\ Reader!HeaderIntact => Reader!PhysicalLength > Len(buffer)
        /\ Reader!HasHeader
    BY <1>2 DEF Reader!BadRecordLength
  <2>2. eof
    <3>1. SUFFICES ASSUME ~eof PROVE FALSE
      OBVIOUS
    <3>2. /\ Reader!PhysicalLength <= Len(buffer)
          /\ Reader!PhysicalLength > Len(buffer)
      BY <2>1, <3>1, CleanFront
    <3>3. Len(buffer) \in Nat /\ Reader!PhysicalLength \in Int
      <4>1. buffer # << >>
        <5>1. Len(<< >>) = 0
          OBVIOUS
        <5>. QED
          BY <2>1, <5>1, FormatAssumption DEF Reader!HasHeader
      <4>. QED
        BY <4>1, FrontLength, BufferType DEF TypeInv
    <3>. QED
      BY <3>2, <3>3
  <2>. QED
    BY <1>2, <2>2 DEF Reader!BadRecordLength, Reader!NoReport, Reader!ReturnType
<1>3. CASE Reader!ZeroLengthRecord
  BY <1>3, CleanFront DEF Reader!ZeroLengthRecord
<1>4. CASE Reader!ChecksumMismatch
  BY <1>4, CleanFront DEF Reader!ChecksumMismatch
<1>. QED
  BY <1>1, <1>2, <1>3, <1>4

(* The fragment behind a record opens one, and only that one.              *)
LEMMA TakeIsQuiet ==
  ASSUME TypeInv, TypeInv', NEW G, WrittenInv(G), Steady(G), Exact(G), Quiet(G),
         Clean, Reader!TakePhysicalRecord
  PROVE  /\ reported' = reported /\ resyncing' = resyncing
         /\ rpc' = "dispatch" /\ record_type' # "bad"
         /\ in_fragmented_record' <=> ~Opens(G[Place'].phys)
<1>. DEFINE p == Reader!FrontRecord
            n == Reader!PhysicalLength
<1>1. /\ rpc = "physical" /\ rpc' = "dispatch"
      /\ UNCHANGED <<in_fragmented_record, resyncing, reported>>
  BY DEF Reader!TakePhysicalRecord, Reader!HasHeader, Reader!NoReport,
     Reader!ReturnType, Reader!localVars
<1>2. Takes(G, p, n)
  BY TakesFragment DEF WrittenInv
<1>3. record_type' # "bad"
  <2>1. ~(end_of_buffer_offset - Len(buffer) < initial_offset)
    <3>1. /\ end_of_buffer_offset >= Len(buffer) /\ initial_offset = 0
          /\ end_of_buffer_offset \in Nat /\ Len(buffer) \in Nat
      BY BufferType DEF Clean, TypeInv, Offsets, TypeOK, Reader!TypeOK
    <3>. QED
      BY <3>1
  <2>2. record_type' = p.type
    BY <2>1 DEF Reader!TakePhysicalRecord, Reader!ReturnType
  <2>. QED
    BY <1>2, <2>2 DEF Takes, Physical, RecordType
<1>. HIDE DEF p, n
<1>4. /\ Place + 1 \in 1..Len(G) /\ G[Place + 1].at = 1
      /\ G[Place + 1].phys = G[Place'].phys
  BY <1>2 DEF Takes
<1>5. /\ aligned /\ Layout(G) /\ Starts(G) /\ Ends(G) /\ FirstOpens(G)
      /\ log \in Seq(Seq(Byte)) /\ Len(ends) \in Nat
  BY EndsType DEF Clean, WrittenInv, LogInv, Numbered, TypeInv
<1>6. PICK i \in 1..Len(G) : i = Place + 1
  BY <1>4
<1>7. /\ Len(G) \in Nat /\ G[i].rec \in Nat /\ G[i].rec >= 1
  <2>1. Len(G) \in Nat /\ G[i].rec \in 1..Len(log) /\ G[i].rec \in Nat
    BY <1>5, LayoutTypes
  <2>. QED
    BY <2>1
<1>8. CASE ~in_fragmented_record
  <2>1. Between(G)
    BY <1>1, <1>8 DEF Quiet
  <2>2. CASE Place = 0
    <3>1. i = 1 /\ Len(G) > 0
      BY <1>6, <1>7, <2>2
    <3>. QED
      BY <1>1, <1>3, <1>4, <1>5, <1>6, <1>8, <3>1 DEF FirstOpens
  <2>3. CASE Place \in 1..Len(G) /\ IsEnd(G[Place]) /\ Closes(G[Place].phys)
    <3>1. PICK j \in 1..Len(G) : j = Place
      BY <2>3
    <3>2. i = j + 1 /\ j < i
      BY <1>6, <1>7, <3>1
    <3>3. Follows(G[i], G[j])
      BY <1>4, <1>5, <1>6, <3>2 DEF Layout, Chained
    <3>4. G[j].rec < G[i].rec
      BY <1>5, <2>3, <3>1, <3>2 DEF Layout, Ordered
    <3>5. G[j].rec \in Nat
      BY <1>5, LayoutTypes
    <3>6. Opens(G[i].phys)
      BY <1>7, <3>3, <3>4, <3>5 DEF Follows
    <3>. QED
      BY <1>1, <1>3, <1>4, <1>6, <1>8, <3>6
  <2>. QED
    BY <2>1, <2>2, <2>3 DEF Between
<1>9. CASE in_fragmented_record
  <2>1. Place \in 1..Len(G) /\ ~Closes(G[Place].phys)
    BY <1>1, <1>5, <1>9 DEF Exact, Quiet
  <2>2. ~Opens(G[i].phys)
    <3>1. SUFFICES ASSUME Opens(G[i].phys) PROVE FALSE
      OBVIOUS
    <3>2. G[i].rec <= Len(ends) + 1 /\ StartOf(G[i].rec) = i - 1
      BY <1>4, <1>5, <1>6, <3>1 DEF Starts
    <3>3. i - 1 = Place /\ Place # 0
      BY <1>6, <1>7, <2>1
    <3>4. G[i].rec # 1 /\ Place = ends[G[i].rec - 1]
      BY <3>2, <3>3 DEF StartOf
    <3>5. G[i].rec - 1 \in 1..Len(ends)
      BY <1>5, <1>7, <3>2, <3>4
    <3>6. Closes(G[Place].phys)
      BY <1>5, <3>4, <3>5 DEF Ends
    <3>. QED
      BY <2>1, <3>6
  <2>. QED
    BY <1>1, <1>3, <1>4, <1>6, <1>9, <2>2
<1>. QED
  BY <1>1, <1>3, <1>8, <1>9

LEMMA DispatchIsQuiet ==
  ASSUME TypeInv, TypeInv', NEW G, WrittenInv(G), Steady(G), Exact(G), Quiet(G),
         Clean, Place' = Place, Reader!DispatchRecord
  PROVE  /\ reported' = reported /\ ~resyncing'
         /\ \/ rpc' \in {"end", "crashed"}
            \/ rpc' = "ready" /\ Between(G)'
            \/ /\ rpc' = "physical" /\ in_fragmented_record'
               /\ ~Closes(G[Place].phys)
<1>1. /\ ~resyncing /\ rpc = "dispatch" /\ record_type # "bad" /\ aligned
      /\ Taken => (in_fragmented_record <=> ~Opens(G[Place].phys))
  BY DispatchLeavesBuffer DEF Quiet, Clean
<1>2. ASSUME NEW t \in {"full", "first", "middle", "last"}, Reader!Dispatch(t)
      PROVE  /\ ~resyncing'
             /\ G[Place].phys.type = t /\ Place \in 1..Len(G) /\ IsEnd(G[Place])
             /\ in_fragmented_record <=> t \in {"middle", "last"}
  <2>1. Taken /\ record_type = t /\ ~resyncing'
    BY <1>2 DEF Reader!Dispatch, Taken
  <2>2. /\ Place \in 1..Len(G) /\ IsEnd(G[Place]) /\ G[Place].phys.type = t
    BY <1>1, <2>1, TakenOffset
  <2>. QED
    BY <1>1, <2>1, <2>2 DEF Opens
<1>3. CASE Reader!SkipTail
  BY <1>1, <1>3 DEF Reader!SkipTail, Reader!Skipped
<1>4. CASE Reader!FullRecord
  <2>1. Reader!Dispatch("full")
    BY <1>4 DEF Reader!FullRecord
  <2>2. /\ ~resyncing' /\ ~in_fragmented_record /\ G[Place].phys.type = "full"
        /\ Place \in 1..Len(G) /\ IsEnd(G[Place])
    BY <1>2, <2>1
  <2>3. reported' = reported /\ rpc' = "ready"
    BY <1>4, <2>2 DEF Reader!FullRecord, Reader!PartialRecord, Reader!NoReport
  <2>. QED
    BY <2>2, <2>3 DEF Between, Closes
<1>5. CASE Reader!FirstFragment
  <2>1. Reader!Dispatch("first") /\ in_fragmented_record'
    BY <1>5 DEF Reader!FirstFragment
  <2>2. ~resyncing' /\ ~in_fragmented_record /\ G[Place].phys.type = "first"
    BY <1>2, <2>1
  <2>3. reported' = reported /\ rpc' = "physical"
    BY <1>5, <2>2 DEF Reader!FirstFragment, Reader!PartialRecord, Reader!NoReport
  <2>. QED
    BY <2>1, <2>2, <2>3 DEF Closes
<1>6. CASE Reader!MiddleFragment
  <2>1. /\ Reader!Dispatch("middle") /\ in_fragmented_record'
        /\ reported' = reported /\ rpc' = "physical"
    BY <1>6 DEF Reader!MiddleFragment, Reader!NoReport
  <2>2. ~resyncing' /\ G[Place].phys.type = "middle"
    BY <1>2, <2>1
  <2>. QED
    BY <2>1, <2>2 DEF Closes
<1>7. CASE Reader!LastFragment
  <2>1. Reader!Dispatch("last") /\ reported' = reported /\ rpc' = "ready"
    BY <1>7 DEF Reader!LastFragment, Reader!NoReport
  <2>2. /\ ~resyncing' /\ G[Place].phys.type = "last"
        /\ Place \in 1..Len(G) /\ IsEnd(G[Place])
    BY <1>2, <2>1
  <2>. QED
    BY <2>1, <2>2 DEF Between, Closes
<1>8. CASE Reader!MissingStart
  <2>1. /\ Reader!Dispatch("middle") \/ Reader!Dispatch("last")
        /\ ~in_fragmented_record
    BY <1>8 DEF Reader!MissingStart
  <2>. QED
    BY <1>2, <2>1
<1>9. CASE Reader!ScratchCrash \/ Reader!ReturnEof
  BY <1>9 DEF Reader!ScratchCrash, Reader!ReturnEof, Reader!NoReport,
     Reader!Dispatch
<1>10. CASE Reader!BadRecord
  BY <1>1, <1>10 DEF Reader!BadRecord, Reader!Dispatch
<1>. QED
  BY <1>3, <1>4, <1>5, <1>6, <1>7, <1>8, <1>9, <1>10 DEF Reader!DispatchRecord

LEMMA FreshIsQuiet ==
  ASSUME TypeInv', Calls', Unread', NEW G
  PROVE  Quiet(G)'
BY DEF Calls, Unread, Quiet, Taken

LEMMA ReadIsQuiet ==
  ASSUME TypeInv, TypeInv', Calls, NEW G, WrittenInv(G), Steady(G), Exact(G),
         Quiet(G), Read
  PROVE  Quiet(G)'
<1>1. Reader!Next /\ disk' = disk /\ aligned' = aligned
  BY ReaderLeavesFile DEF Read
<1>2. CASE Reader!Open
  <2>1. /\ Unread /\ rpc' = "ready" /\ ~Taken' /\ UNCHANGED <<file_pos, buffer>>
        /\ reported' = reported
    BY <1>2 DEF Reader!Open, Unread, Reader!inputVars, Taken
  <2>6. initial_offset' = 0 => ~resyncing'
    <3>1. resyncing' = FALSE \/ resyncing' = (initial_offset' > 0)
      BY <1>2 DEF Reader!Open
    <3>2. ~(0 > 0)
      OBVIOUS
    <3>. QED
      BY <3>1, <3>2
  <2>2. ~reported /\ file_pos = 0 /\ buffer = << >> /\ Len(<< >>) = 0
    <3>1. Len(<< >>) = 0
      OBVIOUS
    <3>2. ~reported
      BY <2>1 DEF Calls
    <3>3. file_pos = 0 /\ buffer = << >>
      BY <2>1 DEF TypeInv, Fresh
    <3>. QED
      BY <3>1, <3>2, <3>3
  <2>3. Place' = 0
    <3>1. Len(buffer') = 0 /\ file_pos' = 0
      BY <2>1, <2>2
    <3>. QED
      BY <3>1 DEF Place
  <2>4. Between(G)'
    BY <2>3 DEF Between
  <2>5. Clean' => ~resyncing'
    BY <2>6 DEF Clean
  <2>. QED
    BY <2>1, <2>2, <2>4, <2>5 DEF Quiet
<1>3. CASE ~Reader!Open
  <2>1. initial_offset' = initial_offset
    BY <1>1, <1>3 DEF Reader!Next, Reader!ReadLogRecord, Reader!SkipFails,
       Reader!ReadPhysicalRecord, Reader!FillBuffer, Reader!FillFails,
       Reader!EndOfFile, Reader!BadRecordLength, Reader!ZeroLengthRecord,
       Reader!ChecksumMismatch, Reader!TakePhysicalRecord, Reader!ReturnType,
       Reader!DispatchRecord, Reader!SkipTail, Reader!FullRecord,
       Reader!FirstFragment, Reader!MiddleFragment, Reader!LastFragment,
       Reader!MissingStart, Reader!ScratchCrash, Reader!ReturnEof,
       Reader!BadRecord, Reader!Dispatch, Reader!fixedVars
  <2>2. SUFFICES ASSUME Clean PROVE Quiet(G)'
    BY <1>1, <2>1 DEF Quiet, Clean, Undamaged
  <2>3. /\ ~reported /\ ~resyncing /\ aligned /\ initial_offset = 0
    BY <2>2 DEF Quiet, Clean
  <2>4. CASE Reader!ReadLogRecord
    <3>1. /\ rpc = "ready" /\ rpc' = "physical" /\ ~in_fragmented_record'
          /\ reported' = reported /\ resyncing' = resyncing
          /\ buffer' = buffer
      BY <2>4 DEF Reader!ReadLogRecord
    <3>2. file_pos' = file_pos
      <4>1. ~Reader!MustSkip
        BY <2>3 DEF Reader!MustSkip, TypeInv, TypeOK, Reader!TypeOK
      <4>. QED
        BY <2>4, <4>1 DEF Reader!ReadLogRecord
    <3>3. Between(G)'
      BY <2>2, <3>1, <3>2 DEF Quiet, Between, Place
    <3>. QED
      BY <2>3, <3>1, <3>3 DEF Quiet, Taken
  <2>5. CASE Reader!SkipFails
    <3>1. reported' = reported /\ resyncing' = resyncing
          /\ rpc' \in {"end", "crashed"}
      BY <2>5 DEF Reader!SkipFails, Reader!ReportThroughRecover
    <3>. QED
      BY <2>3, <3>1 DEF Quiet, Taken
  <2>6. CASE Reader!FillBuffer
    <3>1. Place' = Place /\ rpc = "physical" /\ rpc' = "physical"
      BY <1>1, <2>3, <2>6, FillIsSteady
    <3>2. UNCHANGED <<reported, resyncing, in_fragmented_record>>
      BY <2>6 DEF Reader!FillBuffer, Reader!localVars
    <3>. QED
      BY <2>2, <2>3, <3>1, <3>2 DEF Quiet, Between, Taken
  <2>7. CASE \/ Reader!FillFails \/ Reader!EndOfFile \/ Reader!BadRecordLength
             \/ Reader!ZeroLengthRecord \/ Reader!ChecksumMismatch
    <3>1. reported' = reported /\ record_type' = "eof"
      BY <2>2, <2>7, DropIsQuiet
    <3>2. rpc' \in {"dispatch", "crashed"}
      BY <1>1, <2>3, <2>7, DropIsSteady
    <3>3. resyncing' = resyncing
      BY <2>7 DEF Reader!FillFails, Reader!EndOfFile, Reader!BadRecordLength,
         Reader!ZeroLengthRecord, Reader!ChecksumMismatch, Reader!ReturnType
    <3>. QED
      BY <2>3, <3>1, <3>2, <3>3 DEF Quiet, Taken
  <2>8. CASE Reader!TakePhysicalRecord
    BY <2>2, <2>3, <2>8, TakeIsQuiet DEF Quiet, Taken
  <2>9. CASE Reader!DispatchRecord
    <3>1. Place' = Place /\ ~Taken'
      BY <2>9, DispatchLeavesBuffer DEF Place, Taken
    <3>2. /\ reported' = reported /\ ~resyncing'
          /\ \/ rpc' \in {"end", "crashed"}
             \/ rpc' = "ready" /\ Between(G)'
             \/ /\ rpc' = "physical" /\ in_fragmented_record'
                /\ ~Closes(G[Place].phys)
      BY <2>2, <2>9, <3>1, DispatchIsQuiet
    <3>. QED
      BY <2>3, <3>1, <3>2 DEF Quiet
  <2>. QED
    BY <1>1, <1>3, <2>4, <2>5, <2>6, <2>7, <2>8, <2>9
       DEF Reader!Next, Reader!ReadPhysicalRecord
<1>. QED
  BY <1>2, <1>3

------------------------------------------------------------------------------
(***************************************************************************)
(* What damage costs.  A record the reader must not lose starts in a block *)
(* that is undamaged up to the end of the record.  The reader may be       *)
(* anywhere before it; it must not jump into it, must not leave it, and    *)
(* must have what it collects of it in order.                              *)
(***************************************************************************)

(* The start of the block in which the k-th record starts.                 *)
Block(k) == StartOf(k) - (StartOf(k) % BlockSize)

(* The records that must be returned.                                      *)
Good == {k \in DOMAIN ends : /\ StartOf(k) >= initial_offset
                            /\ Undamaged(Block(k), ends[k])}

(* The reader has had the last fragment of the k-th record and has done    *)
(* with it what it does.                                                   *)
Reached(k) == ends[k] < Place \/ (ends[k] = Place /\ ~Taken)

(* In the middle of such a record the reader is collecting it.             *)
Inside ==
  \A k \in Good :
    StartOf(k) < Place /\ Place < ends[k] =>
      /\ rpc # "ready"
      /\ rpc = "physical" => in_fragmented_record
      /\ rpc = "dispatch" => record_type # "bad"

(* It was before it took a fragment that does not open the record.         *)
Collecting(G) ==
  Taken /\ ~Opens(G[Place].phys) /\ G[Place].rec \in Good =>
    in_fragmented_record

(* The last byte of the k-th record is in the file, and the record does    *)
(* not start before initial_offset.                                        *)
Returnable(k) ==
  /\ k \in DOMAIN ends
  /\ StartOf(k) >= initial_offset
  /\ ends[k] <= Len(disk) /\ Written(disk[ends[k]])

Complete(G) ==
  \E S \in SUBSET (1..Len(log)) :
    /\ delivered = Subsequence(log, S)
    /\ Passed(G, S)
    /\ \A k \in S : Returnable(k)
    /\ rpc # "crashed" => \A k \in Good : Reached(k) => k \in S

Local(G) == aligned => Inside /\ Collecting(G) /\ Complete(G)

(* The reader comes to an end with an empty buffer, or without having read *)
(* anything.                                                               *)
Ending ==
  /\ rpc = "dispatch" /\ record_type = "eof" => eof /\ buffer = << >>
  /\ rpc = "end" => IF eof THEN buffer = << >>
                           ELSE file_pos < Reader!InitialBlock

(* A block that ends behind the start of a record starts no earlier.       *)
LEMMA BlockBelow ==
  ASSUME NEW k, StartOf(k) \in Nat, NEW q \in Nat,
         StartOf(k) < (q + 1) * BlockSize
  PROVE  Block(k) <= q * BlockSize /\ Block(k) \in Int
<1>1. PICK o \in Nat : o = StartOf(k)
  OBVIOUS
<1>2. /\ BlockSize \in Nat \ {0}
      /\ o \div BlockSize \in Nat /\ (o % BlockSize) \in Nat
      /\ o = BlockSize * (o \div BlockSize) + (o % BlockSize)
  BY FormatAssumption
<1>3. PICK c, r : c = o \div BlockSize /\ r = (o % BlockSize)
  OBVIOUS
<1>4. /\ c \in Nat /\ r \in Nat /\ o = c * BlockSize + r
      /\ c * BlockSize \in Nat /\ q * BlockSize \in Nat
  <2>1. BlockSize * c = c * BlockSize /\ c * BlockSize \in Nat
    BY <1>2, <1>3
  <2>2. q * BlockSize \in Nat
    BY <1>2
  <2>. QED
    BY <1>2, <1>3, <2>1, <2>2
<1>5. c <= q
  <2>1. SUFFICES ASSUME q + 1 <= c PROVE FALSE
    BY <1>4
  <2>2. (q + 1) * BlockSize <= c * BlockSize /\ (q + 1) * BlockSize \in Nat
    BY <1>2, <1>4, <2>1
  <2>. QED
    BY <1>1, <1>4, <2>2
<1>6. c * BlockSize <= q * BlockSize
  BY <1>2, <1>4, <1>5
<1>7. Block(k) = c * BlockSize
  <2>1. Block(k) = o - r
    BY <1>1, <1>3 DEF Block
  <2>. QED
    BY <1>4, <2>1
<1>. QED
  BY <1>4, <1>6, <1>7

(* What a record that must be returned is.                                 *)
LEMMA GoodExtent ==
  ASSUME TypeInv, NEW G, WrittenInv(G), NEW k \in Good
  PROVE  /\ k \in DOMAIN ends /\ k \in 1..Len(ends)
         /\ StartOf(k) \in Nat /\ StartOf(k) >= initial_offset
         /\ ends[k] \in 1..Len(G) /\ ends[k] \in Nat
         /\ StartOf(k) < ends[k] /\ ends[k] <= Len(disk)
         /\ initial_offset \in Nat /\ Len(disk) \in Nat
<1>1. /\ k \in DOMAIN ends /\ StartOf(k) >= initial_offset
      /\ ends[k] <= Len(disk)
  BY DEF Good, Undamaged
<1>2. Len(G) \in Nat
  BY EndsType, LayoutTypes DEF TypeInv, WrittenInv, LogInv
<1>3. /\ k \in 1..Len(ends) /\ ends[k] \in 1..Len(G)
      /\ StartOf(k) \in Nat /\ StartOf(k) < ends[k]
  BY <1>1, RecordExtent
<1>4. Len(disk) \in Nat /\ initial_offset \in Nat
  BY DiskType DEF TypeInv, TypeOK, Reader!TypeOK
<1>. QED
  BY <1>1, <1>2, <1>3, <1>4

(* The part of the buffer that such a record touches is as the writer      *)
(* wrote it, so the fragment at its front is whole.                        *)
LEMMA WholeAhead ==
  ASSUME TypeInv, NEW G, WrittenInv(G), Steady(G), aligned, buffer # << >>,
         NEW k \in Good, Place < ends[k], StartOf(k) < file_pos
  PROVE  /\ Len(buffer) >= HeaderSize
         /\ Reader!HeaderIntact /\ Reader!ChecksumOK
         /\ Reader!PhysicalLength <= Len(buffer)
<1>1. /\ k \in DOMAIN ends /\ StartOf(k) \in Nat /\ ends[k] \in 1..Len(G)
      /\ ends[k] \in Nat /\ ends[k] <= Len(disk) /\ Len(disk) \in Nat
  BY GoodExtent
<1>2. Undamaged(Block(k), ends[k])
  BY DEF Good
<1>3. PICK q \in Nat : q * BlockSize <= Place /\ file_pos <= (q + 1) * BlockSize
  BY DEF Steady, Within
<1>4. /\ q * BlockSize \in Nat /\ (q + 1) * BlockSize \in Nat
      /\ file_pos \in Nat /\ Place \in Nat
  <2>1. BlockSize \in Nat
    BY FormatAssumption
  <2>. QED
    BY <2>1, PlaceType, FragmentAhead DEF TypeInv
<1>5. Block(k) <= q * BlockSize /\ Block(k) \in Int
  <2>1. StartOf(k) < (q + 1) * BlockSize
    BY <1>1, <1>3, <1>4
  <2>. QED
    BY <1>1, <2>1, BlockBelow
<1>6. \A i \in 1..Len(disk) : Place < i /\ i <= ends[k] => Written(disk[i])
  <2>1. ASSUME NEW i \in 1..Len(disk), Place < i, i <= ends[k]
        PROVE  Written(disk[i])
    <3>1. i \in (Block(k) + 1)..ends[k]
      BY <1>1, <1>3, <1>4, <1>5, <2>1
    <3>. QED
      BY <1>2, <3>1 DEF Undamaged
  <2>. QED
    BY <2>1
<1>7. /\ Place + 1 \in 1..Len(G) /\ G[Place + 1].at = 1
      /\ ~eof \/ Place + Size(G[Place + 1].phys) <= Len(disk)
              => Size(G[Place + 1].phys) <= Len(buffer)
  BY FragmentAhead
<1>8. PICK s \in 1..Len(G) : s = Place + 1
  BY <1>7
<1>9. /\ Layout(G) /\ log \in Seq(Seq(Byte)) /\ Size(G[s].phys) \in Nat
      /\ IsEnd(G[ends[k]])
  <2>1. Layout(G) /\ log \in Seq(Seq(Byte))
    BY EndsType DEF TypeInv, WrittenInv, LogInv
  <2>. QED
    BY <1>1, <2>1, LayoutTypes, RecordExtent
<1>10. PICK n \in Nat : n = Size(G[s].phys)
  BY <1>9
<1>11. Place + n <= ends[k]
  <2>1. s <= ends[k]
    BY <1>1, <1>4, <1>8
  <2>2. G[s].at = 1
    BY <1>7, <1>8
  <2>3. s + Size(G[s].phys) <= ends[k] + 1
    BY <1>1, <1>9, <2>1, <2>2, EndInRun
  <2>. QED
    BY <1>1, <1>4, <1>8, <1>10, <2>3
<1>12. n <= Len(buffer)
  <2>1. Place + n <= Len(disk)
    BY <1>1, <1>4, <1>11
  <2>. QED
    BY <1>7, <1>8, <1>10, <2>1
<1>13. \A c \in 1..n : Written(disk[Place + c])
  <2>1. ASSUME NEW c \in 1..n
        PROVE  Written(disk[Place + c])
    <3>1. /\ Place + c \in 1..Len(disk) /\ Place < Place + c
          /\ Place + c <= ends[k]
      BY <1>1, <1>4, <1>11
    <3>. QED
      BY <1>6, <3>1
  <2>. QED
    BY <2>1
<1>. QED
  BY <1>8, <1>10, <1>12, <1>13, FrontIsWhole

(* It is not where the reader begins, or before that.                      *)
LEMMA InitialBlockBelow ==
  ASSUME TypeInv, NEW G, WrittenInv(G), aligned, NEW k \in Good
  PROVE  Reader!InitialBlock <= StartOf(k) /\ Reader!InitialBlock \in Nat
<1>1. /\ k \in DOMAIN ends /\ StartOf(k) \in Nat
      /\ StartOf(k) >= initial_offset /\ initial_offset \in Nat
  BY GoodExtent
<1>2. PICK o \in Nat, s \in Nat : o = initial_offset /\ s = StartOf(k)
  BY <1>1
<1>3. Reader!InitialBlock \in Nat
  BY <1>1, InitialBlockType
<1>4. PICK q \in Nat : Reader!InitialBlock = q * BlockSize
  BY <1>1, InitialBlockStarts
<1>5. SUFFICES ASSUME s < q * BlockSize PROVE FALSE
  BY <1>2, <1>3, <1>4
<1>6. PICK g, n : g = G[s + 1] /\ n = Size(g.phys)
  OBVIOUS
<1>7. /\ n \in Nat /\ n >= HeaderSize /\ Writer!InOneBlock(s, n)
  <2>1. PICK i \in 1..Len(G) : i = s + 1
    BY <1>1, <1>2, RecordExtent
  <2>2. G[i].at = 1
    BY <1>1, <1>2, <2>1, RecordExtent
  <2>3. Size(G[i].phys) \in Nat /\ Size(G[i].phys) >= HeaderSize
    BY EndsType, LayoutTypes DEF TypeInv, WrittenInv, LogInv
  <2>4. Writer!InOneBlock(i - 1, Size(G[i].phys))
    BY <2>2 DEF WrittenInv, Straight
  <2>5. i - 1 = s
    BY <2>1
  <2>. QED
    BY <1>6, <2>1, <2>3, <2>4, <2>5
<1>8. s + n <= q * BlockSize
  BY <1>5, <1>7, EndsInBlock
<1>9. /\ BlockSize \in Nat \ {0} /\ HeaderSize \in Nat \ {0}
      /\ (o % BlockSize) \in Nat
  BY FormatAssumption
<1>10. PICK r \in Nat : r = (o % BlockSize)
  BY <1>9
<1>11. q * BlockSize = IF r > BlockSize - (HeaderSize - 1)
                       THEN (o - r) + BlockSize ELSE o - r
  BY <1>2, <1>4, <1>10 DEF Reader!InitialBlock
<1>12. s >= o
  BY <1>1, <1>2
<1>13. PICK b \in Nat : b = q * BlockSize
  BY <1>3, <1>4
<1>. QED
  BY <1>5, <1>7, <1>8, <1>9, <1>11, <1>12, <1>13

(* The last fragment of a record does not end in another one.              *)
LEMMA NotInsideEnd ==
  ASSUME TypeInv, NEW G, WrittenInv(G), NEW k \in DOMAIN ends,
         StartOf(k) < Place, Place < ends[k],
         Place \in 1..Len(G), IsEnd(G[Place]), Closes(G[Place].phys)
  PROVE  FALSE
<1>1. PICK i \in 1..Len(G) : i = Place
  OBVIOUS
<1>2. PICK e \in 1..Len(G) : e = ends[k]
  BY RecordExtent
<1>3. /\ StartOf(k) \in Nat /\ G[e].rec = k
      /\ G[i].rec = k <=> StartOf(k) < i /\ i <= ends[k]
  BY <1>2, RecordExtent
<1>4. Layout(G) /\ i < e /\ Len(G) \in Nat
  BY <1>1, <1>2, EndsType, LayoutTypes DEF TypeInv, WrittenInv, LogInv
<1>5. G[i].rec = k
  BY <1>1, <1>2, <1>3, <1>4
<1>6. G[i].rec < G[e].rec
  BY <1>1, <1>4 DEF Layout, Ordered
<1>7. k \in Nat
  BY EndsType DEF TypeInv
<1>. QED
  BY <1>3, <1>5, <1>6, <1>7

LEMMA GoodStays ==
  ASSUME ends' = ends, disk' = disk, initial_offset' = initial_offset
  PROVE  /\ Good' = Good /\ \A k : StartOf(k)' = StartOf(k)
         /\ \A k : Returnable(k)' = Returnable(k)
<1>1. \A k : StartOf(k)' = StartOf(k)
  BY DEF StartOf
<1>2. \A k : Block(k)' = Block(k)
  BY <1>1 DEF Block
<1>3. \A a, b : Undamaged(a, b)' = Undamaged(a, b)
  BY DEF Undamaged
<1>4. \A k \in DOMAIN ends :
        Undamaged(Block(k), ends[k])' = Undamaged(Block(k), ends[k])
  BY <1>2 DEF Undamaged
<1>5. Good' = Good
  BY <1>1, <1>4 DEF Good
<1>6. \A k : Returnable(k)' = Returnable(k)
  BY <1>1 DEF Returnable
<1>. QED
  BY <1>1, <1>5, <1>6

(* A step that returns no record passes none that it should.               *)
LEMMA CompleteMoves ==
  ASSUME NEW G, Complete(G), log' = log, delivered' = delivered,
         ends' = ends, disk' = disk, initial_offset' = initial_offset,
         Place \in Int, Place' \in Int, Place <= Place',
         Taken' => Taken \/ Place < Place', rpc # "crashed",
         \A k \in Good : rpc' # "crashed" /\ Reached(k)' => Reached(k)
  PROVE  Complete(G)'
<1>1. PICK S \in SUBSET (1..Len(log)) :
        /\ delivered = Subsequence(log, S)
        /\ Passed(G, S)
        /\ \A k \in S : Returnable(k)
        /\ rpc # "crashed" => \A k \in Good : Reached(k) => k \in S
  BY DEF Complete
<1>5. Good' = Good /\ \A k \in S : Returnable(k)'
  BY <1>1, GoodStays
<1>2. Passed(G, S)'
  <2>1. ASSUME NEW k \in S, NEW i \in 1..Len(G),
               i > Place' \/ (i = Place' /\ Taken')
        PROVE  G[i].rec > k
    <3>1. i > Place \/ (i = Place /\ Taken)
      BY <2>1
    <3>. QED
      BY <1>1, <3>1 DEF Passed
  <2>. QED
    BY <2>1 DEF Passed
<1>3. Subsequence(log, S)' = Subsequence(log, S)
  BY DEF Subsequence
<1>4. rpc' # "crashed" => \A k \in Good' : Reached(k)' => k \in S
  BY <1>1, <1>5
<1>. QED
  BY <1>1, <1>2, <1>3, <1>4, <1>5 DEF Complete

(* The reader at the start of the file.                                    *)
LEMMA StartIsLocal ==
  ASSUME TypeInv', NEW G, WrittenInv(G)', Place' = 0, ~Taken',
         delivered' = << >>
  PROVE  Local(G)'
<1>1. /\ ends' \in Seq(Nat) /\ log' \in Seq(Seq(Byte)) /\ Len(ends') \in Nat
      /\ DOMAIN ends' = 1..Len(ends')
  BY LenProperties DEF TypeInv, TypeOK, Writer!TypeOK
<1>2. \A k \in DOMAIN ends' : StartOf(k)' \in Nat /\ ends'[k] \in Nat
  BY <1>1 DEF StartOf
<1>3. \A k \in DOMAIN ends' : ends'[k] \in 1..Len(G)
  BY <1>1 DEF WrittenInv, Numbered, Ends
<1>4. Good' \subseteq DOMAIN ends'
  BY DEF Good
<1>5. Inside'
  BY <1>2, <1>4 DEF Inside
<1>6. Collecting(G)'
  BY DEF Collecting
<1>7. Complete(G)'
  <2>1. delivered' = Subsequence(log', {})
    BY <1>1, SubsequenceOfNone
  <2>2. Passed(G, {})'
    BY DEF Passed
  <2>3. {} \in SUBSET (1..Len(log'))
    OBVIOUS
  <2>4. \A k \in Good' : ~Reached(k)'
    <3>1. \A k \in Good' : ends'[k] \in Nat /\ ends'[k] >= 1
      BY <1>2, <1>3, <1>4
    <3>. QED
      BY <3>1 DEF Reached
  <2>5. \A k \in {} : Returnable(k)'
    OBVIOUS
  <2>. QED
    BY <2>1, <2>2, <2>3, <2>4, <2>5 DEF Complete
<1>. QED
  BY <1>5, <1>6, <1>7 DEF Local

(* Nothing is dropped where such a record begins or goes on.               *)
LEMMA DropLosesNothing ==
  ASSUME TypeInv, NEW G, WrittenInv(G), Steady(G), aligned,
         NEW k \in Good, Place < ends[k], StartOf(k) < file_pos,
         \/ Reader!FillFails \/ Reader!EndOfFile \/ Reader!BadRecordLength
         \/ Reader!ZeroLengthRecord \/ Reader!ChecksumMismatch
  PROVE  buffer = << >>
<1>1. SUFFICES ASSUME buffer # << >> PROVE FALSE
  OBVIOUS
<1>2. /\ Len(buffer) >= HeaderSize
      /\ Reader!HeaderIntact /\ Reader!ChecksumOK
      /\ Reader!PhysicalLength <= Len(buffer)
  BY <1>1, WholeAhead
<1>3. /\ Len(buffer) \in Nat /\ HeaderSize \in Nat
      /\ Reader!PhysicalLength \in Int
  BY <1>1, FrontLength, BufferType, FormatAssumption DEF TypeInv
<1>4. CASE Reader!FillFails \/ Reader!EndOfFile
  <2>1. Len(buffer) < HeaderSize
    BY <1>4 DEF Reader!FillFails, Reader!EndOfFile
  <2>. QED
    BY <1>2, <1>3, <2>1
<1>5. CASE Reader!BadRecordLength
  <2>1. Reader!PhysicalLength > Len(buffer)
    BY <1>2, <1>5 DEF Reader!BadRecordLength
  <2>. QED
    BY <1>2, <1>3, <2>1
<1>6. CASE Reader!ZeroLengthRecord \/ Reader!ChecksumMismatch
  BY <1>2, <1>6 DEF Reader!ZeroLengthRecord, Reader!ChecksumMismatch
<1>. QED
  BY <1>4, <1>5, <1>6

LEMMA DropIsLocal ==
  ASSUME TypeInv, TypeInv', NEW G, WrittenInv(G), Steady(G), Local(G), aligned,
         disk' = disk, ends' = ends, log' = log,
         \/ Reader!FillFails \/ Reader!EndOfFile \/ Reader!BadRecordLength
         \/ Reader!ZeroLengthRecord \/ Reader!ChecksumMismatch
  PROVE  Inside' /\ Collecting(G)' /\ Complete(G)'
<1>1. /\ buffer' = << >> /\ file_pos' = file_pos
      /\ rpc = "physical" /\ rpc' \in {"dispatch", "crashed"}
  BY DropIsSteady
<1>2. /\ initial_offset' = initial_offset /\ delivered' = delivered
      /\ record_type' \in {"eof", "bad"}
  BY DEF Reader!FillFails, Reader!EndOfFile, Reader!BadRecordLength,
     Reader!ZeroLengthRecord, Reader!ChecksumMismatch, Reader!ReturnType,
     Reader!fixedVars
<1>3. Good' = Good /\ (\A k : StartOf(k)' = StartOf(k)) /\ ~Taken /\ ~Taken'
  BY <1>1, <1>2, GoodStays DEF Taken
<1>4. /\ Place' = file_pos /\ file_pos \in Nat /\ Place \in Int
      /\ Place <= file_pos /\ Len(buffer) \in Nat
      /\ buffer = << >> => Place = file_pos
  <2>1. Len(<< >>) = 0
    OBVIOUS
  <2>2. Place' = file_pos - 0
    BY <1>1, <2>1 DEF Place
  <2>. QED
    BY <2>1, <2>2, PlaceType DEF TypeInv
<1>5. Inside /\ Complete(G)
  BY DEF Local
<1>6. Inside'
  <2>1. SUFFICES ASSUME NEW k \in Good, StartOf(k) < file_pos,
                        file_pos < ends[k]
                 PROVE  record_type' # "bad"
    BY <1>1, <1>3, <1>4 DEF Inside
  <2>2. Place < ends[k]
    BY <1>4, <2>1, GoodExtent
  <2>3. buffer = << >>
    BY <2>1, <2>2, DropLosesNothing
  <2>4. ~Reader!HasHeader
    <3>1. Len(buffer) = 0
      BY <2>3
    <3>. QED
      BY <3>1, FormatAssumption DEF Reader!HasHeader
  <2>5. Reader!FillFails \/ Reader!EndOfFile
    BY <2>4 DEF Reader!BadRecordLength, Reader!ZeroLengthRecord,
       Reader!ChecksumMismatch
  <2>. QED
    BY <2>5 DEF Reader!FillFails, Reader!EndOfFile, Reader!ReturnType
<1>7. Collecting(G)'
  BY <1>3 DEF Collecting
<1>8. Complete(G)'
  <2>1. ASSUME NEW k \in Good, Reached(k)'
        PROVE  Reached(k)
    <3>1. /\ ends[k] \in Nat /\ StartOf(k) \in Nat /\ StartOf(k) < ends[k]
      BY GoodExtent
    <3>2. ends[k] <= file_pos
      BY <1>4, <2>1, <3>1 DEF Reached
    <3>3. ends[k] <= Place
      <4>1. SUFFICES ASSUME Place < ends[k] PROVE FALSE
        BY <1>4, <3>1
      <4>2. StartOf(k) < file_pos
        BY <1>4, <3>1, <3>2
      <4>3. buffer = << >>
        BY <4>1, <4>2, DropLosesNothing
      <4>. QED
        BY <1>4, <3>1, <3>2, <4>1, <4>3
    <3>. QED
      BY <1>3, <1>4, <3>1, <3>3 DEF Reached
  <2>. QED
    BY <1>1, <1>2, <1>3, <1>4, <1>5, <2>1, CompleteMoves
<1>. QED
  BY <1>6, <1>7, <1>8

(* A fragment that is taken is dropped only if it starts before            *)
(* initial_offset; a record that starts in it or behind it starts behind   *)
(* it.                                                                     *)
LEMMA TakeDropsNone ==
  ASSUME TypeInv, NEW G, WrittenInv(G), Steady(G), aligned,
         Reader!TakePhysicalRecord, record_type' = "bad", NEW k \in Good
  PROVE  StartOf(k) >= Place'
<1>. DEFINE p == Reader!FrontRecord
            n == Reader!PhysicalLength
<1>1. Takes(G, p, n)
  BY TakesFragment DEF WrittenInv
<1>2. /\ rpc = "physical" /\ file_pos \in Nat /\ Len(buffer) \in Nat
      /\ Place = file_pos - Len(buffer)
  BY PlaceType DEF TypeInv, Reader!TakePhysicalRecord, Reader!HasHeader
<1>3. Place < initial_offset
  <2>1. p.type # "bad"
    BY <1>1 DEF Takes, Physical, RecordType
  <2>2. end_of_buffer_offset - Len(buffer) < initial_offset
    BY <2>1 DEF Reader!TakePhysicalRecord, Reader!ReturnType
  <2>3. end_of_buffer_offset = file_pos
    BY <1>2 DEF Steady
  <2>. QED
    BY <1>2, <2>2, <2>3
<1>. HIDE DEF p, n
<1>4. /\ StartOf(k) \in Nat /\ StartOf(k) >= initial_offset
      /\ initial_offset \in Nat /\ k \in DOMAIN ends
  BY GoodExtent
<1>5. SUFFICES ASSUME StartOf(k) < Place + n PROVE FALSE
  <2>1. Place' = Place + n /\ n \in Nat /\ Place \in Int
    BY <1>1 DEF Takes
  <2>2. PICK a \in Int, m \in Nat : a = Place /\ m = n
    BY <2>1
  <2>. QED
    BY <1>4, <2>1, <2>2
<1>6. PICK i \in 1..Len(G) : i = Place + 1
  BY <1>1 DEF Takes
<1>7. PICK o \in Nat, m \in Nat, a \in Int :
        o = StartOf(k) /\ m = n /\ a = Place
  BY <1>1, <1>2, <1>4 DEF Takes
<1>8. PICK c \in Nat : c = o - a /\ c >= 1 /\ c < m
  <2>1. a < o /\ o < a + m
    BY <1>3, <1>4, <1>5, <1>7
  <2>. QED
    BY <1>7, <2>1
<1>9. /\ Layout(G) /\ log \in Seq(Seq(Byte))
      /\ G[i].at = 1 /\ n = Size(G[i].phys)
  BY <1>1, <1>6, EndsType DEF TypeInv, WrittenInv, LogInv, Takes
<1>10. /\ StartOf(k) + 1 \in 1..Len(G) /\ G[StartOf(k) + 1].at = 1
  BY <1>4, RecordExtent
<1>11. i + c = StartOf(k) + 1
  BY <1>6, <1>7, <1>8
<1>12. G[i + c].at = c + 1
  <2>1. c < Size(G[i].phys) /\ i + c \in 1..Len(G)
    BY <1>7, <1>8, <1>9, <1>10, <1>11
  <2>. QED
    BY <1>9, <2>1, ForwardRun
<1>. QED
  BY <1>8, <1>10, <1>11, <1>12

LEMMA TakeIsLocal ==
  ASSUME TypeInv, TypeInv', NEW G, WrittenInv(G), Steady(G), Local(G), aligned,
         disk' = disk, ends' = ends, log' = log, Reader!TakePhysicalRecord
  PROVE  Inside' /\ Collecting(G)' /\ Complete(G)'
<1>. DEFINE p == Reader!FrontRecord
            n == Reader!PhysicalLength
<1>1. /\ rpc = "physical" /\ rpc' = "dispatch"
      /\ initial_offset' = initial_offset /\ delivered' = delivered
      /\ in_fragmented_record' = in_fragmented_record
  BY DEF Reader!TakePhysicalRecord, Reader!HasHeader, Reader!NoReport,
     Reader!ReturnType, Reader!fixedVars, Reader!localVars
<1>2. Takes(G, p, n)
  BY TakesFragment DEF WrittenInv
<1>3. record_type' = "bad" \/ record_type' = p.type
  BY DEF Reader!TakePhysicalRecord, Reader!ReturnType
<1>. HIDE DEF p, n
<1>4. Good' = Good /\ (\A k : StartOf(k)' = StartOf(k)) /\ ~Taken
  BY <1>1, GoodStays DEF Taken
<1>5. PICK i \in 1..Len(G) : i = Place + 1
  BY <1>2 DEF Takes
<1>6. /\ Layout(G) /\ log \in Seq(Seq(Byte)) /\ G[i].at = 1
      /\ n = Size(G[i].phys) /\ n \in Nat /\ n >= 1 /\ Place \in Int
      /\ Place' = Place + n /\ Place' \in 1..Len(G) /\ Len(G) \in Nat
      /\ G[Place'].phys = p /\ G[i].phys = p
  <2>1. Layout(G) /\ log \in Seq(Seq(Byte))
    BY EndsType DEF TypeInv, WrittenInv, LogInv
  <2>2. Len(G) \in Nat
    BY <2>1, LayoutTypes
  <2>. QED
    BY <1>2, <1>5, <2>1, <2>2 DEF Takes
<1>7. ASSUME NEW k \in Good, record_type' = "bad"
      PROVE  ~(StartOf(k) < Place')
  <2>1. StartOf(k) >= Place' /\ StartOf(k) \in Nat
    BY <1>7, TakeDropsNone, GoodExtent
  <2>. QED
    BY <1>6, <2>1
<1>8. Inside /\ Complete(G)
  BY DEF Local
<1>9. Inside'
  BY <1>1, <1>4, <1>7 DEF Inside
<1>10. Collecting(G)'
  <2>1. SUFFICES ASSUME Taken', ~Opens(p), G[Place'].rec \in Good
                 PROVE  in_fragmented_record
    BY <1>1, <1>4, <1>6 DEF Collecting
  <2>2. PICK k \in Good : k = G[Place'].rec
    BY <2>1
  <2>3. PICK m \in Nat, c \in Nat : m = n /\ c = m - 1 /\ c < n
    <3>1. PICK m \in Nat : m = n /\ m >= 1
      BY <1>6
    <3>. QED
      BY <3>1
  <2>4. c < n /\ i + c = Place'
    <3>1. i + c = Place + m
      BY <1>5, <1>6, <2>3
    <3>. QED
      BY <1>6, <2>3, <3>1
  <2>5. G[i].rec = k
    <3>1. G[i + c].rec = G[i].rec
      BY <1>6, <2>4, ForwardRun
    <3>. QED
      BY <2>2, <2>4, <3>1
  <2>6. /\ k \in DOMAIN ends /\ StartOf(k) \in Nat /\ ends[k] \in Nat
        /\ StartOf(k) < i /\ i <= ends[k]
        /\ G[StartOf(k) + 1].phys # p
    <3>1. k \in DOMAIN ends /\ StartOf(k) \in Nat /\ ends[k] \in Nat
      BY GoodExtent
    <3>. QED
      BY <2>1, <2>5, <3>1, RecordExtent
  <2>7. StartOf(k) + 1 # i
    BY <1>6, <2>6
  <2>8. StartOf(k) < Place /\ Place < ends[k]
    BY <1>5, <1>6, <2>6, <2>7
  <2>. QED
    BY <1>1, <1>8, <2>8 DEF Inside
<1>11. Complete(G)'
  <2>1. ASSUME NEW k \in Good, Reached(k)'
        PROVE  Reached(k)
    <3>1. /\ k \in DOMAIN ends /\ ends[k] \in 1..Len(G) /\ ends[k] \in Nat
          /\ StartOf(k) \in Nat /\ StartOf(k) < ends[k]
      BY GoodExtent
    <3>2. ends[k] < Place' \/ (ends[k] = Place' /\ ~Taken')
      BY <2>1 DEF Reached
    <3>3. SUFFICES ASSUME Place < ends[k] PROVE FALSE
      BY <1>4, <1>6, <3>1 DEF Reached
    <3>4. i + Size(G[i].phys) <= ends[k] + 1
      <4>1. i <= ends[k]
        BY <1>5, <1>6, <3>1, <3>3
      <4>2. IsEnd(G[ends[k]])
        BY <3>1, RecordExtent
      <4>. QED
        BY <1>6, <3>1, <4>1, <4>2, EndInRun
    <3>5. ends[k] = Place' /\ ~Taken'
      BY <1>5, <1>6, <3>1, <3>2, <3>4
    <3>6. Closes(p)
      BY <1>6, <3>1, <3>5, RecordExtent
    <3>7. record_type' = "bad"
      BY <1>1, <1>3, <3>5, <3>6 DEF Taken, Closes
    <3>. QED
      BY <1>7, <3>1, <3>5, <3>7
  <2>2. Place' \in Int /\ Place < Place'
    BY <1>6
  <2>. QED
    BY <1>1, <1>4, <1>6, <1>8, <2>1, <2>2, CompleteMoves
<1>. QED
  BY <1>9, <1>10, <1>11

(* A fragment that is skipped or reported as one with no start belongs to  *)
(* no such record.                                                         *)
LEMMA OrphanIsOther ==
  ASSUME TypeInv, NEW G, WrittenInv(G), Steady(G), Exact(G), aligned,
         Collecting(G), Reader!SkipTail \/ Reader!MissingStart
  PROVE  Taken /\ G[Place].rec \notin Good /\ Place \in 1..Len(G)
<1>1. Taken /\ record_type \in {"middle", "last"}
  BY DEF Reader!SkipTail, Reader!MissingStart, Reader!Skipped, Reader!Dispatch,
     Taken
<1>2. G[Place].phys.type = record_type /\ Place \in 1..Len(G)
  BY <1>1, TakenOffset
<1>3. ~Opens(G[Place].phys)
  BY <1>1, <1>2 DEF Opens
<1>4. ~in_fragmented_record
  <2>1. in_fragmented_record => ~resyncing
    BY DEF WrittenInv, LogInv, ReaderAt, Collected
  <2>. QED
    BY <2>1 DEF Reader!SkipTail, Reader!Skipped, Reader!MissingStart
<1>. QED
  BY <1>1, <1>2, <1>3, <1>4 DEF Collecting

(* What is returned is the record whose last fragment was taken.           *)
LEMMA DeliversTaken ==
  ASSUME TypeInv, NEW G, WrittenInv(G), Steady(G), Exact(G), aligned,
         Reader!FullRecord \/ Reader!LastFragment, rpc' # "crashed"
  PROVE  /\ Taken /\ Closes(G[Place].phys)
         /\ delivered' = Append(delivered, log[G[Place].rec])
<1>1. CASE Reader!FullRecord
  <2>1. Taken /\ record_type = "full" /\ delivered' = Append(delivered, fragment)
    BY <1>1 DEF Reader!FullRecord, Reader!Dispatch, Reader!Deliver, Taken
  <2>2. G[Place].phys.type = "full"
    BY <2>1, TakenOffset
  <2>3. Opens(G[Place].phys) /\ Closes(G[Place].phys)
    BY <2>2 DEF Opens, Closes
  <2>4. fragment = log[G[Place].rec]
    BY <2>1, <2>3, DeliveredIsLogged
  <2>. QED
    BY <2>1, <2>3, <2>4
<1>2. CASE Reader!LastFragment
  <2>1. /\ Taken /\ record_type = "last" /\ in_fragmented_record
        /\ delivered' = Append(delivered, scratch \o fragment)
    BY <1>2 DEF Reader!LastFragment, Reader!Dispatch, Reader!Deliver, Taken
  <2>2. G[Place].phys.type = "last"
    BY <2>1, TakenOffset
  <2>3. ~Opens(G[Place].phys) /\ Closes(G[Place].phys)
    BY <2>2 DEF Opens, Closes
  <2>4. scratch \o fragment = log[G[Place].rec]
    BY <2>1, <2>3, DeliveredIsLogged
  <2>. QED
    BY <2>1, <2>3, <2>4
<1>. QED
  BY <1>1, <1>2

(* Two records do not end with the same fragment, nor one with the last of *)
(* another.                                                                *)
LEMMA LastByte ==
  ASSUME TypeInv, NEW G, WrittenInv(G), NEW i \in 1..Len(G), IsEnd(G[i]),
         Closes(G[i].phys), G[i].rec \in DOMAIN ends
  PROVE  ends[G[i].rec] = i
<1>1. PICK e \in 1..Len(G) : e = ends[G[i].rec]
  BY RecordExtent
<1>2. G[e].rec = G[i].rec /\ IsEnd(G[e]) /\ Closes(G[e].phys)
  BY <1>1, RecordExtent
<1>3. /\ Layout(G) /\ Len(G) \in Nat /\ G[i].rec \in Nat /\ G[e].rec \in Nat
  BY EndsType, LayoutTypes DEF TypeInv, WrittenInv, LogInv
<1>4. ~(i < e) /\ ~(e < i)
  <2>1. i < e => G[i].rec < G[e].rec
    BY <1>3 DEF Layout, Ordered
  <2>2. e < i => G[e].rec < G[i].rec
    BY <1>2, <1>3 DEF Layout, Ordered
  <2>. QED
    BY <1>2, <1>3, <2>1, <2>2
<1>. QED
  BY <1>1, <1>3, <1>4

(* That record is in the file and does not start before initial_offset.    *)
LEMMA DeliversReturnable ==
  ASSUME TypeInv, NEW G, WrittenInv(G), Steady(G), Exact(G), aligned,
         Reader!FullRecord \/ Reader!LastFragment, rpc' # "crashed"
  PROVE  Returnable(G[Place].rec)
<1>1. /\ Taken /\ Closes(G[Place].phys)
  BY DeliversTaken
<1>2. /\ Place \in 1..Len(G) /\ IsEnd(G[Place])
      /\ G[Place].phys = [type |-> record_type, data |-> fragment]
      /\ Opens(G[Place].phys) =>
           Reader!PhysicalRecordOffset = StartOf(G[Place].rec)
      /\ G[Place].rec \in DOMAIN ends
  BY <1>1, TakenOffset
<1>3. ends[G[Place].rec] = Place
  <2>1. PICK i \in 1..Len(G) : i = Place
    BY <1>2
  <2>. QED
    BY <1>1, <1>2, <2>1, LastByte
<1>4. Place <= Len(disk) /\ Written(disk[Place])
  BY <1>1 DEF Exact
<1>5. StartOf(G[Place].rec) >= initial_offset
  <2>1. CASE Opens(G[Place].phys)
    BY <1>1, <1>2, <2>1 DEF TypeInv, Offsets
  <2>2. CASE ~Opens(G[Place].phys)
    <3>1. in_fragmented_record
      <4>1. ~(G[Place].phys.type = "full")
        BY <2>2 DEF Opens
      <4>2. ~Reader!FullRecord
        BY <1>2, <4>1 DEF Reader!FullRecord, Reader!Dispatch
      <4>. QED
        BY <4>2 DEF Reader!LastFragment
    <3>2. prospective_record_offset = StartOf(G[Place].rec)
      BY <1>1, <2>2, <3>1 DEF Exact
    <3>. QED
      BY <3>1, <3>2 DEF TypeInv, Offsets
  <2>. QED
    BY <2>1, <2>2
<1>. QED
  BY <1>2, <1>3, <1>4, <1>5 DEF Returnable

(* In the middle of a record the loop goes on collecting it.               *)
LEMMA DispatchStaysInside ==
  ASSUME TypeInv, NEW G, WrittenInv(G), Steady(G), Exact(G), Local(G), aligned,
         disk' = disk, ends' = ends, Place' = Place, Reader!DispatchRecord
  PROVE  Inside'
<1>1. /\ rpc = "dispatch" /\ rpc' \in {"physical", "ready", "end", "crashed"}
      /\ initial_offset' = initial_offset
  BY DispatchLeavesBuffer
<1>2. Good' = Good /\ (\A k : StartOf(k)' = StartOf(k))
  BY <1>1, GoodStays
<1>3. SUFFICES ASSUME NEW k \in Good, StartOf(k) < Place, Place < ends[k]
               PROVE  /\ rpc' # "ready"
                      /\ rpc' = "physical" => in_fragmented_record'
  BY <1>1, <1>2 DEF Inside
<1>4. k \in DOMAIN ends
  BY <1>3, GoodExtent
<1>5. record_type # "bad" /\ Collecting(G)
  BY <1>1, <1>3 DEF Local, Inside
<1>6. CASE Reader!FullRecord \/ Reader!LastFragment
  <2>1. SUFFICES ASSUME rpc' # "crashed" PROVE FALSE
    BY <1>1
  <2>2. Taken /\ Closes(G[Place].phys)
    BY <1>6, <2>1, DeliversTaken
  <2>3. Place \in 1..Len(G) /\ IsEnd(G[Place])
    BY <2>2, TakenOffset
  <2>. QED
    BY <1>3, <1>4, <2>2, <2>3, NotInsideEnd
<1>7. CASE Reader!SkipTail \/ Reader!MissingStart
  <2>1. G[Place].rec \notin Good /\ Place \in 1..Len(G)
    BY <1>5, <1>7, OrphanIsOther
  <2>2. G[Place].rec = k
    <3>1. PICK i \in 1..Len(G) : i = Place
      BY <2>1
    <3>2. StartOf(k) < i /\ i <= ends[k]
      BY <1>3, <3>1, GoodExtent
    <3>. QED
      BY <1>4, <3>1, <3>2, RecordExtent
  <2>. QED
    BY <1>3, <2>1, <2>2
<1>8. CASE Reader!FirstFragment
  BY <1>8, ReportGoesOn DEF Reader!FirstFragment, Reader!NoReport
<1>9. CASE Reader!MiddleFragment
  BY <1>9 DEF Reader!MiddleFragment, Reader!NoReport
<1>10. CASE Reader!ScratchCrash \/ Reader!ReturnEof
  BY <1>10 DEF Reader!ScratchCrash, Reader!ReturnEof, Reader!NoReport
<1>11. CASE Reader!BadRecord
  BY <1>5, <1>11 DEF Reader!BadRecord, Reader!Dispatch
<1>. QED
  BY <1>6, <1>7, <1>8, <1>9, <1>10, <1>11 DEF Reader!DispatchRecord

LEMMA DispatchStaysComplete ==
  ASSUME TypeInv, NEW G, WrittenInv(G), Steady(G), Exact(G), Local(G), aligned,
         disk' = disk, ends' = ends, log' = log, Place' = Place,
         Reader!DispatchRecord
  PROVE  Complete(G)'
<1>1. /\ rpc = "dispatch" /\ rpc' \in {"physical", "ready", "end", "crashed"}
      /\ initial_offset' = initial_offset /\ ~Taken'
  BY DispatchLeavesBuffer DEF Taken
<1>2. Good' = Good
  BY <1>1, GoodStays
<1>3. Collecting(G) /\ Complete(G)
  BY DEF Local
<1>4. Place \in Int
  BY PlaceType DEF TypeInv
<1>5. ASSUME NEW k \in Good, ~Reached(k), Reached(k)'
      PROVE  /\ Taken /\ ends[k] = Place
             /\ G[Place].rec = k /\ Closes(G[Place].phys)
  <2>1. Taken /\ ends[k] = Place
    BY <1>1, <1>5 DEF Reached
  <2>2. k \in DOMAIN ends
    BY GoodExtent
  <2>. QED
    BY <2>1, <2>2, RecordExtent
<1>6. CASE /\ Reader!FullRecord \/ Reader!LastFragment
           /\ rpc' # "crashed"
  <2>1. /\ Taken /\ Closes(G[Place].phys)
        /\ delivered' = Append(delivered, log[G[Place].rec])
    BY <1>6, DeliversTaken
  <2>2. PICK S \in SUBSET (1..Len(log)) :
          /\ delivered = Subsequence(log, S)
          /\ Passed(G, S)
          /\ \A k \in S : Returnable(k)
          /\ rpc # "crashed" => \A k \in Good : Reached(k) => k \in S
    BY <1>3 DEF Complete
  <2>3. PICK U : U = S \cup {G[Place].rec}
    OBVIOUS
  <2>4. TypeOK /\ Layout(G) /\ Holds(G)
    BY DEF TypeInv, WrittenInv, LogInv, ReaderAt
  <2>5. /\ U \in SUBSET (1..Len(log)) /\ Passed(G, U)'
        /\ delivered' = Subsequence(log, U)
    BY <1>1, <2>1, <2>2, <2>3, <2>4, DeliversNext
  <2>6. \A k \in Good : Reached(k)' => k \in U
    BY <1>1, <1>5, <2>2, <2>3
  <2>7. Subsequence(log, U)' = Subsequence(log, U)
    BY DEF Subsequence
  <2>8. \A k \in U : Returnable(k)'
    <3>1. Returnable(G[Place].rec)
      BY <1>6, DeliversReturnable
    <3>. QED
      BY <1>1, <2>2, <2>3, <3>1, GoodStays
  <2>. QED
    BY <1>2, <2>5, <2>6, <2>7, <2>8 DEF Complete
<1>7. CASE ~(/\ Reader!FullRecord \/ Reader!LastFragment
             /\ rpc' # "crashed")
  <2>1. delivered' = delivered
    <3>1. CASE Reader!FullRecord
      BY <1>7, <3>1 DEF Reader!FullRecord
    <3>2. CASE Reader!LastFragment
      BY <1>7, <3>2 DEF Reader!LastFragment, Reader!NoReport
    <3>3. CASE ~Reader!FullRecord /\ ~Reader!LastFragment
      BY <3>3 DEF Reader!DispatchRecord, Reader!SkipTail, Reader!FirstFragment,
         Reader!MiddleFragment, Reader!MissingStart, Reader!ScratchCrash,
         Reader!ReturnEof, Reader!BadRecord
    <3>. QED
      BY <3>1, <3>2, <3>3
  <2>2. ASSUME NEW k \in Good, rpc' # "crashed", Reached(k)'
        PROVE  Reached(k)
    <3>1. SUFFICES ASSUME ~Reached(k) PROVE FALSE
      OBVIOUS
    <3>2. Taken /\ G[Place].rec = k /\ Closes(G[Place].phys)
      BY <1>5, <2>2, <3>1
    <3>3. record_type \in {"full", "last"}
      <4>1. G[Place].phys.type = record_type
        BY <3>2, TakenOffset
      <4>. QED
        BY <3>2, <4>1 DEF Closes
    <3>4. ~Reader!SkipTail /\ ~Reader!MissingStart
      BY <1>3, <3>2, OrphanIsOther
    <3>5. ~Reader!FullRecord /\ ~Reader!LastFragment
      BY <1>7, <2>2
    <3>6. ~Reader!ScratchCrash
      BY <2>2 DEF Reader!ScratchCrash, Reader!NoReport
    <3>. QED
      BY <3>3, <3>4, <3>5, <3>6 DEF Reader!DispatchRecord, Reader!FirstFragment,
         Reader!MiddleFragment, Reader!ReturnEof, Reader!BadRecord,
         Reader!Dispatch
  <2>3. Place <= Place
    BY <1>4
  <2>. QED
    BY <1>1, <1>2, <1>3, <1>4, <2>1, <2>2, <2>3, CompleteMoves
<1>. QED
  BY <1>6, <1>7

LEMMA CallIsLocal ==
  ASSUME TypeInv, TypeInv', Calls, NEW G, WrittenInv(G), Local(G), aligned,
         disk' = disk, ends' = ends, log' = log,
         Reader!ReadLogRecord \/ Reader!SkipFails
  PROVE  Inside' /\ Collecting(G)' /\ Complete(G)'
<1>1. /\ rpc = "ready" /\ rpc' \in {"physical", "end", "crashed"}
      /\ initial_offset' = initial_offset /\ delivered' = delivered
      /\ buffer' = buffer
      /\ Reader!SkipFails => rpc' # "physical"
  BY DEF Reader!ReadLogRecord, Reader!SkipFails, Reader!ReportThroughRecover,
     Reader!fixedVars
<1>2. Good' = Good /\ (\A k : StartOf(k)' = StartOf(k)) /\ ~Taken /\ ~Taken'
  BY <1>1, GoodStays DEF Taken
<1>3. Inside /\ Complete(G)
  BY DEF Local
<1>4. /\ Place \in Int /\ file_pos \in Nat /\ Len(buffer) \in Nat
      /\ Place = file_pos - Len(buffer)
  BY PlaceType DEF TypeInv
<1>5. Collecting(G)'
  BY <1>2 DEF Collecting
<1>6. CASE file_pos' = file_pos
  <2>1. Place' = Place /\ Place <= Place
    BY <1>1, <1>4, <1>6 DEF Place
  <2>2. Inside'
    BY <1>1, <1>2, <1>3, <2>1 DEF Inside
  <2>3. \A k \in Good : Reached(k)' => Reached(k)
    BY <1>2, <2>1 DEF Reached
  <2>4. Complete(G)'
    BY <1>1, <1>2, <1>3, <1>4, <2>1, <2>3, CompleteMoves
  <2>. QED
    BY <1>5, <2>2, <2>4
<1>7. CASE file_pos' # file_pos
  <2>1. Reader!MustSkip /\ file_pos' = file_pos + Reader!InitialBlock
    BY <1>7 DEF Reader!ReadLogRecord, Reader!SkipFails
  <2>2. buffer = << >> /\ file_pos = 0 /\ Len(buffer) = 0
    <3>1. ~(last_record_offset >= initial_offset)
      BY <2>1 DEF Reader!MustSkip, TypeInv, TypeOK, Reader!TypeOK
    <3>2. buffer = << >> /\ file_pos = 0
      BY <1>1, <3>1 DEF Calls
    <3>3. Len(<< >>) = 0
      OBVIOUS
    <3>. QED
      BY <3>2, <3>3
  <2>3. Reader!InitialBlock \in Nat
    BY InitialBlockType DEF TypeInv, TypeOK, Reader!TypeOK
  <2>4. PICK b \in Nat : b = Reader!InitialBlock
    BY <2>3
  <2>5. Place' = b /\ Place = 0
    <3>1. Len(buffer') = 0 /\ file_pos' = b
      BY <1>1, <2>1, <2>2, <2>4
    <3>2. Place' = b
      BY <3>1 DEF Place
    <3>3. file_pos = 0 /\ Len(buffer) = 0
      BY <2>2
    <3>4. Place = 0
      BY <1>4, <3>3
    <3>. QED
      BY <3>2, <3>4
  <2>6. \A k \in Good : /\ b <= StartOf(k) /\ StartOf(k) \in Nat
                        /\ StartOf(k) < ends[k] /\ ends[k] \in Nat
    BY <2>4, InitialBlockBelow, GoodExtent
  <2>7. Inside'
    <3>1. \A k \in Good : ~(StartOf(k) < b)
      BY <2>6
    <3>. QED
      BY <1>2, <2>5, <3>1 DEF Inside
  <2>8. \A k \in Good : ~Reached(k)'
    <3>1. \A k \in Good : b < ends[k]
      BY <2>6
    <3>2. \A k \in Good : ~(ends[k] < b) /\ ends[k] # b
      BY <2>6, <3>1
    <3>. QED
      BY <2>5, <3>2 DEF Reached
  <2>9. Place' \in Int /\ Place <= Place'
    BY <2>5
  <2>10. Complete(G)'
    BY <1>1, <1>2, <1>3, <1>4, <2>8, <2>9, CompleteMoves
  <2>. QED
    BY <1>5, <2>7, <2>10
<1>. QED
  BY <1>6, <1>7

LEMMA ReadIsLocal ==
  ASSUME TypeInv, TypeInv', Calls, NEW G, WrittenInv(G), WrittenInv(G)',
         Steady(G), Exact(G), Local(G), Read
  PROVE  Local(G)'
<1>1. /\ Reader!Next /\ disk' = disk /\ aligned' = aligned
      /\ ends' = ends /\ log' = log
  BY ReaderLeavesFile DEF Read, writerVars
<1>2. CASE Reader!Open
  <2>1. /\ Unread /\ ~Taken' /\ file_pos' = file_pos /\ buffer' = buffer
        /\ delivered' = delivered
    BY <1>2 DEF Reader!Open, Unread, Reader!inputVars, Taken
  <2>2. /\ delivered' = << >> /\ file_pos' = 0 /\ buffer' = << >>
    BY <2>1 DEF TypeInv, Fresh
  <2>3. file_pos' = 0 /\ Len(buffer') = 0
    <3>1. Len(<< >>) = 0
      OBVIOUS
    <3>. QED
      BY <2>2, <3>1
  <2>4. Place' = 0
    BY <2>3 DEF Place
  <2>. QED
    BY <2>1, <2>2, <2>4, StartIsLocal
<1>3. CASE ~Reader!Open
  <2>1. SUFFICES ASSUME aligned PROVE Inside' /\ Collecting(G)' /\ Complete(G)'
    BY <1>1 DEF Local
  <2>2. CASE Reader!ReadLogRecord \/ Reader!SkipFails
    BY <1>1, <2>1, <2>2, CallIsLocal
  <2>3. CASE Reader!FillBuffer
    <3>1. Place' = Place /\ rpc = "physical" /\ rpc' = "physical"
      BY <1>1, <2>1, <2>3, FillIsSteady
    <3>2. /\ in_fragmented_record' = in_fragmented_record
          /\ delivered' = delivered /\ initial_offset' = initial_offset
      BY <2>3 DEF Reader!FillBuffer, Reader!localVars, Reader!fixedVars
    <3>3. Good' = Good /\ (\A k : StartOf(k)' = StartOf(k)) /\ ~Taken /\ ~Taken'
      BY <1>1, <3>1, <3>2, GoodStays DEF Taken
    <3>4. Inside /\ Complete(G)
      BY <2>1 DEF Local
    <3>5. Inside'
      BY <1>1, <3>1, <3>2, <3>3, <3>4 DEF Inside
    <3>6. Collecting(G)'
      BY <3>3 DEF Collecting
    <3>7. Place \in Int /\ Place <= Place
      <4>1. Place \in Int
        BY PlaceType DEF TypeInv
      <4>. QED
        BY <4>1
    <3>8. \A k \in Good : Reached(k)' => Reached(k)
      BY <1>1, <3>1, <3>3 DEF Reached
    <3>9. Complete(G)'
      BY <1>1, <3>1, <3>2, <3>3, <3>4, <3>7, <3>8, CompleteMoves
    <3>. QED
      BY <3>5, <3>6, <3>9
  <2>4. CASE \/ Reader!FillFails \/ Reader!EndOfFile \/ Reader!BadRecordLength
             \/ Reader!ZeroLengthRecord \/ Reader!ChecksumMismatch
    BY <1>1, <2>1, <2>4, DropIsLocal
  <2>5. CASE Reader!TakePhysicalRecord
    BY <1>1, <2>1, <2>5, TakeIsLocal
  <2>6. CASE Reader!DispatchRecord
    <3>1. Place' = Place /\ ~Taken'
      BY <2>6, DispatchLeavesBuffer DEF Place, Taken
    <3>2. Inside' /\ Complete(G)'
      BY <1>1, <2>1, <2>6, <3>1, DispatchStaysInside, DispatchStaysComplete
    <3>. QED
      BY <3>1, <3>2 DEF Collecting
  <2>. QED
    BY <1>1, <1>3, <2>2, <2>3, <2>4, <2>5, <2>6
       DEF Reader!Next, Reader!ReadPhysicalRecord
<1>. QED
  BY <1>2, <1>3

LEMMA FreshIsLocal ==
  ASSUME TypeInv', NEW G, WrittenInv(G)', Unread'
  PROVE  Local(G)'
<1>1. delivered' = << >> /\ file_pos' = 0 /\ buffer' = << >> /\ ~Taken'
  BY DEF TypeInv, Fresh, Taken, Unread
<1>2. file_pos' = 0 /\ Len(buffer') = 0
  <2>1. Len(<< >>) = 0
    OBVIOUS
  <2>. QED
    BY <1>1, <2>1
<1>3. Place' = 0
  BY <1>2 DEF Place
<1>. QED
  BY <1>1, <1>3, StartIsLocal

LEMMA OnlyEofEnds ==
  ASSUME Reader!DispatchRecord
  PROVE  rpc' = "end" => record_type = "eof"
BY ReportGoesOn
   DEF Reader!DispatchRecord, Reader!SkipTail, Reader!FullRecord,
   Reader!FirstFragment, Reader!MiddleFragment, Reader!LastFragment,
   Reader!MissingStart, Reader!ScratchCrash, Reader!ReturnEof,
   Reader!BadRecord, Reader!NoReport, Reader!Dispatch

LEMMA EndingStep ==
  ASSUME TypeInv, Calls, Ending, [Next]_vars
  PROVE  Ending'
<1>1. CASE Write \/ Damage
  BY <1>1 DEF Ending, Unread, Write, Damage, readerVars
<1>2. CASE UNCHANGED vars
  BY <1>2 DEF Ending, vars, readerVars, Reader!InitialBlock
<1>3. CASE Read
  <2>1. CASE Reader!Open \/ Reader!ReadLogRecord \/ Reader!FillBuffer
    BY <2>1 DEF Reader!Open, Reader!ReadLogRecord, Reader!FillBuffer, Ending
  <2>2. CASE Reader!SkipFails
    <3>1. /\ rpc = "ready" /\ Reader!MustSkip /\ Reader!InitialBlock > 0
          /\ rpc' \in {"end", "crashed"} /\ file_pos' = file_pos /\ eof' = eof
          /\ initial_offset' = initial_offset
      BY <2>2 DEF Reader!SkipFails, Reader!ReportThroughRecover,
         Reader!fixedVars
    <3>2. ~(last_record_offset >= initial_offset)
      BY <3>1 DEF Reader!MustSkip, TypeInv, TypeOK, Reader!TypeOK
    <3>3. ~eof /\ file_pos = 0
      BY <3>1, <3>2 DEF Calls
    <3>4. Reader!InitialBlock' = Reader!InitialBlock
      BY <3>1 DEF Reader!InitialBlock
    <3>5. 0 < Reader!InitialBlock
      <4>1. Reader!InitialBlock \in Nat
        BY InitialBlockType DEF TypeInv, TypeOK, Reader!TypeOK
      <4>. QED
        BY <3>1, <4>1
    <3>. QED
      BY <3>1, <3>3, <3>4, <3>5 DEF Ending
  <2>3. CASE Reader!FillFails
    <3>1. eof' = TRUE /\ buffer' = << >> /\ rpc' # "end"
      BY <2>3 DEF Reader!FillFails, Reader!ReportThroughRecover
    <3>. QED
      BY <3>1 DEF Ending
  <2>4. CASE Reader!EndOfFile \/ Reader!BadRecordLength
             \/ Reader!ZeroLengthRecord \/ Reader!ChecksumMismatch
    <3>1. /\ buffer' = << >> /\ rpc' # "end" /\ eof' = eof
          /\ record_type' = "eof" => eof
      BY <2>4, ReportGoesOn
         DEF Reader!EndOfFile, Reader!BadRecordLength, Reader!ZeroLengthRecord,
         Reader!ChecksumMismatch, Reader!NoReport, Reader!ReturnType
    <3>. QED
      BY <3>1 DEF Ending
  <2>5. CASE Reader!TakePhysicalRecord
    <3>1. rpc' = "dispatch"
      BY <2>5 DEF Reader!TakePhysicalRecord, Reader!NoReport
    <3>2. record_type' # "eof"
      <4>1. Reader!FrontRecord.type # "eof"
        BY <2>5, TookRecord DEF TypeInv, Physical, RecordType
      <4>. QED
        BY <2>5, <4>1 DEF Reader!TakePhysicalRecord, Reader!ReturnType
    <3>. QED
      BY <3>1, <3>2 DEF Ending
  <2>6. CASE Reader!DispatchRecord
    <3>1. /\ rpc = "dispatch" /\ rpc' # "dispatch"
          /\ eof' = eof /\ buffer' = buffer
      BY <2>6, DispatchLeavesBuffer
    <3>2. rpc' = "end" => record_type = "eof"
      BY <2>6, OnlyEofEnds
    <3>. QED
      BY <3>1, <3>2 DEF Ending
  <2>. QED
    BY <1>3, <2>1, <2>2, <2>3, <2>4, <2>5, <2>6
       DEF Read, Reader!Next, Reader!ReadPhysicalRecord
<1>. QED
  BY <1>1, <1>2, <1>3 DEF Next

(* At the end of the file every such record has been reached.              *)
LEMMA NothingLostBehind ==
  ASSUME TypeInv, NEW G, WrittenInv(G), Local(G), Ending
  PROVE  LossIsLocal
<1>1. SUFFICES ASSUME aligned, Reader!ReadToTheEnd
               PROVE  IsSubsequence(Subsequence(log, Good), delivered)
  BY DEF LossIsLocal, Good, Block
<1>2. rpc = "end" /\ ~Taken
  BY <1>1 DEF Reader!ReadToTheEnd, Taken
<1>3. /\ file_pos \in Nat /\ Len(disk) \in Nat
      /\ Place = file_pos - Len(buffer)
  BY PlaceType, DiskType DEF TypeInv
<1>4. eof
  <2>1. SUFFICES ASSUME ~eof PROVE FALSE
    OBVIOUS
  <2>2. file_pos < Reader!InitialBlock
    BY <1>2, <2>1 DEF Ending
  <2>3. file_pos >= Reader!InitialBlock
    BY <1>1, <2>1 DEF Reader!ReadToTheEnd
  <2>4. Reader!InitialBlock \in Nat
    BY InitialBlockType DEF TypeInv, TypeOK, Reader!TypeOK
  <2>. QED
    BY <1>3, <2>2, <2>3, <2>4
<1>5. buffer = << >> /\ file_pos >= Len(disk)
  BY <1>1, <1>2, <1>4 DEF Ending, Reader!ReadToTheEnd
<1>6. Place = file_pos
  <2>1. Len(<< >>) = 0
    OBVIOUS
  <2>2. Len(buffer) = 0
    BY <1>5, <2>1
  <2>. QED
    BY <1>3, <2>2
<1>7. \A k \in Good : Reached(k)
  <2>1. ASSUME NEW k \in Good
        PROVE  Reached(k)
    <3>1. ends[k] \in Nat /\ ends[k] <= Len(disk)
      BY GoodExtent
    <3>2. ends[k] < file_pos \/ ends[k] = file_pos
      BY <1>3, <1>5, <3>1
    <3>. QED
      BY <1>2, <1>6, <3>2 DEF Reached
  <2>. QED
    BY <2>1
<1>8. PICK S \in SUBSET (1..Len(log)) :
        /\ delivered = Subsequence(log, S)
        /\ \A k \in Good : k \in S
  BY <1>1, <1>2, <1>7 DEF Local, Complete
<1>9. log \in Seq(Seq(Byte))
  BY EndsType DEF TypeInv
<1>10. Good \in SUBSET S
  BY <1>8
<1>. QED
  BY <1>8, <1>9, <1>10, SubsequenceOfSubsequence

------------------------------------------------------------------------------
(***************************************************************************)
(* All of it holds for one layout of the file.                             *)
(***************************************************************************)
Recovered(G) ==
  WrittenInv(G) /\ Steady(G) /\ Exact(G) /\ Quiet(G) /\ Local(G)

RecoveryInv == TypeInv /\ Calls /\ Ending /\ \E G : Recovered(G)

LEMMA InitWritten ==
  ASSUME Init
  PROVE  WrittenInv(<< >>)
<1>1. /\ disk = << >> /\ log = << >> /\ ends = << >> /\ wpc = "idle"
  BY DEF Init, Writer!Init
<1>2. Len(<< >>) = 0
  OBVIOUS
<1>3. Numbered(<< >>)
  <2>1. StartOf(Len(ends) + 1) = 0
    BY <1>1, <1>2 DEF StartOf
  <2>. QED
    BY <1>1, <1>2, <2>1 DEF Numbered, Covered, FirstOpens, Starts, Ends, Ended,
       WriterEnds
<1>4. Straight(<< >>)
  BY <1>2 DEF Straight
<1>. QED
  BY <1>3, <1>4, InitLayout DEF WrittenInv

LEMMA RecoveryInit == ASSUME Init PROVE RecoveryInv
<1>1. TypeInv /\ WrittenInv(<< >>)
  BY InitTypes, InitWritten
<1>2. /\ rpc = "closed" /\ ~eof /\ end_of_buffer_offset = 0
      /\ initial_offset = 0 /\ last_record_offset = 0 /\ file_pos = 0 /\ buffer = << >>
      /\ Len(buffer) = 0 /\ ~in_fragmented_record
      /\ ~resyncing /\ ~reported
  BY DEF Init, Reader!Init
<1>3. Calls
  BY <1>2 DEF Calls, Unread
<1>4. Steady(<< >>)
  <2>1. file_pos = 0 * BlockSize /\ 0 \in Nat
    BY <1>2, FormatAssumption
  <2>. QED
    BY <1>2, <2>1 DEF Steady, Contiguous, AtBlock, Within
<1>5. Exact(<< >>)
  BY <1>2 DEF Exact, Taken
<1>6. Quiet(<< >>)
  BY <1>2 DEF Quiet, Taken
<1>7. Ending
  BY <1>2 DEF Ending
<1>8. Local(<< >>)
  <2>1. ends = << >> /\ log = << >> /\ delivered = << >>
    BY DEF Init, Writer!Init, Reader!Init
  <2>2. Good = {}
    BY <2>1 DEF Good
  <2>3. Inside /\ Collecting(<< >>)
    BY <1>2, <2>2 DEF Inside, Collecting, Taken
  <2>4. Subsequence(<< >>, {}) = << >>
    <3>1. << >> \in Seq(Nat)
      OBVIOUS
    <3>. QED
      BY <3>1, SubsequenceOfNone
  <2>5. Complete(<< >>)
    <3>1. Passed(<< >>, {})
      BY DEF Passed
    <3>. QED
      BY <2>1, <2>2, <2>4, <3>1 DEF Complete
  <2>. QED
    BY <2>3, <2>5 DEF Local
<1>. QED
  BY <1>1, <1>3, <1>4, <1>5, <1>6, <1>7, <1>8 DEF RecoveryInv, Recovered

LEMMA RecoveryStep == ASSUME RecoveryInv, [Next]_vars PROVE RecoveryInv'
<1>1. TypeInv /\ TypeInv' /\ Calls /\ Calls' /\ Ending'
  BY TypeStep, CallsStep, EndingStep DEF RecoveryInv
<1>2. PICK G : Recovered(G)
  BY DEF RecoveryInv
<1>3. CASE Write
  <2>1. PICK H : WrittenInv(H)'
    BY <1>1, <1>2, <1>3, WriteStaysWritten DEF Recovered
  <2>2. Unread'
    BY <1>3 DEF Write, Unread, readerVars
  <2>3. Steady(H)' /\ Exact(H)' /\ Quiet(H)' /\ Local(H)'
    BY <1>1, <2>1, <2>2, FreshIsSteady, FreshIsExact, FreshIsQuiet,
       FreshIsLocal
  <2>. QED
    BY <1>1, <2>1, <2>3 DEF RecoveryInv, Recovered
<1>4. CASE Damage
  <2>1. WrittenInv(G)'
    BY <1>1, <1>2, <1>4, FileStaysWritten DEF Recovered
  <2>2. Unread'
    BY <1>4 DEF Damage, Unread, readerVars
  <2>3. Steady(G)' /\ Exact(G)' /\ Quiet(G)' /\ Local(G)'
    BY <1>1, <2>1, <2>2, FreshIsSteady, FreshIsExact, FreshIsQuiet,
       FreshIsLocal
  <2>. QED
    BY <1>1, <2>1, <2>3 DEF RecoveryInv, Recovered
<1>5. CASE Read
  <2>1. WrittenInv(G)'
    BY <1>1, <1>2, <1>5, FileStaysWritten DEF Recovered
  <2>2. Steady(G)' /\ Exact(G)' /\ Quiet(G)' /\ Local(G)'
    BY <1>1, <1>2, <1>5, <2>1, ReadIsSteady, ReadIsExact, ReadIsQuiet,
       ReadIsLocal DEF Recovered
  <2>. QED
    BY <1>1, <2>1, <2>2 DEF RecoveryInv, Recovered
<1>6. CASE UNCHANGED vars
  <2>1. WrittenInv(G)'
    BY <1>1, <1>2, <1>6, FileStaysWritten DEF Recovered
  <2>2. Steady(G)' /\ Exact(G)'
    BY <1>2, <1>6 DEF Recovered, vars, writerVars, readerVars, Steady, Exact,
       Contiguous, AtBlock, Within, Place, Taken, StartOf
  <2>3. Quiet(G)'
    BY <1>2, <1>6 DEF Recovered, vars, writerVars, readerVars, Quiet, Between,
       Clean, Undamaged, Place, Taken
  <2>4. Local(G)'
    <3>1. /\ disk' = disk /\ ends' = ends /\ log' = log /\ aligned' = aligned
          /\ initial_offset' = initial_offset /\ delivered' = delivered
          /\ rpc' = rpc /\ record_type' = record_type /\ Place' = Place
          /\ in_fragmented_record' = in_fragmented_record
      BY <1>6 DEF vars, writerVars, readerVars, Place
    <3>2. Good' = Good /\ (\A k : StartOf(k)' = StartOf(k)) /\ Taken' = Taken
      BY <3>1, GoodStays DEF Taken
    <3>3. \A k : Reached(k)' = Reached(k)
      BY <3>1, <3>2 DEF Reached
    <3>4. \A S : /\ Passed(G, S)' = Passed(G, S)
                 /\ Subsequence(log, S)' = Subsequence(log, S)
      BY <3>1, <3>2 DEF Passed, Subsequence
    <3>5. Local(G)
      BY <1>2 DEF Recovered
    <3>6. aligned => Inside'
      BY <3>1, <3>2, <3>5 DEF Local, Inside
    <3>7. aligned => Collecting(G)'
      BY <3>1, <3>2, <3>5 DEF Local, Collecting
    <3>8. aligned => Complete(G)'
      <4>1. \A k : Returnable(k)' = Returnable(k)
        BY <3>1, GoodStays
      <4>. QED
        BY <3>1, <3>2, <3>3, <3>4, <3>5, <4>1 DEF Local, Complete
    <3>. QED
      BY <3>1, <3>6, <3>7, <3>8 DEF Local
  <2>. QED
    BY <1>1, <2>1, <2>2, <2>3, <2>4 DEF RecoveryInv, Recovered
<1>. QED
  BY <1>3, <1>4, <1>5, <1>6 DEF Next

(* In a file whose blocks are where the writer believed them to be, damage *)
(* and all, last_record_offset is where the writer started the record that *)
(* readLogRecord has just returned, wherever the reader started and        *)
(* whatever it had to skip.                                                *)
THEOREM OffsetsAreExact == Spec => []OffsetIsExact
<1>1. Init => RecoveryInv
  BY RecoveryInit
<1>2. RecoveryInv /\ [Next]_vars => RecoveryInv'
  BY RecoveryStep
<1>3. RecoveryInv => OffsetIsExact
  BY DEF RecoveryInv, Recovered, Exact, OffsetIsExact
<1>. QED
  BY <1>1, <1>2, <1>3, PTL DEF Spec

(* A writer that stopped anywhere, leaving a prefix of what it wrote in a  *)
(* file that is laid out in whole blocks (aligned), is no corruption to    *)
(* one who reads the file from its start: nothing of it reaches the        *)
(* Recover, not even the record it did not finish.                         *)
THEOREM NoFalseAlarms == Spec => []NoFalseAlarm
<1>1. Init => RecoveryInv
  BY RecoveryInit
<1>2. RecoveryInv /\ [Next]_vars => RecoveryInv'
  BY RecoveryStep
<1>3. RecoveryInv => NoFalseAlarm
  BY DEF RecoveryInv, Recovered, Quiet, Clean, NoFalseAlarm
<1>. QED
  BY <1>1, <1>2, <1>3, PTL DEF Spec

(* Dropping the rest of a block after a damaged byte costs no record but   *)
(* those that touch the block from that byte on, in a file that is laid    *)
(* out in whole blocks (aligned): whatever was damaged and                 *)
(* wherever the reader started, every record that starts there or behind   *)
(* it, in a block that is undamaged up to the end of the record, is        *)
(* returned, in order.                                                     *)
THEOREM LossStaysLocal == Spec => []LossIsLocal
<1>1. Init => RecoveryInv
  BY RecoveryInit
<1>2. RecoveryInv /\ [Next]_vars => RecoveryInv'
  BY RecoveryStep
<1>3. RecoveryInv => LossIsLocal
  BY NothingLostBehind DEF RecoveryInv, Recovered
<1>. QED
  BY <1>1, <1>2, <1>3, PTL DEF Spec
------------------------------------------------------------------------------
(***************************************************************************)
(* The log implements RecordLog, as long as no byte is damaged, no trailer *)
(* is lost and a failed read of the file is the end of the process, as it  *)
(* is in recoverVersions, whose reader has no Recover.                     *)
(***************************************************************************)

(* The reader says that there is no more only once it has read the file.   *)
AtEnd ==
  /\ eof /\ rpc # "crashed" => file_pos >= Len(disk)
  /\ rpc = "end" => eof

Undisturbed ==
  /\ RecoveryInv
  /\ Proved!DurabilityInv /\ Proved!AlignmentInv
  /\ Proved!NoHoles /\ Proved!FromRecords
  /\ aligned
  /\ AtEnd

LEMMA WriterStep ==
  ASSUME TypeOK, MaxDamage = 0, [Next]_vars
  PROVE  ~Damage /\ [Proved!Next]_Proved!vars
<1>1. ~Damage
  BY DEF TypeOK, Damage
<1>2. CASE Write
  BY <1>1, <1>2, SameNext DEF Write
<1>3. CASE Read
  <2>1. UNCHANGED Proved!vars
    BY <1>3, ReaderLeavesFile DEF Read, writerVars, Proved!vars
  <2>. QED
    BY <1>1, <2>1
<1>4. CASE UNCHANGED vars
  BY <1>1, <1>4 DEF vars, writerVars, Proved!vars
<1>. QED
  BY <1>1, <1>2, <1>3, <1>4 DEF Next

(* A read that returns less than a block returns what is left of the file; *)
(* without a Recover, one that fails is reported to nobody.                *)
LEMMA AtEndStep ==
  ASSUME TypeInv, Calls, Ending, NEW G, WrittenInv(G), Steady(G), aligned,
         AtEnd, MaxDamage = 0, HasRecover = FALSE, [Next]_vars
  PROVE  AtEnd'
<1>1. /\ file_pos \in Nat /\ Len(disk) \in Nat
      /\ Reader!InitialBlock \in Nat
  BY PlaceType, DiskType, InitialBlockType
     DEF TypeInv, TypeOK, Reader!TypeOK
<1>2. CASE Write
  BY <1>2 DEF Write, Unread, readerVars, Calls, AtEnd
<1>3. CASE UNCHANGED vars
  BY <1>3 DEF vars, readerVars, AtEnd
<1>4. CASE Read
  <2>1. Reader!Next /\ disk' = disk
    BY <1>4, ReaderLeavesFile DEF Read
  <2>2. CASE Reader!Open
    BY <2>1, <2>2 DEF Reader!Open, Reader!inputVars, AtEnd
  <2>3. CASE Reader!ReadLogRecord
    <3>1. /\ rpc = "ready" /\ rpc' = "physical" /\ eof' = eof
          /\ file_pos' \in {file_pos, file_pos + Reader!InitialBlock}
      BY <2>3 DEF Reader!ReadLogRecord
    <3>2. file_pos' >= file_pos /\ file_pos' \in Nat
      BY <1>1, <3>1
    <3>3. eof => file_pos >= Len(disk)
      BY <3>1 DEF AtEnd
    <3>4. eof => file_pos' >= Len(disk)
      BY <1>1, <3>2, <3>3
    <3>. QED
      BY <2>1, <3>1, <3>4 DEF AtEnd
  <2>4. CASE Reader!SkipFails \/ Reader!FillFails
    <3>1. rpc' = "crashed"
      BY <2>4 DEF Reader!SkipFails, Reader!FillFails,
         Reader!ReportThroughRecover
    <3>. QED
      BY <3>1 DEF AtEnd
  <2>5. CASE Reader!FillBuffer
    <3>1. rpc = "physical" /\ rpc' = "physical" /\ ~eof
      BY <2>5 DEF Reader!FillBuffer
    <3>2. PICK n : n = Len(Reader!NextBlock)
      OBVIOUS
    <3>3. buffer = << >> /\ Len(buffer) = 0
      <4>1. Len(buffer) < HeaderSize
        BY <2>5 DEF Reader!FillBuffer
      <4>. QED
        BY <3>1, <4>1, NothingLeftOver
    <3>4. n \in Nat /\ file_pos' = file_pos + n
      BY <2>5, <3>2, NextBlockLength DEF Reader!FillBuffer, TypeInv
    <3>5. eof' => n < BlockSize
      <4>1. PICK pad \in {0, Len(buffer)} :
              buffer' = Zeros(pad) \o Reader!NextBlock
        BY <2>5, SameBytes DEF Reader!FillBuffer
      <4>2. Len(buffer') = n
        <5>1. /\ Zeros(0) \in Seq(Cell) /\ Len(Zeros(0)) = 0
              /\ Reader!NextBlock \in Seq(Cell)
          BY ZerosType, NextBlockType DEF TypeInv
        <5>. QED
          BY <3>2, <3>3, <4>1, <5>1, ConcatProperties
      <4>. QED
        BY <2>5, <4>2 DEF Reader!FillBuffer
    <3>6. n < BlockSize => file_pos' >= Len(disk)
      <4>1. /\ n < BlockSize /\ n # 0 => file_pos + n = Len(disk)
            /\ n = 0 => Len(disk) <= file_pos
        BY <3>2, NextBlockLength DEF TypeInv
      <4>. QED
        BY <1>1, <3>4, <4>1
    <3>. QED
      BY <2>1, <3>1, <3>5, <3>6 DEF AtEnd
  <2>6. CASE \/ Reader!EndOfFile \/ Reader!BadRecordLength
             \/ Reader!ZeroLengthRecord \/ Reader!ChecksumMismatch
             \/ Reader!TakePhysicalRecord
    <3>1. /\ rpc = "physical" /\ rpc' \in {"dispatch", "crashed"}
          /\ eof' = eof /\ file_pos' = file_pos
      BY <2>6, ReportGoesOn
         DEF Reader!EndOfFile, Reader!BadRecordLength, Reader!ZeroLengthRecord,
         Reader!ChecksumMismatch, Reader!TakePhysicalRecord, Reader!HasHeader,
         Reader!NoReport
    <3>. QED
      BY <2>1, <3>1 DEF AtEnd
  <2>7. CASE Reader!DispatchRecord
    <3>1. /\ rpc = "dispatch" /\ eof' = eof /\ file_pos' = file_pos
      BY <2>7, DispatchLeavesBuffer
    <3>2. rpc' = "end" => eof
      BY <2>7, <3>1, OnlyEofEnds DEF Ending
    <3>. QED
      BY <2>1, <3>1, <3>2 DEF AtEnd
  <2>. QED
    BY <2>1, <2>2, <2>3, <2>4, <2>5, <2>6, <2>7
       DEF Reader!Next, Reader!ReadPhysicalRecord
<1>. QED
  BY <1>2, <1>3, <1>4, WriterStep DEF Next, TypeInv

LEMMA UndisturbedInit == ASSUME Init PROVE Undisturbed
<1>1. Proved!Init
  BY DEF Init, Writer!Init, Proved!Init
<1>2. Proved!DurabilityInv /\ Proved!AlignmentInv
  BY <1>1, FormatAssumption, SystemAssumption, Proved!DurabilityInit,
     Proved!AlignmentInit
<1>3. disk = << >> /\ log = << >> /\ Len(<< >>) = 0
  BY DEF Init, Writer!Init
<1>4. Proved!NoHoles /\ Proved!FromRecords
  BY <1>3 DEF Proved!NoHoles, Proved!FromRecords
<1>5. aligned /\ AtEnd
  BY DEF Init, Reader!Init, AtEnd
<1>. QED
  BY <1>2, <1>4, <1>5, RecoveryInit DEF Undisturbed

LEMMA UndisturbedStep ==
  ASSUME MaxDamage = 0, HasRecover = FALSE, "lost" \notin TrailerOutcomes,
         Undisturbed, [Next]_vars
  PROVE  Undisturbed'
<1>1. RecoveryInv /\ RecoveryInv'
  BY RecoveryStep DEF Undisturbed
<1>2. /\ TypeInv /\ Calls /\ Ending
      /\ Proved!TypeOK /\ Proved!TypeOK'
  BY <1>1, SameType, SameTypeNext DEF RecoveryInv, TypeInv, TypeOK
<1>3. ~Damage /\ [Proved!Next]_Proved!vars
  BY <1>2, WriterStep DEF TypeInv
<1>4. Proved!DurabilityInv'
  BY <1>2, <1>3, FormatAssumption, SystemAssumption, Proved!DurabilityStep
     DEF Undisturbed
<1>5. Proved!AlignmentInv'
  BY <1>2, <1>3, FormatAssumption, SystemAssumption, Proved!AlignmentStep
     DEF Undisturbed
<1>6. Proved!NoHoles'
  BY <1>3, <1>4, FormatAssumption, SystemAssumption, Proved!NoHolesStep
     DEF Undisturbed
<1>7. Proved!FromRecords'
  BY <1>2, <1>3, FormatAssumption, SystemAssumption, Proved!FromRecordsStep
     DEF Undisturbed
<1>8. aligned'
  <2>1. Writer!NoStraddle'
    BY <1>5 DEF Proved!AlignmentInv, Proved!NoStraddle, Writer!NoStraddle,
       Proved!InOneBlock, Writer!InOneBlock
  <2>. QED
    BY <1>3, <2>1 DEF Undisturbed, Next, Write, Read, vars
<1>9. AtEnd'
  <2>1. PICK G : WrittenInv(G) /\ Steady(G)
    BY <1>1 DEF RecoveryInv, Recovered
  <2>. QED
    BY <1>2, <2>1, AtEndStep DEF Undisturbed
<1>. QED
  BY <1>1, <1>4, <1>5, <1>6, <1>7, <1>8, <1>9 DEF Undisturbed

(* The abstract state.                                                     *)
Phase == IF rpc = "end" THEN "done"
         ELSE IF ~Unread THEN "reading"
         ELSE IF Writer!Stopped THEN "stopped" ELSE "writing"

WrittenRecords == Subsequence(log, Surviving)

PassedOver == {k \in Surviving : StartOf(k) < initial_offset}

ReadRecords == Subsequence(log, PassedOver) \o delivered

(* Records lie in the file in their order.                                 *)
LEMMA EndsInOrder ==
  ASSUME TypeInv, NEW G, WrittenInv(G), NEW j \in DOMAIN ends,
         NEW k \in DOMAIN ends, j <= k
  PROVE  ends[j] <= ends[k] /\ ends[j] \in Nat /\ ends[k] \in Nat
<1>1. PICK a \in 1..Len(G), b \in 1..Len(G) : a = ends[j] /\ b = ends[k]
  BY RecordExtent
<1>2. /\ G[a].rec = j /\ IsEnd(G[a]) /\ Closes(G[a].phys)
      /\ G[b].rec = k /\ IsEnd(G[b]) /\ Closes(G[b].phys)
  BY <1>1, RecordExtent
<1>3. /\ Layout(G) /\ Len(G) \in Nat
      /\ DOMAIN ends = 1..Len(ends) /\ Len(ends) \in Nat
  BY EndsType, LayoutTypes DEF TypeInv, WrittenInv, LogInv
<1>4. b < a => G[b].rec < G[a].rec
  BY <1>2, <1>3 DEF Layout, Ordered
<1>. QED
  BY <1>1, <1>2, <1>3, <1>4

LEMMA StartsInOrder ==
  ASSUME TypeInv, NEW G, WrittenInv(G), NEW j \in DOMAIN ends,
         NEW k \in DOMAIN ends, j < k
  PROVE  /\ ends[j] <= StartOf(k) /\ ends[j] < ends[k]
         /\ StartOf(j) < StartOf(k)
         /\ ends[j] \in Nat /\ ends[k] \in Nat
         /\ StartOf(j) \in Nat /\ StartOf(k) \in Nat
<1>1. DOMAIN ends = 1..Len(ends) /\ Len(ends) \in Nat
  BY EndsType DEF TypeInv
<1>2. k # 1 /\ k - 1 \in DOMAIN ends /\ j <= k - 1
  BY <1>1
<1>3. StartOf(k) = ends[k - 1]
  BY <1>2 DEF StartOf
<1>4. ends[j] <= StartOf(k)
  BY <1>2, <1>3, EndsInOrder
<1>5. /\ StartOf(j) \in Nat /\ StartOf(j) < ends[j] /\ ends[j] \in 1..Len(G)
      /\ StartOf(k) \in Nat /\ StartOf(k) < ends[k] /\ ends[k] \in 1..Len(G)
  BY RecordExtent
<1>6. Len(G) \in Nat
  BY EndsType, LayoutTypes DEF TypeInv, WrittenInv, LogInv
<1>. QED
  BY <1>4, <1>5, <1>6

(* What survives is an initial segment of the log.                         *)
LEMMA SurvivingSegment ==
  ASSUME TypeInv, NEW G, WrittenInv(G)
  PROVE  \E n \in 0..Len(ends) : Surviving = 1..n
<1>1. DOMAIN ends = 1..Len(ends) /\ Len(ends) \in Nat /\ Len(disk) \in Nat
  BY EndsType, DiskType DEF TypeInv
<1>2. ASSUME NEW k \in Surviving, NEW j \in 1..k
      PROVE  j \in Surviving
  <2>1. k \in DOMAIN ends /\ j \in DOMAIN ends /\ j <= k
    BY <1>1 DEF Surviving
  <2>2. /\ ends[k] <= Len(disk)
        /\ \A i \in 1..ends[k] : Written(disk[i])
    BY DEF Surviving, Undamaged
  <2>3. ends[j] <= ends[k] /\ ends[j] \in Nat /\ ends[k] \in Nat
    BY <2>1, EndsInOrder
  <2>4. Undamaged(0, ends[j])
    BY <1>1, <2>2, <2>3 DEF Undamaged
  <2>. QED
    BY <2>1, <2>4 DEF Surviving
<1>3. Surviving \in SUBSET (1..Len(ends))
  BY <1>1 DEF Surviving
<1>. QED
  BY <1>1, <1>2, <1>3, InitialSegment

(* What can be returned survives, if nothing is damaged, and must be       *)
(* returned.                                                               *)
LEMMA ReturnableIsGood ==
  ASSUME TypeInv, NEW G, WrittenInv(G), Proved!NoHoles, NEW k
  PROVE  /\ Returnable(k) => k \in Surviving
         /\ k \in Surviving /\ StartOf(k) >= initial_offset => k \in Good
<1>1. ASSUME Returnable(k) PROVE k \in Surviving
  <2>1. /\ k \in DOMAIN ends /\ ends[k] <= Len(disk) /\ Written(disk[ends[k]])
    BY <1>1 DEF Returnable
  <2>2. ends[k] \in 1..Len(G) /\ Len(disk) \in Nat
    BY <2>1, RecordExtent, DiskType DEF TypeInv
  <2>3. PICK e \in 1..Len(disk) : e = ends[k]
    BY <2>1, <2>2
  <2>4. \A i \in 1..e : Written(disk[i])
    BY <2>1, <2>3 DEF Proved!NoHoles, Proved!Written, Written
  <2>. QED
    BY <2>1, <2>3, <2>4 DEF Surviving, Undamaged
<1>2. ASSUME k \in Surviving, StartOf(k) >= initial_offset
      PROVE  k \in Good
  <2>1. k \in DOMAIN ends /\ Undamaged(0, ends[k])
    BY <1>2 DEF Surviving
  <2>2. StartOf(k) \in Nat /\ BlockSize \in Nat \ {0}
    BY <2>1, RecordExtent, FormatAssumption
  <2>3. PICK b : b = Block(k)
    OBVIOUS
  <2>4. b \in Nat
    <3>1. PICK o \in Nat : o = StartOf(k)
      BY <2>2
    <3>2. (o % BlockSize) \in Nat /\ (o % BlockSize) <= o
      <4>1. /\ o \div BlockSize \in Nat /\ (o % BlockSize) \in Nat
            /\ o = BlockSize * (o \div BlockSize) + (o % BlockSize)
        BY <2>2
      <4>2. BlockSize * (o \div BlockSize) \in Nat
        BY <2>2, <4>1
      <4>. QED
        BY <4>1, <4>2
    <3>. QED
      BY <2>3, <3>1, <3>2 DEF Block
  <2>5. Undamaged(b, ends[k])
    <3>1. ends[k] \in 1..Len(G)
      BY <2>1, RecordExtent
    <3>2. Len(G) \in Nat
      BY EndsType, LayoutTypes DEF TypeInv, WrittenInv, LogInv
    <3>. QED
      BY <2>1, <2>4, <3>1, <3>2 DEF Undamaged
  <2>. QED
    BY <1>2, <2>1, <2>3, <2>5 DEF Good
<1>. QED
  BY <1>1, <1>2

(* The records the reader has passed over or returned are an initial       *)
(* segment of those that survive, and at the end of the file all of them.  *)
LEMMA ReadSegment ==
  ASSUME TypeInv, NEW G, WrittenInv(G), Complete(G), Proved!NoHoles,
         rpc # "crashed", NEW n \in 0..Len(ends), Surviving = 1..n
  PROVE  \E m \in 0..n :
           /\ ReadRecords = SubSeq(log, 1, m)
           /\ (\A k \in Good : Reached(k)) => m = n
<1>1. PICK S \in SUBSET (1..Len(log)) :
        /\ delivered = Subsequence(log, S)
        /\ Passed(G, S)
        /\ \A k \in S : Returnable(k)
        /\ \A k \in Good : Reached(k) => k \in S
  BY DEF Complete
<1>2. /\ DOMAIN ends = 1..Len(ends) /\ Len(ends) \in Nat /\ Len(log) \in Nat
      /\ log \in Seq(Seq(Byte)) /\ Len(ends) <= Len(log)
      /\ Place \in Int /\ initial_offset \in Nat
  BY EndsType, PlaceType
     DEF TypeInv, TypeOK, Reader!TypeOK, WrittenInv, Numbered, WriterEnds
<1>. DEFINE R == PassedOver \cup S
<1>3. /\ PassedOver \subseteq Surviving /\ S \subseteq Surviving
      /\ Surviving \subseteq DOMAIN ends
      /\ \A k \in S : StartOf(k) >= initial_offset
      /\ \A k \in PassedOver : StartOf(k) < initial_offset
      /\ \A k \in Surviving : k \in PassedOver
                              \/ ~(StartOf(k) < initial_offset)
  BY <1>1, ReturnableIsGood DEF PassedOver, Surviving, Returnable
<1>4. ASSUME NEW k \in R, NEW j \in 1..k
      PROVE  j \in R
  <2>1. k \in DOMAIN ends /\ j \in DOMAIN ends /\ j \in Surviving
    BY <1>2, <1>3
  <2>2. CASE j = k
    BY <2>2
  <2>3. CASE j # k
    <3>1. j < k
      BY <1>2, <2>1, <2>3
    <3>2. /\ ends[j] < ends[k] /\ StartOf(j) < StartOf(k)
          /\ ends[j] \in Nat /\ ends[k] \in Nat
          /\ StartOf(j) \in Nat /\ StartOf(k) \in Nat
      BY <2>1, <3>1, StartsInOrder
    <3>3. CASE StartOf(j) < initial_offset
      BY <1>3, <2>1, <3>3
    <3>4. CASE ~(StartOf(j) < initial_offset)
      <4>1. k \in S
        BY <1>2, <1>3, <3>2, <3>4
      <4>2. j \in Good
        <5>1. StartOf(j) >= initial_offset
          BY <1>2, <3>2, <3>4
        <5>. QED
          BY <1>1, <2>1, <5>1, ReturnableIsGood
      <4>3. ends[k] <= Place
        <5>1. SUFFICES ASSUME ends[k] > Place PROVE FALSE
          BY <1>2, <3>2
        <5>2. ends[k] \in 1..Len(G) /\ G[ends[k]].rec = k
          BY <2>1, RecordExtent
        <5>3. G[ends[k]].rec > k
          BY <1>1, <4>1, <5>1, <5>2 DEF Passed
        <5>. QED
          BY <1>2, <2>1, <5>2, <5>3
      <4>4. Reached(j)
        BY <1>2, <3>2, <4>3 DEF Reached
      <4>. QED
        BY <1>1, <4>2, <4>4
    <3>. QED
      BY <3>3, <3>4
  <2>. QED
    BY <2>2, <2>3
<1>5. PICK m \in 0..n : R = 1..m
  <2>1. n \in Nat /\ R \in SUBSET (1..n)
    BY <1>2, <1>3
  <2>. HIDE DEF R
  <2>. QED
    BY <1>4, <2>1, InitialSegment
<1>6. \A i \in PassedOver : \A j \in S : i < j
  <2>1. ASSUME NEW i \in PassedOver, NEW j \in S, ~(i < j)
        PROVE  FALSE
    <3>1. /\ i \in DOMAIN ends /\ j \in DOMAIN ends
          /\ StartOf(i) < initial_offset /\ StartOf(j) >= initial_offset
      BY <1>3
    <3>2. StartOf(i) \in Nat /\ StartOf(j) \in Nat
      BY <3>1, RecordExtent
    <3>3. i # j
      BY <1>2, <3>1, <3>2
    <3>4. j < i
      BY <1>2, <2>1, <3>1, <3>3
    <3>5. StartOf(j) < StartOf(i)
      BY <3>1, <3>4, StartsInOrder
    <3>. QED
      BY <1>2, <3>1, <3>2, <3>5
  <2>. QED
    BY <2>1
<1>7. ReadRecords = SubSeq(log, 1, m)
  <2>1. PassedOver \in SUBSET Int /\ S \in SUBSET Int
    BY <1>2, <1>3
  <2>2. Subsequence(log, PassedOver \cup S)
          = Subsequence(log, PassedOver) \o Subsequence(log, S)
    BY <1>2, <1>6, <2>1, SubsequenceJoins
  <2>3. m \in 0..Len(log)
    BY <1>2, <1>5
  <2>4. Subsequence(log, 1..m) = SubSeq(log, 1, m)
    BY <1>2, <2>3, SubsequenceOfSegment
  <2>. QED
    BY <1>1, <1>5, <2>2, <2>4 DEF ReadRecords
<1>8. ASSUME \A k \in Good : Reached(k)
      PROVE  m = n
  <2>1. ASSUME NEW k \in Surviving PROVE k \in R
    <3>1. CASE StartOf(k) < initial_offset
      BY <1>3, <3>1
    <3>2. CASE ~(StartOf(k) < initial_offset)
      <4>1. StartOf(k) \in Nat
        BY <1>3, RecordExtent
      <4>3. StartOf(k) >= initial_offset
        BY <1>2, <3>2, <4>1
      <4>2. k \in Good
        BY <4>3, ReturnableIsGood
      <4>. QED
        BY <1>1, <1>8, <4>2
    <3>. QED
      BY <3>1, <3>2
  <2>2. \A k \in 1..n : k \in 1..m
    BY <1>5, <2>1
  <2>. HIDE DEF R
  <2>3. n \in Nat /\ m \in Nat /\ m <= n
    BY <1>2, <1>5
  <2>4. n > 0 => n \in 1..n
    BY <2>3
  <2>. QED
    BY <2>2, <2>3, <2>4
<1>. QED
  BY <1>5, <1>7, <1>8

(* The records that survive are those before a place of the log, the       *)
(* records read those before an earlier one; what the process that writes  *)
(* has completed survives while it runs.                                   *)
Segmented ==
  \E n \in 0..Len(ends) :
    /\ WrittenRecords = SubSeq(log, 1, n)
    /\ acked <= n
    /\ wpc # "crashed" => n = Len(ends)
    /\ Unread => ReadRecords = << >>
    /\ rpc # "crashed" => \E m \in 0..n : ReadRecords = SubSeq(log, 1, m)
    /\ rpc = "end" => ReadRecords = WrittenRecords

LEMMA UndisturbedSegmented == ASSUME Undisturbed PROVE Segmented
<1>1. /\ TypeInv /\ Calls /\ Ending /\ Proved!NoHoles /\ aligned /\ AtEnd
      /\ Proved!DurabilityInv
  BY DEF Undisturbed, RecoveryInv
<1>2. PICK G : WrittenInv(G) /\ Complete(G)
  BY <1>1 DEF Undisturbed, RecoveryInv, Recovered, Local
<1>3. /\ DOMAIN ends = 1..Len(ends) /\ Len(ends) \in Nat /\ Len(log) \in Nat
      /\ log \in Seq(Seq(Byte)) /\ Len(ends) <= Len(log)
      /\ \A k \in 1..Len(ends) : ends[k] \in Nat
      /\ Len(disk) \in Nat /\ acked \in Nat
  BY <1>1, <1>2, EndsType, DiskType
     DEF TypeInv, TypeOK, Writer!TypeOK, WrittenInv, Numbered, WriterEnds
<1>4. PICK n \in 0..Len(ends) : Surviving = 1..n
  BY <1>1, <1>2, SurvivingSegment
<1>5. WrittenRecords = SubSeq(log, 1, n)
  <2>1. n \in 0..Len(log)
    BY <1>3
  <2>. QED
    BY <1>3, <1>4, <2>1, SubsequenceOfSegment DEF WrittenRecords
<1>6. acked <= n
  <2>1. Proved!AckedIsOnDisk /\ acked <= Len(ends)
    BY <1>1, FormatAssumption, SystemAssumption, Proved!DurabilityKept
       DEF Proved!DurabilityInv, Proved!AckedIsSynced
  <2>2. ASSUME acked > 0
        PROVE  acked \in Surviving
    <3>1. acked \in 1..acked /\ acked \in DOMAIN ends /\ ends[acked] \in Nat
      BY <1>3, <2>1, <2>2
    <3>2. /\ ends[acked] <= Len(disk)
          /\ \A i \in 1..ends[acked] : Written(disk[i])
      BY <2>1, <3>1 DEF Proved!AckedIsOnDisk, Proved!Written, Written
    <3>. QED
      BY <3>1, <3>2 DEF Surviving, Undamaged
  <2>. QED
    BY <1>3, <1>4, <2>2
<1>7. ASSUME wpc # "crashed"
      PROVE  n = Len(ends)
  <2>1. ASSUME Len(ends) > 0
        PROVE  Len(ends) \in Surviving
    <3>1. Len(ends) \in DOMAIN ends /\ ends[Len(ends)] \in Nat
      BY <1>3, <2>1
    <3>2. /\ ends[Len(ends)] <= Len(disk)
          /\ \A i \in 1..Len(disk) : Written(disk[i])
      BY <1>1, <1>7, <3>1
         DEF Proved!DurabilityInv, Proved!LiveFile, Proved!Written, Written
    <3>3. Undamaged(0, ends[Len(ends)])
      BY <1>3, <3>1, <3>2 DEF Undamaged
    <3>. QED
      BY <3>1, <3>3 DEF Surviving
  <2>2. Len(ends) > 0 => Len(ends) <= n
    BY <1>4, <2>1
  <2>3. n \in Nat /\ n <= Len(ends) /\ Len(ends) \in Nat
    BY <1>3
  <2>. QED
    BY <2>2, <2>3
<1>8. ASSUME Unread
      PROVE  ReadRecords = << >>
  <2>1. initial_offset = 0 /\ delivered = << >>
    BY <1>1, <1>8 DEF Calls, TypeInv, Fresh
  <2>2. PassedOver = {}
    <3>1. \A k \in Surviving : ~(StartOf(k) < 0)
      <4>1. \A k \in Surviving : k \in DOMAIN ends
        BY DEF Surviving
      <4>2. \A k \in DOMAIN ends : StartOf(k) \in Nat
        BY <1>1, <1>2, RecordExtent
      <4>. QED
        BY <4>1, <4>2
    <3>. QED
      BY <2>1, <3>1 DEF PassedOver
  <2>3. Subsequence(log, {}) = << >>
    BY <1>3, SubsequenceOfNone
  <2>4. << >> \o << >> = << >>
    OBVIOUS
  <2>. QED
    BY <2>1, <2>2, <2>3, <2>4 DEF ReadRecords
<1>9. ASSUME rpc # "crashed"
      PROVE  \E m \in 0..n : /\ ReadRecords = SubSeq(log, 1, m)
                             /\ (\A k \in Good : Reached(k)) => m = n
  BY <1>1, <1>2, <1>4, <1>9, ReadSegment
<1>10. ASSUME rpc = "end"
       PROVE  ReadRecords = WrittenRecords
  <2>1. /\ ~Taken /\ eof /\ buffer = << >> /\ file_pos >= Len(disk)
    BY <1>1, <1>10 DEF Taken, AtEnd, Ending
  <2>2. Len(buffer) = 0 /\ file_pos \in Nat /\ Place = file_pos - Len(buffer)
    <3>1. Len(<< >>) = 0
      OBVIOUS
    <3>. QED
      BY <1>1, <2>1, <3>1, PlaceType DEF TypeInv
  <2>3. Place = file_pos
    BY <2>2
  <2>4. ASSUME NEW k \in Good
        PROVE  Reached(k)
    <3>1. ends[k] \in Nat /\ ends[k] <= Len(disk)
      BY <1>1, <1>2, GoodExtent
    <3>2. ends[k] < file_pos \/ ends[k] = file_pos
      BY <1>3, <2>1, <2>2, <3>1
    <3>. QED
      BY <2>1, <2>3, <3>2 DEF Reached
  <2>. QED
    BY <1>5, <1>9, <1>10, <2>4
<1>. QED
  BY <1>5, <1>6, <1>7, <1>8, <1>9, <1>10 DEF Segmented

LEMMA Prefixes ==
  ASSUME NEW T, NEW s \in Seq(T), NEW n \in 0..Len(s)
  PROVE  /\ SubSeq(s, 1, n) \in Seq(T) /\ Len(SubSeq(s, 1, n)) = n
         /\ \A i \in 1..n : SubSeq(s, 1, n)[i] = s[i]
         /\ \A m \in 0..n : SubSeq(SubSeq(s, 1, n), 1, m) = SubSeq(s, 1, m)
         /\ n < Len(s) =>
              SubSeq(s, 1, n + 1) = Append(SubSeq(s, 1, n), s[n + 1])
         /\ \A r \in T : SubSeq(Append(s, r), 1, n) = SubSeq(s, 1, n)
<1>1. Len(s) \in Nat /\ n \in Nat /\ \A i \in 1..Len(s) : s[i] \in T
  BY LenProperties
<1>2. ASSUME NEW t, NEW k \in Nat, \A i \in 1..k : t[i] \in T
      PROVE  /\ SubSeq(t, 1, k) \in Seq(T) /\ Len(SubSeq(t, 1, k)) = k
             /\ \A i \in 1..k : SubSeq(t, 1, k)[i] = t[i]
  <2>1. /\ SubSeq(t, 1, k) \in Seq(T)
        /\ Len(SubSeq(t, 1, k)) = IF 1 <= k THEN k - 1 + 1 ELSE 0
        /\ \A i \in 1..(k - 1 + 1) : SubSeq(t, 1, k)[i] = t[1 + i - 1]
    BY <1>2, SubSeqProperties
  <2>2. k - 1 + 1 = k /\ \A i \in 1..k : 1 + i - 1 = i
    BY <1>2
  <2>. QED
    BY <1>2, <2>1, <2>2
<1>3. /\ SubSeq(s, 1, n) \in Seq(T) /\ Len(SubSeq(s, 1, n)) = n
      /\ \A i \in 1..n : SubSeq(s, 1, n)[i] = s[i]
  BY <1>1, <1>2
<1>4. ASSUME NEW m \in 0..n
      PROVE  SubSeq(SubSeq(s, 1, n), 1, m) = SubSeq(s, 1, m)
  <2>1. m \in Nat /\ m <= n
    BY <1>1
  <2>2. PICK t : t = SubSeq(s, 1, n)
    OBVIOUS
  <2>3. /\ \A i \in 1..m : t[i] = s[i] /\ s[i] \in T
    BY <1>1, <1>3, <2>1, <2>2
  <2>4. /\ SubSeq(t, 1, m) \in Seq(T) /\ Len(SubSeq(t, 1, m)) = m
        /\ SubSeq(s, 1, m) \in Seq(T) /\ Len(SubSeq(s, 1, m)) = m
        /\ \A i \in 1..m : SubSeq(t, 1, m)[i] = SubSeq(s, 1, m)[i]
    BY <1>2, <2>1, <2>3
  <2>5. SubSeq(t, 1, m) = SubSeq(s, 1, m)
    BY <2>4, SeqEqual
  <2>. QED
    BY <2>2, <2>5
<1>5. ASSUME n < Len(s)
      PROVE  SubSeq(s, 1, n + 1) = Append(SubSeq(s, 1, n), s[n + 1])
  BY <1>1, <1>5
<1>6. ASSUME NEW r \in T
      PROVE  SubSeq(Append(s, r), 1, n) = SubSeq(s, 1, n)
  <2>1. PICK t : t = Append(s, r)
    OBVIOUS
  <2>2. \A i \in 1..n : t[i] = s[i] /\ s[i] \in T
    BY <1>1, <2>1, AppendProperties
  <2>3. /\ SubSeq(t, 1, n) \in Seq(T) /\ Len(SubSeq(t, 1, n)) = n
        /\ \A i \in 1..n : SubSeq(t, 1, n)[i] = SubSeq(s, 1, n)[i]
    BY <1>1, <1>2, <1>3, <2>2
  <2>4. SubSeq(t, 1, n) = SubSeq(s, 1, n)
    BY <1>3, <2>3, SeqEqual
  <2>. QED
    BY <2>1, <2>4
<1>. QED
  BY <1>3, <1>4, <1>5, <1>6

(* The steps of RecordLog, in these words.                                 *)
LEMMA NothingHappens ==
  ASSUME Phase' = Phase, WrittenRecords' = WrittenRecords, acked' = acked,
         ReadRecords' = ReadRecords
  PROVE  [Abstract!Next]_Abstract!vars
BY DEF Abstract!vars, Phase, WrittenRecords, ReadRecords, PassedOver

LEMMA RecordIsWritten ==
  ASSUME NEW r \in Records, Phase = "writing", Phase' = "writing",
         WrittenRecords' = Append(WrittenRecords, r), acked' = acked,
         ReadRecords' = ReadRecords
  PROVE  [Abstract!Next]_Abstract!vars
<1>1. Abstract!Write(r)
  BY DEF Abstract!Write, Phase, WrittenRecords, ReadRecords, PassedOver
<1>. QED
  BY <1>1 DEF Abstract!Next

LEMMA RecordsAreDurable ==
  ASSUME Phase = "writing", Phase' = "writing",
         WrittenRecords' = WrittenRecords, acked' = Len(WrittenRecords),
         ReadRecords' = ReadRecords
  PROVE  [Abstract!Next]_Abstract!vars
<1>1. Abstract!MakeDurable
  BY DEF Abstract!MakeDurable, Phase, WrittenRecords, ReadRecords, PassedOver
<1>. QED
  BY <1>1 DEF Abstract!Next

LEMMA WriterStops ==
  ASSUME Phase \in {"writing", "stopped"}, Phase' = "stopped",
         NEW n \in acked..Len(WrittenRecords),
         WrittenRecords' = SubSeq(WrittenRecords, 1, n), acked' = acked,
         ReadRecords' = ReadRecords
  PROVE  [Abstract!Next]_Abstract!vars
<1>1. Abstract!Stop
  BY DEF Abstract!Stop, Phase, WrittenRecords, ReadRecords, PassedOver
<1>. QED
  BY <1>1 DEF Abstract!Next

LEMMA ReaderStarts ==
  ASSUME Phase = "stopped", Phase' = "reading",
         NEW n \in 0..Len(WrittenRecords),
         ReadRecords' = SubSeq(WrittenRecords, 1, n),
         WrittenRecords' = WrittenRecords, acked' = acked
  PROVE  [Abstract!Next]_Abstract!vars
<1>1. Abstract!StartReading
  BY DEF Abstract!StartReading, Phase, WrittenRecords, ReadRecords, PassedOver
<1>. QED
  BY <1>1 DEF Abstract!Next

LEMMA RecordIsRead ==
  ASSUME Phase = "reading", Phase' = "reading",
         Len(ReadRecords) < Len(WrittenRecords),
         ReadRecords' =
           Append(ReadRecords, WrittenRecords[Len(ReadRecords) + 1]),
         WrittenRecords' = WrittenRecords, acked' = acked
  PROVE  [Abstract!Next]_Abstract!vars
<1>1. Abstract!Read
  BY DEF Abstract!Read, Phase, WrittenRecords, ReadRecords, PassedOver
<1>. QED
  BY <1>1 DEF Abstract!Next

LEMMA ReaderIsDone ==
  ASSUME Phase = "reading", Phase' = "done", ReadRecords = WrittenRecords,
         WrittenRecords' = WrittenRecords, acked' = acked,
         ReadRecords' = ReadRecords
  PROVE  [Abstract!Next]_Abstract!vars
<1>1. Abstract!Finish
  BY DEF Abstract!Finish, Phase, WrittenRecords, ReadRecords, PassedOver
<1>. QED
  BY <1>1 DEF Abstract!Next

(* A reader that is open goes on from where it was opened, and returns a   *)
(* record when it becomes ready for the next.                              *)
LEMMA ReaderGoesOn ==
  ASSUME Reader!Next, ~Reader!Open
  PROVE  /\ rpc \in {"ready", "physical", "dispatch"}
         /\ rpc' \in {"ready", "physical", "dispatch", "end", "crashed"}
         /\ initial_offset' = initial_offset
<1>1. CASE Reader!DispatchRecord
  BY <1>1, DispatchLeavesBuffer
<1>2. CASE Reader!ReadPhysicalRecord
  BY <1>2, ReportGoesOn
     DEF Reader!ReadPhysicalRecord, Reader!FillBuffer, Reader!FillFails,
     Reader!EndOfFile, Reader!BadRecordLength, Reader!ZeroLengthRecord,
     Reader!ChecksumMismatch, Reader!TakePhysicalRecord, Reader!NoReport,
     Reader!ReportThroughRecover, Reader!HasHeader, Reader!ReturnType,
     Reader!fixedVars
<1>3. CASE Reader!ReadLogRecord \/ Reader!SkipFails
  BY <1>3 DEF Reader!ReadLogRecord, Reader!SkipFails,
     Reader!ReportThroughRecover, Reader!fixedVars
<1>. QED
  BY <1>1, <1>2, <1>3 DEF Reader!Next

LEMMA ReaderReturns ==
  ASSUME TypeOK, Reader!Next, delivered' # delivered
  PROVE  /\ rpc' = "ready"
         /\ \E r \in Seq(Byte) : delivered' = Append(delivered, r)
<1>1. /\ scratch \in Seq(Byte) /\ fragment \in Seq(Byte)
      /\ scratch \o fragment \in Seq(Byte)
  BY ConcatProperties DEF TypeOK, Reader!TypeOK
<1>2. Reader!FullRecord \/ Reader!LastFragment
  BY DEF Reader!Next, Reader!Open, Reader!ReadLogRecord, Reader!SkipFails,
     Reader!ReadPhysicalRecord, Reader!FillBuffer, Reader!FillFails,
     Reader!EndOfFile, Reader!BadRecordLength, Reader!ZeroLengthRecord,
     Reader!ChecksumMismatch, Reader!TakePhysicalRecord, Reader!ReturnType,
     Reader!DispatchRecord, Reader!SkipTail, Reader!FirstFragment,
     Reader!MiddleFragment, Reader!MissingStart, Reader!ScratchCrash,
     Reader!ReturnEof, Reader!BadRecord
<1>3. CASE Reader!FullRecord
  <2>1. rpc' \in {"ready", "crashed"}
    BY <1>3, ReportGoesOn DEF Reader!FullRecord, Reader!NoReport
  <2>2. rpc' # "crashed" /\ delivered' = Append(delivered, fragment)
    BY <1>3 DEF Reader!FullRecord, Reader!Deliver
  <2>. QED
    BY <1>1, <2>1, <2>2
<1>4. CASE Reader!LastFragment
  BY <1>1, <1>4 DEF Reader!LastFragment, Reader!Deliver, Reader!NoReport
<1>. QED
  BY <1>2, <1>3, <1>4

(* What a step of the writer leaves of the log is that, and a record more  *)
(* when it completes one; it is less only when the writer stops.           *)
LEMMA WriteImplements ==
  ASSUME Undisturbed, Undisturbed', Segmented, Segmented', Write
  PROVE  [Abstract!Next]_Abstract!vars
<1>1. PICK n \in 0..Len(ends) :
        /\ WrittenRecords = SubSeq(log, 1, n)
        /\ acked <= n
        /\ wpc # "crashed" => n = Len(ends)
        /\ Unread => ReadRecords = << >>
  BY DEF Segmented
<1>2. PICK m \in 0..Len(ends') :
        /\ WrittenRecords' = SubSeq(log', 1, m)
        /\ acked' <= m
        /\ wpc' # "crashed" => m = Len(ends')
        /\ Unread' => ReadRecords' = << >>
  BY DEF Segmented
<1>3. /\ Unread /\ Unread' /\ Writer!Next
      /\ ReadRecords = << >> /\ ReadRecords' = << >>
  BY <1>1, <1>2 DEF Write, Unread, readerVars
<1>4. /\ TypeOK /\ Proved!DurabilityInv /\ Proved!FromRecords
      /\ TypeOK' /\ Proved!DurabilityInv'
  BY DEF Undisturbed, RecoveryInv, TypeInv
<1>5. /\ log \in Seq(Seq(Byte)) /\ Len(log) \in Nat /\ Len(ends) \in Nat
      /\ acked \in Nat
      /\ log' \in Seq(Seq(Byte)) /\ Len(log') \in Nat /\ Len(ends') \in Nat
      /\ acked' \in Nat
  BY <1>4, LenProperties DEF TypeOK, Writer!TypeOK
<1>6. /\ Len(ends) <= Len(log) /\ Len(ends') <= Len(log')
      /\ wpc \in {"idle", "added"} => Len(ends) = Len(log)
      /\ wpc = "adding" => Len(ends) + 1 = Len(log)
  <2>1. /\ Len(ends) <= Len(log)
        /\ wpc \in {"idle", "added"} => Len(ends) = Len(log)
        /\ wpc = "adding" => Len(ends) + 1 = Len(log)
    BY <1>4 DEF Undisturbed, RecoveryInv, Recovered, WrittenInv, Numbered,
       WriterEnds, Proved!DurabilityInv, Proved!EndsMatchLog
  <2>2. Len(ends') <= Len(log')
    BY DEF Undisturbed, RecoveryInv, Recovered, WrittenInv, Numbered,
       WriterEnds
  <2>. QED
    BY <2>1, <2>2
<1>7. /\ Phase = IF Writer!Stopped THEN "stopped" ELSE "writing"
      /\ Phase' = IF Writer!Stopped' THEN "stopped" ELSE "writing"
      /\ ReadRecords' = ReadRecords
  BY <1>3 DEF Phase, Unread
<1>8. /\ Len(WrittenRecords) = n /\ n \in 0..Len(log)
      /\ \A k \in 0..n : SubSeq(WrittenRecords, 1, k) = SubSeq(log, 1, k)
      /\ n < Len(log) =>
           SubSeq(log, 1, n + 1) = Append(WrittenRecords, log[n + 1])
      /\ \A r \in Seq(Byte) : SubSeq(Append(log, r), 1, n) = WrittenRecords
  <2>1. n \in 0..Len(log)
    BY <1>5, <1>6
  <2>2. PICK t : t = SubSeq(log, 1, n)
    OBVIOUS
  <2>3. WrittenRecords = t
    BY <1>1, <2>2
  <2>4. /\ Len(t) = n
        /\ \A k \in 0..n : SubSeq(t, 1, k) = SubSeq(log, 1, k)
        /\ n < Len(log) => SubSeq(log, 1, n + 1) = Append(t, log[n + 1])
        /\ \A r \in Seq(Byte) : SubSeq(Append(log, r), 1, n) = t
    <3>1. log \in Seq(Seq(Byte))
      BY <1>5
    <3>. QED
      BY <2>1, <2>2, <3>1, Prefixes
  <2>. QED
    BY <2>1, <2>3, <2>4
<1>9. ASSUME log' = log, ends' = ends, acked' = acked, wpc # "crashed",
             Phase' = "stopped"
      PROVE  [Abstract!Next]_Abstract!vars
  <2>1. m \in acked..Len(WrittenRecords)
    BY <1>1, <1>2, <1>5, <1>8, <1>9
  <2>2. WrittenRecords' = SubSeq(WrittenRecords, 1, m)
    BY <1>2, <1>5, <1>8, <1>9, <2>1
  <2>3. Phase \in {"writing", "stopped"}
    BY <1>7
  <2>. QED
    BY <1>7, <1>9, <2>1, <2>2, <2>3, WriterStops
<1>10. ASSUME ends' = ends, wpc # "crashed", wpc' # "crashed"
       PROVE  WrittenRecords' = SubSeq(log', 1, n)
  BY <1>1, <1>2, <1>10
<1>11. ASSUME NEW r \in Records, Writer!LogAddRecord(r)
       PROVE  [Abstract!Next]_Abstract!vars
  <2>1. /\ wpc = "idle" /\ wpc' = "adding" /\ log' = Append(log, r)
        /\ ends' = ends /\ acked' = acked
    BY <1>11 DEF Writer!LogAddRecord
  <2>2. r \in Seq(Byte)
    BY SystemAssumption
  <2>3. WrittenRecords' = WrittenRecords
    BY <1>8, <1>10, <2>1, <2>2
  <2>4. Phase' = Phase
    BY <1>7, <2>1 DEF Writer!Stopped
  <2>. QED
    BY <1>7, <2>1, <2>3, <2>4, NothingHappens
<1>12. CASE Writer!EmitPhysicalRecord
  <2>1. /\ wpc = "adding" /\ log' = log /\ acked' = acked
        /\ \/ wpc' = "adding" /\ ends' = ends
           \/ wpc' = "added" /\ ends' = Append(ends, Len(disk'))
    BY <1>12 DEF Writer!EmitPhysicalRecord
  <2>2. Phase = "writing" /\ Phase' = "writing"
    BY <1>7, <2>1 DEF Writer!Stopped
  <2>3. CASE wpc' = "adding" /\ ends' = ends
    <3>1. WrittenRecords' = WrittenRecords
      BY <1>1, <1>10, <2>1, <2>3
    <3>. QED
      BY <1>7, <2>1, <2>2, <3>1, NothingHappens
  <2>4. CASE wpc' = "added" /\ ends' = Append(ends, Len(disk'))
    <3>1. Len(ends') = Len(ends) + 1
      <4>1. ends \in Seq(Nat) /\ Len(disk') \in Nat
        BY <1>4, LenProperties DEF TypeOK, Writer!TypeOK
      <4>. QED
        BY <2>4, <4>1, AppendProperties
    <3>2. /\ n = Len(ends) /\ m = n + 1 /\ n + 1 = Len(log)
      BY <1>1, <1>2, <1>6, <2>1, <2>4, <3>1
    <3>3. WrittenRecords' = Append(WrittenRecords, log[n + 1])
      BY <1>2, <1>5, <1>8, <2>1, <3>2
    <3>4. log[n + 1] \in Records
      <4>1. n + 1 \in 1..Len(log)
        BY <1>5, <1>8, <3>2
      <4>. QED
        BY <1>4, <4>1 DEF Proved!FromRecords
    <3>. QED
      BY <1>7, <2>1, <2>2, <3>3, <3>4, RecordIsWritten
  <2>. QED
    BY <2>1, <2>3, <2>4
<1>13. CASE Writer!EmitFails \/ Writer!TrailerCrash \/ Writer!Close
            \/ Writer!PowerLoss
  <2>1. /\ log' = log /\ ends' = ends /\ acked' = acked /\ wpc # "crashed"
        /\ wpc' \in {"closed", "failed", "crashed"}
    BY <1>13 DEF Writer!EmitFails, Writer!TrailerCrash, Writer!Close,
       Writer!PowerLoss
  <2>2. Phase' = "stopped"
    BY <1>7, <2>1 DEF Writer!Stopped
  <2>. QED
    BY <1>9, <2>1, <2>2
<1>14. CASE Writer!Sync
  <2>1. /\ wpc = "added" /\ log' = log /\ ends' = ends
        /\ \/ wpc' = "idle" /\ acked' = Len(log)
           \/ wpc' = "idle" /\ acked' = acked
           \/ wpc' = "failed" /\ acked' = acked
    BY <1>14 DEF Writer!Sync
  <2>2. WrittenRecords' = WrittenRecords /\ Len(WrittenRecords) = Len(log)
    BY <1>1, <1>6, <1>8, <1>10, <2>1
  <2>3. Phase = "writing"
    BY <1>7, <2>1 DEF Writer!Stopped
  <2>4. CASE wpc' = "idle"
    <3>1. Phase' = "writing"
      BY <1>7, <2>4 DEF Writer!Stopped
    <3>2. acked' = Len(WrittenRecords) \/ acked' = acked
      BY <2>1, <2>2
    <3>. QED
      BY <1>7, <2>2, <2>3, <3>1, <3>2, RecordsAreDurable, NothingHappens
  <2>5. CASE wpc' = "failed" /\ acked' = acked
    <3>1. Phase' = "stopped"
      BY <1>7, <2>5 DEF Writer!Stopped
    <3>. QED
      BY <1>9, <2>1, <2>5, <3>1
  <2>. QED
    BY <2>1, <2>4, <2>5
<1>. QED
  BY <1>3, <1>11, <1>12, <1>13, <1>14 DEF Writer!Next

(* A subsequence has the type of its sequence.                             *)
LEMMA SubsequenceType ==
  ASSUME NEW T, NEW s \in Seq(T), NEW S
  PROVE  Subsequence(s, S) \in Seq(T)
<1>1. Len(s) \in Nat /\ \A k \in 1..Len(s) : s[k] \in T
  BY LenProperties
<1>2. PICK f : Collects(f, s, S) /\ f[Len(s)] = Subsequence(s, S)
  BY SubsequenceDefined
<1>. DEFINE P == {n \in Nat : n <= Len(s) => f[n] \in Seq(T)}
<1>3. 0 \in P
  <2>1. 0 \in 0..Len(s)
    BY <1>1
  <2>2. f[0] = << >>
    BY <1>2, <2>1 DEF Collects
  <2>3. << >> \in Seq(T)
    OBVIOUS
  <2>4. f[0] \in Seq(T)
    BY <2>2, <2>3
  <2>. QED
    BY <2>4
<1>4. ASSUME NEW n \in Nat, n \in P, n + 1 <= Len(s)
      PROVE  f[n + 1] \in Seq(T)
  <2>1. /\ n + 1 \in 0..Len(s) /\ n + 1 # 0 /\ n + 1 - 1 = n
        /\ n + 1 \in 1..Len(s) /\ n <= Len(s)
    BY <1>1, <1>4
  <2>2. f[n + 1] = IF n + 1 \in S THEN Append(f[n], s[n + 1]) ELSE f[n]
    BY <1>2, <2>1 DEF Collects
  <2>3. f[n] \in Seq(T) /\ s[n + 1] \in T
    BY <1>1, <1>4, <2>1
  <2>. QED
    BY <2>2, <2>3, AppendProperties
<1>5. Nat \subseteq P
  <2>1. \A n \in Nat : n \in P => n + 1 \in P
    BY <1>4
  <2>. HIDE DEF P
  <2>. QED
    BY <1>3, <2>1, Induction
<1>. QED
  BY <1>1, <1>2, <1>5

(* An element behind two sequences is one behind the second.               *)
LEMMA AppendBehind ==
  ASSUME NEW T, NEW s \in Seq(T), NEW t \in Seq(T), NEW x \in T
  PROVE  s \o Append(t, x) = Append(s \o t, x)
<1>1. /\ <<x>> \in Seq(T) /\ s \o t \in Seq(T)
      /\ Append(t, x) = t \o <<x>>
  BY AppendIsConcat, ConcatProperties
<1>2. Append(s \o t, x) = (s \o t) \o <<x>>
  BY <1>1, AppendIsConcat
<1>3. (s \o t) \o <<x>> = s \o (t \o <<x>>)
  BY <1>1, ConcatAssociative
<1>. QED
  BY <1>1, <1>2, <1>3

(* A step of the reader returns the next record, or the end, or nothing.   *)
LEMMA ReadImplements ==
  ASSUME Undisturbed, Segmented, Segmented', Read
  PROVE  [Abstract!Next]_Abstract!vars
<1>1. PICK n \in 0..Len(ends) :
        /\ WrittenRecords = SubSeq(log, 1, n)
        /\ Unread => ReadRecords = << >>
        /\ rpc # "crashed" => \E k \in 0..n : ReadRecords = SubSeq(log, 1, k)
  BY DEF Segmented
<1>2. /\ Reader!Next /\ disk' = disk /\ log' = log /\ ends' = ends
      /\ acked' = acked /\ wpc' = wpc /\ Writer!Stopped
  BY ReaderLeavesFile DEF Read, writerVars
<1>3. /\ log \in Seq(Seq(Byte)) /\ Len(log) \in Nat /\ Len(ends) \in Nat
      /\ Len(ends) <= Len(log) /\ delivered \in Seq(Seq(Byte))
  <2>1. TypeOK /\ Len(ends) <= Len(log)
    BY DEF Undisturbed, RecoveryInv, Recovered, WrittenInv, Numbered,
       WriterEnds, TypeInv
  <2>. QED
    BY <2>1, EndsType DEF TypeOK, Reader!TypeOK
<1>4. Surviving' = Surviving /\ WrittenRecords' = WrittenRecords
  <2>1. \A k : Undamaged(0, ends[k])' = Undamaged(0, ends[k])
    BY <1>2 DEF Undamaged
  <2>2. Surviving' = Surviving
    BY <1>2, <2>1 DEF Surviving
  <2>. QED
    BY <1>2, <2>2 DEF WrittenRecords, Subsequence
<1>5. /\ n \in 0..Len(log) /\ Len(WrittenRecords) = n
      /\ \A k \in 0..n : SubSeq(WrittenRecords, 1, k) = SubSeq(log, 1, k)
  <2>1. n \in 0..Len(log)
    BY <1>3
  <2>. QED
    BY <1>1, <1>3, <2>1, Prefixes
<1>6. ASSUME rpc' # "crashed"
      PROVE  \E k \in 0..n : ReadRecords' = SubSeq(log, 1, k)
  <2>1. PICK m \in 0..Len(ends') :
          /\ WrittenRecords' = SubSeq(log', 1, m)
          /\ \E k \in 0..m : ReadRecords' = SubSeq(log', 1, k)
    BY <1>6 DEF Segmented
  <2>2. m = n
    <3>1. m \in 0..Len(log)
      BY <1>2, <1>3
    <3>2. Len(SubSeq(log, 1, m)) = m
      BY <1>3, <3>1, Prefixes
    <3>. QED
      BY <1>2, <1>4, <1>5, <2>1, <3>2
  <2>. QED
    BY <1>2, <2>1, <2>2
<1>7. CASE Reader!Open
  <2>1. rpc = "closed" /\ rpc' = "ready"
    BY <1>7 DEF Reader!Open
  <2>2. Phase = "stopped" /\ Phase' = "reading"
    BY <1>2, <2>1 DEF Phase, Unread
  <2>3. PICK k \in 0..n : ReadRecords' = SubSeq(log, 1, k)
    BY <1>6, <2>1
  <2>4. /\ k \in 0..Len(WrittenRecords)
        /\ ReadRecords' = SubSeq(WrittenRecords, 1, k)
    BY <1>5, <2>3
  <2>. QED
    BY <1>2, <1>4, <2>2, <2>4, ReaderStarts
<1>8. CASE ~Reader!Open
  <2>1. /\ rpc \in {"ready", "physical", "dispatch"}
        /\ rpc' \in {"ready", "physical", "dispatch", "end", "crashed"}
        /\ initial_offset' = initial_offset
    BY <1>2, <1>8, ReaderGoesOn
  <2>2. Phase = "reading" /\ (Phase' = IF rpc' = "end" THEN "done" ELSE "reading")
    BY <2>1 DEF Phase, Unread
  <2>3. PassedOver' = PassedOver
    BY <1>2, <1>4, <2>1 DEF PassedOver, StartOf
  <2>4. PICK P : P = Subsequence(log, PassedOver)
    OBVIOUS
  <2>5. Subsequence(log, PassedOver)' = P
    BY <1>2, <2>3, <2>4 DEF Subsequence
  <2>6. P \in Seq(Seq(Byte))
    BY <1>3, <2>4, SubsequenceType
  <2>7. /\ ReadRecords = P \o delivered /\ ReadRecords' = P \o delivered'
        /\ ReadRecords \in Seq(Seq(Byte))
    BY <1>3, <2>4, <2>5, <2>6, ConcatProperties DEF ReadRecords
  <2>8. CASE delivered' = delivered
    <3>1. ReadRecords' = ReadRecords
      BY <2>7, <2>8
    <3>2. CASE rpc' = "end"
      <4>1. ReadRecords' = WrittenRecords'
        BY <3>2 DEF Segmented
      <4>. QED
        BY <1>2, <1>4, <2>2, <3>1, <3>2, <4>1, ReaderIsDone
    <3>3. CASE rpc' # "end"
      BY <1>2, <1>4, <2>2, <3>1, <3>3, NothingHappens
    <3>. QED
      BY <3>2, <3>3
  <2>9. CASE delivered' # delivered
    <3>1. /\ rpc' = "ready"
          /\ \E r \in Seq(Byte) : delivered' = Append(delivered, r)
      BY <1>2, <2>9, ReaderReturns DEF Undisturbed, RecoveryInv, TypeInv
    <3>2. PICK r \in Seq(Byte) : delivered' = Append(delivered, r)
      BY <3>1
    <3>3. PICK k \in 0..n : ReadRecords = SubSeq(log, 1, k)
      BY <1>1, <2>1
    <3>4. PICK j \in 0..n : ReadRecords' = SubSeq(log, 1, j)
      BY <1>6, <3>1
    <3>5. ReadRecords' = Append(ReadRecords, r)
      <4>1. delivered \in Seq(Seq(Byte))
        BY <1>3
      <4>2. P \o Append(delivered, r) = Append(P \o delivered, r)
        BY <2>6, <3>2, <4>1, AppendBehind
      <4>. QED
        BY <2>7, <3>2, <4>2
    <3>6. /\ Len(ReadRecords) = k /\ Len(ReadRecords') = j
          /\ Len(ReadRecords') = Len(ReadRecords) + 1
      <4>1. k \in 0..Len(log) /\ j \in 0..Len(log)
        BY <1>5
      <4>2. Len(SubSeq(log, 1, k)) = k /\ Len(SubSeq(log, 1, j)) = j
        BY <1>3, <4>1, Prefixes
      <4>. QED
        BY <2>7, <3>3, <3>4, <3>5, <4>2, AppendProperties
    <3>7. k < n /\ j = k + 1
      BY <1>5, <3>6
    <3>8. SubSeq(log, 1, k + 1) = Append(SubSeq(log, 1, k), log[k + 1])
      <4>1. k \in 0..Len(log) /\ k < Len(log)
        BY <1>3, <1>5, <3>7
      <4>. QED
        BY <1>3, <4>1, Prefixes
    <3>9. WrittenRecords[k + 1] = log[k + 1]
      <4>1. k + 1 \in 1..n
        BY <1>5, <3>7
      <4>. QED
        BY <1>1, <1>3, <1>5, <4>1, Prefixes
    <3>10. /\ Len(ReadRecords) < Len(WrittenRecords)
           /\ ReadRecords' =
                Append(ReadRecords, WrittenRecords[Len(ReadRecords) + 1])
      BY <1>5, <3>3, <3>4, <3>6, <3>7, <3>8, <3>9
    <3>11. Phase' = "reading"
      BY <2>2, <3>1
    <3>. QED
      BY <1>2, <1>4, <2>2, <3>10, <3>11, RecordIsRead
  <2>. QED
    BY <2>8, <2>9
<1>. QED
  BY <1>7, <1>8

LEMMA AbstractInit == ASSUME Init PROVE Abstract!Init
<1>1. /\ rpc = "closed" /\ delivered = << >> /\ log = << >> /\ ends = << >>
      /\ acked = 0 /\ wpc = "idle"
  BY DEF Init, Writer!Init, Reader!Init
<1>2. Surviving = {} /\ PassedOver = {}
  BY <1>1 DEF Surviving, PassedOver
<1>3. Subsequence(log, {}) = << >>
  <2>1. log \in Seq(Seq(Byte))
    BY <1>1
  <2>. QED
    BY <2>1, SubsequenceOfNone
<1>4. WrittenRecords = << >> /\ ReadRecords = << >>
  <2>1. << >> \o << >> = << >>
    OBVIOUS
  <2>. QED
    BY <1>1, <1>2, <1>3, <2>1 DEF WrittenRecords, ReadRecords
<1>5. Phase = "writing"
  BY <1>1 DEF Phase, Unread, Writer!Stopped
<1>. QED
  BY <1>1, <1>4, <1>5
     DEF Abstract!Init, Phase, WrittenRecords, ReadRecords, PassedOver

(* The log keeps its promise: what was logged and synced, and as much more *)
(* as reached the file whole, is read back in order from initial_offset    *)
(* on, nothing else is, and readLogRecord returns false only once all of   *)
(* it has been returned; wherever the writer stops, with an error, in the  *)
(* middle of a record, or by a loss of power.  This is for builds in which *)
(* the misdirected append of a trailer kills the process (TrailerOutcomes  *)
(* without "lost"): such a log ends at the first place that needs a        *)
(* trailer, and the blocks it has gone past are those its fragments filled *)
(* to the last byte.  For the other builds log_trailer shows that the file *)
(* and block_offset part company, and this is not claimed.                 *)
THEOREM RecordLogImplemented ==
  ASSUME MaxDamage = 0, HasRecover = FALSE, "lost" \notin TrailerOutcomes
  PROVE  Spec => ImplementsRecordLog
<1>1. Init => Undisturbed
  BY UndisturbedInit
<1>2. Undisturbed /\ [Next]_vars => Undisturbed'
  BY UndisturbedStep
<1>3. Undisturbed => Segmented
  BY UndisturbedSegmented
<1>4. Init => Abstract!Init
  BY AbstractInit
<1>5. Undisturbed /\ Undisturbed' /\ Segmented /\ Segmented' /\ [Next]_vars
        => [Abstract!Next]_Abstract!vars
  <2>1. SUFFICES ASSUME Undisturbed, Undisturbed', Segmented, Segmented',
                        [Next]_vars
                 PROVE  [Abstract!Next]_Abstract!vars
    OBVIOUS
  <2>2. ~Damage
    BY <2>1, WriterStep DEF Undisturbed, RecoveryInv, TypeInv
  <2>3. CASE UNCHANGED vars
    BY <2>3 DEF vars, writerVars, readerVars, Abstract!vars, Unread,
       Writer!Stopped, Subsequence, Surviving, Undamaged, StartOf
  <2>. QED
    BY <2>1, <2>2, <2>3, WriteImplements, ReadImplements DEF Next
<1>. QED
  BY <1>1, <1>2, <1>3, <1>4, <1>5, PTL DEF Spec, ImplementsRecordLog,
     Abstract!Spec
==============================================================================
