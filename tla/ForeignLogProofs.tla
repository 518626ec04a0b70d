--------------------------- MODULE ForeignLogProofs ---------------------------
(***************************************************************************)
(* What a reader makes of any file of physical records: the records that   *)
(* are in it, and no silence about what is not.  For files of any length,  *)
(* blocks of any number of physical records, headers of any size, and any  *)
(* offset to start from.                                                   *)
(***************************************************************************)
EXTENDS ForeignLog, NaturalLemmas, SequenceTheorems

(***************************************************************************)
(* Where the reader is: in front of the physical record behind the m-th.   *)
(***************************************************************************)
Front == file_pos - Len(buffer)

(* The buffer holds what is left of the block behind the b-th, and nothing *)
(* in front of it was bad.                                                 *)
Buffered(ks, m, b) ==
  /\ m * UnitSize < file_pos /\ file_pos <= Len(disk)
  /\ buffer = SubSeq(disk, m * UnitSize + 1, file_pos)
  /\ b * BlockUnits <= m
  /\ IF eof THEN file_pos = Len(disk) /\ file_pos <= (b + 1) * BlockSize
            ELSE file_pos = (b + 1) * BlockSize
  /\ \A v \in (b * BlockUnits + 1)..m : ks[v] \in Sound

(* It holds nothing, and the next block is the one behind the b-th.        *)
Drained(ks, m, b) ==
  /\ buffer = << >>
  /\ IF eof THEN file_pos >= Len(disk) /\ m = Len(ks)
     ELSE /\ file_pos = b * BlockSize
          /\ m <= b * BlockUnits
          /\ m # Len(ks) => m = b * BlockUnits

At(ks, m) ==
  /\ m \in 0..Len(ks)
  /\ file_pos \in Nat /\ end_of_buffer_offset = file_pos
  /\ InitialBlock <= Front
  /\ \E b \in Nat : Buffered(ks, m, b) \/ Drained(ks, m, b)

(* Nobody was told of a drop who should have been.                         *)
Silent == HasRecover /\ initial_offset % BlockSize = 0 /\ ~reported

(* What the caller has got is what ends up to the l-th physical record.    *)
Returned(ks, l) ==
  /\ delivered = RecordsUpTo(ks, initial_offset)[l]
  /\ Silent =>
       \A u \in 1..l : Counts(ks, initial_offset, u) =>
         \/ Holds(delivered, u)
         \/ \E f \in 1..u : Unfinished(ks, initial_offset, f, l)

NoneUnfinished(ks, l) == \A f \in 1..l : ~Unfinished(ks, initial_offset, f, l)

Run(f, l) == [k \in 1..(l - f + 1) |-> f + k - 1]

Collected(ks, l) ==
  /\ IF in_fragmented_record
     THEN \E f \in 1..l : /\ Unfinished(ks, initial_offset, f, l)
                          /\ scratch = Run(f, l)
                          /\ prospective_record_offset \in Nat
                          /\ prospective_record_offset >= initial_offset
     ELSE NoneUnfinished(ks, l)
  /\ resyncing =>
       /\ initial_offset > 0 /\ ~in_fragmented_record
       /\ \A v \in 1..l : StartsAt(v) >= initial_offset => ks[v] = "middle"

(* The reader was opened, and has not read a byte.                         *)
Fresh ==
  /\ file_pos = 0 /\ buffer = << >> /\ ~eof
  /\ end_of_buffer_offset = 0 /\ last_record_offset = 0
  /\ delivered = << >>
  /\ resyncing => initial_offset > 0

Ready(ks) ==
  IF MustSkip THEN Fresh
  ELSE \E m \in 0..Len(ks) :
         At(ks, m) /\ Returned(ks, m) /\ NoneUnfinished(ks, m) /\ ~resyncing

Reading(ks) ==
  \E m \in 0..Len(ks) : At(ks, m) /\ Returned(ks, m) /\ Collected(ks, m)

(* The m-th physical record was taken.                                     *)
Took(ks) ==
  \E m \in 1..Len(ks) :
    /\ At(ks, m) /\ Returned(ks, m - 1) /\ Collected(ks, m - 1)
    /\ record_type = ks[m] /\ fragment = <<m>>
    /\ Readable(ks, m) /\ StartsAt(m) >= initial_offset

(* Those behind the l-th up to the m-th were passed over.                  *)
PassedOver(ks) ==
  \E m \in 1..Len(ks) : \E l \in 0..(m - 1) :
    /\ At(ks, m) /\ Returned(ks, l) /\ Collected(ks, l)
    /\ \A u \in (l + 1)..m :
         /\ StartsAt(u) >= initial_offset => ~Readable(ks, u)
         /\ Silent => ~Counts(ks, initial_offset, u)

Dispatching(ks) ==
  \/ record_type \in Sound /\ Took(ks)
  \/ record_type = "bad" /\ PassedOver(ks)
  \/ record_type = "eof" /\ eof
     /\ (file_pos >= Len(disk) => Returned(ks, Len(ks)))

ReadingInv(ks) ==
  /\ initial_offset \in Nat /\ rpc \in ReaderPC
  /\ rpc = "closed" => Init
  /\ rpc = "ready" => Ready(ks)
  /\ rpc = "physical" => Reading(ks)
  /\ rpc = "dispatch" => Dispatching(ks)
  /\ rpc = "end" => (ReadToTheEnd => Returned(ks, Len(ks)))

ForeignInv ==
  \E ks \in Seq(Kind), tail \in 0..HeaderSize :
    /\ Len(ks) <= MaxUnits
    /\ disk = FileOf(ks, tail)
    /\ ReadingInv(ks)

------------------------------------------------------------------------------
(***************************************************************************)
(* Sizes.                                                                  *)
(***************************************************************************)

LEMMA Sizes ==
  /\ UnitSize \in Nat /\ UnitSize = HeaderSize + 1
  /\ HeaderSize \in Nat /\ HeaderSize >= 1
  /\ BlockUnits \in Nat /\ BlockUnits >= 1
  /\ BlockSize \in Nat /\ BlockSize = BlockUnits * UnitSize
  /\ BlockSize >= UnitSize
<1>1. /\ HeaderSize \in Nat /\ HeaderSize >= 1 /\ BlockSize \in Nat
      /\ HeaderSize < BlockSize
  BY FormatAssumption
<1>. QED
  BY <1>1, UnitAssumption DEF UnitSize

LEMMA Multiples ==
  ASSUME NEW s \in Nat, s >= 1, NEW a \in Nat, NEW b \in Nat
  PROVE  /\ a * s \in Nat /\ b * s \in Nat
         /\ (a + 1) * s = a * s + s
         /\ a <= b <=> a * s <= b * s
         /\ a < b <=> a * s + s <= b * s
         /\ a < b <=> a * s < b * s
<1>1. a * s \in Nat /\ b * s \in Nat /\ (a + 1) * s = a * s + s
  OBVIOUS
<1>2. ASSUME a < b PROVE a * s + s <= b * s
  <2>1. PICK d \in Nat : b = a + 1 + d
    <3>1. b - a - 1 \in Nat /\ b = a + 1 + (b - a - 1)
      BY <1>2
    <3>. QED
      BY <3>1
  <2>2. d * s \in Nat /\ b * s = a * s + s + d * s
    BY <2>1
  <2>. QED
    BY <1>1, <2>2
<1>3. ASSUME b < a PROVE b * s + s <= a * s
  <2>1. PICK d \in Nat : a = b + 1 + d
    <3>1. a - b - 1 \in Nat /\ a = b + 1 + (a - b - 1)
      BY <1>3
    <3>. QED
      BY <3>1
  <2>2. d * s \in Nat /\ a * s = b * s + s + d * s
    BY <2>1
  <2>. QED
    BY <1>1, <2>2
<1>4. CASE a < b
  BY <1>1, <1>2, <1>4
<1>5. CASE b < a
  BY <1>1, <1>3, <1>5
<1>6. CASE a = b
  BY <1>1, <1>6
<1>. QED
  BY <1>4, <1>5, <1>6

LEMMA Division ==
  ASSUME NEW s \in Nat, s >= 1, NEW q \in Nat, NEW r \in Nat, r < s
  PROVE  (q * s + r) \div s = q /\ ((q * s + r) % s) = r
<1>1. PICK x \in Nat : x = q * s + r
  BY Multiples
<1>2. PICK d, e : d = x \div s /\ e = (x % s)
  OBVIOUS
<1>3. d \in Nat /\ e \in 0..(s - 1) /\ x = s * d + e
  BY <1>1, <1>2
<1>4. x = d * s + e
  BY <1>3
<1>5. d * s \in Nat /\ q * s \in Nat
  BY <1>3
<1>6. ~(d < q)
  <2>1. d < q => d * s + s <= q * s
    BY <1>3, Multiples
  <2>. QED
    BY <1>1, <1>3, <1>4, <1>5, <2>1
<1>7. ~(q < d)
  <2>1. q < d => q * s + s <= d * s
    BY <1>3, Multiples
  <2>. QED
    BY <1>1, <1>3, <1>4, <1>5, <2>1
<1>8. d = q
  BY <1>3, <1>6, <1>7
<1>9. e = r
  BY <1>1, <1>3, <1>4, <1>5, <1>8
<1>. QED
  BY <1>1, <1>2, <1>8, <1>9

(***************************************************************************)
(* The file.                                                               *)
(***************************************************************************)

(* Its cells, by the number of the physical record and the place in it.    *)
Cells(d, ks, tail) ==
  /\ Len(d) = Len(ks) * UnitSize + tail /\ Len(d) \in Nat
  /\ DOMAIN d = 1..Len(d)
  /\ \A m \in 0..(Len(ks) - 1), k \in 1..UnitSize :
       /\ m * UnitSize + k \in 1..Len(d)
       /\ d[m * UnitSize + k] = UnitCell(m + 1, ks[m + 1], k)
  /\ \A k \in 1..tail :
       d[Len(ks) * UnitSize + k] = UnitCell(Len(ks) + 1, "last", k)

LEMMA FileCells ==
  ASSUME NEW ks \in Seq(Kind), NEW tail \in 0..HeaderSize
  PROVE  Cells(FileOf(ks, tail), ks, tail)
<1>1. PICK n \in Nat : n = Len(ks)
  BY LenProperties
<1>2. PICK s \in Nat : s = UnitSize /\ s >= 1 /\ tail < s /\ tail \in Nat
  BY Sizes
<1>3. PICK c \in Nat : c = n * s + tail
  BY <1>2, Multiples
<1>4. PICK d : d = FileOf(ks, tail)
  OBVIOUS
<1>5. d = [i \in 1..c |->
             LET u == ((i - 1) \div s) + 1
             IN  UnitCell(u, IF u <= n THEN ks[u] ELSE "last",
                          ((i - 1) % s) + 1)]
  BY <1>1, <1>2, <1>3, <1>4 DEF FileOf
<1>6. DOMAIN d = 1..c /\ Len(d) = c
  BY <1>5
<1>7. ASSUME NEW m \in Nat, NEW k \in 1..s, m * s + k \in 1..c
      PROVE  d[m * s + k] =
               UnitCell(m + 1, IF m + 1 <= n THEN ks[m + 1] ELSE "last", k)
  <2>1. PICK i \in 1..c : i = m * s + k
    BY <1>7
  <2>2. k - 1 \in Nat /\ k - 1 < s /\ m * s \in Nat
    BY <1>2, <1>7
  <2>3. i - 1 = m * s + (k - 1)
    BY <2>1, <2>2
  <2>4. (m * s + (k - 1)) \div s = m /\ ((m * s + (k - 1)) % s) = k - 1
    BY <1>2, <2>2, Division
  <2>5. (i - 1) \div s = m /\ ((i - 1) % s) = k - 1
    BY <2>3, <2>4
  <2>6. d[i] = UnitCell(m + 1, IF m + 1 <= n THEN ks[m + 1] ELSE "last",
                        (k - 1) + 1)
    BY <1>5, <2>1, <2>5
  <2>7. (k - 1) + 1 = k
    BY <1>7
  <2>. QED
    BY <2>1, <2>6, <2>7
<1>8. ASSUME NEW m \in 0..(n - 1), NEW k \in 1..s
      PROVE  /\ m * s + k \in 1..c
             /\ d[m * s + k] = UnitCell(m + 1, ks[m + 1], k)
  <2>1. m \in Nat /\ m < n /\ m + 1 <= n
    BY <1>8
  <2>2. m * s \in Nat /\ n * s \in Nat /\ m * s + s <= n * s
    BY <1>2, <2>1, Multiples
  <2>3. m * s + k \in 1..c
    BY <1>2, <1>3, <2>2
  <2>. QED
    BY <1>7, <2>1, <2>3
<1>9. ASSUME NEW k \in 1..tail
      PROVE  d[n * s + k] = UnitCell(n + 1, "last", k)
  <2>1. n * s \in Nat /\ k \in 1..s /\ ~(n + 1 <= n)
    BY <1>2
  <2>2. n * s + k \in 1..c
    BY <1>2, <1>3, <2>1
  <2>. QED
    BY <1>7, <2>1, <2>2
<1>. QED
  BY <1>1, <1>2, <1>3, <1>4, <1>6, <1>8, <1>9 DEF Cells

(* A cell gives away the kind of its physical record, if it is its last.   *)
LEMMA KindsOfFile ==
  ASSUME NEW ks \in Seq(Kind), NEW tail \in 0..HeaderSize,
         disk = FileOf(ks, tail)
  PROVE  Kinds = ks
<1>. DEFINE kind(c) == IF c = ZeroCell THEN "zero"
                       ELSE IF c = JunkCell THEN "bad" ELSE c.phys.type
<1>1. /\ Cells(disk, ks, tail) /\ Len(ks) \in Nat
      /\ ks = [u \in 1..Len(ks) |-> ks[u]]
      /\ \A u \in 1..Len(ks) : ks[u] \in Kind
  BY FileCells, LenProperties
<1>2. /\ UnitSize \in Nat /\ UnitSize >= 2
      /\ tail \in Nat /\ tail < UnitSize
  BY Sizes
<1>3. Len(disk) \div UnitSize = Len(ks)
  <2>1. Len(disk) = Len(ks) * UnitSize + tail
    BY <1>1 DEF Cells
  <2>2. (Len(ks) * UnitSize + tail) \div UnitSize = Len(ks)
    <3>1. UnitSize >= 1
      BY <1>2
    <3>. QED
      BY <1>1, <1>2, <3>1, Division
  <2>. QED
    BY <2>1, <2>2
<1>4. ASSUME NEW u \in 1..Len(ks)
      PROVE  kind(disk[u * UnitSize]) = ks[u]
  <2>1. PICK m \in 0..(Len(ks) - 1) : m = u - 1
    BY <1>1
  <2>2. m \in Nat /\ m + 1 = u
    BY <2>1
  <2>3. u * UnitSize = m * UnitSize + UnitSize
    BY <1>2, <2>2, Multiples
  <2>4. disk[u * UnitSize] = UnitCell(u, ks[u], UnitSize)
    <3>1. UnitSize \in 1..UnitSize
      BY <1>2
    <3>. QED
      BY <1>1, <2>1, <2>2, <2>3, <3>1 DEF Cells
  <2>5. ks[u] \in Kind
    BY <1>1
  <2>. QED
    BY <1>2, <2>4, <2>5 DEF UnitCell, ZeroCell, JunkCell, PhysicalOf, Kind, Sound
<1>5. Kinds = [u \in 1..Len(ks) |-> kind(disk[u * UnitSize])]
  BY <1>3 DEF Kinds
<1>. HIDE DEF kind
<1>. QED
  BY <1>1, <1>4, <1>5

(***************************************************************************)
(* The records of a file.                                                  *)
(***************************************************************************)

Ending(ks, o, j) == {i \in 1..j : IsRecord(ks, o, i, j)}

(* g has, for every j, the records that end at j or before it.             *)
Records(g, ks, o) ==
  \A j \in 0..Len(ks) :
    g[j] = IF j = 0 THEN << >>
           ELSE IF Ending(ks, o, j) = {} THEN g[j - 1]
           ELSE Append(g[j - 1], Run(CHOOSE i \in Ending(ks, o, j) : TRUE, j))

LEMMA RunType ==
  ASSUME NEW f \in Nat, NEW l \in Nat
  PROVE  /\ Run(f, l) \in Seq(Nat)
         /\ f <= l => Len(Run(f, l)) = l - f + 1
         /\ DOMAIN Run(f, l) = 1..(l - f + 1)
         /\ \A k \in 1..(l - f + 1) : Run(f, l)[k] = f + k - 1
<1>1. PICK n \in Int : n = l - f + 1
  OBVIOUS
<1>2. Run(f, l) = [k \in 1..n |-> f + k - 1]
  BY <1>1 DEF Run
<1>3. \A k \in 1..n : f + k - 1 \in Nat
  OBVIOUS
<1>4. CASE n >= 0
  <2>1. n \in Nat
    BY <1>4
  <2>2. Run(f, l) \in [1..n -> Nat]
    BY <1>2, <1>3
  <2>. QED
    BY <1>1, <1>2, <2>1, <2>2
<1>5. CASE n < 0
  <2>1. 1..n = 1..0
    BY <1>5
  <2>2. Run(f, l) \in [1..0 -> Nat]
    BY <1>2, <1>3, <2>1
  <2>3. Run(f, l) \in Seq(Nat)
    BY <2>2
  <2>4. ~(f <= l)
    BY <1>1, <1>5
  <2>. QED
    BY <1>1, <1>2, <2>3, <2>4
<1>. QED
  BY <1>1, <1>4, <1>5

LEMMA RecordsDefined ==
  ASSUME NEW ks \in Seq(Kind), NEW o \in Nat
  PROVE  Records(RecordsUpTo(ks, o), ks, o)
<1>. DEFINE upto[j \in 0..Len(ks)] ==
              IF j = 0 THEN << >>
              ELSE IF {i \in 1..j : IsRecord(ks, o, i, j)} = {} THEN upto[j - 1]
              ELSE LET i == CHOOSE i \in {i \in 1..j : IsRecord(ks, o, i, j)} : TRUE
                   IN  Append(upto[j - 1], [k \in 1..(j - i + 1) |-> i + k - 1])
            Step == [x \in Seq(Seq(Nat)) \X (1..Len(ks)) |->
                       IF Ending(ks, o, x[2]) = {} THEN x[1]
                       ELSE Append(x[1],
                              Run(CHOOSE i \in Ending(ks, o, x[2]) : TRUE, x[2]))]
            Def(f) == f = [j \in 0..Len(ks) |->
              IF j = 0 THEN << >>
              ELSE IF {i \in 1..j : IsRecord(ks, o, i, j)} = {} THEN f[j - 1]
              ELSE LET i == CHOOSE i \in {i \in 1..j : IsRecord(ks, o, i, j)} : TRUE
                   IN  Append(f[j - 1], [k \in 1..(j - i + 1) |-> i + k - 1])]
<1>1. Len(ks) \in Nat
  BY LenProperties
<1>2. Step \in [Seq(Seq(Nat)) \X (1..Len(ks)) -> Seq(Seq(Nat))]
  <2>1. ASSUME NEW q \in Seq(Seq(Nat)), NEW j \in 1..Len(ks),
               Ending(ks, o, j) # {}
        PROVE  Append(q, Run(CHOOSE i \in Ending(ks, o, j) : TRUE, j))
                 \in Seq(Seq(Nat))
    <3>1. PICK i : i = CHOOSE e \in Ending(ks, o, j) : TRUE
      OBVIOUS
    <3>2. i \in Ending(ks, o, j)
      BY <2>1, <3>1
    <3>3. i \in Nat /\ j \in Nat
      BY <3>2 DEF Ending
    <3>. QED
      BY <3>1, <3>3, RunType, AppendProperties
  <2>. QED
    BY <2>1
<1>3. << >> \in Seq(Seq(Nat))
  OBVIOUS
<1>4. PICK g : Defines(g, 0..Len(ks), Seq(Seq(Nat)), << >>, Step)
  <2>. HIDE DEF Step
  <2>. QED
    BY <1>1, <1>2, <1>3, Recursion
<1>5. ASSUME NEW j \in 1..Len(ks)
      PROVE  g[j] = IF Ending(ks, o, j) = {} THEN g[j - 1]
                    ELSE Append(g[j - 1],
                                Run(CHOOSE i \in Ending(ks, o, j) : TRUE, j))
  <2>1. g[j] = Step[<<g[j - 1], j>>] /\ g[j - 1] \in Seq(Seq(Nat))
    <3>. HIDE DEF Step
    <3>1. j \in 0..Len(ks) /\ j # 0 /\ j - 1 \in 0..Len(ks)
      BY <1>1
    <3>2. g \in [0..Len(ks) -> Seq(Seq(Nat))]
      BY <1>4 DEF Defines
    <3>. QED
      BY <1>4, <3>1, <3>2 DEF Defines
  <2>. QED
    BY <2>1
<1>6. Def(g)
  <2>1. g = [j \in 0..Len(ks) |-> g[j]]
    BY <1>4 DEF Defines
  <2>2. g[0] = << >>
    BY <1>4 DEF Defines
  <2>3. ASSUME NEW j \in 0..Len(ks)
        PROVE  g[j] =
          IF j = 0 THEN << >>
          ELSE IF {i \in 1..j : IsRecord(ks, o, i, j)} = {} THEN g[j - 1]
          ELSE LET i == CHOOSE i \in {i \in 1..j : IsRecord(ks, o, i, j)} : TRUE
               IN  Append(g[j - 1], [k \in 1..(j - i + 1) |-> i + k - 1])
    <3>1. CASE j = 0
      BY <2>2, <3>1
    <3>2. CASE j # 0
      <4>1. j \in 1..Len(ks)
        BY <3>2
      <4>. QED
        BY <1>5, <3>2, <4>1 DEF Ending, Run
    <3>. QED
      BY <3>1, <3>2
  <2>. QED
    BY <2>1, <2>3, Zenon
<1>7. upto = CHOOSE f : Def(f)
  BY DEF upto
<1>8. Def(upto)
  <2>. HIDE DEF Def, upto
  <2>. QED
    BY <1>6, <1>7
<1>9. RecordsUpTo(ks, o) = upto
  BY DEF RecordsUpTo
<1>10. Records(upto, ks, o)
  <2>. HIDE DEF upto
  <2>1. ASSUME NEW j \in 0..Len(ks)
        PROVE  upto[j] = IF j = 0 THEN << >>
           ELSE IF Ending(ks, o, j) = {} THEN upto[j - 1]
           ELSE Append(upto[j - 1], Run(CHOOSE i \in Ending(ks, o, j) : TRUE, j))
    BY <1>8 DEF Ending, Run
  <2>. QED
    BY <2>1 DEF Records
<1>. HIDE DEF upto
<1>. QED
  BY <1>9, <1>10

(* No two records have the same end.                                       *)
LEMMA OneEnding ==
  ASSUME NEW ks \in Seq(Kind), NEW o \in Nat, NEW j \in 1..Len(ks),
         NEW h \in 1..j, NEW i \in 1..j,
         IsRecord(ks, o, h, j), IsRecord(ks, o, i, j)
  PROVE  h = i
<1>1. ASSUME NEW f \in 1..j, NEW e \in 1..j, f < e,
             IsRecord(ks, o, f, j), IsRecord(ks, o, e, j)
      PROVE  FALSE
  <2>1. Unfinished(ks, o, f, j - 1) /\ ks[j] = "last"
    BY <1>1 DEF IsRecord
  <2>2. Unfinished(ks, o, e, j - 1)
    BY <1>1, <2>1 DEF IsRecord
  <2>3. e \in (f + 1)..(j - 1)
    BY <1>1, <2>2 DEF Unfinished
  <2>. QED
    BY <2>1, <2>2, <2>3 DEF Unfinished
<1>. QED
  BY <1>1

(***************************************************************************)
(* Which physical records a reader returns.                                *)
(***************************************************************************)

LEMMA StartsType ==
  ASSUME NEW u \in Int
  PROVE  /\ StartsAt(u) \in Int
         /\ u >= 1 => StartsAt(u) \in Nat
         /\ u >= 0 => StartsAt(u + 1) = u * UnitSize
<1>1. UnitSize \in Nat /\ u - 1 \in Int /\ (u + 1) - 1 = u
  BY Sizes
<1>2. StartsAt(u) \in Int
  BY <1>1 DEF StartsAt
<1>3. ASSUME u >= 1 PROVE StartsAt(u) \in Nat
  <2>1. u - 1 \in Nat
    BY <1>3
  <2>. QED
    BY <1>1, <2>1 DEF StartsAt
<1>4. StartsAt(u + 1) = u * UnitSize
  BY <1>1 DEF StartsAt
<1>. QED
  BY <1>2, <1>3, <1>4

LEMMA StartsInOrder ==
  ASSUME NEW u \in Nat, NEW v \in Nat, u <= v
  PROVE  /\ StartsAt(u) \in Int /\ StartsAt(v) \in Int
         /\ StartsAt(u) <= StartsAt(v)
<1>1. UnitSize \in Nat /\ UnitSize >= 1
  BY Sizes
<1>2. u * UnitSize <= v * UnitSize
  BY <1>1, Multiples
<1>3. /\ StartsAt(u) = u * UnitSize - UnitSize
      /\ StartsAt(v) = v * UnitSize - UnitSize
  BY <1>1 DEF StartsAt
<1>4. u * UnitSize \in Nat /\ v * UnitSize \in Nat
  BY <1>1
<1>. QED
  BY <1>1, <1>2, <1>3, <1>4

(* What RecordsUpTo is, step by step.                                      *)
LEMMA RecordsByStep ==
  ASSUME NEW ks \in Seq(Kind), NEW o \in Nat
  PROVE  /\ RecordsUpTo(ks, o)[0] = << >>
         /\ \A j \in 1..Len(ks) :
              (\A i \in 1..j : ~IsRecord(ks, o, i, j)) =>
                RecordsUpTo(ks, o)[j] = RecordsUpTo(ks, o)[j - 1]
         /\ \A j \in 1..Len(ks) : \A i \in 1..j :
              IsRecord(ks, o, i, j) =>
                RecordsUpTo(ks, o)[j] =
                  Append(RecordsUpTo(ks, o)[j - 1], Run(i, j))
         /\ \A j \in 0..Len(ks) : RecordsUpTo(ks, o)[j] \in Seq(Seq(Nat))
<1>1. PICK g : g = RecordsUpTo(ks, o)
  OBVIOUS
<1>2. Records(g, ks, o) /\ Len(ks) \in Nat
  BY <1>1, RecordsDefined, LenProperties
<1>3. g[0] = << >>
  <2>1. 0 \in 0..Len(ks)
    BY <1>2
  <2>. QED
    BY <1>2, <2>1 DEF Records
<1>4. ASSUME NEW j \in 1..Len(ks), \A i \in 1..j : ~IsRecord(ks, o, i, j)
      PROVE  g[j] = g[j - 1]
  <2>1. Ending(ks, o, j) = {}
    BY <1>4 DEF Ending
  <2>2. j \in 0..Len(ks) /\ j # 0
    BY <1>4
  <2>. QED
    BY <1>2, <2>1, <2>2 DEF Records
<1>5. ASSUME NEW j \in 1..Len(ks), NEW i \in 1..j, IsRecord(ks, o, i, j)
      PROVE  g[j] = Append(g[j - 1], Run(i, j))
  <2>1. i \in Ending(ks, o, j)
    BY <1>5 DEF Ending
  <2>2. PICK h : h = CHOOSE e \in Ending(ks, o, j) : TRUE
    OBVIOUS
  <2>3. h \in Ending(ks, o, j)
    BY <2>1, <2>2
  <2>4. h = i
    BY <1>5, <2>3, OneEnding DEF Ending
  <2>5. j \in 0..Len(ks) /\ j # 0
    BY <1>5
  <2>6. g[j] = Append(g[j - 1], Run(h, j))
    BY <1>2, <2>1, <2>2, <2>5 DEF Records
  <2>. QED
    BY <2>4, <2>6
<1>6. \A j \in 0..Len(ks) : g[j] \in Seq(Seq(Nat))
  <2>. DEFINE P == {n \in Nat : n <= Len(ks) => g[n] \in Seq(Seq(Nat))}
  <2>1. 0 \in P
    <3>1. << >> \in Seq(Seq(Nat))
      OBVIOUS
    <3>. QED
      BY <1>3, <3>1
  <2>2. ASSUME NEW n \in Nat, n \in P, n + 1 <= Len(ks)
        PROVE  g[n + 1] \in Seq(Seq(Nat))
    <3>1. /\ n + 1 \in 1..Len(ks) /\ (n + 1) - 1 = n
          /\ g[n] \in Seq(Seq(Nat))
      BY <1>2, <2>2
    <3>2. CASE \A i \in 1..(n + 1) : ~IsRecord(ks, o, i, n + 1)
      BY <1>4, <3>1, <3>2
    <3>3. CASE \E i \in 1..(n + 1) : IsRecord(ks, o, i, n + 1)
      <4>1. PICK i \in 1..(n + 1) : IsRecord(ks, o, i, n + 1)
        BY <3>3
      <4>2. g[n + 1] = Append(g[n], Run(i, n + 1))
        BY <1>5, <3>1, <4>1
      <4>3. Run(i, n + 1) \in Seq(Nat)
        BY RunType
      <4>. QED
        BY <3>1, <4>2, <4>3, AppendProperties
    <3>. QED
      BY <3>2, <3>3
  <2>3. Nat \subseteq P
    <3>1. \A n \in Nat : n \in P => n + 1 \in P
      BY <2>2
    <3>. HIDE DEF P
    <3>. QED
      BY <2>1, <3>1, Induction
  <2>. QED
    BY <1>2, <2>3
<1>. QED
  BY <1>1, <1>3, <1>4, <1>5, <1>6

(* Physical records that are passed over, because they start before o or   *)
(* cannot be read, end no record and leave none unfinished.                *)
LEMMA PassingOver ==
  ASSUME NEW ks \in Seq(Kind), NEW o \in Nat,
         NEW m \in 0..Len(ks), NEW l \in 0..m,
         \A u \in (l + 1)..m : StartsAt(u) >= o => ~Readable(ks, u)
  PROVE  /\ RecordsUpTo(ks, o)[m] = RecordsUpTo(ks, o)[l]
         /\ l < m => \A f \in 1..m : ~Unfinished(ks, o, f, m)
<1>1. Len(ks) \in Nat /\ l \in Nat /\ m \in Nat
  BY LenProperties
<1>2. ASSUME NEW j \in (l + 1)..m, NEW i \in 1..j PROVE ~IsRecord(ks, o, i, j)
  <2>1. SUFFICES ASSUME IsRecord(ks, o, i, j) PROVE FALSE
    OBVIOUS
  <2>2. StartsAt(i) >= o /\ Readable(ks, j)
    BY <2>1 DEF IsRecord
  <2>3. StartsAt(i) <= StartsAt(j) /\ StartsAt(i) \in Int /\ StartsAt(j) \in Int
    <3>1. i \in Nat /\ j \in Nat /\ i <= j
      BY <1>1
    <3>. QED
      BY <3>1, StartsInOrder
  <2>4. StartsAt(j) >= o
    BY <2>2, <2>3
  <2>. QED
    BY <2>2, <2>4
<1>3. RecordsUpTo(ks, o)[m] = RecordsUpTo(ks, o)[l]
  <2>. DEFINE P == {n \in Nat : l + n <= m =>
                      RecordsUpTo(ks, o)[l + n] = RecordsUpTo(ks, o)[l]}
  <2>1. 0 \in P
    BY <1>1
  <2>2. ASSUME NEW n \in Nat, n \in P, l + (n + 1) <= m
        PROVE  RecordsUpTo(ks, o)[l + (n + 1)] = RecordsUpTo(ks, o)[l]
    <3>1. PICK j \in (l + 1)..m : j = l + (n + 1)
      BY <1>1, <2>2
    <3>2. j \in 1..Len(ks) /\ j - 1 = l + n /\ l + n <= m
      BY <1>1, <3>1
    <3>3. RecordsUpTo(ks, o)[j] = RecordsUpTo(ks, o)[j - 1]
      BY <1>2, <3>2, RecordsByStep
    <3>4. RecordsUpTo(ks, o)[l + n] = RecordsUpTo(ks, o)[l]
      BY <2>2, <3>2
    <3>. QED
      BY <3>1, <3>2, <3>3, <3>4
  <2>3. Nat \subseteq P
    <3>1. \A n \in Nat : n \in P => n + 1 \in P
      BY <2>2
    <3>. HIDE DEF P
    <3>. QED
      BY <2>1, <3>1, Induction
  <2>4. m - l \in Nat /\ l + (m - l) = m
    BY <1>1
  <2>. QED
    BY <2>3, <2>4
<1>4. ASSUME l < m, NEW f \in 1..m, Unfinished(ks, o, f, m) PROVE FALSE
  <2>1. StartsAt(f) >= o /\ Readable(ks, m)
    BY <1>1, <1>4 DEF Unfinished
  <2>2. StartsAt(f) <= StartsAt(m) /\ StartsAt(f) \in Int /\ StartsAt(m) \in Int
    <3>1. f \in Nat /\ f <= m
      BY <1>1
    <3>. QED
      BY <1>1, <3>1, StartsInOrder
  <2>3. StartsAt(m) >= o /\ m \in (l + 1)..m
    BY <1>1, <1>4, <2>1, <2>2
  <2>. QED
    BY <2>1, <2>3
<1>. QED
  BY <1>3, <1>4

(* What a reader holds is of a record of the file.                         *)
LEMMA HeldIsRecorded ==
  ASSUME NEW ks \in Seq(Kind), NEW o \in Nat, NEW m \in 0..Len(ks), NEW u,
         Holds(RecordsUpTo(ks, o)[m], u)
  PROVE  \E j \in 1..m : \E i \in 1..j : IsRecord(ks, o, i, j) /\ u \in i..j
<1>. DEFINE InRecord(n) ==
              \E j \in 1..n : \E i \in 1..j : IsRecord(ks, o, i, j) /\ u \in i..j
            P == {n \in Nat : n <= Len(ks) =>
                    (Holds(RecordsUpTo(ks, o)[n], u) => InRecord(n))}
<1>1. Len(ks) \in Nat
  BY LenProperties
<1>2. 0 \in P
  <2>1. RecordsUpTo(ks, o)[0] = << >>
    BY RecordsByStep
  <2>2. ~Holds(<< >>, u)
    BY DEF Holds
  <2>. QED
    BY <2>1, <2>2
<1>3. ASSUME NEW n \in Nat, n \in P, n + 1 <= Len(ks),
             Holds(RecordsUpTo(ks, o)[n + 1], u)
      PROVE  InRecord(n + 1)
  <2>1. PICK j : j = n + 1
    OBVIOUS
  <2>2. /\ j \in 1..Len(ks) /\ j - 1 = n /\ n <= Len(ks) /\ n \in 0..Len(ks)
        /\ j \in Nat
    BY <1>1, <1>3, <2>1
  <2>3. PICK g : g = RecordsUpTo(ks, o)[n]
    OBVIOUS
  <2>4. g \in Seq(Seq(Nat))
    BY <2>2, <2>3, RecordsByStep
  <2>5. CASE Holds(g, u)
    <3>1. InRecord(n)
      BY <1>3, <2>2, <2>3, <2>5
    <3>2. 1..n \subseteq 1..(n + 1)
      OBVIOUS
    <3>. QED
      BY <3>1, <3>2
  <2>6. CASE ~Holds(g, u)
    <3>1. PICK i \in 1..j : IsRecord(ks, o, i, j)
      <4>1. SUFFICES ASSUME \A i \in 1..j : ~IsRecord(ks, o, i, j)
                     PROVE  FALSE
        OBVIOUS
      <4>2. RecordsUpTo(ks, o)[j] = g
        BY <2>2, <2>3, <4>1, RecordsByStep
      <4>. QED
        BY <1>3, <2>1, <2>6, <4>2
    <3>2. PICK r : r = Run(i, j)
      OBVIOUS
    <3>3. r \in Seq(Nat) /\ DOMAIN r = 1..(j - i + 1)
          /\ \A k \in 1..(j - i + 1) : r[k] = i + k - 1
      <4>1. i \in Nat
        OBVIOUS
      <4>. QED
        BY <2>2, <3>2, <4>1, RunType
    <3>4. Holds(Append(g, r), u)
      <4>1. RecordsUpTo(ks, o)[j] = Append(g, r)
        BY <2>2, <2>3, <3>1, <3>2, RecordsByStep
      <4>. QED
        BY <1>3, <2>1, <4>1
    <3>5. PICK k \in DOMAIN Append(g, r) :
            \E x \in DOMAIN Append(g, r)[k] : Append(g, r)[k][x] = u
      BY <3>4 DEF Holds
    <3>6. /\ Len(g) \in Nat /\ DOMAIN g = 1..Len(g)
          /\ DOMAIN Append(g, r) = 1..(Len(g) + 1)
          /\ \A x \in 1..Len(g) : Append(g, r)[x] = g[x]
          /\ Append(g, r)[Len(g) + 1] = r
      BY <2>4, <3>3, AppendProperties, LenProperties
    <3>7. k = Len(g) + 1
      <4>1. SUFFICES ASSUME k # Len(g) + 1 PROVE FALSE
        OBVIOUS
      <4>2. k \in 1..Len(g)
        BY <3>6, <4>1
      <4>. QED
        BY <2>6, <3>5, <3>6, <4>2 DEF Holds
    <3>8. PICK x \in 1..(j - i + 1) : r[x] = u
      BY <3>3, <3>5, <3>6, <3>7
    <3>9. u = i + x - 1
      BY <3>3, <3>8
    <3>10. u \in i..j
      BY <2>2, <3>9
    <3>. QED
      BY <2>1, <2>2, <3>1, <3>10
  <2>. QED
    BY <2>5, <2>6
<1>4. Nat \subseteq P
  <2>1. \A n \in Nat : n \in P => n + 1 \in P
    BY <1>3
  <2>. HIDE DEF P
  <2>. QED
    BY <1>2, <2>1, Induction
<1>5. m \in Nat /\ m <= Len(ks)
  BY <1>1
<1>. QED
  BY <1>4, <1>5

LEMMA UnfinishedIsOne ==
  ASSUME NEW ks \in Seq(Kind), NEW o \in Nat, NEW l \in Nat,
         NEW e \in 1..l, NEW f \in 1..l,
         Unfinished(ks, o, e, l), Unfinished(ks, o, f, l)
  PROVE  e = f
<1>1. ASSUME NEW a \in 1..l, NEW b \in 1..l, a < b,
             Unfinished(ks, o, a, l), Unfinished(ks, o, b, l)
      PROVE  FALSE
  <2>1. b \in (a + 1)..l
    BY <1>1
  <2>2. ks[b] = "middle" /\ ks[b] = "first"
    BY <1>1, <2>1 DEF Unfinished
  <2>. QED
    BY <2>2
<1>. QED
  BY <1>1

(* One that is unfinished was unfinished before its last fragment.         *)
LEMMA UnfinishedBefore ==
  ASSUME NEW ks \in Seq(Kind), NEW o \in Nat, NEW m \in Nat, NEW f \in 1..m,
         Unfinished(ks, o, f, m)
  PROVE  \/ f = m /\ ks[m] = "first"
         \/ f \in 1..(m - 1) /\ ks[m] = "middle" /\ Unfinished(ks, o, f, m - 1)
<1>1. CASE f = m
  BY <1>1 DEF Unfinished
<1>2. CASE f # m
  <2>1. f \in 1..(m - 1) /\ m \in (f + 1)..m /\ f <= m - 1
    BY <1>2
  <2>2. ks[m] = "middle"
    BY <2>1 DEF Unfinished
  <2>3. f..(m - 1) \subseteq f..m /\ (f + 1)..(m - 1) \subseteq (f + 1)..m
    OBVIOUS
  <2>4. Unfinished(ks, o, f, m - 1)
    BY <2>1, <2>3 DEF Unfinished
  <2>. QED
    BY <2>1, <2>2, <2>4
<1>. QED
  BY <1>1, <1>2

LEMMA UnfinishedGrows ==
  ASSUME NEW ks \in Seq(Kind), NEW o \in Nat, NEW m \in Nat,
         NEW f \in 1..(m - 1), Unfinished(ks, o, f, m - 1),
         ks[m] = "middle", Readable(ks, m)
  PROVE  Unfinished(ks, o, f, m)
<1>1. /\ \A u \in f..m : u \in f..(m - 1) \/ u = m
      /\ \A u \in (f + 1)..m : u \in (f + 1)..(m - 1) \/ u = m
      /\ f <= m
  OBVIOUS
<1>. QED
  BY <1>1 DEF Unfinished

(* What the m-th physical record, when it is read, makes of the records.   *)
LEMMA OrphanAddsNothing ==
  ASSUME NEW ks \in Seq(Kind), NEW o \in Nat, NEW m \in 1..Len(ks), o > 0,
         ks[m] \in {"middle", "last"},
         \A v \in 1..(m - 1) : StartsAt(v) >= o => ks[v] = "middle"
  PROVE  /\ RecordsUpTo(ks, o)[m] = RecordsUpTo(ks, o)[m - 1]
         /\ \A f \in 1..m : ~Unfinished(ks, o, f, m)
         /\ Orphan(ks, o, m)
<1>1. Len(ks) \in Nat
  BY LenProperties
<1>2. ASSUME NEW f \in 1..(m - 1), Unfinished(ks, o, f, m - 1) PROVE FALSE
  BY <1>2 DEF Unfinished
<1>3. ASSUME NEW i \in 1..m, IsRecord(ks, o, i, m) PROVE FALSE
  <2>1. Unfinished(ks, o, i, m - 1)
    BY <1>3 DEF IsRecord
  <2>2. i \in 1..(m - 1)
    BY <2>1 DEF Unfinished
  <2>. QED
    BY <1>2, <2>1, <2>2
<1>4. ASSUME NEW f \in 1..m, Unfinished(ks, o, f, m) PROVE FALSE
  BY <1>2, <1>4, UnfinishedBefore
<1>5. RecordsUpTo(ks, o)[m] = RecordsUpTo(ks, o)[m - 1]
  BY <1>3, RecordsByStep
<1>. QED
  BY <1>4, <1>5 DEF Orphan

LEMMA FullEnds ==
  ASSUME NEW ks \in Seq(Kind), NEW o \in Nat, NEW m \in 1..Len(ks),
         ks[m] = "full", Readable(ks, m), StartsAt(m) >= o
  PROVE  /\ RecordsUpTo(ks, o)[m] = Append(RecordsUpTo(ks, o)[m - 1], <<m>>)
         /\ \A f \in 1..m : ~Unfinished(ks, o, f, m)
<1>1. m \in Nat /\ m \in 1..m
  BY LenProperties
<1>2. IsRecord(ks, o, m, m)
  BY DEF IsRecord
<1>3. RecordsUpTo(ks, o)[m] = Append(RecordsUpTo(ks, o)[m - 1], Run(m, m))
  BY <1>1, <1>2, RecordsByStep
<1>4. Run(m, m) = <<m>>
  BY <1>1 DEF Run
<1>5. \A f \in 1..m : ~Unfinished(ks, o, f, m)
  BY <1>1, UnfinishedBefore
<1>. QED
  BY <1>3, <1>4, <1>5

LEMMA FirstBegins ==
  ASSUME NEW ks \in Seq(Kind), NEW o \in Nat, NEW m \in 1..Len(ks),
         ks[m] = "first", Readable(ks, m), StartsAt(m) >= o
  PROVE  /\ RecordsUpTo(ks, o)[m] = RecordsUpTo(ks, o)[m - 1]
         /\ Unfinished(ks, o, m, m)
         /\ Run(m, m) = <<m>>
<1>1. m \in Nat /\ m \in 1..m
  BY LenProperties
<1>2. \A i \in 1..m : ~IsRecord(ks, o, i, m)
  BY DEF IsRecord
<1>3. Run(m, m) = <<m>>
  BY <1>1 DEF Run
<1>4. Unfinished(ks, o, m, m)
  <2>1. \A u \in m..m : u = m
    BY <1>1
  <2>2. \A u \in (m + 1)..m : FALSE
    BY <1>1
  <2>3. m <= m
    BY <1>1
  <2>. QED
    BY <2>1, <2>2, <2>3 DEF Unfinished
<1>. QED
  BY <1>2, <1>3, <1>4, RecordsByStep

LEMMA RunGrows ==
  ASSUME NEW f \in Nat, NEW m \in Nat, f < m
  PROVE  Run(f, m - 1) \o <<m>> = Run(f, m)
<1>1. PICK n \in Nat : n = m - f
  OBVIOUS
<1>2. /\ Run(f, m - 1) = [k \in 1..n |-> f + k - 1]
      /\ Run(f, m) = [k \in 1..(n + 1) |-> f + k - 1]
  <2>1. (m - 1) - f + 1 = n /\ m - f + 1 = n + 1
    BY <1>1
  <2>. QED
    BY <2>1 DEF Run
<1>3. PICK s : s = Run(f, m - 1)
  OBVIOUS
<1>4. s \in Seq(Nat) /\ Len(s) = n
  <2>1. s \in [1..n -> Nat]
    BY <1>2, <1>3
  <2>. QED
    BY <1>2, <1>3, <2>1
<1>5. s \o <<m>> = Append(s, m)
  BY <1>4, AppendIsConcat
<1>6. PICK t : t = Append(s, m)
  OBVIOUS
<1>7. /\ t \in Seq(Nat) /\ Len(t) = n + 1
      /\ \A k \in 1..n : t[k] = s[k]
      /\ t[n + 1] = m
  BY <1>4, <1>6, AppendProperties
<1>8. t = [k \in 1..(n + 1) |-> t[k]]
  BY <1>7, LenProperties
<1>9. ASSUME NEW k \in 1..(n + 1) PROVE t[k] = f + k - 1
  <2>1. k \in 1..n \/ k = n + 1
    OBVIOUS
  <2>2. CASE k \in 1..n
    BY <1>2, <1>3, <1>7, <2>2
  <2>3. CASE k = n + 1
    BY <1>1, <1>7, <2>3
  <2>. QED
    BY <2>1, <2>2, <2>3
<1>10. t = [k \in 1..(n + 1) |-> f + k - 1]
  BY <1>8, <1>9, Zenon
<1>. QED
  BY <1>2, <1>3, <1>5, <1>6, <1>10

LEMMA MiddleContinues ==
  ASSUME NEW ks \in Seq(Kind), NEW o \in Nat, NEW m \in 1..Len(ks),
         ks[m] = "middle", Readable(ks, m)
  PROVE  /\ RecordsUpTo(ks, o)[m] = RecordsUpTo(ks, o)[m - 1]
         /\ \A f \in 1..(m - 1) :
              Unfinished(ks, o, f, m - 1) =>
                Unfinished(ks, o, f, m) /\ Run(f, m - 1) \o <<m>> = Run(f, m)
<1>1. m \in Nat
  BY LenProperties
<1>2. \A i \in 1..m : ~IsRecord(ks, o, i, m)
  BY DEF IsRecord
<1>3. RecordsUpTo(ks, o)[m] = RecordsUpTo(ks, o)[m - 1]
  BY <1>2, RecordsByStep
<1>4. ASSUME NEW f \in 1..(m - 1), Unfinished(ks, o, f, m - 1)
      PROVE  Unfinished(ks, o, f, m) /\ Run(f, m - 1) \o <<m>> = Run(f, m)
  <2>1. f \in Nat /\ f < m
    BY <1>1
  <2>. QED
    BY <1>1, <1>4, <2>1, UnfinishedGrows, RunGrows
<1>. QED
  BY <1>3, <1>4

LEMMA LastEnds ==
  ASSUME NEW ks \in Seq(Kind), NEW o \in Nat, NEW m \in 1..Len(ks),
         ks[m] = "last", Readable(ks, m),
         NEW f \in 1..(m - 1), Unfinished(ks, o, f, m - 1)
  PROVE  /\ RecordsUpTo(ks, o)[m] =
              Append(RecordsUpTo(ks, o)[m - 1], Run(f, m))
         /\ \A e \in 1..m : ~Unfinished(ks, o, e, m)
         /\ Run(f, m - 1) \o <<m>> = Run(f, m)
<1>1. m \in Nat /\ f \in Nat /\ f < m /\ f \in 1..m
  BY LenProperties
<1>2. StartsAt(f) >= o
  BY DEF Unfinished
<1>3. IsRecord(ks, o, f, m)
  BY <1>2 DEF IsRecord
<1>4. RecordsUpTo(ks, o)[m] = Append(RecordsUpTo(ks, o)[m - 1], Run(f, m))
  BY <1>1, <1>3, RecordsByStep
<1>5. \A e \in 1..m : ~Unfinished(ks, o, e, m)
  BY <1>1, UnfinishedBefore
<1>. QED
  BY <1>1, <1>4, <1>5, RunGrows

LEMMA StartIsMissing ==
  ASSUME NEW ks \in Seq(Kind), NEW o \in Nat, NEW m \in 1..Len(ks),
         ks[m] \in {"middle", "last"},
         \A f \in 1..(m - 1) : ~Unfinished(ks, o, f, m - 1)
  PROVE  /\ RecordsUpTo(ks, o)[m] = RecordsUpTo(ks, o)[m - 1]
         /\ \A f \in 1..m : ~Unfinished(ks, o, f, m)
<1>1. m \in Nat
  BY LenProperties
<1>2. ASSUME NEW i \in 1..m, IsRecord(ks, o, i, m) PROVE FALSE
  <2>1. Unfinished(ks, o, i, m - 1)
    BY <1>2 DEF IsRecord
  <2>2. i \in 1..(m - 1)
    BY <1>1, <2>1 DEF Unfinished
  <2>. QED
    BY <2>1, <2>2
<1>3. \A f \in 1..m : ~Unfinished(ks, o, f, m)
  BY <1>1, UnfinishedBefore
<1>. QED
  BY <1>2, <1>3, RecordsByStep

(***************************************************************************)
(* Blocks.                                                                 *)
(***************************************************************************)

LEMMA BlockBegins ==
  ASSUME NEW b \in Nat, NEW u \in (b * BlockUnits + 1)..((b + 1) * BlockUnits)
  PROVE  u - ((u - 1) % BlockUnits) = b * BlockUnits + 1
<1>1. PICK s \in Nat : s = BlockUnits /\ s >= 1
  BY Sizes
<1>2. b * s \in Nat /\ (b + 1) * s = b * s + s
  BY <1>1, Multiples
<1>3. PICK c \in Nat : c = b * s
  BY <1>2
<1>4. u \in (c + 1)..(c + s)
  BY <1>1, <1>2, <1>3
<1>5. PICK r \in Nat : r = u - 1 - c
  BY <1>4
<1>6. r < s /\ u - 1 = c + r
  BY <1>4, <1>5
<1>7. ((b * s + r) % s) = r
  BY <1>1, <1>6, Division
<1>8. ((u - 1) % s) = r
  BY <1>3, <1>6, <1>7
<1>9. u - r = c + 1
  BY <1>4, <1>5
<1>. QED
  BY <1>1, <1>3, <1>8, <1>9

(* A physical record that is damaged, or blank, costs the rest of its      *)
(* block; one with none of these before it in its block can be read.       *)
LEMMA RestIsDropped ==
  ASSUME NEW ks, NEW b \in Nat, NEW kind,
         NEW v \in (b * BlockUnits + 1)..((b + 1) * BlockUnits), ks[v] = kind,
         NEW u \in v..((b + 1) * BlockUnits)
  PROVE  DroppedFor(ks, u, kind)
<1>1. /\ b * BlockUnits \in Nat /\ (b + 1) * BlockUnits \in Nat
  BY Sizes, Multiples
<1>2. u \in (b * BlockUnits + 1)..((b + 1) * BlockUnits)
  BY <1>1
<1>3. v \in (b * BlockUnits + 1)..u
  BY <1>1
<1>. QED
  BY <1>2, <1>3, BlockBegins DEF DroppedFor

LEMMA SoundIsReadable ==
  ASSUME NEW ks, NEW b \in Nat,
         NEW u \in (b * BlockUnits + 1)..((b + 1) * BlockUnits),
         \A v \in (b * BlockUnits + 1)..u : ks[v] \in Sound
  PROVE  Readable(ks, u)
<1>1. \A v \in (u - ((u - 1) % BlockUnits))..u : ks[v] \in Sound
  BY BlockBegins
<1>2. "bad" \notin Sound /\ "zero" \notin Sound
  BY DEF Sound
<1>. QED
  BY <1>1, <1>2 DEF Readable, DroppedFor

(***************************************************************************)
(* What is in the buffer.                                                  *)
(***************************************************************************)

LEMMA FileIsSeq ==
  ASSUME NEW ks \in Seq(Kind), NEW tail \in 0..HeaderSize
  PROVE  \E S : FileOf(ks, tail) \in Seq(S)
<1>1. PICK c \in Nat : c = Len(ks) * UnitSize + tail
  <2>1. Len(ks) \in Nat /\ UnitSize \in Nat /\ tail \in Nat
    BY LenProperties, Sizes
  <2>. QED
    BY <2>1
<1>2. PICK d : d = FileOf(ks, tail)
  OBVIOUS
<1>3. d = [i \in 1..c |-> d[i]]
  BY <1>1, <1>2 DEF FileOf
<1>4. d \in [1..c -> {d[i] : i \in 1..c}]
  BY <1>3
<1>5. d \in Seq({d[i] : i \in 1..c})
  BY <1>1, <1>4
<1>. QED
  BY <1>2, <1>5

(* The buffer has the bytes that follow the m-th physical record.          *)
LEMMA BufferedCells ==
  ASSUME NEW ks \in Seq(Kind), NEW tail \in 0..HeaderSize,
         disk = FileOf(ks, tail),
         NEW m \in 0..Len(ks), NEW b \in Nat, Buffered(ks, m, b)
  PROVE  /\ m * UnitSize \in Nat /\ file_pos \in Nat /\ Len(buffer) \in Nat
         /\ file_pos = m * UnitSize + Len(buffer)
         /\ Front = m * UnitSize
         /\ Len(buffer) >= 1 /\ buffer # << >>
         /\ \A k \in 1..Len(buffer) : buffer[k] = disk[m * UnitSize + k]
         /\ \E S : buffer \in Seq(S) /\ disk \in Seq(S)
<1>1. PICK S : disk \in Seq(S)
  BY FileIsSeq
<1>2. PICK c : c = m * UnitSize
  OBVIOUS
<1>3. c \in Nat
  <2>1. m \in Nat /\ UnitSize \in Nat
    BY Sizes, LenProperties
  <2>. QED
    BY <1>2, <2>1
<1>4. Len(disk) \in Nat /\ \A i \in 1..Len(disk) : disk[i] \in S
  BY <1>1, LenProperties
<1>5. file_pos \in Nat
  <2>1. (b + 1) * BlockSize \in Nat
    BY Sizes
  <2>. QED
    BY <1>4, <2>1 DEF Buffered
<1>6. c < file_pos /\ file_pos <= Len(disk) /\ buffer = SubSeq(disk, c + 1, file_pos)
  BY <1>2 DEF Buffered
<1>7. \A i \in (c + 1)..file_pos : disk[i] \in S
  BY <1>3, <1>4, <1>5, <1>6
<1>8. /\ buffer \in Seq(S)
      /\ Len(buffer) = IF c + 1 <= file_pos THEN file_pos - (c + 1) + 1 ELSE 0
      /\ \A i \in 1..(file_pos - (c + 1) + 1) : buffer[i] = disk[(c + 1) + i - 1]
  <2>1. c + 1 \in Int /\ file_pos \in Int
    BY <1>3, <1>5
  <2>. QED
    BY <1>6, <1>7, <2>1, SubSeqProperties
<1>9. Len(buffer) = file_pos - c /\ Len(buffer) \in Nat /\ Len(buffer) >= 1
  BY <1>3, <1>5, <1>6, <1>8
<1>10. \A k \in 1..Len(buffer) : buffer[k] = disk[c + k]
  <2>1. ASSUME NEW k \in 1..Len(buffer) PROVE buffer[k] = disk[c + k]
    <3>1. k \in 1..(file_pos - (c + 1) + 1) /\ (c + 1) + k - 1 = c + k
      BY <1>3, <1>5, <1>9
    <3>. QED
      BY <1>8, <3>1
  <2>. QED
    BY <2>1
<1>11. buffer # << >>
  BY <1>9
<1>12. file_pos = c + Len(buffer) /\ Front = c
  BY <1>3, <1>5, <1>9 DEF Front
<1>. QED
  BY <1>1, <1>2, <1>3, <1>5, <1>8, <1>9, <1>10, <1>11, <1>12

(* There is a whole physical record, and it is of the buffer's block.      *)
LEMMA FrontUnit ==
  ASSUME NEW ks \in Seq(Kind), NEW tail \in 0..HeaderSize,
         disk = FileOf(ks, tail),
         NEW m \in 0..(Len(ks) - 1), NEW b \in Nat, Buffered(ks, m, b)
  PROVE  /\ Len(buffer) >= UnitSize
         /\ \A k \in 1..UnitSize : buffer[k] = UnitCell(m + 1, ks[m + 1], k)
         /\ m + 1 \in (b * BlockUnits + 1)..((b + 1) * BlockUnits)
<1>1. /\ Cells(disk, ks, tail) /\ Len(ks) \in Nat
      /\ m \in 0..Len(ks) /\ m \in Nat /\ m + 1 <= Len(ks)
  BY FileCells, LenProperties
<1>2. PICK s \in Nat : s = UnitSize /\ s >= 1
  BY Sizes
<1>3. PICK c \in Nat, e \in Nat : c = m * s /\ e = Len(ks) * s
  <2>1. m * s \in Nat
    BY <1>1, <1>2
  <2>2. Len(ks) * s \in Nat
    BY <1>1, <1>2
  <2>. QED
    BY <2>1, <2>2
<1>4. c + s <= e
  BY <1>1, <1>2, <1>3, Multiples
<1>5. PICK x \in Nat : x = (b + 1) * BlockUnits
  BY Sizes
<1>6. (b + 1) * BlockSize = x * s
  <2>1. BlockSize = BlockUnits * s /\ BlockUnits \in Nat
    BY <1>2, Sizes
  <2>. QED
    BY <1>2, <1>5, <2>1
<1>7. PICK y \in Nat : y = x * s
  BY <1>2, <1>5
<1>8. /\ Len(buffer) \in Nat /\ file_pos \in Nat /\ file_pos = c + Len(buffer)
      /\ Len(buffer) >= 1
      /\ \A k \in 1..Len(buffer) : buffer[k] = disk[c + k]
  BY <1>1, <1>2, <1>3, BufferedCells
<1>9. Len(disk) \in Nat /\ e <= Len(disk)
  <2>1. Len(disk) = e + tail
    BY <1>1, <1>2, <1>3 DEF Cells
  <2>2. tail \in Nat
    BY Sizes
  <2>. QED
    BY <1>3, <2>1, <2>2
<1>10. file_pos <= y
  <2>1. file_pos <= (b + 1) * BlockSize \/ file_pos = (b + 1) * BlockSize
    BY DEF Buffered
  <2>. QED
    BY <1>6, <1>7, <1>8, <2>1
<1>11. m < x
  <2>1. c < y
    BY <1>8, <1>10
  <2>. QED
    BY <1>1, <1>2, <1>3, <1>5, <1>7, <2>1, Multiples
<1>12. c + s <= y
  <2>1. m \in Nat /\ x \in Nat /\ m < x
    BY <1>1, <1>5, <1>11
  <2>2. m * s + s <= x * s
    BY <1>2, <2>1, Multiples
  <2>. QED
    BY <1>3, <1>7, <2>2
<1>13. c + s <= file_pos
  <2>1. CASE eof
    BY <1>4, <1>9, <2>1 DEF Buffered
  <2>2. CASE ~eof
    BY <1>6, <1>7, <1>12, <2>2 DEF Buffered
  <2>. QED
    BY <2>1, <2>2
<1>14. Len(buffer) >= s
  BY <1>8, <1>13
<1>15. \A k \in 1..s : buffer[k] = UnitCell(m + 1, ks[m + 1], k)
  <2>1. \A k \in 1..s : disk[c + k] = UnitCell(m + 1, ks[m + 1], k)
    BY <1>1, <1>2, <1>3 DEF Cells
  <2>2. \A k \in 1..s : k \in 1..Len(buffer)
    BY <1>8, <1>14
  <2>. QED
    BY <1>8, <2>1, <2>2
<1>16. m + 1 \in (b * BlockUnits + 1)..x
  <2>1. b * BlockUnits <= m /\ b * BlockUnits \in Nat
    BY Sizes DEF Buffered
  <2>2. PICK z \in Nat : z = b * BlockUnits
    BY <2>1
  <2>3. m + 1 \in (z + 1)..x
    BY <1>1, <1>11, <2>1, <2>2
  <2>. QED
    BY <2>2, <2>3
<1>. QED
  BY <1>2, <1>5, <1>14, <1>15, <1>16

(* There is not even one, but a part of a header at the end of the file.   *)
LEMMA FrontTail ==
  ASSUME NEW ks \in Seq(Kind), NEW tail \in 0..HeaderSize,
         disk = FileOf(ks, tail),
         NEW b \in Nat, Buffered(ks, Len(ks), b)
  PROVE  /\ eof
         /\ Len(buffer) = tail
         /\ \A k \in 1..tail : buffer[k] = UnitCell(Len(ks) + 1, "last", k)
<1>1. /\ Cells(disk, ks, tail) /\ Len(ks) \in Nat
      /\ Len(ks) \in 0..Len(ks)
  BY FileCells, LenProperties
<1>2. PICK s \in Nat : s = UnitSize /\ s >= 1 /\ tail < s /\ tail \in Nat
  BY Sizes
<1>3. PICK n \in Nat : n = Len(ks)
  BY <1>1
<1>4. PICK c \in Nat : c = n * s
  BY <1>2, <1>3
<1>5. PICK x \in Nat : x = (b + 1) * BlockUnits
  BY Sizes
<1>6. (b + 1) * BlockSize = x * s
  <2>1. BlockSize = BlockUnits * s /\ BlockUnits \in Nat
    BY <1>2, Sizes
  <2>. QED
    BY <1>2, <1>5, <2>1
<1>7. PICK y \in Nat : y = x * s
  BY <1>2, <1>5
<1>8. /\ Len(buffer) \in Nat /\ file_pos \in Nat /\ file_pos = c + Len(buffer)
      /\ Len(buffer) >= 1
      /\ \A k \in 1..Len(buffer) : buffer[k] = disk[c + k]
  BY <1>1, <1>2, <1>3, <1>4, BufferedCells
<1>9. Len(disk) = c + tail
  BY <1>1, <1>2, <1>3, <1>4 DEF Cells
<1>10. file_pos <= Len(disk)
  BY <1>3 DEF Buffered
<1>11. eof
  <2>1. SUFFICES ASSUME ~eof PROVE FALSE
    OBVIOUS
  <2>2. file_pos = y
    BY <1>3, <1>6, <1>7, <2>1 DEF Buffered
  <2>3. c < y /\ y < c + s
    BY <1>2, <1>8, <1>9, <1>10, <2>2
  <2>4. n < x
    BY <1>2, <1>3, <1>4, <1>5, <1>7, <2>3, Multiples
  <2>5. c + s <= y
    BY <1>2, <1>3, <1>4, <1>5, <1>7, <2>4, Multiples
  <2>. QED
    BY <1>2, <2>3, <2>5
<1>12. file_pos = Len(disk)
  BY <1>3, <1>11 DEF Buffered
<1>13. Len(buffer) = tail
  BY <1>2, <1>8, <1>9, <1>12
<1>14. \A k \in 1..tail : disk[c + k] = UnitCell(n + 1, "last", k)
  BY <1>1, <1>2, <1>3, <1>4 DEF Cells
<1>. QED
  BY <1>3, <1>8, <1>11, <1>13, <1>14

(* What the reader makes of the cells at the front of the buffer.          *)
LEMMA ZeroFront ==
  ASSUME NEW u, \A k \in 1..UnitSize : buffer[k] = UnitCell(u, "zero", k)
  PROVE  HeaderZero /\ ~HeaderIntact /\ ~ChecksumOK
<1>1. HeaderSize \in Nat /\ HeaderSize >= 1 /\ UnitSize = HeaderSize + 1
  BY Sizes
<1>2. \A k \in 1..HeaderSize : buffer[k] = ZeroCell
  BY <1>1 DEF UnitCell
<1>3. 1 \in 1..HeaderSize
  BY <1>1
<1>4. HeaderZero
  BY <1>2, <1>3 DEF HeaderZero, Header
<1>5. ~HeaderIntact
  <2>1. SUFFICES ASSUME HeaderIntact PROVE FALSE
    OBVIOUS
  <2>2. buffer[1] = [phys |-> FrontRecord, at |-> 1]
    BY <1>3, <2>1 DEF HeaderIntact
  <2>3. buffer[1].at = 1 /\ ZeroCell.at = 0
    BY <2>2 DEF ZeroCell
  <2>. QED
    BY <1>2, <1>3, <2>3
<1>. QED
  BY <1>4, <1>5 DEF ChecksumOK

LEMMA IntactFront ==
  ASSUME NEW u, NEW type,
         \A k \in 1..HeaderSize : buffer[k] = [phys |-> PhysicalOf(u, type), at |-> k]
  PROVE  /\ HeaderIntact /\ ~HeaderZero
         /\ FrontRecord = PhysicalOf(u, type)
         /\ PhysicalLength = UnitSize
<1>1. HeaderSize \in Nat /\ HeaderSize >= 1 /\ UnitSize = HeaderSize + 1
  BY Sizes
<1>2. 1 \in 1..HeaderSize
  BY <1>1
<1>3. buffer[1] = [phys |-> PhysicalOf(u, type), at |-> 1]
  BY <1>2
<1>4. FrontRecord = PhysicalOf(u, type)
  BY <1>3 DEF FrontRecord
<1>5. HeaderIntact
  BY <1>4 DEF HeaderIntact
<1>6. ~HeaderZero
  <2>1. buffer[1].at = 1 /\ ZeroCell.at = 0
    BY <1>3 DEF ZeroCell
  <2>2. buffer[1] \in Header
    BY <1>2 DEF Header
  <2>. QED
    BY <2>1, <2>2 DEF HeaderZero
<1>7. PhysicalLength = UnitSize
  <2>1. Len(PhysicalOf(u, type).data) = 1
    BY DEF PhysicalOf
  <2>. QED
    BY <1>1, <1>4, <2>1 DEF PhysicalLength
<1>. QED
  BY <1>4, <1>5, <1>6, <1>7

LEMMA BadFront ==
  ASSUME NEW u, Len(buffer) \in Nat, Len(buffer) >= UnitSize,
         NEW S, buffer \in Seq(S),
         \A k \in 1..UnitSize : buffer[k] = UnitCell(u, "bad", k)
  PROVE  HeaderIntact /\ ~HeaderZero /\ PhysicalLength = UnitSize /\ ~ChecksumOK
<1>1. HeaderSize \in Nat /\ HeaderSize >= 1 /\ UnitSize = HeaderSize + 1
  BY Sizes
<1>2. \A k \in 1..HeaderSize :
        buffer[k] = [phys |-> PhysicalOf(u, "full"), at |-> k]
  BY <1>1 DEF UnitCell
<1>3. /\ HeaderIntact /\ ~HeaderZero /\ PhysicalLength = UnitSize
      /\ FrontRecord = PhysicalOf(u, "full")
  BY <1>2, IntactFront
<1>4. buffer[UnitSize] = JunkCell
  <2>1. UnitSize \in 1..UnitSize
    BY <1>1
  <2>. QED
    BY <2>1 DEF UnitCell
<1>5. ~ChecksumOK
  <2>1. SUFFICES ASSUME SubSeq(buffer, 1, UnitSize) = Encode(FrontRecord)
                 PROVE  FALSE
    BY <1>3 DEF ChecksumOK
  <2>2. SubSeq(buffer, 1, UnitSize)[UnitSize] = buffer[UnitSize]
    <3>1. \A i \in 1..UnitSize : buffer[i] \in S
      BY <1>1, LenProperties
    <3>2. 1 \in Int /\ UnitSize \in Int /\ UnitSize \in 1..(UnitSize - 1 + 1)
          /\ 1 + UnitSize - 1 = UnitSize
      BY <1>1
    <3>3. \A i \in 1..(UnitSize - 1 + 1) :
            SubSeq(buffer, 1, UnitSize)[i] = buffer[1 + i - 1]
      BY <3>1, <3>2, SubSeqProperties
    <3>. QED
      BY <3>2, <3>3
  <2>3. Encode(FrontRecord)[UnitSize].at = UnitSize
    <3>1. HeaderSize + Len(FrontRecord.data) = UnitSize
      BY <1>3 DEF PhysicalLength
    <3>2. UnitSize \in 1..UnitSize
      BY <1>1
    <3>. QED
      BY <3>1, <3>2 DEF Encode
  <2>4. JunkCell.at = -1
    BY DEF JunkCell
  <2>. QED
    BY <1>1, <1>4, <2>1, <2>2, <2>3, <2>4
<1>. QED
  BY <1>3, <1>5

LEMMA SoundFront ==
  ASSUME NEW u, NEW type \in Sound, Len(buffer) \in Nat, Len(buffer) >= UnitSize,
         NEW S, buffer \in Seq(S),
         \A k \in 1..UnitSize : buffer[k] = UnitCell(u, type, k)
  PROVE  /\ HeaderIntact /\ ~HeaderZero /\ PhysicalLength = UnitSize
         /\ FrontRecord = PhysicalOf(u, type)
         /\ ChecksumOK
<1>1. HeaderSize \in Nat /\ HeaderSize >= 1 /\ UnitSize = HeaderSize + 1
  BY Sizes
<1>2. type # "zero" /\ type # "bad"
  BY DEF Sound
<1>3. \A k \in 1..UnitSize :
        buffer[k] = [phys |-> PhysicalOf(u, type), at |-> k]
  BY <1>2 DEF UnitCell
<1>4. /\ HeaderIntact /\ ~HeaderZero /\ PhysicalLength = UnitSize
      /\ FrontRecord = PhysicalOf(u, type)
  <2>1. \A k \in 1..HeaderSize :
          buffer[k] = [phys |-> PhysicalOf(u, type), at |-> k]
    BY <1>1, <1>3
  <2>. QED
    BY <2>1, IntactFront
<1>5. SubSeq(buffer, 1, UnitSize) = Encode(FrontRecord)
  <2>1. PICK t : t = SubSeq(buffer, 1, UnitSize)
    OBVIOUS
  <2>2. /\ t \in Seq(S) /\ Len(t) = UnitSize
        /\ \A i \in 1..UnitSize : t[i] = buffer[i]
    <3>1. \A i \in 1..UnitSize : buffer[i] \in S
      BY <1>1, LenProperties
    <3>2. 1 \in Int /\ UnitSize \in Int /\ UnitSize - 1 + 1 = UnitSize
          /\ 1 <= UnitSize
      BY <1>1
    <3>3. /\ t \in Seq(S) /\ Len(t) = UnitSize
          /\ \A i \in 1..(UnitSize - 1 + 1) : t[i] = buffer[1 + i - 1]
      BY <2>1, <3>1, <3>2, SubSeqProperties
    <3>. QED
      BY <1>1, <3>3
  <2>3. t = [k \in 1..UnitSize |-> t[k]]
    BY <2>2, LenProperties
  <2>4. Encode(FrontRecord) =
          [k \in 1..UnitSize |-> [phys |-> FrontRecord, at |-> k]]
    <3>1. HeaderSize + Len(FrontRecord.data) = UnitSize
      BY <1>4 DEF PhysicalLength
    <3>. QED
      BY <3>1 DEF Encode
  <2>5. \A k \in 1..UnitSize : t[k] = [phys |-> FrontRecord, at |-> k]
    BY <1>3, <1>4, <2>2
  <2>. QED
    BY <2>1, <2>3, <2>4, <2>5
<1>. QED
  BY <1>4, <1>5 DEF ChecksumOK

(***************************************************************************)
(* The steps of readPhysicalRecord.                                        *)
(***************************************************************************)

LEMMA AtUnchanged ==
  ASSUME NEW ks, NEW m, At(ks, m), UNCHANGED <<disk, initial_offset, inputVars>>
  PROVE  At(ks, m)'
BY DEF At, Buffered, Drained, Front, InitialBlock, inputVars

LEMMA ReturnedUnchanged ==
  ASSUME NEW ks, NEW l, Returned(ks, l),
         UNCHANGED <<initial_offset, delivered>>, Silent' => Silent
  PROVE  Returned(ks, l)'
BY DEF Returned

LEMMA CollectedUnchanged ==
  ASSUME NEW ks, NEW l, Collected(ks, l),
         UNCHANGED <<initial_offset, localVars, resyncing>>
  PROVE  Collected(ks, l)'
BY DEF Collected, NoneUnfinished, localVars

(* A drop that starts at start is reported, or kills the process.          *)
LEMMA ReportOutcome ==
  ASSUME NEW bytes, NEW next, Report(bytes, next), UNCHANGED initial_offset
  PROVE  /\ rpc' = next \/ rpc' = "crashed"
         /\ Silent' => Silent
         /\ /\ rpc' # "crashed"
            /\ end_of_buffer_offset - Len(buffer') - bytes >= initial_offset
            => ~Silent'
BY DEF Report, Silent

LEMMA NoReportOutcome ==
  ASSUME NEW next, NoReport(next), UNCHANGED initial_offset
  PROVE  rpc' = next /\ (Silent' <=> Silent)
BY DEF NoReport, Silent

LEMMA CrashKeeps ==
  ASSUME NEW ks, initial_offset \in Nat, UNCHANGED initial_offset,
         rpc' = "crashed"
  PROVE  ReadingInv(ks)'
BY DEF ReadingInv, ReaderPC

(* A reader at an offset where a block starts looks at no byte before it.  *)
LEMMA InitialBlockType ==
  ASSUME initial_offset \in Nat
  PROVE  /\ InitialBlock \in Nat
         /\ \E b \in Nat : InitialBlock = b * BlockSize
         /\ initial_offset % BlockSize = 0 => InitialBlock = initial_offset
         /\ InitialBlock < initial_offset + UnitSize
<1>1. /\ BlockSize \in Nat /\ BlockSize >= UnitSize /\ UnitSize = HeaderSize + 1
      /\ HeaderSize \in Nat /\ HeaderSize >= 1
  BY Sizes
<1>2. PICK q, r : q = initial_offset \div BlockSize /\ r = initial_offset % BlockSize
  OBVIOUS
<1>3. /\ q \in Nat /\ r \in Nat /\ r < BlockSize
      /\ initial_offset = BlockSize * q + r
  BY <1>1, <1>2
<1>4. PICK c \in Nat : c = q * BlockSize
  BY <1>1, <1>3
<1>5. initial_offset = c + r
  BY <1>1, <1>3, <1>4
<1>6. (q + 1) * BlockSize = c + BlockSize
  BY <1>1, <1>3, <1>4
<1>7. InitialBlock = IF r > BlockSize - (HeaderSize - 1) THEN c + BlockSize ELSE c
  BY <1>2, <1>3, <1>4, <1>5, <1>1 DEF InitialBlock
<1>8. InitialBlock \in Nat /\ InitialBlock < initial_offset + UnitSize
  BY <1>1, <1>3, <1>4, <1>5, <1>7
<1>9. \E b \in Nat : InitialBlock = b * BlockSize
  <2>1. q + 1 \in Nat
    BY <1>3
  <2>. QED
    BY <1>3, <1>4, <1>6, <1>7, <2>1
<1>10. initial_offset % BlockSize = 0 => InitialBlock = initial_offset
  BY <1>1, <1>2, <1>4, <1>5, <1>7
<1>. QED
  BY <1>8, <1>9, <1>10

(* The reader is never before the m-th, and it knows when it is behind.    *)
LEMMA FrontOfAt ==
  ASSUME NEW ks \in Seq(Kind), NEW tail \in 0..HeaderSize,
         disk = FileOf(ks, tail), NEW m, At(ks, m)
  PROVE  /\ m \in 0..Len(ks)
         /\ Front \in Nat /\ m * UnitSize \in Nat /\ m * UnitSize <= Front
<1>1. m \in 0..Len(ks) /\ m \in Nat /\ Len(ks) \in Nat /\ UnitSize \in Nat
  BY LenProperties, Sizes DEF At
<1>2. PICK b \in Nat : Buffered(ks, m, b) \/ Drained(ks, m, b)
  BY DEF At
<1>3. CASE Buffered(ks, m, b)
  BY <1>1, <1>2, <1>3, BufferedCells
<1>4. CASE Drained(ks, m, b)
  <2>1. PICK s \in Nat : s = UnitSize /\ s >= 1
    BY Sizes
  <2>2. PICK c \in Nat : c = m * s
    BY <1>1, <2>1
  <2>3. Len(disk) \in Nat /\ Len(disk) = Len(ks) * s + tail /\ tail \in Nat
    BY <2>1, FileCells, Sizes DEF Cells
  <2>4. Len(buffer) = 0
    BY <1>4 DEF Drained
  <2>5. CASE eof
    <3>1. file_pos >= Len(disk) /\ m = Len(ks) /\ file_pos \in Nat
      BY <1>4, <2>5 DEF Drained, At
    <3>. QED
      BY <1>1, <2>1, <2>2, <2>3, <2>4, <3>1 DEF Front
  <2>6. CASE ~eof
    <3>1. file_pos = b * BlockSize /\ m <= b * BlockUnits
      BY <1>4, <2>6 DEF Drained
    <3>2. PICK x \in Nat : x = b * BlockUnits
      BY Sizes
    <3>3. b * BlockSize = x * s
      <4>1. BlockSize = BlockUnits * s /\ BlockUnits \in Nat
        BY <2>1, Sizes
      <4>. QED
        BY <2>1, <3>2, <4>1
    <3>4. c <= x * s /\ x * s \in Nat
      BY <1>1, <2>1, <2>2, <3>1, <3>2, Multiples
    <3>. QED
      BY <1>1, <2>1, <2>2, <2>4, <3>1, <3>3, <3>4 DEF Front
  <2>. QED
    BY <2>5, <2>6
<1>. QED
  BY <1>2, <1>3, <1>4

(* A buffer that is cleared takes the rest of its block with it.           *)
LEMMA RestOfBlock ==
  ASSUME NEW ks \in Seq(Kind), NEW tail \in 0..HeaderSize,
         disk = FileOf(ks, tail), initial_offset \in Nat,
         NEW m \in 0..(Len(ks) - 1), NEW b \in Nat,
         At(ks, m), Buffered(ks, m, b),
         buffer' = << >>,
         UNCHANGED <<disk, initial_offset, file_pos, eof, end_of_buffer_offset>>
  PROVE  \E n \in (m + 1)..Len(ks) : n <= (b + 1) * BlockUnits /\ At(ks, n)'
<1>1. /\ Len(ks) \in Nat /\ m \in 0..Len(ks) /\ m \in Nat
      /\ Cells(disk, ks, tail)
  BY LenProperties, FileCells
<1>2. PICK s \in Nat : s = UnitSize /\ s >= 1 /\ tail < s /\ tail \in Nat
  BY Sizes
<1>3. PICK x \in Nat, y \in Nat : x = (b + 1) * BlockUnits /\ y = x * s
  BY <1>2, Sizes
<1>4. (b + 1) * BlockSize = y
  <2>1. BlockSize = BlockUnits * s /\ BlockUnits \in Nat
    BY <1>2, Sizes
  <2>. QED
    BY <1>2, <1>3, <2>1
<1>5. PICK e \in Nat : e = Len(ks) * s
  BY <1>1, <1>2
<1>6. Len(disk) = e + tail
  BY <1>1, <1>2, <1>5 DEF Cells
<1>7. m + 1 <= x /\ b * BlockUnits \in Nat
  <2>1. m + 1 \in (b * BlockUnits + 1)..x
    BY <1>3, FrontUnit
  <2>2. b * BlockUnits \in Nat
    BY Sizes
  <2>. QED
    BY <2>1, <2>2
<1>8. PICK n \in (m + 1)..Len(ks) :
        /\ n <= x
        /\ IF eof THEN n = Len(ks) /\ file_pos = Len(disk)
                  ELSE n = x /\ file_pos = y
  <2>1. CASE eof
    <3>1. file_pos = Len(disk) /\ file_pos <= y
      BY <1>4, <2>1 DEF Buffered
    <3>2. e <= y
      BY <1>2, <1>5, <1>6, <3>1
    <3>3. Len(ks) <= x
      BY <1>1, <1>2, <1>3, <1>5, <3>2, Multiples
    <3>4. Len(ks) \in (m + 1)..Len(ks)
      BY <1>1
    <3>. QED
      BY <2>1, <3>1, <3>3, <3>4
  <2>2. CASE ~eof
    <3>1. file_pos = y /\ y <= Len(disk)
      BY <1>4, <2>2 DEF Buffered
    <3>2. y < e + s
      BY <1>2, <1>3, <1>5, <1>6, <3>1
    <3>3. x <= Len(ks)
      <4>1. Len(ks) \in Nat /\ s \in Nat /\ s >= 1 /\ x \in Nat
        BY <1>1, <1>2, <1>3
      <4>2. Len(ks) < x => Len(ks) * s + s <= x * s
        BY <4>1, Multiples
      <4>3. ~(Len(ks) < x)
        BY <1>3, <1>5, <3>2, <4>2
      <4>. QED
        BY <4>1, <4>3
    <3>4. x \in (m + 1)..Len(ks) /\ x <= x
      BY <1>1, <1>3, <1>7, <3>3
    <3>. QED
      BY <2>2, <3>1, <3>4
  <2>. QED
    BY <2>1, <2>2
<1>9. n \in 0..Len(ks) /\ n \in Nat
  BY <1>1, <1>8
<1>10. file_pos \in Nat /\ end_of_buffer_offset = file_pos /\ InitialBlock <= Front
  BY DEF At
<1>11. Len(buffer) \in Nat
  BY <1>1, BufferedCells
<1>12. Drained(ks, n, b + 1)'
  <2>1. CASE eof
    <3>1. eof' /\ file_pos' = Len(disk') /\ n = Len(ks) /\ Len(disk) \in Nat
      BY <1>2, <1>5, <1>6, <1>8, <2>1
    <3>. QED
      BY <3>1, <1>6 DEF Drained
  <2>2. CASE ~eof
    <3>1. ~eof' /\ file_pos' = (b + 1) * BlockSize /\ n = (b + 1) * BlockUnits
      BY <1>3, <1>4, <1>8, <2>2
    <3>. QED
      BY <1>9, <3>1 DEF Drained
  <2>. QED
    BY <2>1, <2>2
<1>13. InitialBlock' <= Front'
  <2>1. Len(buffer') = 0
    OBVIOUS
  <2>2. InitialBlock \in Nat /\ InitialBlock' = InitialBlock
    BY InitialBlockType DEF InitialBlock
  <2>3. Front' = file_pos
    BY <1>10, <2>1 DEF Front
  <2>. QED
    BY <1>10, <1>11, <2>2, <2>3 DEF Front
<1>14. At(ks, n)'
  <2>1. b + 1 \in Nat
    OBVIOUS
  <2>. QED
    BY <1>9, <1>10, <1>12, <1>13, <2>1 DEF At
<1>. QED
  BY <1>3, <1>8, <1>14

(* Too few bytes for a header: none, but for the last ones of the file.    *)
LEMMA ShortBuffer ==
  ASSUME NEW ks \in Seq(Kind), NEW tail \in 0..HeaderSize,
         disk = FileOf(ks, tail), NEW m, At(ks, m), Len(buffer) < HeaderSize
  PROVE  /\ eof => m = Len(ks)
         /\ ~eof => /\ \E b \in Nat : Drained(ks, m, b)
                    /\ file_pos >= Len(disk) => m = Len(ks)
<1>1. /\ m \in 0..Len(ks) /\ m \in Nat /\ Len(ks) \in Nat
      /\ Cells(disk, ks, tail)
  BY LenProperties, FileCells DEF At
<1>2. PICK b \in Nat : Buffered(ks, m, b) \/ Drained(ks, m, b)
  BY DEF At
<1>3. CASE Buffered(ks, m, b)
  <2>1. m = Len(ks)
    <3>1. SUFFICES ASSUME m \in 0..(Len(ks) - 1) PROVE FALSE
      BY <1>1
    <3>2. Len(buffer) >= UnitSize /\ Len(buffer) \in Nat
      BY <1>1, <1>3, <3>1, FrontUnit, BufferedCells
    <3>. QED
      BY <3>2, Sizes
  <2>2. eof
    BY <1>3, <2>1, FrontTail
  <2>. QED
    BY <2>1, <2>2
<1>4. CASE Drained(ks, m, b)
  <2>1. CASE eof
    BY <1>4, <2>1 DEF Drained
  <2>2. CASE ~eof
    <3>1. ASSUME file_pos >= Len(disk), m # Len(ks) PROVE FALSE
      <4>1. m = b * BlockUnits /\ file_pos = b * BlockSize
        BY <1>4, <2>2, <3>1 DEF Drained
      <4>2. PICK s \in Nat : s = UnitSize /\ s >= 1 /\ tail \in Nat
        BY Sizes
      <4>3. b * BlockSize = m * s
        <5>1. BlockSize = BlockUnits * s /\ BlockUnits \in Nat
          BY <4>2, Sizes
        <5>. QED
          BY <4>1, <4>2, <5>1
      <4>4. PICK c \in Nat, e \in Nat : c = m * s /\ e = Len(ks) * s
        <5>1. m * s \in Nat
          BY <1>1, <4>2
        <5>2. Len(ks) * s \in Nat
          BY <1>1, <4>2
        <5>. QED
          BY <5>1, <5>2
      <4>5. c < e
        BY <1>1, <3>1, <4>2, <4>4, Multiples
      <4>6. Len(disk) = e + tail
        BY <1>1, <4>2, <4>4 DEF Cells
      <4>. QED
        BY <3>1, <4>1, <4>2, <4>3, <4>4, <4>5, <4>6
    <3>. QED
      BY <1>4, <2>2, <3>1
  <2>. QED
    BY <2>1, <2>2
<1>. QED
  BY <1>2, <1>3, <1>4

LEMMA WasReading ==
  ASSUME NEW ks, ReadingInv(ks), rpc = "physical"
  PROVE  /\ initial_offset \in Nat
         /\ \E m \in 0..Len(ks) : At(ks, m) /\ Returned(ks, m) /\ Collected(ks, m)
BY DEF ReadingInv, Reading

LEMMA NowReading ==
  ASSUME NEW ks, initial_offset \in Nat, UNCHANGED initial_offset,
         rpc' = "physical", NEW m \in 0..Len(ks),
         At(ks, m)', Returned(ks, m)', Collected(ks, m)'
  PROVE  ReadingInv(ks)'
<1>1. Reading(ks)'
  BY DEF Reading
<1>. QED
  BY <1>1 DEF ReadingInv, ReaderPC

LEMMA NowDispatching ==
  ASSUME NEW ks, initial_offset \in Nat, UNCHANGED initial_offset,
         rpc' = "dispatch", Dispatching(ks)'
  PROVE  ReadingInv(ks)'
BY DEF ReadingInv, ReaderPC

LEMMA NowAtEndOfFile ==
  ASSUME NEW ks, initial_offset \in Nat, UNCHANGED initial_offset,
         rpc' = "dispatch", record_type' = "eof", eof',
         file_pos' >= Len(disk') => Returned(ks, Len(ks))'
  PROVE  ReadingInv(ks)'
<1>1. Dispatching(ks)'
  BY DEF Dispatching
<1>. QED
  BY <1>1, NowDispatching

LEMMA FillBufferStep ==
  ASSUME NEW ks \in Seq(Kind), NEW tail \in 0..HeaderSize,
         disk = FileOf(ks, tail), ReadingInv(ks), FillBuffer
  PROVE  ReadingInv(ks)'
<1>1. PICK m \in 0..Len(ks) : At(ks, m) /\ Returned(ks, m) /\ Collected(ks, m)
  BY WasReading DEF FillBuffer
<1>2. /\ rpc' = "physical" /\ UNCHANGED <<disk, initial_offset>>
      /\ UNCHANGED <<localVars, resyncing, delivered, reported>>
      /\ initial_offset \in Nat
  BY WasReading DEF FillBuffer, fixedVars
<1>3. PICK b \in Nat : Drained(ks, m, b)
  BY <1>1, ShortBuffer DEF FillBuffer
<1>4. ~eof /\ buffer = << >>
  BY <1>3 DEF Drained, FillBuffer
<1>5. /\ file_pos = b * BlockSize /\ m <= b * BlockUnits
      /\ m # Len(ks) => m = b * BlockUnits
  BY <1>3, <1>4 DEF Drained
<1>6. PICK s \in Nat, x \in Nat, y \in Nat, p \in Nat, z \in Nat :
        /\ s = UnitSize /\ s >= 1 /\ tail < s /\ tail \in Nat
        /\ x = b * BlockUnits /\ y = x * s /\ p = BlockSize /\ p >= 1
        /\ z = (b + 1) * p /\ z = y + p /\ b * p = y
  <2>1. PICK s \in Nat, p \in Nat :
           s = UnitSize /\ s >= 1 /\ tail < s /\ tail \in Nat
           /\ p = BlockSize /\ p >= 1 /\ p = BlockUnits * s /\ BlockUnits \in Nat
    BY Sizes
  <2>2. PICK x \in Nat : x = b * BlockUnits
    BY <2>1
  <2>3. PICK y \in Nat : y = x * s
    BY <2>1, <2>2
  <2>4. b * p = y
    BY <2>1, <2>2, <2>3
  <2>5. (b + 1) * p = y + p
    BY <2>1, <2>4
  <2>. QED
    BY <2>1, <2>2, <2>3, <2>4, <2>5
<1>7. PICK e \in Nat, c \in Nat : e = Len(ks) * s /\ c = m * s
  <2>1. Len(ks) \in Nat /\ m \in Nat
    BY LenProperties
  <2>2. Len(ks) * s \in Nat
    BY <1>6, <2>1
  <2>3. m * s \in Nat
    BY <1>6, <2>1
  <2>. QED
    BY <2>2, <2>3
<1>8. Len(disk) = e + tail /\ Len(disk) \in Nat
  BY <1>6, <1>7, FileCells DEF Cells
<1>9. /\ file_pos = y /\ m <= x /\ m \in Nat /\ Len(ks) \in Nat
      /\ m # Len(ks) => m = x
  BY <1>5, <1>6, LenProperties
<1>10. PICK n \in Int, d \in Nat :
         /\ n = IF Len(disk) - file_pos < BlockSize THEN Len(disk) - file_pos
                                                     ELSE BlockSize
         /\ n = IF d - y < p THEN d - y ELSE p
         /\ d = Len(disk) /\ d = e + tail
  <2>1. PICK d \in Nat : d = Len(disk) /\ d = e + tail
    BY <1>8
  <2>2. y \in Nat /\ p \in Nat /\ BlockSize = p
    BY <1>6
  <2>3. (IF d - y < p THEN d - y ELSE p) \in Int
    BY <2>1, <2>2
  <2>4. PICK n \in Int : n = IF d - y < p THEN d - y ELSE p
    BY <2>3, Zenon
  <2>. QED
    BY <1>9, <2>1, <2>2, <2>4
<1>11. NextBlock = SubSeq(disk, file_pos + 1, file_pos + n)
  BY <1>10 DEF NextBlock
<1>12. PICK S : disk \in Seq(S)
  BY FileIsSeq
<1>13. /\ NextBlock \in Seq(S)
       /\ Len(NextBlock) = IF 1 <= n THEN n ELSE 0
  <2>1. CASE 1 <= n
    <3>1. \A i \in (y + 1)..(y + n) : disk[i] \in S
      <4>1. \A i \in (y + 1)..(y + n) : i \in 1..Len(disk)
        <5>1. y + n <= d
          BY <1>10
        <5>. QED
          BY <1>10, <5>1
      <4>. QED
        BY <1>12, <4>1, LenProperties
    <3>2. y + 1 \in Int /\ y + n \in Int /\ y + 1 <= y + n
          /\ (y + n) - (y + 1) + 1 = n
      BY <2>1
    <3>3. NextBlock = SubSeq(disk, y + 1, y + n)
      BY <1>9, <1>11
    <3>. QED
      <4>1. /\ SubSeq(disk, y + 1, y + n) \in Seq(S)
            /\ Len(SubSeq(disk, y + 1, y + n)) =
                 IF y + 1 <= y + n THEN (y + n) - (y + 1) + 1 ELSE 0
        BY <3>1, <3>2, SubSeqProperties
      <4>. QED
        BY <2>1, <3>2, <3>3, <4>1
  <2>2. CASE ~(1 <= n)
    <3>1. y + 1 \in Int /\ y + n \in Int /\ y + n < y + 1
      BY <2>2
    <3>2. NextBlock = SubSeq(disk, y + 1, y + n)
      BY <1>9, <1>11
    <3>3. NextBlock = << >>
      BY <3>1, <3>2, SubSeqEmpty
    <3>. QED
      BY <2>2, <3>3, EmptySeq
  <2>. QED
    BY <2>1, <2>2
<1>14. buffer' = NextBlock
  <2>1. buffer' = Zeros(0) \o NextBlock
    BY <1>4 DEF FillBuffer
  <2>2. Zeros(0) = << >>
    BY DEF Zeros
  <2>. QED
    BY <1>13, <2>1, <2>2, ConcatEmptySeq
<1>15. PICK k \in Nat : k = Len(NextBlock)
  BY <1>13, LenProperties
<1>16. /\ k = IF 1 <= n THEN n ELSE 0
       /\ file_pos' = y + k
       /\ end_of_buffer_offset' = y + k
       /\ (eof' <=> k < p)
       /\ Len(buffer') = k
  <2>1. end_of_buffer_offset = y
    BY <1>1, <1>9 DEF At
  <2>. QED
    BY <1>6, <1>9, <1>13, <1>14, <1>15, <2>1 DEF FillBuffer
<1>17. InitialBlock' <= Front'
  <2>1. InitialBlock \in Nat /\ InitialBlock' = InitialBlock
    BY <1>2, InitialBlockType DEF InitialBlock
  <2>2. InitialBlock <= y
    <3>1. Front = y
      BY <1>4, <1>9 DEF Front
    <3>. QED
      BY <1>1, <3>1 DEF At
  <2>3. Front' = y
    <3>1. file_pos' = y + k /\ Len(buffer') = k
      BY <1>16
    <3>. QED
      BY <3>1 DEF Front
  <2>. QED
    BY <2>1, <2>2, <2>3
<1>18. \E a \in Nat : (Buffered(ks, m, a) \/ Drained(ks, m, a))'
  <2>1. CASE 1 <= n
    <3>1. y < d /\ k = n /\ y + n <= d
      BY <1>10, <1>16, <2>1
    <3>2. m = x
      <4>1. SUFFICES ASSUME m = Len(ks), m < x PROVE FALSE
        <5>1. m < x \/ m = x
          BY <1>9
        <5>. QED
          BY <1>9, <5>1
      <4>2. c + s <= y
        <5>1. s >= 1 /\ y = x * s
          BY <1>6
        <5>2. m \in Nat
          BY <1>9
        <5>3. m * s + s <= x * s
          BY <4>1, <5>1, <5>2, Multiples
        <5>. QED
          BY <1>7, <5>1, <5>3
      <4>3. c = e
        BY <1>7, <4>1
      <4>. QED
        BY <1>6, <1>10, <3>1, <4>2, <4>3
    <3>3. c = y
      BY <1>6, <1>7, <3>2
    <3>4. c < file_pos' /\ file_pos' <= Len(disk')
      <4>1. file_pos' = y + n /\ Len(disk') = d
        BY <1>2, <1>10, <1>16, <3>1
      <4>. QED
        BY <2>1, <3>1, <3>3, <4>1
    <3>5. buffer' = SubSeq(disk', m * UnitSize + 1, file_pos')
      <4>1. file_pos' = file_pos + n
        BY <1>9, <1>16, <2>1
      <4>2. file_pos = m * UnitSize
        BY <1>6, <1>7, <1>9, <3>3
      <4>. QED
        BY <1>2, <1>11, <1>14, <4>1, <4>2
    <3>6. IF eof' THEN file_pos' = Len(disk') /\ file_pos' <= (b + 1) * BlockSize
                  ELSE file_pos' = (b + 1) * BlockSize
      <4>1. (b + 1) * BlockSize = z /\ z = y + p
        BY <1>6
      <4>2. /\ file_pos' = y + n /\ Len(disk') = d /\ (eof' <=> n < p)
        BY <1>2, <1>10, <1>16, <3>1
      <4>3. CASE n < p
        <5>1. n = d - y
          BY <1>10, <4>3
        <5>2. file_pos' = d /\ d <= z
          BY <4>1, <4>2, <4>3, <5>1
        <5>. QED
          BY <4>1, <4>2, <4>3, <5>2
      <4>4. CASE ~(n < p)
        <5>1. n = p
          BY <1>10, <4>4
        <5>. QED
          BY <4>1, <4>2, <4>4, <5>1
      <4>. QED
        BY <4>3, <4>4
    <3>7. \A v \in (b * BlockUnits + 1)..m : ks[v] \in Sound
      BY <1>6, <3>2
    <3>8. b * BlockUnits <= m
      BY <1>6, <3>2
    <3>9. Buffered(ks, m, b)'
      BY <1>6, <1>7, <3>4, <3>5, <3>6, <3>7, <3>8 DEF Buffered
    <3>. QED
      BY <3>9
  <2>2. CASE ~(1 <= n)
    <3>1. k = 0 /\ eof' /\ file_pos' = y /\ Len(disk) <= y
      <4>1. p >= 1
        BY <1>6
      <4>2. k = 0 /\ k < p
        BY <1>16, <2>2, <4>1
      <4>3. d <= y
        BY <1>10, <2>2, <4>1
      <4>. QED
        BY <1>10, <1>16, <4>2, <4>3
    <3>2. m = Len(ks)
      BY <1>1, <1>8, <1>9, <3>1, ShortBuffer DEF FillBuffer
    <3>3. buffer' = << >>
      BY <1>13, <1>14, <1>15, <3>1, EmptySeq
    <3>4. Drained(ks, m, b)'
      BY <1>2, <1>6, <1>8, <3>1, <3>2, <3>3 DEF Drained
    <3>. QED
      BY <3>4
  <2>. QED
    BY <2>1, <2>2
<1>19. At(ks, m)'
  <2>1. file_pos' \in Nat /\ end_of_buffer_offset' = file_pos'
    BY <1>16
  <2>. QED
    BY <1>17, <1>18, <2>1 DEF At
<1>20. Silent' => Silent
  BY <1>2 DEF Silent
<1>21. Returned(ks, m)' /\ Collected(ks, m)'
  BY <1>1, <1>2, <1>20, ReturnedUnchanged, CollectedUnchanged
<1>. QED
  BY <1>2, <1>19, <1>21, NowReading

LEMMA FillFailsStep ==
  ASSUME NEW ks \in Seq(Kind), NEW tail \in 0..HeaderSize,
         disk = FileOf(ks, tail), ReadingInv(ks), FillFails
  PROVE  ReadingInv(ks)'
<1>1. PICK m \in 0..Len(ks) : At(ks, m) /\ Returned(ks, m) /\ Collected(ks, m)
  BY WasReading DEF FillFails
<1>2. /\ UNCHANGED <<disk, initial_offset, delivered, reported, file_pos>>
      /\ rpc' \in {"crashed", "dispatch"} /\ record_type' = "eof" /\ eof' = TRUE
      /\ initial_offset \in Nat
  BY WasReading DEF FillFails, ReportThroughRecover, ReturnType, fixedVars
<1>3. CASE rpc' = "crashed"
  BY <1>2, <1>3, CrashKeeps
<1>4. CASE rpc' = "dispatch"
  <2>1. file_pos >= Len(disk) => m = Len(ks)
    BY <1>1, ShortBuffer DEF FillFails
  <2>2. Returned(ks, m)'
    <3>1. Silent' => Silent
      BY <1>2 DEF Silent
    <3>. QED
      BY <1>1, <1>2, <3>1, ReturnedUnchanged
  <2>. QED
    BY <1>2, <1>4, <2>1, <2>2, NowAtEndOfFile
<1>. QED
  BY <1>2, <1>3, <1>4

LEMMA EndOfFileStep ==
  ASSUME NEW ks \in Seq(Kind), NEW tail \in 0..HeaderSize,
         disk = FileOf(ks, tail), ReadingInv(ks), EndOfFile
  PROVE  ReadingInv(ks)'
<1>1. PICK m \in 0..Len(ks) : At(ks, m) /\ Returned(ks, m) /\ Collected(ks, m)
  BY WasReading DEF EndOfFile
<1>2. /\ UNCHANGED <<initial_offset, delivered, reported>>
      /\ rpc' = "dispatch" /\ record_type' = "eof" /\ eof'
      /\ initial_offset \in Nat
  BY WasReading DEF EndOfFile, NoReport, ReturnType, fixedVars
<1>3. m = Len(ks)
  BY <1>1, ShortBuffer DEF EndOfFile
<1>4. Returned(ks, m)'
  <2>1. Silent' => Silent
    BY <1>2 DEF Silent
  <2>. QED
    BY <1>1, <1>2, <2>1, ReturnedUnchanged
<1>. QED
  BY <1>2, <1>3, <1>4, NowAtEndOfFile

(* A header in the buffer is that of the next physical record, or all that *)
(* is left of the file.                                                    *)
LEMMA HeaderInBuffer ==
  ASSUME NEW ks \in Seq(Kind), NEW tail \in 0..HeaderSize,
         disk = FileOf(ks, tail), NEW m, At(ks, m), Len(buffer) >= HeaderSize
  PROVE  /\ m \in 0..Len(ks) /\ Len(buffer) \in Nat
         /\ \/ /\ m \in 0..(Len(ks) - 1)
               /\ \E b \in Nat : Buffered(ks, m, b)
            \/ /\ m = Len(ks) /\ eof
               /\ HeaderIntact /\ PhysicalLength = UnitSize
               /\ Len(buffer) < UnitSize
<1>1. HeaderSize \in Nat /\ HeaderSize >= 1 /\ UnitSize = HeaderSize + 1
  BY Sizes
<1>2. m \in 0..Len(ks) /\ Len(ks) \in Nat
  BY LenProperties DEF At
<1>3. PICK b \in Nat : Buffered(ks, m, b)
  <2>1. PICK b \in Nat : Buffered(ks, m, b) \/ Drained(ks, m, b)
    BY DEF At
  <2>2. ~Drained(ks, m, b)
    <3>1. SUFFICES ASSUME buffer = << >> PROVE FALSE
      BY DEF Drained
    <3>2. Len(buffer) = 0
      BY <3>1
    <3>. QED
      BY <1>1, <3>2
  <2>. QED
    BY <2>1, <2>2
<1>4. Len(buffer) \in Nat
  BY <1>2, <1>3, BufferedCells
<1>5. CASE m = Len(ks)
  <2>1. /\ eof /\ Len(buffer) = tail
        /\ \A k \in 1..tail : buffer[k] = UnitCell(Len(ks) + 1, "last", k)
    BY <1>3, <1>5, FrontTail
  <2>2. tail = HeaderSize
    BY <1>1, <2>1
  <2>3. \A k \in 1..HeaderSize :
          buffer[k] = [phys |-> PhysicalOf(Len(ks) + 1, "last"), at |-> k]
    BY <2>1, <2>2 DEF UnitCell
  <2>4. HeaderIntact /\ ~HeaderZero /\ PhysicalLength = UnitSize
    BY <2>3, IntactFront
  <2>. QED
    BY <1>1, <1>2, <1>4, <1>5, <2>1, <2>2, <2>4
<1>6. CASE m # Len(ks)
  BY <1>2, <1>3, <1>4, <1>6
<1>. QED
  BY <1>5, <1>6

(* And of what kind the physical record is, its cells tell.                *)
LEMMA KindInBuffer ==
  ASSUME NEW ks \in Seq(Kind), NEW tail \in 0..HeaderSize,
         disk = FileOf(ks, tail),
         NEW m \in 0..(Len(ks) - 1), NEW b \in Nat, Buffered(ks, m, b)
  PROVE  /\ ks[m + 1] = "zero" => HeaderZero /\ ~HeaderIntact /\ ~ChecksumOK
         /\ ks[m + 1] # "zero" =>
              HeaderIntact /\ ~HeaderZero /\ PhysicalLength = UnitSize
         /\ ks[m + 1] = "bad" => ~ChecksumOK
         /\ ks[m + 1] \in Sound =>
              ChecksumOK /\ FrontRecord = PhysicalOf(m + 1, ks[m + 1])
         /\ ks[m + 1] \in Kind
         /\ UnitSize <= Len(buffer)
<1>1. /\ Len(buffer) >= UnitSize
      /\ \A k \in 1..UnitSize : buffer[k] = UnitCell(m + 1, ks[m + 1], k)
  BY FrontUnit
<1>2. m \in 0..Len(ks) /\ m + 1 \in 1..Len(ks)
  BY LenProperties
<1>3. Len(buffer) \in Nat /\ UnitSize \in Nat
  BY <1>2, BufferedCells, Sizes
<1>4. PICK S : buffer \in Seq(S)
  BY <1>2, BufferedCells
<1>5. ks[m + 1] \in Kind
  BY <1>2, LenProperties
<1>6. CASE ks[m + 1] = "zero"
  <2>1. HeaderZero /\ ~HeaderIntact /\ ~ChecksumOK
    BY <1>1, <1>6, ZeroFront
  <2>. QED
    BY <1>1, <1>3, <1>5, <1>6, <2>1 DEF Sound
<1>7. CASE ks[m + 1] = "bad"
  <2>1. HeaderIntact /\ ~HeaderZero /\ PhysicalLength = UnitSize /\ ~ChecksumOK
    BY <1>1, <1>3, <1>4, <1>7, BadFront
  <2>. QED
    BY <1>1, <1>3, <1>5, <1>7, <2>1 DEF Sound
<1>8. CASE ks[m + 1] \in Sound
  <2>1. /\ HeaderIntact /\ ~HeaderZero /\ PhysicalLength = UnitSize
        /\ ChecksumOK /\ FrontRecord = PhysicalOf(m + 1, ks[m + 1])
    BY <1>1, <1>3, <1>4, <1>8, SoundFront
  <2>. QED
    BY <1>1, <1>3, <1>5, <1>8, <2>1 DEF Sound
<1>. QED
  BY <1>5, <1>6, <1>7, <1>8 DEF Kind

LEMMA BadRecordLengthStep ==
  ASSUME NEW ks \in Seq(Kind), NEW tail \in 0..HeaderSize,
         disk = FileOf(ks, tail), ReadingInv(ks), BadRecordLength
  PROVE  ReadingInv(ks)'
<1>1. PICK m \in 0..Len(ks) : At(ks, m) /\ Returned(ks, m) /\ Collected(ks, m)
  BY WasReading DEF BadRecordLength, HasHeader
<1>2. m = Len(ks) /\ eof
  <2>1. SUFFICES ASSUME m \in 0..(Len(ks) - 1), NEW b \in Nat, Buffered(ks, m, b)
                 PROVE  FALSE
    BY <1>1, HeaderInBuffer DEF BadRecordLength, HasHeader
  <2>2. HeaderIntact /\ PhysicalLength = UnitSize /\ UnitSize <= Len(buffer)
    BY <2>1, KindInBuffer DEF BadRecordLength
  <2>3. Len(buffer) \in Nat /\ UnitSize \in Nat
    BY <1>1, <2>1, BufferedCells, Sizes
  <2>. QED
    BY <2>2, <2>3 DEF BadRecordLength
<1>3. /\ UNCHANGED <<initial_offset, delivered, reported>>
      /\ rpc' = "dispatch" /\ record_type' = "eof" /\ eof'
      /\ initial_offset \in Nat
  BY <1>2, WasReading
  DEF BadRecordLength, HasHeader, NoReport, ReturnType, fixedVars
<1>4. Returned(ks, m)'
  <2>1. Silent' => Silent
    BY <1>3 DEF Silent
  <2>. QED
    BY <1>1, <1>3, <2>1, ReturnedUnchanged
<1>. QED
  BY <1>2, <1>3, <1>4, NowAtEndOfFile

(* The rest of the block counts as dropped for its first physical record.  *)
LEMMA DroppedWithBlock ==
  ASSUME NEW ks \in Seq(Kind), NEW tail \in 0..HeaderSize,
         disk = FileOf(ks, tail),
         NEW m \in 0..(Len(ks) - 1), NEW b \in Nat, Buffered(ks, m, b),
         NEW kind, ks[m + 1] = kind,
         NEW n \in Nat, n <= (b + 1) * BlockUnits
  PROVE  \A u \in (m + 1)..n : DroppedFor(ks, u, kind)
<1>1. m + 1 \in (b * BlockUnits + 1)..((b + 1) * BlockUnits)
  BY FrontUnit
<1>2. PICK x \in Nat : x = (b + 1) * BlockUnits
  BY Sizes
<1>3. ASSUME NEW u \in (m + 1)..n PROVE DroppedFor(ks, u, kind)
  <2>1. u \in (m + 1)..x
    <3>1. m \in Nat /\ n <= x
      BY <1>2
    <3>. QED
      BY <3>1
  <2>. QED
    BY <1>1, <1>2, <2>1, RestIsDropped
<1>. QED
  BY <1>3

LEMMA NowPassingOver ==
  ASSUME NEW ks \in Seq(Kind), initial_offset \in Nat, UNCHANGED initial_offset,
         rpc' = "dispatch", record_type' = "bad",
         NEW m \in 1..Len(ks), NEW l \in 0..(m - 1),
         At(ks, m)', Returned(ks, l)', Collected(ks, l)',
         \A u \in (l + 1)..m :
           /\ StartsAt(u) >= initial_offset => ~Readable(ks, u)
           /\ Silent' => ~Counts(ks, initial_offset, u)
  PROVE  ReadingInv(ks)'
<1>1. PassedOver(ks)'
  BY DEF PassedOver
<1>2. Dispatching(ks)'
  BY <1>1 DEF Dispatching
<1>. QED
  BY <1>2, NowDispatching

LEMMA ZeroLengthRecordStep ==
  ASSUME NEW ks \in Seq(Kind), NEW tail \in 0..HeaderSize,
         disk = FileOf(ks, tail), ReadingInv(ks), ZeroLengthRecord
  PROVE  ReadingInv(ks)'
<1>1. PICK m \in 0..Len(ks) : At(ks, m) /\ Returned(ks, m) /\ Collected(ks, m)
  BY WasReading DEF ZeroLengthRecord, HasHeader
<1>2. m \in 0..(Len(ks) - 1) /\ \E b \in Nat : Buffered(ks, m, b)
  BY <1>1, HeaderInBuffer DEF ZeroLengthRecord, HasHeader
<1>3. PICK b \in Nat : Buffered(ks, m, b)
  BY <1>2
<1>4. ks[m + 1] = "zero"
  BY <1>2, <1>3, KindInBuffer DEF ZeroLengthRecord
<1>5. /\ UNCHANGED <<disk, initial_offset, file_pos, eof, end_of_buffer_offset>>
      /\ UNCHANGED <<delivered, reported, localVars, resyncing>>
      /\ buffer' = << >> /\ rpc' = "dispatch" /\ record_type' = "bad"
      /\ initial_offset \in Nat
  BY WasReading DEF ZeroLengthRecord, HasHeader, NoReport, ReturnType, fixedVars
<1>6. PICK n \in (m + 1)..Len(ks) : n <= (b + 1) * BlockUnits /\ At(ks, n)'
  BY <1>1, <1>2, <1>3, <1>5, RestOfBlock
<1>7. \A u \in (m + 1)..n : DroppedFor(ks, u, "zero")
  <2>1. n \in Nat
    BY <1>2
  <2>. QED
    BY <1>2, <1>3, <1>4, <1>6, <2>1, DroppedWithBlock
<1>8. \A u \in (m + 1)..n :
        ~Readable(ks, u) /\ ~Counts(ks, initial_offset, u)
  BY <1>7 DEF Readable, Counts
<1>9. Returned(ks, m)' /\ Collected(ks, m)'
  <2>1. Silent' => Silent
    BY <1>5 DEF Silent
  <2>. QED
    BY <1>1, <1>5, <2>1, ReturnedUnchanged, CollectedUnchanged
<1>10. n \in 1..Len(ks) /\ m \in 0..(n - 1)
  BY LenProperties
<1>. QED
  BY <1>5, <1>6, <1>8, <1>9, <1>10, NowPassingOver

LEMMA ChecksumMismatchStep ==
  ASSUME NEW ks \in Seq(Kind), NEW tail \in 0..HeaderSize,
         disk = FileOf(ks, tail), ReadingInv(ks), ChecksumMismatch
  PROVE  ReadingInv(ks)'
<1>1. PICK m \in 0..Len(ks) : At(ks, m) /\ Returned(ks, m) /\ Collected(ks, m)
  BY WasReading DEF ChecksumMismatch, HasHeader
<1>2. m \in 0..(Len(ks) - 1) /\ \E b \in Nat : Buffered(ks, m, b)
  <2>1. SUFFICES ASSUME HeaderIntact, PhysicalLength = UnitSize,
                        Len(buffer) < UnitSize
                 PROVE  FALSE
    BY <1>1, HeaderInBuffer DEF ChecksumMismatch, HasHeader
  <2>2. UnitSize <= Len(buffer)
    BY <2>1 DEF ChecksumMismatch
  <2>3. Len(buffer) \in Nat /\ UnitSize \in Nat
    BY <1>1, HeaderInBuffer, Sizes DEF ChecksumMismatch, HasHeader
  <2>. QED
    BY <2>1, <2>2, <2>3
<1>3. PICK b \in Nat : Buffered(ks, m, b)
  BY <1>2
<1>4. ks[m + 1] = "bad"
  BY <1>2, <1>3, KindInBuffer DEF ChecksumMismatch, Kind
<1>5. /\ UNCHANGED <<disk, initial_offset, file_pos, eof, end_of_buffer_offset>>
      /\ UNCHANGED <<delivered, localVars, resyncing>>
      /\ buffer' = << >> /\ record_type' = "bad"
      /\ initial_offset \in Nat
  BY WasReading DEF ChecksumMismatch, HasHeader, ReturnType, fixedVars
<1>6. /\ rpc' = "dispatch" \/ rpc' = "crashed"
      /\ Silent' => Silent
      /\ rpc' # "crashed" => ~Silent'
  <2>1. Report(Len(buffer), "dispatch")
    BY DEF ChecksumMismatch
  <2>2. ASSUME Silent
        PROVE  end_of_buffer_offset - Len(buffer') - Len(buffer) >= initial_offset
    <3>1. InitialBlock = initial_offset
      BY <1>5, <2>2, InitialBlockType DEF Silent
    <3>2. Front >= initial_offset
      <4>1. InitialBlock <= Front
        BY <1>1 DEF At
      <4>. QED
        BY <1>1, <1>5, <3>1, <4>1, FrontOfAt
    <3>3. /\ file_pos \in Nat /\ end_of_buffer_offset = file_pos
          /\ Front = file_pos - Len(buffer)
      BY <1>1 DEF At, Front
    <3>4. Len(buffer') = 0 /\ Len(buffer) \in Nat
      BY <1>1, <1>3, <1>5, BufferedCells
    <3>. QED
      BY <3>2, <3>3, <3>4
  <2>. QED
    BY <1>5, <2>1, <2>2, ReportOutcome
<1>7. CASE rpc' = "crashed"
  BY <1>5, <1>7, CrashKeeps
<1>8. CASE rpc' = "dispatch"
  <2>1. PICK n \in (m + 1)..Len(ks) : n <= (b + 1) * BlockUnits /\ At(ks, n)'
    BY <1>1, <1>2, <1>3, <1>5, RestOfBlock
  <2>2. \A u \in (m + 1)..n : DroppedFor(ks, u, "bad")
    <3>1. n \in Nat
      BY <1>2
    <3>. QED
      BY <1>2, <1>3, <1>4, <2>1, <3>1, DroppedWithBlock
  <2>3. \A u \in (m + 1)..n : ~Readable(ks, u)
    BY <2>2 DEF Readable
  <2>4. Returned(ks, m)' /\ Collected(ks, m)'
    BY <1>1, <1>5, <1>6, ReturnedUnchanged, CollectedUnchanged
  <2>5. n \in 1..Len(ks) /\ m \in 0..(n - 1)
    BY LenProperties
  <2>6. ~Silent'
    BY <1>6, <1>8
  <2>. QED
    BY <1>5, <1>8, <2>1, <2>3, <2>4, <2>5, <2>6, NowPassingOver
<1>. QED
  BY <1>6, <1>7, <1>8

(* Behind a sound physical record comes the next one, or the next block.   *)
LEMMA AtNext ==
  ASSUME NEW ks \in Seq(Kind), NEW tail \in 0..HeaderSize,
         disk = FileOf(ks, tail), initial_offset \in Nat,
         NEW m \in 0..(Len(ks) - 1), NEW b \in Nat,
         At(ks, m), Buffered(ks, m, b), ks[m + 1] \in Sound,
         buffer' = SubSeq(buffer, UnitSize + 1, Len(buffer)),
         UNCHANGED <<disk, initial_offset, file_pos, eof, end_of_buffer_offset>>
  PROVE  At(ks, m + 1)'
<1>1. /\ Len(ks) \in Nat /\ m \in 0..Len(ks) /\ m \in Nat
      /\ Cells(disk, ks, tail) /\ m + 1 \in 0..Len(ks)
  BY LenProperties, FileCells
<1>2. PICK s \in Nat : s = UnitSize /\ s >= 1 /\ tail < s /\ tail \in Nat
  BY Sizes
<1>3. PICK c \in Nat, a \in Nat :
        c = m * s /\ a = (m + 1) * s /\ a = c + s
  <2>1. m * s \in Nat /\ (m + 1) * s = m * s + s
    BY <1>1, <1>2, Multiples
  <2>. QED
    BY <2>1
<1>4. PICK n \in Nat : n = Len(buffer)
  BY <1>1, BufferedCells
<1>5. /\ file_pos \in Nat /\ file_pos = c + n /\ Front = c /\ n >= s
      /\ end_of_buffer_offset = file_pos /\ InitialBlock <= c
  <2>1. file_pos \in Nat /\ file_pos = c + n /\ Front = c
    BY <1>1, <1>2, <1>3, <1>4, BufferedCells
  <2>2. n >= s
    BY <1>2, <1>4, FrontUnit
  <2>. QED
    BY <2>1, <2>2 DEF At
<1>6. PICK S : buffer \in Seq(S) /\ disk \in Seq(S)
  BY <1>1, BufferedCells
<1>7. Len(buffer') = n - s
  <2>1. \A i \in (s + 1)..n : buffer[i] \in S
    <3>1. \A i \in (s + 1)..n : i \in 1..Len(buffer)
      BY <1>2, <1>4
    <3>. QED
      BY <1>6, <3>1, LenProperties
  <2>2. Len(SubSeq(buffer, s + 1, n)) = IF s + 1 <= n THEN n - (s + 1) + 1 ELSE 0
    BY <2>1, SubSeqProperties
  <2>. QED
    BY <1>2, <1>4, <1>5, <2>2
<1>8. Front' = a /\ InitialBlock' <= Front'
  <2>1. Front' = a
    <3>1. a = c + s /\ file_pos' = c + n /\ Len(buffer') = n - s
      BY <1>3, <1>5, <1>7
    <3>2. Front' = file_pos' - Len(buffer')
      BY DEF Front
    <3>3. (c + n) - (n - s) = c + s
      OBVIOUS
    <3>. QED
      BY ONLY <3>1, <3>2, <3>3
  <2>2. InitialBlock \in Nat /\ InitialBlock' = InitialBlock
    BY InitialBlockType DEF InitialBlock
  <2>. QED
    BY <1>2, <1>3, <1>5, <2>1, <2>2
<1>9. \A v \in (b * BlockUnits + 1)..(m + 1) : ks[v] \in Sound
  <2>1. PICK z \in Nat : z = b * BlockUnits
    BY Sizes
  <2>2. \A v \in (z + 1)..m : ks[v] \in Sound
    BY <2>1 DEF Buffered
  <2>3. \A v \in (z + 1)..(m + 1) : v \in (z + 1)..m \/ v = m + 1
    BY <1>1, <2>1
  <2>. QED
    BY <2>1, <2>2, <2>3
<1>10. CASE n # s
  <2>1. a < file_pos /\ file_pos <= Len(disk)
    <3>1. a < file_pos
      BY <1>3, <1>5, <1>10, <1>2, <1>4
    <3>. QED
      BY <3>1 DEF Buffered
  <2>2. buffer' = SubSeq(disk, a + 1, file_pos)
    <3>1. buffer = SubSeq(disk, c + 1, file_pos)
      BY <1>2, <1>3 DEF Buffered
    <3>2. /\ c + 1 \in 1..Len(disk) /\ file_pos \in 1..Len(disk)
          /\ s + 1 \in 1..(file_pos - (c + 1) + 1)
          /\ n \in 1..(file_pos - (c + 1) + 1)
      <4>1. Len(disk) \in Nat /\ file_pos <= Len(disk)
        BY <1>6, <2>1, LenProperties
      <4>2. s + 1 <= n
        BY <1>2, <1>4, <1>5, <1>10
      <4>. QED
        BY <1>2, <1>3, <1>4, <1>5, <4>1, <4>2
    <3>3. SubSeq(SubSeq(disk, c + 1, file_pos), s + 1, n) =
            SubSeq(disk, (c + 1) + (s + 1) - 1, (c + 1) + n - 1)
      BY <1>6, <3>2, SubSeqOfSubSeq
    <3>4. (c + 1) + (s + 1) - 1 = a + 1 /\ (c + 1) + n - 1 = file_pos
      BY <1>2, <1>3, <1>4, <1>5
    <3>. QED
      BY <1>2, <1>4, <3>1, <3>3, <3>4
  <2>3. b * BlockUnits <= m + 1
    <3>1. b * BlockUnits <= m /\ b * BlockUnits \in Nat
      BY Sizes DEF Buffered
    <3>. QED
      BY <1>1, <3>1
  <2>4. IF eof THEN file_pos = Len(disk) /\ file_pos <= (b + 1) * BlockSize
               ELSE file_pos = (b + 1) * BlockSize
    BY DEF Buffered
  <2>5. Buffered(ks, m + 1, b)'
    BY <1>2, <1>3, <1>9, <2>1, <2>2, <2>3, <2>4 DEF Buffered
  <2>. QED
    BY <1>1, <1>5, <1>8, <2>5 DEF At
<1>11. CASE n = s
  <2>1. buffer' = << >>
    BY <1>2, <1>4, <1>11, SubSeqEmpty
  <2>2. file_pos = a
    BY <1>3, <1>5, <1>11
  <2>3. PICK x \in Nat, y \in Nat :
          x = (b + 1) * BlockUnits /\ y = x * s /\ y = (b + 1) * BlockSize
    <3>1. BlockSize = BlockUnits * s /\ BlockUnits \in Nat
      BY <1>2, Sizes
    <3>2. PICK x \in Nat : x = (b + 1) * BlockUnits
      BY <3>1
    <3>3. x * s \in Nat /\ x * s = (b + 1) * BlockSize
      BY <1>2, <3>1, <3>2
    <3>. QED
      BY <3>2, <3>3
  <2>4. Drained(ks, m + 1, b + 1)'
    <3>1. CASE eof
      <4>1. file_pos = Len(disk) /\ Len(disk) \in Nat
        BY <1>5, <3>1 DEF Buffered
      <4>2. m + 1 = Len(ks)
        <5>1. PICK e \in Nat : e = Len(ks) * s
          BY <1>1, <1>2
        <5>2. Len(disk) = e + tail
          BY <1>1, <1>2, <5>1 DEF Cells
        <5>3. e <= a
          BY <1>2, <2>2, <4>1, <5>1, <5>2
        <5>4. m + 1 \in Nat
          BY <1>1
        <5>5. Len(ks) <= m + 1
          BY <1>1, <1>2, <1>3, <5>1, <5>3, <5>4, Multiples
        <5>. QED
          BY <1>1, <5>5
      <4>. QED
        BY <2>1, <3>1, <4>1, <4>2 DEF Drained
    <3>2. CASE ~eof
      <4>1. file_pos = (b + 1) * BlockSize
        BY <3>2 DEF Buffered
      <4>2. m + 1 = x
        <5>1. m + 1 \in Nat /\ a = y
          BY <1>1, <2>2, <2>3, <4>1
        <5>2. PICK w \in Nat : w = m + 1
          BY <5>1
        <5>3. w * s = x * s /\ s >= 1
          BY <1>2, <1>3, <2>3, <5>1, <5>2
        <5>4. ~(w < x) /\ ~(x < w)
          <6>1. w < x => w * s < x * s
            BY <5>3, Multiples
          <6>2. x < w => x * s < w * s
            BY <5>3, Multiples
          <6>3. w * s \in Nat
            BY <5>2
          <6>. QED
            BY <5>3, <6>1, <6>2, <6>3
        <5>. QED
          BY <5>2, <5>4
      <4>. QED
        BY <1>1, <2>1, <2>3, <3>2, <4>1, <4>2 DEF Drained
    <3>. QED
      BY <3>1, <3>2
  <2>5. b + 1 \in Nat
    OBVIOUS
  <2>. QED
    BY <1>1, <1>5, <1>8, <2>4, <2>5 DEF At
<1>. QED
  BY <1>10, <1>11

LEMMA TakePhysicalRecordStep ==
  ASSUME NEW ks \in Seq(Kind), NEW tail \in 0..HeaderSize,
         disk = FileOf(ks, tail), ReadingInv(ks), TakePhysicalRecord
  PROVE  ReadingInv(ks)'
<1>1. PICK m \in 0..Len(ks) : At(ks, m) /\ Returned(ks, m) /\ Collected(ks, m)
  BY WasReading DEF TakePhysicalRecord, HasHeader
<1>2. m \in 0..(Len(ks) - 1) /\ \E b \in Nat : Buffered(ks, m, b)
  <2>1. SUFFICES ASSUME PhysicalLength = UnitSize, Len(buffer) < UnitSize
                 PROVE  FALSE
    BY <1>1, HeaderInBuffer DEF TakePhysicalRecord, HasHeader
  <2>2. UnitSize <= Len(buffer)
    BY <2>1 DEF TakePhysicalRecord, ChecksumOK
  <2>3. Len(buffer) \in Nat /\ UnitSize \in Nat
    BY <1>1, HeaderInBuffer, Sizes DEF TakePhysicalRecord, HasHeader
  <2>. QED
    BY <2>1, <2>2, <2>3
<1>3. PICK b \in Nat : Buffered(ks, m, b)
  BY <1>2
<1>4. /\ ks[m + 1] \in Sound /\ PhysicalLength = UnitSize
      /\ FrontRecord = PhysicalOf(m + 1, ks[m + 1])
  <2>1. ks[m + 1] # "zero" /\ ks[m + 1] # "bad"
    BY <1>2, <1>3, KindInBuffer DEF TakePhysicalRecord
  <2>2. ks[m + 1] \in Sound
    BY <1>2, <1>3, <2>1, KindInBuffer DEF Kind
  <2>. QED
    BY <1>2, <1>3, <2>1, <2>2, KindInBuffer
<1>5. /\ UNCHANGED <<disk, initial_offset, file_pos, eof, end_of_buffer_offset>>
      /\ UNCHANGED <<delivered, reported, localVars, resyncing>>
      /\ rpc' = "dispatch"
      /\ buffer' = SubSeq(buffer, UnitSize + 1, Len(buffer))
      /\ initial_offset \in Nat
  BY <1>4, WasReading
  DEF TakePhysicalRecord, HasHeader, NoReport, ReturnType, fixedVars
<1>6. At(ks, m + 1)'
  BY <1>1, <1>2, <1>3, <1>4, <1>5, AtNext
<1>7. Returned(ks, m)' /\ Collected(ks, m)'
  <2>1. Silent' => Silent
    BY <1>5 DEF Silent
  <2>. QED
    BY <1>1, <1>5, <2>1, ReturnedUnchanged, CollectedUnchanged
<1>8. end_of_buffer_offset - Len(buffer) = StartsAt(m + 1) /\ StartsAt(m + 1) \in Nat
  <2>1. Front = m * UnitSize
    BY <1>1, <1>3, BufferedCells
  <2>2. Front = end_of_buffer_offset - Len(buffer)
    BY <1>1 DEF At, Front
  <2>3. m \in Int /\ m >= 0 /\ m + 1 \in Int /\ m + 1 >= 1
    BY <1>2
  <2>. QED
    BY <2>1, <2>2, <2>3, StartsType
<1>9. m + 1 \in 1..Len(ks) /\ m \in Nat /\ (m + 1) - 1 = m
  BY <1>2, LenProperties
<1>10. CASE StartsAt(m + 1) < initial_offset
  <2>1. record_type' = "bad"
    BY <1>8, <1>10 DEF TakePhysicalRecord, ReturnType
  <2>2. \A u \in (m + 1)..(m + 1) :
          /\ StartsAt(u) >= initial_offset => ~Readable(ks, u)
          /\ Silent' => ~Counts(ks, initial_offset, u)
    <3>1. ~(StartsAt(m + 1) >= initial_offset)
      BY <1>5, <1>8, <1>10
    <3>2. \A u \in (m + 1)..(m + 1) : u = m + 1
      BY <1>9
    <3>. QED
      BY <3>1, <3>2 DEF Counts
  <2>3. m \in 0..((m + 1) - 1)
    BY <1>9
  <2>. QED
    BY <1>5, <1>6, <1>7, <1>9, <2>1, <2>2, <2>3, NowPassingOver
<1>11. CASE ~(StartsAt(m + 1) < initial_offset)
  <2>1. record_type' = ks[m + 1] /\ fragment' = <<m + 1>>
    <3>1. /\ record_type' = FrontRecord.type /\ fragment' = FrontRecord.data
      BY <1>8, <1>11 DEF TakePhysicalRecord, ReturnType
    <3>. QED
      BY <1>4, <3>1 DEF PhysicalOf
  <2>2. Readable(ks, m + 1)
    <3>1. m + 1 \in (b * BlockUnits + 1)..((b + 1) * BlockUnits)
      BY <1>2, <1>3, FrontUnit
    <3>2. \A v \in (b * BlockUnits + 1)..(m + 1) : ks[v] \in Sound
      <4>1. PICK z \in Nat : z = b * BlockUnits
        BY Sizes
      <4>2. \A v \in (z + 1)..m : ks[v] \in Sound
        BY <1>3, <4>1 DEF Buffered
      <4>3. \A v \in (z + 1)..(m + 1) : v \in (z + 1)..m \/ v = m + 1
        BY <1>9, <4>1
      <4>. QED
        BY <1>4, <4>1, <4>2, <4>3
    <3>. QED
      BY <3>1, <3>2, SoundIsReadable
  <2>3. StartsAt(m + 1) >= initial_offset
    BY <1>5, <1>8, <1>11
  <2>4. Took(ks)'
    BY <1>5, <1>6, <1>7, <1>9, <2>1, <2>2, <2>3 DEF Took
  <2>5. Dispatching(ks)'
    BY <1>4, <2>1, <2>4 DEF Dispatching
  <2>. QED
    BY <1>5, <2>5, NowDispatching
<1>. QED
  BY <1>10, <1>11

(***************************************************************************)
(* Open, and readLogRecord up to its loop.                                 *)
(***************************************************************************)

LEMMA NowReady ==
  ASSUME NEW ks, initial_offset' \in Nat, rpc' = "ready", Ready(ks)'
  PROVE  ReadingInv(ks)'
BY DEF ReadingInv, ReaderPC

LEMMA OpenStep ==
  ASSUME NEW ks \in Seq(Kind), NEW tail \in 0..HeaderSize,
         disk = FileOf(ks, tail), ReadingInv(ks), Open
  PROVE  ReadingInv(ks)'
<1>1. Init
  BY DEF Open, ReadingInv
<1>2. /\ initial_offset' \in Nat /\ rpc' = "ready"
      /\ file_pos' = 0 /\ buffer' = << >> /\ ~eof'
      /\ end_of_buffer_offset' = 0 /\ last_record_offset' = 0
      /\ delivered' = << >>
      /\ resyncing' => initial_offset' > 0
  BY <1>1, ReaderAssumption DEF Open, Init, inputVars
<1>3. CASE MustSkip'
  BY <1>2, <1>3, NowReady DEF Ready, Fresh
<1>4. CASE ~MustSkip'
  <2>1. initial_offset' = 0
    BY <1>2, <1>4 DEF MustSkip
  <2>2. ~resyncing'
    BY <1>2, <2>1
  <2>3. InitialBlock' <= Front' /\ Front' = 0
    <3>1. /\ BlockSize \in Nat /\ BlockSize >= UnitSize
          /\ UnitSize = HeaderSize + 1 /\ HeaderSize \in Nat /\ HeaderSize >= 1
      BY Sizes
    <3>2. PICK z : z = 0 % BlockSize
      OBVIOUS
    <3>3. z = 0
      <4>1. 0 = 0 * BlockSize + 0 /\ 0 < BlockSize /\ BlockSize >= 1
        BY <3>1
      <4>2. ((0 * BlockSize + 0) % BlockSize) = 0
        BY <3>1, <4>1, Division
      <4>. QED
        BY <3>2, <4>1, <4>2
    <3>4. InitialBlock' = 0
      BY <2>1, <3>1, <3>2, <3>3 DEF InitialBlock
    <3>5. Len(buffer') = 0
      BY <1>2
    <3>6. Front' = 0
      <4>1. Front' = file_pos' - Len(buffer') /\ file_pos' = 0
        BY <1>2 DEF Front
      <4>. QED
        BY ONLY <3>5, <4>1
    <3>. QED
      BY <3>4, <3>6
  <2>4. Drained(ks, 0, 0)'
    <3>1. 0 * BlockSize = 0 /\ 0 * BlockUnits = 0
      BY Sizes
    <3>. QED
      BY <1>2, <3>1 DEF Drained
  <2>5. 0 \in 0..Len(ks)
    BY LenProperties
  <2>6. At(ks, 0)'
    BY <1>2, <2>3, <2>4, <2>5 DEF At
  <2>7. Returned(ks, 0)'
    <3>1. RecordsUpTo(ks, 0)[0] = << >>
      BY RecordsByStep
    <3>2. \A u \in 1..0 : FALSE
      OBVIOUS
    <3>. QED
      BY <1>2, <2>1, <3>1, <3>2 DEF Returned
  <2>8. NoneUnfinished(ks, 0)'
    BY DEF NoneUnfinished
  <2>9. Ready(ks)'
    BY <1>4, <2>2, <2>5, <2>6, <2>7, <2>8 DEF Ready
  <2>. QED
    BY <1>2, <2>9, NowReady
<1>. QED
  BY <1>3, <1>4

(* The skip leads past physical records that start before the offset.      *)
LEMMA SkippedStarts ==
  ASSUME initial_offset \in Nat,
         NEW b \in Nat, InitialBlock = b * BlockSize,
         NEW u \in 1..(b * BlockUnits)
  PROVE  StartsAt(u) \in Nat /\ StartsAt(u) < initial_offset
<1>1. PICK s \in Nat, x \in Nat :
        s = UnitSize /\ s >= 1 /\ x = b * BlockUnits
  BY Sizes
<1>2. b * BlockSize = x * s
  <2>1. BlockSize = BlockUnits * s /\ BlockUnits \in Nat
    BY <1>1, Sizes
  <2>. QED
    BY <1>1, <2>1
<1>3. PICK v \in Nat : v = u - 1
  BY <1>1
<1>4. v < x /\ u \in 1..x
  BY <1>1, <1>3
<1>5. PICK y \in Nat, w \in Nat : y = x * s /\ w = v * s
  <2>1. x * s \in Nat
    BY <1>1
  <2>2. v * s \in Nat
    BY <1>1
  <2>. QED
    BY <2>1, <2>2
<1>6. w + s <= y
  BY <1>1, <1>4, <1>5, Multiples
<1>7. y < initial_offset + s
  BY <1>1, <1>2, <1>5, InitialBlockType
<1>8. StartsAt(u) = w
  BY <1>1, <1>3, <1>5 DEF StartsAt
<1>. QED
  BY <1>1, <1>5, <1>6, <1>7, <1>8

LEMMA ReadLogRecordStep ==
  ASSUME NEW ks \in Seq(Kind), NEW tail \in 0..HeaderSize,
         disk = FileOf(ks, tail), ReadingInv(ks), ReadLogRecord
  PROVE  ReadingInv(ks)'
<1>1. /\ initial_offset \in Nat /\ Ready(ks)
      /\ UNCHANGED <<disk, initial_offset, buffer, eof, resyncing>>
      /\ UNCHANGED <<delivered, reported>>
      /\ in_fragmented_record' = FALSE /\ rpc' = "physical"
  BY DEF ReadLogRecord, ReadingInv, fixedVars
<1>2. Silent' => Silent
  BY <1>1 DEF Silent
<1>3. CASE ~MustSkip
  <2>1. PICK m \in 0..Len(ks) :
          At(ks, m) /\ Returned(ks, m) /\ NoneUnfinished(ks, m) /\ ~resyncing
    BY <1>1, <1>3 DEF Ready
  <2>2. UNCHANGED <<file_pos, end_of_buffer_offset>>
    BY <1>3 DEF ReadLogRecord
  <2>3. At(ks, m)'
    BY <1>1, <2>1, <2>2, AtUnchanged DEF inputVars
  <2>4. Returned(ks, m)'
    BY <1>1, <1>2, <2>1, ReturnedUnchanged
  <2>5. Collected(ks, m)'
    BY <1>1, <2>1 DEF Collected, NoneUnfinished
  <2>. QED
    BY <1>1, <2>3, <2>4, <2>5, NowReading
<1>4. CASE MustSkip
  <2>1. Fresh
    BY <1>1, <1>4 DEF Ready
  <2>2. PICK b \in Nat : InitialBlock = b * BlockSize
    BY <1>1, InitialBlockType
  <2>3. /\ InitialBlock \in Nat /\ InitialBlock' = InitialBlock
        /\ Len(ks) \in Nat
    BY <1>1, InitialBlockType, LenProperties DEF InitialBlock
  <2>4. file_pos' = InitialBlock /\ end_of_buffer_offset' = InitialBlock
    BY <1>4, <2>1, <2>3 DEF ReadLogRecord, Fresh
  <2>5. PICK x \in Nat : x = b * BlockUnits
    BY Sizes
  <2>6. PICK m \in 0..Len(ks) : m <= x /\ (m # Len(ks) => m = x)
    <3>1. CASE x <= Len(ks)
      BY <2>3, <3>1
    <3>2. CASE ~(x <= Len(ks))
      <4>1. Len(ks) \in 0..Len(ks) /\ Len(ks) <= x
        BY <2>3, <3>2
      <4>. QED
        BY <4>1
    <3>. QED
      BY <3>1, <3>2
  <2>7. At(ks, m)'
    <3>1. buffer' = << >> /\ ~eof'
      BY <1>1, <2>1 DEF Fresh
    <3>2. Drained(ks, m, b)'
      BY <2>2, <2>4, <2>5, <2>6, <3>1 DEF Drained
    <3>3. InitialBlock' <= Front'
      <4>1. Len(buffer') = 0
        BY <3>1
      <4>2. Front' = InitialBlock
        BY <2>3, <2>4, <4>1 DEF Front
      <4>. QED
        BY <2>3, <4>2
    <3>. QED
      BY <2>3, <2>4, <3>2, <3>3 DEF At
  <2>8. ASSUME NEW u \in 1..m PROVE ~(StartsAt(u) >= initial_offset)
    <3>1. u \in 1..(b * BlockUnits)
      BY <2>3, <2>5, <2>6
    <3>2. StartsAt(u) \in Nat /\ StartsAt(u) < initial_offset
      BY <1>1, <2>2, <3>1, SkippedStarts
    <3>. QED
      BY <1>1, <3>2
  <2>9. Returned(ks, m)'
    <3>1. RecordsUpTo(ks, initial_offset)[m] = << >>
      <4>1. 0 \in 0..m /\ 0 + 1 = 1
        BY <2>3
      <4>2. \A u \in (0 + 1)..m :
              StartsAt(u) >= initial_offset => ~Readable(ks, u)
        BY <2>8
      <4>3. RecordsUpTo(ks, initial_offset)[m] = RecordsUpTo(ks, initial_offset)[0]
        BY <1>1, <4>1, <4>2, PassingOver
      <4>. QED
        BY <1>1, <4>3, RecordsByStep
    <3>2. delivered' = << >>
      BY <1>1, <2>1 DEF Fresh
    <3>3. \A u \in 1..m : ~Counts(ks, initial_offset, u)
      BY <2>8 DEF Counts
    <3>. QED
      BY <1>1, <3>1, <3>2, <3>3 DEF Returned
  <2>10. Collected(ks, m)'
    <3>1. \A f \in 1..m : ~Unfinished(ks, initial_offset, f, m)
      BY <2>8 DEF Unfinished
    <3>2. resyncing' => initial_offset > 0
      BY <1>1, <2>1 DEF Fresh
    <3>. QED
      BY <1>1, <2>8, <3>1, <3>2 DEF Collected, NoneUnfinished
  <2>. QED
    BY <1>1, <2>7, <2>9, <2>10, NowReading
<1>. QED
  BY <1>3, <1>4

LEMMA SkipFailsStep ==
  ASSUME NEW ks \in Seq(Kind), NEW tail \in 0..HeaderSize,
         disk = FileOf(ks, tail), ReadingInv(ks), SkipFails
  PROVE  ReadingInv(ks)'
<1>1. /\ initial_offset \in Nat /\ Fresh
      /\ UNCHANGED <<initial_offset, file_pos, eof>>
      /\ rpc' \in {"crashed", "end"}
  BY DEF SkipFails, ReadingInv, Ready, ReportThroughRecover, fixedVars
<1>2. ~ReadToTheEnd'
  <2>1. InitialBlock' = InitialBlock /\ InitialBlock > 0 /\ InitialBlock \in Nat
    BY <1>1, InitialBlockType DEF InitialBlock, SkipFails
  <2>2. file_pos' = 0 /\ ~eof'
    BY <1>1 DEF Fresh
  <2>. QED
    BY <2>1, <2>2 DEF ReadToTheEnd
<1>. QED
  BY <1>1, <1>2 DEF ReadingInv, ReaderPC

(***************************************************************************)
(* The steps of readLogRecord's loop.                                      *)
(***************************************************************************)

LEMMA WasDispatching ==
  ASSUME NEW ks, ReadingInv(ks), rpc = "dispatch"
  PROVE  initial_offset \in Nat /\ Dispatching(ks)
BY DEF ReadingInv

LEMMA WasTaken ==
  ASSUME NEW ks, ReadingInv(ks), rpc = "dispatch", record_type \in Sound
  PROVE  Took(ks)
<1>1. record_type # "bad" /\ record_type # "eof"
  BY DEF Sound
<1>. QED
  BY <1>1, WasDispatching DEF Dispatching

(* What the caller gets holds what it had, and the new record.             *)
LEMMA HoldsMore ==
  ASSUME NEW g \in Seq(Seq(Nat)), NEW r \in Seq(Nat), NEW u
  PROVE  /\ Holds(g, u) => Holds(Append(g, r), u)
         /\ (\E k \in DOMAIN r : r[k] = u) => Holds(Append(g, r), u)
<1>1. /\ Len(g) \in Nat /\ DOMAIN g = 1..Len(g)
      /\ DOMAIN Append(g, r) = 1..(Len(g) + 1)
      /\ \A x \in 1..Len(g) : Append(g, r)[x] = g[x]
      /\ Append(g, r)[Len(g) + 1] = r
  BY AppendProperties, LenProperties
<1>2. ASSUME Holds(g, u) PROVE Holds(Append(g, r), u)
  <2>1. PICK x \in 1..Len(g) : \E k \in DOMAIN g[x] : g[x][k] = u
    BY <1>1, <1>2 DEF Holds
  <2>2. x \in DOMAIN Append(g, r) /\ Append(g, r)[x] = g[x]
    BY <1>1
  <2>. QED
    BY <2>1, <2>2 DEF Holds
<1>3. ASSUME \E k \in DOMAIN r : r[k] = u PROVE Holds(Append(g, r), u)
  <2>1. Len(g) + 1 \in DOMAIN Append(g, r)
    BY <1>1
  <2>. QED
    BY <1>1, <1>3, <2>1 DEF Holds
<1>. QED
  BY <1>2, <1>3

(* What was collected of a record starts at or behind the offset: its loss *)
(* is due for a report.                                                    *)
LEMMA LossIsDue ==
  ASSUME NEW ks \in Seq(Kind), NEW tail \in 0..HeaderSize,
         disk = FileOf(ks, tail), initial_offset \in Nat,
         NEW m \in 1..Len(ks), At(ks, m), NEW l \in 0..(m - 1),
         NEW f \in 1..l, Unfinished(ks, initial_offset, f, l),
         scratch = Run(f, l), UNCHANGED buffer
  PROVE  /\ end_of_buffer_offset - Len(buffer') - Len(scratch) >= initial_offset
         /\ scratch # << >>
<1>1. l \in Nat /\ m \in Nat /\ f \in Nat /\ f <= l /\ l < m
  BY LenProperties
<1>2. PICK n \in Nat : n = l - f + 1
  BY <1>1
<1>3. Len(scratch) = n /\ n >= 1
  <2>1. Len(Run(f, l)) = l - f + 1
    BY <1>1, RunType
  <2>2. n >= 1
    BY <1>1, <1>2
  <2>. QED
    BY <1>2, <2>1, <2>2
<1>4. scratch # << >>
  BY <1>3
<1>5. PICK s \in Nat, e \in Nat, d \in Nat, w \in Nat :
        s = UnitSize /\ s = 1 + w /\ e = f - 1 /\ d = m - e /\ n <= d
  <2>1. PICK s \in Nat, w \in Nat : s = UnitSize /\ s = 1 + w
    <3>1. UnitSize \in Nat /\ UnitSize >= 1
      BY Sizes
    <3>2. UnitSize - 1 \in Nat /\ UnitSize = 1 + (UnitSize - 1)
      BY <3>1
    <3>. QED
      BY <3>1, <3>2
  <2>2. PICK e \in Nat, d \in Nat : e = f - 1 /\ d = m - e /\ n <= d
    <3>1. f - 1 \in Nat /\ m - (f - 1) \in Nat /\ n <= m - (f - 1)
      BY <1>1, <1>2
    <3>. QED
      BY <3>1
  <2>. QED
    BY <2>1, <2>2
<1>6. PICK a \in Nat, g \in Nat : a = e * s /\ g = d * w
  <2>1. e * s \in Nat
    OBVIOUS
  <2>2. d * w \in Nat
    OBVIOUS
  <2>. QED
    BY <2>1, <2>2
<1>7. m * UnitSize = a + d + g
  <2>1. m = e + d
    BY <1>1, <1>5
  <2>2. m * s = e * s + d * s
    BY <2>1
  <2>3. d * s = d + d * w
    BY <1>5
  <2>. QED
    BY <1>5, <1>6, <2>2, <2>3
<1>8. StartsAt(f) = a /\ a >= initial_offset
  <2>1. StartsAt(f) = a
    BY <1>5, <1>6 DEF StartsAt
  <2>. QED
    BY <2>1 DEF Unfinished
<1>9. Front \in Nat /\ a + d + g <= Front
  BY <1>7, FrontOfAt
<1>10. end_of_buffer_offset - Len(buffer') = Front
  BY DEF At, Front
<1>11. n <= d
  BY <1>5
<1>12. Front - n >= initial_offset
  BY <1>8, <1>9, <1>11
<1>. QED
  BY <1>3, <1>4, <1>10, <1>12

(* The physical record just taken starts there, if not behind it.          *)
LEMMA TakenOffset ==
  ASSUME NEW ks \in Seq(Kind), NEW tail \in 0..HeaderSize,
         disk = FileOf(ks, tail), initial_offset \in Nat,
         NEW m \in 1..Len(ks), At(ks, m), StartsAt(m) >= initial_offset,
         fragment = <<m>>
  PROVE  /\ PhysicalRecordOffset \in Nat
         /\ PhysicalRecordOffset >= initial_offset
         /\ Len(fragment) = 1
         /\ Front - 1 >= initial_offset
<1>1. /\ UnitSize \in Nat /\ UnitSize = HeaderSize + 1 /\ UnitSize >= 1
      /\ HeaderSize \in Nat
  BY Sizes
<1>2. PICK e \in Nat : e = m - 1
  BY LenProperties
<1>3. PICK a \in Nat : a = e * UnitSize
  BY <1>1
<1>4. m * UnitSize = a + UnitSize
  BY <1>1, <1>2, <1>3
<1>5. StartsAt(m) = a /\ a >= initial_offset
  BY <1>2, <1>3 DEF StartsAt
<1>6. Front \in Nat /\ a + UnitSize <= Front
  BY <1>4, FrontOfAt
<1>7. Len(fragment) = 1
  OBVIOUS
<1>8. PhysicalRecordOffset = Front - HeaderSize - 1
  BY <1>7 DEF PhysicalRecordOffset, At, Front
<1>. QED
  BY <1>1, <1>5, <1>6, <1>7, <1>8

LEMMA NowReturned ==
  ASSUME NEW ks, NEW m, UNCHANGED initial_offset,
         delivered' = RecordsUpTo(ks, initial_offset)[m],
         Silent' =>
           \A u \in 1..m : Counts(ks, initial_offset, u) =>
             \/ Holds(delivered', u)
             \/ \E f \in 1..u : Unfinished(ks, initial_offset, f, m)
  PROVE  Returned(ks, m)'
BY DEF Returned

LEMMA NowCollected ==
  ASSUME NEW ks, NEW m, UNCHANGED initial_offset, ~resyncing',
         ~in_fragmented_record',
         \A f \in 1..m : ~Unfinished(ks, initial_offset, f, m)
  PROVE  Collected(ks, m)'
BY DEF Collected, NoneUnfinished

LEMMA NowCollecting ==
  ASSUME NEW ks, NEW m, initial_offset \in Nat, UNCHANGED initial_offset,
         ~resyncing', in_fragmented_record',
         NEW f \in 1..m, Unfinished(ks, initial_offset, f, m),
         scratch' = Run(f, m), prospective_record_offset' \in Nat,
         prospective_record_offset' >= initial_offset
  PROVE  Collected(ks, m)'
BY DEF Collected

LEMMA SkipTailStep ==
  ASSUME NEW ks \in Seq(Kind), NEW tail \in 0..HeaderSize,
         disk = FileOf(ks, tail), ReadingInv(ks), SkipTail
  PROVE  ReadingInv(ks)'
<1>1. /\ initial_offset \in Nat /\ Took(ks) /\ resyncing
      /\ record_type \in {"middle", "last"}
      /\ UNCHANGED <<disk, initial_offset, inputVars, localVars, delivered>>
      /\ reported' = reported /\ rpc' = "physical"
      /\ resyncing' = (record_type = "middle")
  BY WasDispatching, WasTaken DEF SkipTail, Skipped, Sound, NoReport, fixedVars
<1>2. PICK m \in 1..Len(ks) :
        /\ At(ks, m) /\ Returned(ks, m - 1) /\ Collected(ks, m - 1)
        /\ record_type = ks[m]
  BY <1>1 DEF Took
<1>3. /\ initial_offset > 0 /\ ~in_fragmented_record
      /\ NoneUnfinished(ks, m - 1)
      /\ \A v \in 1..(m - 1) : StartsAt(v) >= initial_offset => ks[v] = "middle"
  BY <1>1, <1>2 DEF Collected
<1>4. /\ RecordsUpTo(ks, initial_offset)[m] = RecordsUpTo(ks, initial_offset)[m - 1]
      /\ \A f \in 1..m : ~Unfinished(ks, initial_offset, f, m)
      /\ Orphan(ks, initial_offset, m)
  <2>1. ks[m] \in {"middle", "last"}
    BY <1>1, <1>2
  <2>. QED
    BY <1>1, <1>3, <2>1, OrphanAddsNothing
<1>5. m \in 0..Len(ks) /\ \A u \in 1..m : u \in 1..(m - 1) \/ u = m
  BY LenProperties
<1>6. At(ks, m)'
  BY <1>1, <1>2, AtUnchanged
<1>7. Returned(ks, m)'
  <2>1. delivered' = RecordsUpTo(ks, initial_offset)[m]
    BY <1>1, <1>2, <1>4 DEF Returned
  <2>2. ASSUME Silent', NEW u \in 1..m, Counts(ks, initial_offset, u)
        PROVE  Holds(delivered', u)
    <3>1. u \in 1..(m - 1)
      BY <1>4, <1>5, <2>2 DEF Counts
    <3>2. Silent
      BY <1>1, <2>2 DEF Silent
    <3>3. \/ Holds(delivered, u)
          \/ \E f \in 1..u : Unfinished(ks, initial_offset, f, m - 1)
      BY <1>2, <2>2, <3>1, <3>2 DEF Returned
    <3>4. \A f \in 1..u : f \in 1..(m - 1)
      BY <3>1
    <3>. QED
      BY <1>1, <1>3, <3>3, <3>4 DEF NoneUnfinished
  <2>. QED
    BY <1>1, <2>1, <2>2, NowReturned
<1>8. Collected(ks, m)'
  <2>1. NoneUnfinished(ks, m)' /\ ~in_fragmented_record'
    BY <1>1, <1>3, <1>4 DEF NoneUnfinished, localVars
  <2>2. resyncing' => \A v \in 1..m : StartsAt(v) >= initial_offset => ks[v] = "middle"
    BY <1>1, <1>2, <1>3, <1>5
  <2>. QED
    BY <1>1, <1>3, <2>1, <2>2 DEF Collected
<1>. QED
  BY <1>1, <1>5, <1>6, <1>7, <1>8, NowReading

(* What was counted before the m-th physical record is still held, or was  *)
(* collected when it came.                                                 *)
LEMMA HeldOrCollected ==
  ASSUME NEW ks \in Seq(Kind), NEW l \in Nat, l <= Len(ks),
         initial_offset \in Nat,
         Returned(ks, l), Collected(ks, l), Silent,
         NEW u \in 1..l, Counts(ks, initial_offset, u)
  PROVE  \/ Holds(delivered, u)
         \/ in_fragmented_record
            /\ \E f \in 1..u : Unfinished(ks, initial_offset, f, l)
<1>1. \/ Holds(delivered, u)
      \/ \E f \in 1..u : Unfinished(ks, initial_offset, f, l)
  BY DEF Returned
<1>2. \A f \in 1..u : f \in 1..l
  OBVIOUS
<1>. QED
  BY <1>1, <1>2 DEF Collected, NoneUnfinished

(* A record that is being collected is abandoned, and its bytes reported.  *)
LEMMA Abandoned ==
  ASSUME NEW ks \in Seq(Kind), NEW tail \in 0..HeaderSize,
         disk = FileOf(ks, tail), initial_offset \in Nat,
         NEW m \in 1..Len(ks), At(ks, m), NEW l \in 0..(m - 1),
         Collected(ks, l), UNCHANGED <<initial_offset, buffer>>, NEW next,
         in_fragmented_record, Report(Len(scratch), next)
  PROVE  rpc' = "crashed" \/ (rpc' = next /\ ~Silent')
<1>1. PICK f \in 1..l :
        Unfinished(ks, initial_offset, f, l) /\ scratch = Run(f, l)
  BY DEF Collected
<1>2. end_of_buffer_offset - Len(buffer') - Len(scratch) >= initial_offset
  BY <1>1, LossIsDue
<1>. QED
  BY <1>2, ReportOutcome

(* FullRecord and FirstFragment abandon it when something was collected,   *)
(* which is always so.                                                     *)
LEMMA PartialAbandoned ==
  ASSUME NEW ks \in Seq(Kind), NEW tail \in 0..HeaderSize,
         disk = FileOf(ks, tail), initial_offset \in Nat,
         NEW m \in 1..Len(ks), At(ks, m), Collected(ks, m - 1),
         UNCHANGED <<initial_offset, buffer>>, NEW next,
         IF PartialRecord THEN Report(Len(scratch), next) ELSE NoReport(next)
  PROVE  /\ rpc' = "crashed" \/ rpc' = next
         /\ Silent' => Silent
         /\ rpc' # "crashed" /\ Silent' => ~in_fragmented_record
<1>1. m - 1 \in 0..(m - 1)
  BY LenProperties
<1>2. CASE in_fragmented_record
  <2>1. PICK f \in 1..(m - 1) :
          Unfinished(ks, initial_offset, f, m - 1) /\ scratch = Run(f, m - 1)
    BY <1>2 DEF Collected
  <2>2. scratch # << >>
    BY <1>1, <2>1, LossIsDue
  <2>3. Report(Len(scratch), next)
    BY <1>2, <2>2 DEF PartialRecord
  <2>4. rpc' = "crashed" \/ (rpc' = next /\ ~Silent')
    BY <1>1, <1>2, <2>3, Abandoned
  <2>5. Silent' => Silent
    BY <2>3, ReportOutcome
  <2>. QED
    BY <2>4, <2>5
<1>3. CASE ~in_fragmented_record
  <2>1. NoReport(next)
    BY <1>3 DEF PartialRecord
  <2>. QED
    BY <1>3, <2>1, NoReportOutcome
<1>. QED
  BY <1>2, <1>3

LEMMA FullRecordStep ==
  ASSUME NEW ks \in Seq(Kind), NEW tail \in 0..HeaderSize,
         disk = FileOf(ks, tail), ReadingInv(ks), FullRecord
  PROVE  ReadingInv(ks)'
<1>1. /\ initial_offset \in Nat /\ Took(ks) /\ record_type = "full"
      /\ UNCHANGED <<disk, initial_offset, inputVars, buffer>>
      /\ resyncing' = FALSE
  BY WasDispatching, WasTaken
  DEF FullRecord, Dispatch, Sound, fixedVars, inputVars
<1>2. PICK m \in 1..Len(ks) :
        /\ At(ks, m) /\ Returned(ks, m - 1) /\ Collected(ks, m - 1)
        /\ ks[m] = "full" /\ fragment = <<m>>
        /\ Readable(ks, m) /\ StartsAt(m) >= initial_offset
  BY <1>1 DEF Took
<1>3. /\ rpc' = "crashed" \/ rpc' = "ready"
      /\ Silent' => Silent
      /\ rpc' # "crashed" /\ Silent' => ~in_fragmented_record
  <2>1. IF PartialRecord THEN Report(Len(scratch), "ready") ELSE NoReport("ready")
    BY DEF FullRecord
  <2>. QED
    BY <1>1, <1>2, <2>1, PartialAbandoned
<1>4. CASE rpc' = "crashed"
  BY <1>1, <1>4, CrashKeeps
<1>5. CASE rpc' = "ready"
  <2>1. /\ RecordsUpTo(ks, initial_offset)[m] =
             Append(RecordsUpTo(ks, initial_offset)[m - 1], <<m>>)
        /\ \A f \in 1..m : ~Unfinished(ks, initial_offset, f, m)
    BY <1>1, <1>2, FullEnds
  <2>2. /\ m \in 0..Len(ks) /\ m \in Nat /\ m - 1 \in Nat /\ m - 1 \in 0..Len(ks)
        /\ m - 1 <= Len(ks)
        /\ \A u \in 1..m : u \in 1..(m - 1) \/ u = m
    BY LenProperties
  <2>3. /\ delivered' = Append(delivered, <<m>>)
        /\ last_record_offset' = PhysicalRecordOffset
    <3>1. Deliver(fragment, PhysicalRecordOffset)
      BY <1>5 DEF FullRecord
    <3>. QED
      BY <1>2, <3>1 DEF Deliver
  <2>4. PICK g \in Seq(Seq(Nat)) :
          g = delivered /\ g = RecordsUpTo(ks, initial_offset)[m - 1]
    <3>1. delivered = RecordsUpTo(ks, initial_offset)[m - 1]
      BY <1>2 DEF Returned
    <3>2. RecordsUpTo(ks, initial_offset)[m - 1] \in Seq(Seq(Nat))
      BY <1>1, <2>2, RecordsByStep
    <3>. QED
      BY <3>1, <3>2
  <2>5. At(ks, m)'
    BY <1>1, <1>2, AtUnchanged
  <2>6. ASSUME Silent', NEW u \in 1..m, Counts(ks, initial_offset, u)
        PROVE  Holds(delivered', u)
    <3>1. <<m>> \in Seq(Nat) /\ 1 \in DOMAIN <<m>> /\ <<m>>[1] = m
      BY <2>2
    <3>2. CASE u \in 1..(m - 1)
      <4>1. Silent /\ ~in_fragmented_record
        BY <1>3, <1>5, <2>6
      <4>2. Holds(delivered, u)
        BY <1>1, <1>2, <2>2, <2>6, <3>2, <4>1, HeldOrCollected
      <4>. QED
        BY <2>3, <2>4, <3>1, <4>2, HoldsMore
    <3>3. CASE u = m
      <4>1. \E k \in DOMAIN <<m>> : <<m>>[k] = u
        BY <3>1, <3>3
      <4>. QED
        BY <2>3, <2>4, <3>1, <4>1, HoldsMore
    <3>. QED
      BY <2>2, <3>2, <3>3
  <2>7. Returned(ks, m)'
    BY <1>1, <2>1, <2>3, <2>4, <2>6, NowReturned
  <2>8. ~MustSkip'
    <3>1. PhysicalRecordOffset \in Nat /\ PhysicalRecordOffset >= initial_offset
      BY <1>1, <1>2, TakenOffset
    <3>. QED
      BY <1>1, <2>3, <3>1 DEF MustSkip
  <2>9. Ready(ks)'
    BY <1>1, <2>1, <2>2, <2>5, <2>7, <2>8 DEF Ready, NoneUnfinished
  <2>. QED
    BY <1>1, <1>5, <2>9, NowReady
<1>. QED
  BY <1>3, <1>4, <1>5

LEMMA FirstFragmentStep ==
  ASSUME NEW ks \in Seq(Kind), NEW tail \in 0..HeaderSize,
         disk = FileOf(ks, tail), ReadingInv(ks), FirstFragment
  PROVE  ReadingInv(ks)'
<1>1. /\ initial_offset \in Nat /\ Took(ks) /\ record_type = "first"
      /\ UNCHANGED <<disk, initial_offset, inputVars, buffer, delivered>>
      /\ resyncing' = FALSE /\ in_fragmented_record' = TRUE
      /\ scratch' = fragment
      /\ prospective_record_offset' = PhysicalRecordOffset
  BY WasDispatching, WasTaken
  DEF FirstFragment, Dispatch, Sound, fixedVars, inputVars
<1>2. PICK m \in 1..Len(ks) :
        /\ At(ks, m) /\ Returned(ks, m - 1) /\ Collected(ks, m - 1)
        /\ ks[m] = "first" /\ fragment = <<m>>
        /\ Readable(ks, m) /\ StartsAt(m) >= initial_offset
  BY <1>1 DEF Took
<1>3. /\ rpc' = "crashed" \/ rpc' = "physical"
      /\ Silent' => Silent
      /\ rpc' # "crashed" /\ Silent' => ~in_fragmented_record
  <2>1. IF PartialRecord THEN Report(Len(scratch), "physical")
                         ELSE NoReport("physical")
    BY DEF FirstFragment
  <2>. QED
    BY <1>1, <1>2, <2>1, PartialAbandoned
<1>4. CASE rpc' = "crashed"
  BY <1>1, <1>4, CrashKeeps
<1>5. CASE rpc' = "physical"
  <2>1. /\ RecordsUpTo(ks, initial_offset)[m] =
             RecordsUpTo(ks, initial_offset)[m - 1]
        /\ Unfinished(ks, initial_offset, m, m)
        /\ Run(m, m) = <<m>>
    BY <1>1, <1>2, FirstBegins
  <2>2. /\ m \in 0..Len(ks) /\ m \in 1..m /\ m - 1 \in Nat /\ m - 1 <= Len(ks)
        /\ \A u \in 1..m : u \in 1..(m - 1) \/ u = m
    BY LenProperties
  <2>3. At(ks, m)'
    BY <1>1, <1>2, AtUnchanged
  <2>4. ASSUME Silent', NEW u \in 1..m, Counts(ks, initial_offset, u)
        PROVE  \/ Holds(delivered', u)
               \/ \E f \in 1..u : Unfinished(ks, initial_offset, f, m)
    <3>1. CASE u \in 1..(m - 1)
      <4>1. Silent /\ ~in_fragmented_record
        BY <1>3, <1>5, <2>4
      <4>2. Holds(delivered, u)
        BY <1>1, <1>2, <2>2, <2>4, <3>1, <4>1, HeldOrCollected
      <4>. QED
        BY <1>1, <4>2
    <3>2. CASE u = m
      BY <2>1, <2>2, <3>2
    <3>. QED
      BY <2>2, <3>1, <3>2
  <2>5. Returned(ks, m)'
    <3>1. delivered' = RecordsUpTo(ks, initial_offset)[m]
      BY <1>1, <1>2, <2>1 DEF Returned
    <3>. QED
      BY <1>1, <2>4, <3>1, NowReturned
  <2>6. Collected(ks, m)'
    <3>1. /\ prospective_record_offset' \in Nat
          /\ prospective_record_offset' >= initial_offset
      BY <1>1, <1>2, TakenOffset
    <3>2. scratch' = Run(m, m)
      BY <1>1, <1>2, <2>1
    <3>. QED
      BY <1>1, <2>1, <2>2, <3>1, <3>2, NowCollecting
  <2>. QED
    BY <1>1, <1>5, <2>2, <2>3, <2>5, <2>6, NowReading
<1>. QED
  BY <1>3, <1>4, <1>5

LEMMA MiddleFragmentStep ==
  ASSUME NEW ks \in Seq(Kind), NEW tail \in 0..HeaderSize,
         disk = FileOf(ks, tail), ReadingInv(ks), MiddleFragment
  PROVE  ReadingInv(ks)'
<1>1. /\ initial_offset \in Nat /\ Took(ks) /\ record_type = "middle"
      /\ UNCHANGED <<disk, initial_offset, inputVars, delivered, reported>>
      /\ UNCHANGED <<in_fragmented_record, prospective_record_offset>>
      /\ resyncing' = FALSE /\ in_fragmented_record
      /\ scratch' = scratch \o fragment /\ rpc' = "physical"
  BY WasDispatching, WasTaken
  DEF MiddleFragment, Dispatch, Sound, fixedVars, NoReport
<1>2. PICK m \in 1..Len(ks) :
        /\ At(ks, m) /\ Returned(ks, m - 1) /\ Collected(ks, m - 1)
        /\ ks[m] = "middle" /\ fragment = <<m>>
        /\ Readable(ks, m) /\ StartsAt(m) >= initial_offset
  BY <1>1 DEF Took
<1>3. PICK f \in 1..(m - 1) :
        /\ Unfinished(ks, initial_offset, f, m - 1)
        /\ scratch = Run(f, m - 1)
        /\ prospective_record_offset \in Nat
        /\ prospective_record_offset >= initial_offset
  BY <1>1, <1>2 DEF Collected
<1>4. /\ RecordsUpTo(ks, initial_offset)[m] =
           RecordsUpTo(ks, initial_offset)[m - 1]
      /\ \A e \in 1..(m - 1) :
           Unfinished(ks, initial_offset, e, m - 1) =>
             Unfinished(ks, initial_offset, e, m)
      /\ Run(f, m - 1) \o <<m>> = Run(f, m)
  BY <1>1, <1>2, <1>3, MiddleContinues
<1>5. /\ m \in 0..Len(ks) /\ m - 1 \in Nat /\ m - 1 <= Len(ks)
      /\ \A u \in 1..m : u \in 1..(m - 1) \/ u = m
      /\ f \in 1..m
  BY LenProperties
<1>6. At(ks, m)'
  BY <1>1, <1>2, AtUnchanged
<1>7. ASSUME Silent', NEW u \in 1..m, Counts(ks, initial_offset, u)
      PROVE  \/ Holds(delivered', u)
             \/ \E e \in 1..u : Unfinished(ks, initial_offset, e, m)
  <2>1. CASE u \in 1..(m - 1)
    <3>1. Silent
      BY <1>1, <1>7 DEF Silent
    <3>2. \/ Holds(delivered, u)
          \/ \E e \in 1..u : Unfinished(ks, initial_offset, e, m - 1)
      BY <1>1, <1>2, <1>5, <1>7, <2>1, <3>1, HeldOrCollected
    <3>3. \A e \in 1..u : e \in 1..(m - 1)
      BY <2>1
    <3>. QED
      BY <1>1, <1>4, <3>2, <3>3
  <2>2. CASE u = m
    BY <1>3, <1>4, <1>5, <2>2
  <2>. QED
    BY <1>5, <2>1, <2>2
<1>8. Returned(ks, m)'
  <2>1. delivered' = RecordsUpTo(ks, initial_offset)[m]
    BY <1>1, <1>2, <1>4 DEF Returned
  <2>. QED
    BY <1>1, <1>7, <2>1, NowReturned
<1>9. Collected(ks, m)'
  <2>1. scratch' = Run(f, m)
    BY <1>1, <1>2, <1>3, <1>4
  <2>. QED
    BY <1>1, <1>3, <1>4, <1>5, <2>1, NowCollecting
<1>. QED
  BY <1>1, <1>5, <1>6, <1>8, <1>9, NowReading

LEMMA LastFragmentStep ==
  ASSUME NEW ks \in Seq(Kind), NEW tail \in 0..HeaderSize,
         disk = FileOf(ks, tail), ReadingInv(ks), LastFragment
  PROVE  ReadingInv(ks)'
<1>1. /\ initial_offset \in Nat /\ Took(ks) /\ record_type = "last"
      /\ UNCHANGED <<disk, initial_offset, inputVars, reported>>
      /\ resyncing' = FALSE /\ in_fragmented_record
      /\ scratch' = scratch \o fragment /\ rpc' = "ready"
      /\ delivered' = Append(delivered, scratch')
      /\ last_record_offset' = prospective_record_offset
  BY WasDispatching, WasTaken
  DEF LastFragment, Dispatch, Sound, fixedVars, NoReport, Deliver
<1>2. PICK m \in 1..Len(ks) :
        /\ At(ks, m) /\ Returned(ks, m - 1) /\ Collected(ks, m - 1)
        /\ ks[m] = "last" /\ fragment = <<m>>
        /\ Readable(ks, m) /\ StartsAt(m) >= initial_offset
  BY <1>1 DEF Took
<1>3. PICK f \in 1..(m - 1) :
        /\ Unfinished(ks, initial_offset, f, m - 1)
        /\ scratch = Run(f, m - 1)
        /\ prospective_record_offset \in Nat
        /\ prospective_record_offset >= initial_offset
  BY <1>1, <1>2 DEF Collected
<1>4. /\ RecordsUpTo(ks, initial_offset)[m] =
           Append(RecordsUpTo(ks, initial_offset)[m - 1], Run(f, m))
      /\ \A e \in 1..m : ~Unfinished(ks, initial_offset, e, m)
      /\ Run(f, m - 1) \o <<m>> = Run(f, m)
  BY <1>1, <1>2, <1>3, LastEnds
<1>5. /\ m \in 0..Len(ks) /\ m \in Nat /\ f \in Nat
      /\ m - 1 \in Nat /\ m - 1 <= Len(ks) /\ m - 1 \in 0..Len(ks)
      /\ \A u \in 1..m : u \in 1..(m - 1) \/ u = m
  BY LenProperties
<1>6. At(ks, m)'
  BY <1>1, <1>2, AtUnchanged
<1>7. PICK g \in Seq(Seq(Nat)), r \in Seq(Nat) :
        /\ g = delivered /\ g = RecordsUpTo(ks, initial_offset)[m - 1]
        /\ r = Run(f, m) /\ r = scratch'
        /\ \A u \in f..m : \E k \in DOMAIN r : r[k] = u
  <2>1. delivered = RecordsUpTo(ks, initial_offset)[m - 1]
    BY <1>2 DEF Returned
  <2>2. RecordsUpTo(ks, initial_offset)[m - 1] \in Seq(Seq(Nat))
    BY <1>1, <1>5, RecordsByStep
  <2>3. PICK r : r = Run(f, m)
    OBVIOUS
  <2>4. /\ r \in Seq(Nat) /\ DOMAIN r = 1..(m - f + 1)
        /\ \A k \in 1..(m - f + 1) : r[k] = f + k - 1
    BY <1>5, <2>3, RunType
  <2>5. ASSUME NEW u \in f..m PROVE \E k \in DOMAIN r : r[k] = u
    <3>1. u - f + 1 \in 1..(m - f + 1) /\ f + (u - f + 1) - 1 = u
      BY <1>5
    <3>. QED
      BY <2>4, <3>1
  <2>6. r = scratch'
    BY <1>1, <1>2, <1>3, <1>4, <2>3
  <2>. QED
    BY <2>1, <2>2, <2>3, <2>4, <2>5, <2>6
<1>8. delivered' = Append(g, r)
  BY <1>1, <1>7
<1>9. ASSUME Silent', NEW u \in 1..m, Counts(ks, initial_offset, u)
      PROVE  Holds(delivered', u)
  <2>1. CASE u \in f..m
    <3>1. \E k \in DOMAIN r : r[k] = u
      BY <1>7, <2>1
    <3>. QED
      BY <1>8, <3>1, HoldsMore
  <2>2. CASE ~(u \in f..m)
    <3>1. u \in 1..(m - 1) /\ u < f
      BY <1>5, <2>2
    <3>2. Silent
      BY <1>1, <1>9 DEF Silent
    <3>3. \/ Holds(delivered, u)
          \/ \E e \in 1..u : Unfinished(ks, initial_offset, e, m - 1)
      BY <1>1, <1>2, <1>5, <1>9, <3>1, <3>2, HeldOrCollected
    <3>4. ASSUME NEW e \in 1..u, Unfinished(ks, initial_offset, e, m - 1)
          PROVE  FALSE
      <4>1. e \in 1..(m - 1) /\ e # f
        BY <1>5, <3>1
      <4>. QED
        BY <1>1, <1>3, <1>5, <3>4, <4>1, UnfinishedIsOne
    <3>5. Holds(g, u)
      BY <1>7, <3>3, <3>4
    <3>. QED
      BY <1>8, <3>5, HoldsMore
  <2>. QED
    BY <2>1, <2>2
<1>10. Returned(ks, m)'
  <2>1. delivered' = RecordsUpTo(ks, initial_offset)[m]
    BY <1>4, <1>7, <1>8
  <2>. QED
    BY <1>1, <1>9, <2>1, NowReturned
<1>11. ~MustSkip'
  BY <1>1, <1>3 DEF MustSkip
<1>12. Ready(ks)'
  BY <1>1, <1>4, <1>5, <1>6, <1>10, <1>11 DEF Ready, NoneUnfinished
<1>. QED
  BY <1>1, <1>12, NowReady

LEMMA MissingStartStep ==
  ASSUME NEW ks \in Seq(Kind), NEW tail \in 0..HeaderSize,
         disk = FileOf(ks, tail), ReadingInv(ks), MissingStart
  PROVE  ReadingInv(ks)'
<1>1. /\ initial_offset \in Nat /\ Took(ks)
      /\ record_type \in {"middle", "last"}
      /\ UNCHANGED <<disk, initial_offset, inputVars, buffer, delivered>>
      /\ UNCHANGED localVars
      /\ resyncing' = FALSE /\ ~in_fragmented_record
      /\ Report(Len(fragment), "physical")
  BY WasDispatching, WasTaken
  DEF MissingStart, Dispatch, Sound, fixedVars, inputVars
<1>2. PICK m \in 1..Len(ks) :
        /\ At(ks, m) /\ Returned(ks, m - 1) /\ Collected(ks, m - 1)
        /\ ks[m] = record_type /\ fragment = <<m>>
        /\ Readable(ks, m) /\ StartsAt(m) >= initial_offset
  BY <1>1 DEF Took
<1>3. rpc' = "crashed" \/ (rpc' = "physical" /\ ~Silent')
  <2>1. Len(fragment) = 1 /\ Front - 1 >= initial_offset
    BY <1>1, <1>2, TakenOffset
  <2>2. end_of_buffer_offset - Len(buffer') = Front
    BY <1>1, <1>2 DEF At, Front
  <2>3. end_of_buffer_offset - Len(buffer') - Len(fragment) >= initial_offset
    BY <2>1, <2>2
  <2>. QED
    BY <1>1, <2>3, ReportOutcome
<1>4. CASE rpc' = "crashed"
  BY <1>1, <1>4, CrashKeeps
<1>5. CASE rpc' = "physical" /\ ~Silent'
  <2>1. /\ RecordsUpTo(ks, initial_offset)[m] =
             RecordsUpTo(ks, initial_offset)[m - 1]
        /\ \A f \in 1..m : ~Unfinished(ks, initial_offset, f, m)
    <3>1. ks[m] \in {"middle", "last"}
      BY <1>1, <1>2
    <3>2. \A f \in 1..(m - 1) : ~Unfinished(ks, initial_offset, f, m - 1)
      BY <1>1, <1>2 DEF Collected, NoneUnfinished
    <3>. QED
      BY <1>1, <3>1, <3>2, StartIsMissing
  <2>2. m \in 0..Len(ks)
    BY LenProperties
  <2>3. At(ks, m)'
    BY <1>1, <1>2, AtUnchanged
  <2>4. Returned(ks, m)'
    <3>1. delivered' = RecordsUpTo(ks, initial_offset)[m]
      BY <1>1, <1>2, <2>1 DEF Returned
    <3>. QED
      BY <1>1, <1>5, <3>1, NowReturned
  <2>5. Collected(ks, m)'
    BY <1>1, <2>1, NowCollected DEF localVars
  <2>. QED
    BY <1>1, <1>5, <2>2, <2>3, <2>4, <2>5, NowReading
<1>. QED
  BY <1>3, <1>4, <1>5

LEMMA ScratchCrashStep ==
  ASSUME NEW ks \in Seq(Kind), ReadingInv(ks), ScratchCrash
  PROVE  ReadingInv(ks)'
<1>1. initial_offset \in Nat /\ UNCHANGED initial_offset /\ rpc' = "crashed"
  BY WasDispatching DEF ScratchCrash, Dispatch, fixedVars, NoReport
<1>. QED
  BY <1>1, CrashKeeps

LEMMA ReturnEofStep ==
  ASSUME NEW ks \in Seq(Kind), ReadingInv(ks), ReturnEof
  PROVE  ReadingInv(ks)'
<1>1. /\ initial_offset \in Nat /\ Dispatching(ks) /\ record_type = "eof"
      /\ UNCHANGED <<disk, initial_offset, file_pos, eof, delivered, reported>>
      /\ rpc' = "end"
  BY WasDispatching
  DEF ReturnEof, Dispatch, fixedVars, inputVars, NoReport
<1>2. eof /\ (file_pos >= Len(disk) => Returned(ks, Len(ks)))
  BY <1>1 DEF Dispatching, Sound
<1>3. ReadToTheEnd' => file_pos >= Len(disk)
  BY <1>1, <1>2 DEF ReadToTheEnd
<1>4. Silent' => Silent
  BY <1>1 DEF Silent
<1>5. Returned(ks, Len(ks)) => Returned(ks, Len(ks))'
  BY <1>1, <1>4, ReturnedUnchanged
<1>. QED
  BY <1>1, <1>2, <1>3, <1>5 DEF ReadingInv, ReaderPC

LEMMA BadRecordStep ==
  ASSUME NEW ks \in Seq(Kind), NEW tail \in 0..HeaderSize,
         disk = FileOf(ks, tail), ReadingInv(ks), BadRecord
  PROVE  ReadingInv(ks)'
<1>1. /\ initial_offset \in Nat /\ PassedOver(ks)
      /\ UNCHANGED <<disk, initial_offset, inputVars, buffer, delivered>>
      /\ resyncing' = FALSE /\ in_fragmented_record' = FALSE
      /\ IF in_fragmented_record THEN Report(Len(scratch), "physical")
                                 ELSE NoReport("physical")
  BY WasDispatching
  DEF BadRecord, Dispatch, Dispatching, Sound, fixedVars, inputVars
<1>2. PICK m \in 1..Len(ks) : \E l \in 0..(m - 1) :
        /\ At(ks, m) /\ Returned(ks, l) /\ Collected(ks, l)
        /\ \A u \in (l + 1)..m :
             /\ StartsAt(u) >= initial_offset => ~Readable(ks, u)
             /\ Silent => ~Counts(ks, initial_offset, u)
  BY <1>1 DEF PassedOver
<1>3. PICK l \in 0..(m - 1) :
        /\ At(ks, m) /\ Returned(ks, l) /\ Collected(ks, l)
        /\ \A u \in (l + 1)..m :
             /\ StartsAt(u) >= initial_offset => ~Readable(ks, u)
             /\ Silent => ~Counts(ks, initial_offset, u)
  BY <1>2
<1>4. /\ rpc' = "crashed" \/ rpc' = "physical"
      /\ Silent' => Silent
      /\ rpc' # "crashed" /\ Silent' => ~in_fragmented_record
  <2>1. CASE in_fragmented_record
    <3>1. Report(Len(scratch), "physical")
      BY <1>1, <2>1
    <3>2. rpc' = "crashed" \/ (rpc' = "physical" /\ ~Silent')
      BY <1>1, <1>3, <2>1, <3>1, Abandoned
    <3>3. Silent' => Silent
      BY <1>1, <3>1, ReportOutcome
    <3>. QED
      BY <3>2, <3>3
  <2>2. CASE ~in_fragmented_record
    BY <1>1, <2>2, NoReportOutcome
  <2>. QED
    BY <2>1, <2>2
<1>5. CASE rpc' = "crashed"
  BY <1>1, <1>5, CrashKeeps
<1>6. CASE rpc' = "physical"
  <2>1. /\ m \in 0..Len(ks) /\ l \in 0..m /\ l < m /\ l \in Nat /\ l <= Len(ks)
        /\ \A u \in 1..m : u \in 1..l \/ u \in (l + 1)..m
    BY LenProperties
  <2>2. /\ RecordsUpTo(ks, initial_offset)[m] = RecordsUpTo(ks, initial_offset)[l]
        /\ \A f \in 1..m : ~Unfinished(ks, initial_offset, f, m)
    <3>1. \A u \in (l + 1)..m :
            StartsAt(u) >= initial_offset => ~Readable(ks, u)
      BY <1>3
    <3>. QED
      BY <1>1, <2>1, <3>1, PassingOver
  <2>3. At(ks, m)'
    BY <1>1, <1>3, AtUnchanged
  <2>4. ASSUME Silent', NEW u \in 1..m, Counts(ks, initial_offset, u)
        PROVE  Holds(delivered', u)
    <3>1. Silent /\ ~in_fragmented_record
      BY <1>4, <1>6, <2>4
    <3>2. u \in 1..l
      BY <1>3, <2>1, <2>4, <3>1
    <3>. QED
      BY <1>1, <1>3, <2>1, <2>4, <3>1, <3>2, HeldOrCollected
  <2>5. Returned(ks, m)'
    <3>1. delivered' = RecordsUpTo(ks, initial_offset)[m]
      BY <1>1, <1>3, <2>2 DEF Returned
    <3>. QED
      BY <1>1, <2>4, <3>1, NowReturned
  <2>6. Collected(ks, m)'
    BY <1>1, <2>2, NowCollected
  <2>. QED
    BY <1>1, <1>6, <2>1, <2>3, <2>5, <2>6, NowReading
<1>. QED
  BY <1>4, <1>5, <1>6

(***************************************************************************)
(* The invariant, and what it says of a reader that came to the end.       *)
(***************************************************************************)

LEMMA InvStarts == ForeignInit => ForeignInv
<1>. SUFFICES ASSUME ForeignInit PROVE ForeignInv
  OBVIOUS
<1>1. PICK n \in 0..MaxUnits : \E kinds \in [1..n -> Kind], tail \in 0..HeaderSize :
        disk = FileOf(kinds, tail)
  BY DEF ForeignInit
<1>2. PICK ks \in [1..n -> Kind], tail \in 0..HeaderSize : disk = FileOf(ks, tail)
  BY <1>1
<1>3. n \in Nat /\ n <= MaxUnits
  BY UnitAssumption
<1>4. ks \in Seq(Kind) /\ Len(ks) = n
  BY <1>3
<1>5. ReadingInv(ks)
  BY DEF ForeignInit, Init, ReadingInv, ReaderPC
<1>. QED
  BY <1>2, <1>3, <1>4, <1>5 DEF ForeignInv

LEMMA ReadingInvKept ==
  ASSUME NEW ks \in Seq(Kind), NEW tail \in 0..HeaderSize,
         disk = FileOf(ks, tail), ReadingInv(ks), [Next]_vars
  PROVE  ReadingInv(ks)'
<1>1. CASE Open
  BY <1>1, OpenStep
<1>2. CASE ReadLogRecord
  BY <1>2, ReadLogRecordStep
<1>3. CASE SkipFails
  BY <1>3, SkipFailsStep
<1>4. CASE ReadPhysicalRecord
  BY <1>4, FillBufferStep, FillFailsStep, EndOfFileStep, BadRecordLengthStep,
     ZeroLengthRecordStep, ChecksumMismatchStep, TakePhysicalRecordStep
  DEF ReadPhysicalRecord
<1>5. CASE DispatchRecord
  BY <1>5, SkipTailStep, FullRecordStep, FirstFragmentStep, MiddleFragmentStep,
     LastFragmentStep, MissingStartStep, ScratchCrashStep, ReturnEofStep,
     BadRecordStep
  DEF DispatchRecord
<1>6. CASE UNCHANGED vars
  <2>1. /\ UNCHANGED <<disk, initial_offset, inputVars, localVars, resyncing>>
        /\ UNCHANGED <<rpc, delivered, reported, record_type, fragment>>
        /\ UNCHANGED <<file_pos, eof, last_record_offset, buffer>>
        /\ UNCHANGED end_of_buffer_offset
        /\ Silent' => Silent
    BY <1>6 DEF vars, inputVars, localVars, Silent
  <2>2. \A m : At(ks, m) => At(ks, m)'
    BY <2>1, AtUnchanged
  <2>3. \A l : Returned(ks, l) => Returned(ks, l)'
    BY <2>1, ReturnedUnchanged
  <2>4. \A l : Collected(ks, l) => Collected(ks, l)'
    BY <2>1, CollectedUnchanged
  <2>5. Init => Init'
    BY <1>6 DEF vars, Init
  <2>6. Ready(ks) => Ready(ks)'
    BY <2>1, <2>2, <2>3 DEF Ready, MustSkip, Fresh, NoneUnfinished
  <2>7. Reading(ks) => Reading(ks)'
    BY <2>2, <2>3, <2>4 DEF Reading
  <2>8. Took(ks) => Took(ks)'
    BY <2>1, <2>2, <2>3, <2>4 DEF Took
  <2>9. PassedOver(ks) => PassedOver(ks)'
    BY <2>1, <2>2, <2>3, <2>4 DEF PassedOver
  <2>10. Dispatching(ks) => Dispatching(ks)'
    BY <2>1, <2>3, <2>8, <2>9 DEF Dispatching
  <2>11. ReadToTheEnd' => ReadToTheEnd
    BY <2>1 DEF ReadToTheEnd, InitialBlock
  <2>. QED
    BY <2>1, <2>3, <2>5, <2>6, <2>7, <2>10, <2>11 DEF ReadingInv
<1>. QED
  BY <1>1, <1>2, <1>3, <1>4, <1>5, <1>6 DEF Next

LEMMA DiskKept == Next => UNCHANGED disk
BY DEF Next, Open, ReadLogRecord, SkipFails, ReadPhysicalRecord, FillBuffer,
       FillFails, EndOfFile, BadRecordLength, ZeroLengthRecord,
       ChecksumMismatch, TakePhysicalRecord, ReturnType, DispatchRecord,
       SkipTail, FullRecord, FirstFragment, MiddleFragment, LastFragment,
       MissingStart, ScratchCrash, ReturnEof, BadRecord, Dispatch, fixedVars

LEMMA InvKept == ForeignInv /\ [Next]_vars => ForeignInv'
<1>. SUFFICES ASSUME ForeignInv, [Next]_vars PROVE ForeignInv'
  OBVIOUS
<1>1. PICK ks \in Seq(Kind), tail \in 0..HeaderSize :
        /\ Len(ks) <= MaxUnits
        /\ disk = FileOf(ks, tail)
        /\ ReadingInv(ks)
  BY DEF ForeignInv
<1>2. ReadingInv(ks)'
  BY <1>1, ReadingInvKept
<1>3. disk' = FileOf(ks, tail)
  BY <1>1, DiskKept DEF vars
<1>. QED
  BY <1>1, <1>2, <1>3 DEF ForeignInv

(* The bookkeeping of readLogRecord and readPhysicalRecord, on any file:   *)
(* where in which block the reader is, what it has returned of what lies   *)
(* before that, and what it has collected of the record it is in.          *)
THEOREM ForeignInvHolds == ForeignSpec => []ForeignInv
<1>. QED
  BY InvStarts, InvKept, PTL DEF ForeignSpec

(* Whatever physical records a file holds, in whatever order, damaged or   *)
(* blank, a reader that comes to its end has returned exactly the records  *)
(* that are in it from initial_offset on (logReader.c:164-280).            *)
THEOREM RecordsAreAssembled == ForeignSpec => []AssemblesRecords
<1>1. ForeignInv => AssemblesRecords
  <2>. SUFFICES ASSUME ForeignInv, ReadToTheEnd
                PROVE  delivered = RecordsUpTo(Kinds, initial_offset)[Len(Kinds)]
    BY DEF AssemblesRecords
  <2>1. PICK ks \in Seq(Kind), tail \in 0..HeaderSize :
          disk = FileOf(ks, tail) /\ ReadingInv(ks)
    BY DEF ForeignInv
  <2>2. Kinds = ks
    BY <2>1, KindsOfFile
  <2>3. Returned(ks, Len(ks))
    BY <2>1 DEF ReadingInv, ReadToTheEnd
  <2>. QED
    BY <2>2, <2>3 DEF Returned
<1>. QED
  BY <1>1, ForeignInvHolds, PTL

(* A reader with a Recover, at an offset where a block starts, reports     *)
(* what it does not return: all of a file, but for blank extents, the      *)
(* orphans it resyncs past, and a record left unfinished at the end        *)
(* (logReader.c:83-103, 189-264).                                          *)
THEOREM NothingIsLostInSilence == ForeignSpec => []NoSilentLoss
<1>1. ForeignInv => NoSilentLoss
  <2>. DEFINE missing == {u \in DOMAIN Kinds : /\ Counts(Kinds, initial_offset, u)
                                               /\ ~Holds(delivered, u)}
  <2>. SUFFICES ASSUME ForeignInv, HasRecover, ReadToTheEnd, ~reported,
                       initial_offset % BlockSize = 0, missing # {}
                PROVE  \E i \in DOMAIN Kinds :
                         /\ missing = i..Len(Kinds)
                         /\ Unfinished(Kinds, initial_offset, i, Len(Kinds))
    BY DEF NoSilentLoss
  <2>1. PICK ks \in Seq(Kind), tail \in 0..HeaderSize :
          disk = FileOf(ks, tail) /\ ReadingInv(ks)
    BY DEF ForeignInv
  <2>2. Kinds = ks
    BY <2>1, KindsOfFile
  <2>3. PICK n \in Nat : n = Len(ks) /\ DOMAIN ks = 1..n
    BY LenProperties
  <2>4. Returned(ks, n) /\ Silent /\ initial_offset \in Nat
    BY <2>1, <2>3 DEF ReadingInv, ReadToTheEnd, Silent
  <2>5. delivered = RecordsUpTo(ks, initial_offset)[n]
    BY <2>4 DEF Returned
  <2>6. \A u \in missing :
          \E f \in 1..u : Unfinished(ks, initial_offset, f, n) /\ u \in 1..n
    BY <2>2, <2>3, <2>4 DEF Returned
  <2>7. PICK f \in 1..n : Unfinished(ks, initial_offset, f, n)
    <3>1. PICK u \in missing : TRUE
      OBVIOUS
    <3>2. PICK f \in 1..u : Unfinished(ks, initial_offset, f, n) /\ u \in 1..n
      BY <2>6, <3>1
    <3>3. f \in 1..n
      BY <2>3, <3>2
    <3>. QED
      BY <3>2, <3>3
  <2>8. ASSUME NEW u \in missing PROVE u \in f..n
    <3>1. PICK e \in 1..u : Unfinished(ks, initial_offset, e, n) /\ u \in 1..n
      BY <2>6, <2>8
    <3>2. e \in 1..n
      BY <2>3, <3>1
    <3>3. e = f
      BY <2>3, <2>4, <2>7, <3>1, <3>2, UnfinishedIsOne
    <3>. QED
      BY <2>3, <2>7, <3>1, <3>3
  <2>9. ASSUME NEW u \in f..n PROVE u \in missing
    <3>1. /\ u \in 1..n /\ u \in Nat /\ f \in Nat /\ f <= u
          /\ u # f => u \in (f + 1)..n /\ f \in 1..(u - 1)
      BY <2>3, <2>7
    <3>2. /\ StartsAt(f) >= initial_offset /\ Readable(ks, u) /\ ks[f] = "first"
          /\ ks[u] \in {"first", "middle"}
      BY <2>7, <3>1 DEF Unfinished
    <3>3. StartsAt(u) >= initial_offset
      <4>1. /\ StartsAt(f) \in Int /\ StartsAt(u) \in Int
            /\ StartsAt(f) <= StartsAt(u)
        BY <3>1, StartsInOrder
      <4>. QED
        BY <2>4, <3>2, <4>1
    <3>4. ~Orphan(ks, initial_offset, u)
      BY <3>1, <3>2 DEF Orphan
    <3>5. Counts(ks, initial_offset, u)
      BY <3>2, <3>3, <3>4 DEF Counts, Readable
    <3>6. ~Holds(delivered, u)
      <4>1. SUFFICES ASSUME NEW j \in 1..n, NEW i \in 1..j,
                            IsRecord(ks, initial_offset, i, j), u \in i..j
                     PROVE  FALSE
        <5>1. n \in 0..Len(ks)
          BY <2>3
        <5>. QED
          BY <2>4, <2>5, <5>1, HeldIsRecorded
      <4>2. ks[j] \in {"full", "last"}
        BY <4>1 DEF IsRecord
      <4>3. j \in f..n
        BY <2>3, <3>1, <4>1
      <4>4. ks[j] \in {"first", "middle"}
        <5>1. j = f \/ j \in (f + 1)..n
          BY <3>1, <4>3
        <5>. QED
          BY <2>7, <5>1 DEF Unfinished
      <4>. QED
        BY <4>2, <4>4
    <3>. QED
      BY <2>2, <2>3, <3>1, <3>5, <3>6
  <2>10. missing = f..n
    <3>. HIDE DEF missing
    <3>. QED
      BY <2>8, <2>9
  <2>. QED
    BY <2>2, <2>3, <2>7, <2>10
<1>. QED
  BY <1>1, ForeignInvHolds, PTL
==============================================================================
