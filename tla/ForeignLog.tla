------------------------------ MODULE ForeignLog ------------------------------
(***************************************************************************)
(* LogReader alone, on files no LogWriter of this repository need have     *)
(* written: any sequence of physical records, sound, damaged or blanked    *)
(* out, with their types in any order (logReader.c:190-193 speaks of       *)
(* writers that got it wrong), and at the end perhaps a part of the header *)
(* of one more.  Each holds one byte, its number, and a block holds        *)
(* BlockUnits of them.                                                     *)
(***************************************************************************)
EXTENDS LogReader

CONSTANTS
  MaxUnits,    (* bound on the number of whole physical records            *)
  BlockUnits   (* how many of them fill a block                            *)

UnitSize == HeaderSize + 1

ASSUME UnitAssumption ==
  /\ MaxUnits \in Nat
  /\ BlockUnits \in Nat \ {0}
  /\ BlockSize = BlockUnits * UnitSize
  /\ 1..(MaxUnits + 1) \subseteq Byte

Sound == {"full", "first", "middle", "last"}

Kind == Sound \cup {"bad", "zero"}

PhysicalOf(u, type) == [type |-> type, data |-> <<u>>]

(* The k-th cell of the u-th physical record: the last one is damaged if   *)
(* it is bad, none was ever written if it is zero.  (A damaged header,     *)
(* which may happen to read as either, is in LogSystem.)                   *)
UnitCell(u, kind, k) ==
  IF kind = "zero" THEN ZeroCell
  ELSE IF kind = "bad"
       THEN IF k = UnitSize THEN JunkCell
                            ELSE [phys |-> PhysicalOf(u, "full"), at |-> k]
       ELSE [phys |-> PhysicalOf(u, kind), at |-> k]

(* A file of records of these kinds, and behind them the first cells of    *)
(* one that a dying writer left without its payload.                       *)
FileOf(kinds, tail) ==
  [i \in 1..(Len(kinds) * UnitSize + tail) |->
     LET u == ((i - 1) \div UnitSize) + 1
     IN  UnitCell(u, IF u <= Len(kinds) THEN kinds[u] ELSE "last",
                  ((i - 1) % UnitSize) + 1)]

ForeignInit ==
  /\ Init
  /\ \E n \in 0..MaxUnits :
       \E kinds \in [1..n -> Kind], tail \in 0..HeaderSize :
         disk = FileOf(kinds, tail)

ForeignSpec == ForeignInit /\ [][Next]_vars

(* readLogRecord is a loop that waits for nothing but reads of a file, and *)
(* its callers call it until it returns false.                             *)
FairSpec == ForeignSpec /\ WF_vars(rpc # "closed" /\ Next)
------------------------------------------------------------------------------
(***************************************************************************)
(* The records of a file, without a reader.                                *)
(***************************************************************************)

(* The kinds of the physical records in the file.                          *)
Kinds ==
  LET kind(c) == IF c = ZeroCell THEN "zero"
                 ELSE IF c = JunkCell THEN "bad" ELSE c.phys.type
  IN  [u \in 1..(Len(disk) \div UnitSize) |-> kind(disk[u * UnitSize])]

StartsAt(u) == (u - 1) * UnitSize

(* The u-th is dropped with what is left of its block, which is as it      *)
(* should be if kind is "zero" (logReader.c:83-89).                        *)
DroppedFor(kinds, u, kind) ==
  \E v \in (u - ((u - 1) % BlockUnits))..u : kinds[v] = kind

Readable(kinds, u) ==
  ~DroppedFor(kinds, u, "bad") /\ ~DroppedFor(kinds, u, "zero")

(* What a reader at offset has collected from i to j, if j is not the last *)
(* fragment of a record.                                                   *)
Unfinished(kinds, offset, i, j) ==
  /\ StartsAt(i) >= offset
  /\ i <= j
  /\ \A u \in i..j : Readable(kinds, u)
  /\ kinds[i] = "first"
  /\ \A u \in (i + 1)..j : kinds[u] = "middle"

(* A record: what is full, or runs from a first to a last fragment with    *)
(* only middle ones between them.                                          *)
IsRecord(kinds, offset, i, j) ==
  /\ StartsAt(i) >= offset
  /\ Readable(kinds, j)
  /\ \/ i = j /\ kinds[j] = "full"
     \/ Unfinished(kinds, offset, i, j - 1) /\ kinds[j] = "last"

(* The records that end at the j-th physical record or before it.          *)
RecordsUpTo(kinds, offset) ==
  LET ending(j) == {i \in 1..j : IsRecord(kinds, offset, i, j)}
      upto[j \in 0..Len(kinds)] ==
        IF j = 0 THEN << >>
        ELSE IF ending(j) = {} THEN upto[j - 1]
        ELSE LET i == CHOOSE i \in ending(j) : TRUE
             IN  Append(upto[j - 1], [k \in 1..(j - i + 1) |-> i + k - 1])
  IN  upto

(* The rest of a record that began before offset.                          *)
Orphan(kinds, offset, u) ==
  /\ offset > 0
  /\ kinds[u] \in {"middle", "last"}
  /\ \A v \in 1..(u - 1) : StartsAt(v) >= offset => kinds[v] = "middle"

(* What a reader at offset must account for: not the blank extents, nor    *)
(* the orphans it resyncs past.                                            *)
Counts(kinds, offset, u) ==
  /\ StartsAt(u) >= offset
  /\ ~DroppedFor(kinds, u, "zero")
  /\ ~Orphan(kinds, offset, u)

Holds(records, u) ==
  \E r \in DOMAIN records : \E k \in DOMAIN records[r] : records[r][k] = u
------------------------------------------------------------------------------
(* The loop of readLogRecord, which keeps in_fragmented_record and scratch *)
(* across damage and misplaced fragments, returns exactly the records of   *)
(* the file that start at initial_offset or behind it.                     *)
AssemblesRecords ==
  ReadToTheEnd =>
    delivered = RecordsUpTo(Kinds, initial_offset)[Len(Kinds)]

(* A reader with a Recover loses nothing in silence: if it reported no     *)
(* drop, the records it returned are all of the file, but for blank        *)
(* extents, the orphans it resyncs past, and one record at the end that a  *)
(* dying writer may have left unfinished                                   *)
(* (logReader.c:101-103, 189-197, 206-213, 223-234, 249-253, 260-264).     *)
(* Not so for an initial_offset inside a block: a drop that starts before  *)
(* it is not reported (logReader.c:14), even if it reaches past it.        *)
NoSilentLoss ==
  LET missing == {u \in DOMAIN Kinds : /\ Counts(Kinds, initial_offset, u)
                                       /\ ~Holds(delivered, u)}
  IN  HasRecover /\ ReadToTheEnd /\ ~reported /\ initial_offset % BlockSize = 0 =>
        \/ missing = {}
        \/ \E i \in DOMAIN Kinds :
             /\ missing = i..Len(Kinds)
             /\ Unfinished(Kinds, initial_offset, i, Len(Kinds))

(* Whatever the file holds, a reader that was opened comes to an end: no   *)
(* damage makes readLogRecord's loop, or the loop of its callers, go round *)
(* for ever (logReader.c:25-105, 164-280; versionSet.c:187).                *)
ReaderTerminates == rpc = "ready" ~> rpc \in {"end", "crashed"}
==============================================================================
