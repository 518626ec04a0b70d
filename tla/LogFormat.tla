------------------------------ MODULE LogFormat ------------------------------
(***************************************************************************)
(* The on-disk format that logWriter.c emits and logReader.c parses        *)
(* (logConstant.h): a file is a sequence of blocks of kBlockSize bytes,    *)
(* and a block holds whole physical records, each a header of kHeaderSize  *)
(* bytes (checksum, length, type) followed by its payload.                 *)
(*                                                                         *)
(* A byte of the file is a cell.  A cell the writer emitted names the      *)
(* physical record it encodes and its place in that encoding, so an ideal  *)
(* checksum is "the cells are exactly the encoding of one physical         *)
(* record".  Bytes that no write of the log produced are zero (a           *)
(* preallocated or never written-back extent) or junk (a damaged byte).    *)
(***************************************************************************)
EXTENDS Integers, Sequences

CONSTANTS
  Byte,        (* the payload bytes                                        *)
  BlockSize,   (* kBlockSize, 32768 in the code                            *)
  HeaderSize,  (* kHeaderSize, 4 + 2 + 1 in the code                       *)
  MaxLength    (* what the two length bytes of a header hold, 0xffff       *)

ASSUME FormatAssumption ==
  /\ BlockSize \in Nat
  /\ HeaderSize \in Nat \ {0}
  /\ MaxLength \in Nat
  /\ HeaderSize < BlockSize
  /\ BlockSize - HeaderSize <= MaxLength

RecordType == {"zero", "full", "first", "middle", "last"}

Physical == [type : RecordType, data : Seq(Byte)]

(* Stands in for the physical record of a cell that encodes none.          *)
NoPhysical == [type |-> "zero", data |-> << >>]

Cell == [phys : Physical, at : Int]

ZeroCell == [phys |-> NoPhysical, at |-> 0]
JunkCell == [phys |-> NoPhysical, at |-> -1]

(* The cell comes from a physical record the writer emitted.               *)
Written(c) == c.at > 0

(* The bytes of a physical record: its header, then its payload.           *)
Encode(p) == [k \in 1..(HeaderSize + Len(p.data)) |-> [phys |-> p, at |-> k]]

FragmentType(begin, end) ==
  IF begin THEN IF end THEN "full" ELSE "first"
           ELSE IF end THEN "last" ELSE "middle"

Zeros(n) == [k \in 1..n |-> ZeroCell]
==============================================================================
