------------------------------ MODULE Comparator ------------------------------
(***************************************************************************)
(* Keys as strings of bytes: the bytewise comparator and the shortening of *)
(* keys in comparator.c; internal keys, which end in a sequence number and *)
(* a type packed into one integer, in internalKey.c.                       *)
(***************************************************************************)
EXTENDS Integers, Sequences

CONSTANTS
  MaxByte,      (* 255                                                     *)
  TagBytes      (* the bytes of a packed sequence number and type: 8       *)

ASSUME ByteAssumption == MaxByte \in Nat /\ MaxByte >= 1
ASSUME TagAssumption == TagBytes \in Nat /\ TagBytes >= 2

Byte == 0..MaxByte

MinLen(a, b) == IF Len(a) < Len(b) THEN Len(a) ELSE Len(b)

(* The first place at which the keys differ, or the one behind the shorter *)
(* of them.                                                                *)
DiffIndex(a, b) ==
  CHOOSE i \in 1..(MinLen(a, b) + 1) :
    /\ i <= MinLen(a, b) => a[i] # b[i]
    /\ \A j \in 1..(i - 1) : a[j] = b[j]

Sign(n) == IF n < 0 THEN -1 ELSE IF n > 0 THEN 1 ELSE 0

(* Broken variant of Compare: the length does not matter.                  *)
Compare_PrefixOnly(a, b) ==
  LET i == DiffIndex(a, b)
  IN  IF i <= MinLen(a, b) THEN Sign(a[i] - b[i]) ELSE 0

(* bytewiseComparatorCompare.                                              *)
Compare(a, b) ==
  LET i == DiffIndex(a, b)
  IN  IF i <= MinLen(a, b) THEN Sign(a[i] - b[i])
      ELSE Sign(Len(a) - Len(b))

(* A byte read as a char, on a machine where char is signed or is not.     *)
Char(byte, signed) ==
  IF signed /\ byte > MaxByte \div 2 THEN byte - (MaxByte + 1) ELSE byte

(* The key up to byte i, which goes up by one.                             *)
Bump(key, i) == Append(SubSeq(key, 1, i - 1), key[i] + 1)

(* Broken variant of FindShortestSeparator: the byte may become limit's.   *)
FindShortestSeparator_UpToLimit(start, limit, signed) ==
  LET i == DiffIndex(start, limit)
  IN  IF /\ i <= MinLen(start, limit)
         /\ start[i] < MaxByte
         /\ start[i] + 1 <= Char(limit[i], signed)
      THEN Bump(start, i) ELSE start

(* bytewiseComparatorFindShortestSeparator, in which limit's byte, unlike  *)
(* start's, is a plain char.                                               *)
FindShortestSeparator(start, limit, signed) ==
  LET i == DiffIndex(start, limit)
  IN  IF /\ i <= MinLen(start, limit)
         /\ start[i] < MaxByte
         /\ start[i] + 1 < Char(limit[i], signed)
      THEN Bump(start, i) ELSE start

(* Broken variant of FindShortSuccessor: only the first byte is looked at, *)
(* and it wraps.                                                           *)
FindShortSuccessor_First(key) ==
  IF key = << >> THEN key ELSE <<(key[1] + 1) % (MaxByte + 1)>>

(* bytewiseComparatorFindShortSuccessor.                                   *)
FindShortSuccessor(key) ==
  IF \A i \in DOMAIN key : key[i] = MaxByte THEN key
  ELSE Bump(key, CHOOSE i \in DOMAIN key :
                   /\ key[i] # MaxByte
                   /\ \A j \in 1..(i - 1) : key[j] = MaxByte)
------------------------------------------------------------------------------
(* The numbers of i bytes are those below this.                            *)
Power[i \in Nat] == IF i = 0 THEN 1 ELSE Power[i - 1] * (MaxByte + 1)

kMaxSequenceNumber == Power[TagBytes - 1] - 1

kTypeDeletion == 0
kTypeValue == 1

(* packSequenceAndType, for the arguments its assertions let pass.         *)
Pack(seq, type) == seq * (MaxByte + 1) + type

(* Fixed-width integers are stored with the least significant byte first.  *)
EncodeFixed(n) ==
  [i \in 1..TagBytes |-> (n \div Power[i - 1]) % (MaxByte + 1)]

DecodeFixed(s) ==
  LET upto[i \in 0..TagBytes] ==
        IF i = 0 THEN 0 ELSE upto[i - 1] + s[i] * Power[i - 1]
  IN  upto[TagBytes]

(* internalKeytoString.                                                    *)
InternalKey(user, seq, type) == user \o EncodeFixed(Pack(seq, type))

(* extractUserKey and the number behind it; a key shorter than TagBytes,   *)
(* whose length would go below 0, has neither.                             *)
ExtractUserKey(key) == SubSeq(key, 1, Len(key) - TagBytes)

TagOf(key) == DecodeFixed(SubSeq(key, Len(key) - TagBytes + 1, Len(key)))

(* Broken variant of InternalCompare: older entries come first.            *)
InternalCompare_OldFirst(a, b) ==
  LET r == Compare(ExtractUserKey(a), ExtractUserKey(b))
  IN  IF r # 0 THEN r ELSE Sign(TagOf(a) - TagOf(b))

(* internalKeyComparatorCompareSds.                                        *)
InternalCompare(a, b) ==
  LET r == Compare(ExtractUserKey(a), ExtractUserKey(b))
  IN  IF r # 0 THEN r ELSE Sign(TagOf(b) - TagOf(a))

(* Broken variant of ParseInternalKey: the type is taken from the other    *)
(* end of the tag.                                                         *)
ParseInternalKey_LastByte(key) ==
  LET c == key[Len(key)]
  IN  [ok |-> c <= kTypeValue,
       user_key |-> ExtractUserKey(key),
       sequence |-> TagOf(key) \div (MaxByte + 1),
       type |-> c]

(* ParseInternalKey, of a key of at least TagBytes bytes.                  *)
ParseInternalKey(key) ==
  LET c == TagOf(key) % (MaxByte + 1)
  IN  [ok |-> c <= kTypeValue,
       user_key |-> ExtractUserKey(key),
       sequence |-> TagOf(key) \div (MaxByte + 1),
       type |-> c]
==============================================================================
