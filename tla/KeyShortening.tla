---------------------------- MODULE KeyShortening ----------------------------
(***************************************************************************)
(* A key that its owner has shortened in place, call after call: between   *)
(* it and a limit (findShortestSeparator), or to any key not below it      *)
(* (findShortSuccessor).                                                   *)
(***************************************************************************)
EXTENDS Comparator

CONSTANT Keys    (* the keys the calls are made with                       *)

ASSUME KeyAssumption == Keys \subseteq Seq(Byte)

VARIABLES
  start, limit,    (* the key, and the limit of the last call              *)
  before,          (* history: the key before the last call                *)
  call,            (* the last call, or "freed": the key has moved and the *)
                   (* owner's pointer to it dangles                        *)
  char_signed      (* is char signed on this machine?                      *)

keyVars == <<start, limit, before, call, char_signed>>

KeyInit ==
  /\ start \in Keys
  /\ limit \in Keys
  /\ before = start
  /\ call = "none"
  /\ char_signed \in BOOLEAN

(* The key is overwritten and cut with sdsResize, whose result, the key's  *)
(* new address, is dropped.                                                *)
Becomes(key, name) ==
  /\ before' = start
  /\ start' = key
  /\ call' \in {name} \cup (IF key = start THEN {} ELSE {"freed"})
  /\ UNCHANGED char_signed

Separator ==
  /\ call # "freed"
  /\ limit' \in Keys
  /\ Becomes(FindShortestSeparator(start, limit', char_signed), "separator")

Successor ==
  /\ call # "freed"
  /\ Becomes(FindShortSuccessor(start), "successor")
  /\ UNCHANGED limit

KeyNext == Separator \/ Successor

KeySpec == KeyInit /\ [][KeyNext]_keyVars
------------------------------------------------------------------------------
NotAbove(a, b) == Compare(a, b) <= 0

Ordered(a, b, c) ==
  /\ Compare(a, b) = 0 <=> a = b
  /\ Compare(a, b) = -Compare(b, a)
  /\ NotAbove(a, b) /\ NotAbove(b, c) => NotAbove(a, c)

(* The bytewise comparison is a total order: it calls keys equal only if   *)
(* they are, is antisymmetric and transitive, on any three of the keys the *)
(* calls are made with, and on two of them and one that was shortened      *)
(* (comparator.c:16-29).                                                   *)
CompareIsAnOrder ==
  call # "freed" => \A key \in Keys : Ordered(start, key, limit)

(* A separator is not below the key it replaces, below the limit, and no   *)
(* longer than the key; a key that is not below its limit is left alone.   *)
(* Signed chars may cost a shortening, never the order: the assertion      *)
(* holds on every machine (comparator.c:30-56).                            *)
SeparatorSeparates ==
  call = "separator" =>
    /\ Len(start) <= Len(before)
    /\ IF Compare(before, limit) < 0
       THEN NotAbove(before, start) /\ Compare(start, limit) < 0
       ELSE start = before

(* A successor is not below the key, no longer, and above it unless all    *)
(* its bytes are 0xff (comparator.c:58-70).                                *)
SuccessorIsAbove ==
  call = "successor" =>
    /\ NotAbove(before, start)
    /\ Len(start) <= Len(before)
    /\ start = before => \A i \in DOMAIN start : start[i] = MaxByte

Sequences == 0..kMaxSequenceNumber
Types == {kTypeDeletion, kTypeValue}

(* Internal keys are ordered by user key, and for one user key the newest  *)
(* entry comes first: later sequence numbers, then values before deletions *)
(* (comparator.c:82-97, internalKey.c:6-15, 41-43).  The keys the calls    *)
(* start from are user keys enough.                                        *)
NewestFirst ==
  call = "none" => \A s, t \in Sequences, x, y \in Types :
    LET r == InternalCompare(InternalKey(start, s, x),
                             InternalKey(limit, t, y))
    IN  r = IF start # limit THEN Compare(start, limit)
            ELSE IF s # t THEN Sign(t - s) ELSE Sign(y - x)

(* An internal key is taken apart into what it was made of                 *)
(* (internalKey.c:11-15, 46-55).                                           *)
InternalKeysParse ==
  call = "none" => \A s \in Sequences, x \in Types :
    ParseInternalKey(InternalKey(start, s, x)) =
      [ok |-> TRUE, user_key |-> start, sequence |-> s, type |-> x]
==============================================================================
