----------------------------- MODULE VersionEdit -----------------------------
(***************************************************************************)
(* The version edits a manifest holds (versionEdit.c): an edit in memory,  *)
(* the record versionEditToSds makes of it, and what one turn of the loop  *)
(* of decodeVersionEditSlice makes of one field of a record.               *)
(*                                                                         *)
(* A record is a sequence of fields, each a tag and a value.  Of the       *)
(* entries of the three lists of an edit only the level is kept: the keys  *)
(* and the files are what nothing in this code gets to read back.          *)
(***************************************************************************)
EXTENDS Naturals, Sequences

CONSTANTS
  MaxNumber,    (* 2^64 - 1: file numbers and sequence numbers wrap there  *)
  kNumLevels

ASSUME NumberAssumption == MaxNumber \in Nat /\ MaxNumber >= 2
ASSUME LevelAssumption == kNumLevels \in Nat \ {0}

Number == 0..MaxNumber

NumberField == {"log_number", "prev_log_number", "next_file_number",
                "last_sequence"}
ListField == {"compact_pointers", "delete_files", "new_files"}

(* The names of comparators: that of the bytewise comparator, one it is a  *)
(* prefix of, another, and NULL.                                           *)
Name == {"bytewise", "bytewise_v2", "other"}

VersionEdits == [comparator : Name \cup {"NULL"},
                 numbers : [NumberField -> Number],
                 lists : [ListField -> Seq(Nat)]]

Field(tag, value) == [tag |-> tag, value |-> value]

(* What the loop stops at: a tag it does not know, a value it cannot read, *)
(* or bytes that are no tag.                                               *)
Junk == Field("junk", 0)

(* What a record may be made of.                                           *)
Fields ==
  [tag : {"junk"}, value : {0}]
    \cup [tag : {"comparator"}, value : Name]
    \cup [tag : NumberField, value : Number]
    \cup [tag : ListField, value : Nat]

(* versionEditInit stores -1 in the numbers.                               *)
Absent == MaxNumber

VersionEditInit ==
  [comparator |-> "NULL",
   numbers |-> [f \in NumberField |-> Absent],
   lists |-> [f \in ListField |-> << >>]]

(* The edit dbCreate logs.                                                 *)
CreateEdit ==
  [VersionEditInit EXCEPT !.comparator = "bytewise",
                          !.numbers["log_number"] = 0,
                          !.numbers["next_file_number"] = 2,
                          !.numbers["last_sequence"] = 0]
------------------------------------------------------------------------------
(* A number is written unless it is 0.                                     *)
NumberToSds(edit, f) ==
  IF edit.numbers[f] > 0 THEN <<Field(f, edit.numbers[f])>> ELSE << >>

Tagged(tag, levels) == [i \in DOMAIN levels |-> Field(tag, levels[i])]

(* The level written for a deleted file is the address of its key; new     *)
(* files are taken from the list of compaction pointers.                   *)
VersionEditToSds(edit) ==
  (IF edit.comparator = "NULL" THEN << >>
   ELSE <<Field("comparator", edit.comparator)>>)
  \o NumberToSds(edit, "log_number")
  \o NumberToSds(edit, "prev_log_number")
  \o NumberToSds(edit, "next_file_number")
  \o NumberToSds(edit, "last_sequence")
  \o Tagged("compact_pointers", edit.lists["compact_pointers"])
  \o [i \in DOMAIN edit.lists["delete_files"] |-> Junk]
  \o Tagged("new_files", edit.lists["compact_pointers"])

(* The fields for which decodeVersionEditSlice sets msg.                   *)
Malformed(field) ==
  \/ field = Junk
  \/ field.tag \in ListField /\ field.value >= kNumLevels

(* What a sound field makes of the edit.                                   *)
Decoded(edit, field) ==
  CASE field.tag = "comparator" -> [edit EXCEPT !.comparator = field.value]
    [] field.tag \in NumberField ->
         [edit EXCEPT !.numbers[field.tag] = field.value]
    [] field.tag \in ListField ->
         [edit EXCEPT !.lists[field.tag] = Append(@, field.value)]

(* editHasLogNumber and its like: an absent number is one that is there.   *)
EditHas(edit, f) == edit.numbers[f] > 0
==============================================================================
