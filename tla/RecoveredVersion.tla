--------------------------- MODULE RecoveredVersion ---------------------------
(***************************************************************************)
(* What the recovery of a manifest promises, whatever it does on the way:  *)
(* it fails, or it installs, in one step, the numbers the sound edits of   *)
(* the manifest give, and it does not install anything if one of the       *)
(* records that can be read is unsound.  Before it installs them, or       *)
(* fails because one of them is missing, it marks the log numbers as used; *)
(* any other failure leaves next_file_number as it was too.  The numbers   *)
(* are read off the edits as they were logged, without a word about their  *)
(* encoding.                                                               *)
(*                                                                         *)
(* An entry of the manifest is an edit this code logged, with the fields   *)
(* that other writers put behind it, and is damaged or not.                *)
(***************************************************************************)
EXTENDS VersionEdit

VARIABLES
  manifest,
  outcome,      (* "none", "marked", "installed", "refused" or "crashed"   *)
  installed,    (* the numbers, all 0 unless they are installed            *)
  next_file     (* the next number for a file                              *)

vars == <<manifest, outcome, installed, next_file>>

Nothing == [f \in NumberField |-> 0]

Readable == {k \in DOMAIN manifest : ~manifest[k].damaged}

(* The fields of entry k that other writers logged for f.                  *)
Foreign(k, f) ==
  {i \in DOMAIN manifest[k].foreign : manifest[k].foreign[i].tag = f}

Last(S) == CHOOSE i \in S : \A j \in S : j <= i

(* What entry k says of number f: 0 only if another writer spelled it out. *)
Says(k, f) ==
  LET ours == manifest[k].edit.numbers[f]
  IN  IF Foreign(k, f) # {}
      THEN manifest[k].foreign[Last(Foreign(k, f))].value
      ELSE IF ours = 0 THEN Absent ELSE ours

(* The last entry that says anything but 0 decides.                        *)
Recovered ==
  [f \in NumberField |->
     LET sayers == {k \in Readable : Says(k, f) # 0}
     IN  IF sayers = {} THEN 0 ELSE Says(Last(sayers), f)]

NameIn(k) ==
  IF Foreign(k, "comparator") # {}
  THEN manifest[k].foreign[Last(Foreign(k, "comparator"))].value
  ELSE manifest[k].edit.comparator

(* Edits that name the bytewise comparator, that touch the lists in a way  *)
(* that does not survive versionEditToSds, or that hold junk or new files. *)
Unsound(k) ==
  \/ NameIn(k) \in {"bytewise", "bytewise_v2"}
  \/ \E f \in {"compact_pointers", "delete_files"} :
        manifest[k].edit.lists[f] # << >>
  \/ \E i \in DOMAIN manifest[k].foreign :
        \/ Malformed(manifest[k].foreign[i])
        \/ manifest[k].foreign[i].tag = "new_files"

(* The next number for a file once both log numbers are used.  There is    *)
(* none above Absent: the numbers start again.                             *)
Marked ==
  LET log == Recovered["log_number"]
      prev == Recovered["prev_log_number"]
  IN  CASE log = Absent                   -> 0
        [] log # Absent /\ prev = Absent  -> log + 1
        [] OTHER -> Last({next_file, prev + 1, log + 1})

Init == outcome = "none" /\ installed = Nothing /\ next_file \in Number

Mark ==
  /\ outcome = "none"
  /\ \A k \in Readable : ~Unsound(k)
  /\ next_file' = Marked
  /\ outcome' = IF \A f \in NumberField \ {"prev_log_number"} : Recovered[f] # 0
                THEN "marked" ELSE "refused"
  /\ UNCHANGED <<manifest, installed>>

Install ==
  /\ outcome = "marked"
  /\ outcome' = "installed"
  /\ installed' = Recovered
  /\ next_file' = IF Recovered["next_file_number"] = Absent
                  THEN 0 ELSE Recovered["next_file_number"] + 1
  /\ UNCHANGED manifest

Fail ==
  /\ \/ outcome = "none" /\ outcome' \in {"refused", "crashed"}
     \/ outcome = "marked" /\ outcome' = "crashed"
  /\ UNCHANGED <<manifest, installed, next_file>>

Next == Mark \/ Install \/ Fail

Spec == Init /\ [][Next]_vars
==============================================================================
