--------------------------- MODULE VersionRecovery ---------------------------
(***************************************************************************)
(* recoverVersions: the edits of the manifest CURRENT names are read,      *)
(* decoded and checked one by one, the numbers in them are collected, and  *)
(* a version with those numbers is installed in the version set.           *)
(*                                                                         *)
(* LogSystem says what the log reader makes of a damaged file: records are *)
(* missing, none is invented, and here nobody is told, for the reader has  *)
(* no Recover.  A damaged entry of the manifest is one that goes missing.  *)
(***************************************************************************)
EXTENDS VersionEdit, Integers

VARIABLES
  manifest,          (* the entries of the manifest, as in RecoveredVersion *)
  pos,               (* how many of them the reader is past                 *)
  pc,
  error,             (* of recoverVersions                                  *)
  input, edit,       (* of decodeVersionEditSlice                           *)
  last, have,        (* last_log_number ..., have_log_number ...            *)
  next_file_number,  (* of the version set                                  *)
  current,           (* of the version set: "NULL" or "dangling", then "v"  *)
  v,                 (* the version: its reference count, live or released  *)
  numbers,           (* of the version set, all 0 until they are set        *)
  save_manifest

decoder == <<input, edit>>
collected == <<last, have>>
version_set == <<next_file_number, current, v, numbers, save_manifest>>
vars == <<manifest, pos, pc, error, decoder, collected, version_set>>

Entries == [edit : VersionEdits, foreign : Seq(Fields), damaged : BOOLEAN]

Errors == {"Ok", "IOError", "Corruption", "InvalidArgument", "uninitialised"}

PC == {"open", "read", "decode", "apply", "collect", "check", "install",
       "returned", "crashed"}

(* The state has its type.                                                 *)
TypeOK ==
  /\ manifest \in Seq(Entries)
  /\ pos \in 0..Len(manifest)
  /\ pc \in PC
  /\ error \in Errors
  /\ input \in Seq(Fields)
  /\ edit \in VersionEdits
  /\ last \in [NumberField -> Number]
  /\ have \in [NumberField -> BOOLEAN]
  /\ next_file_number \in Number
  /\ current \in {"NULL", "dangling", "v"}
  /\ v \in [refs : Int, state : {"live", "released"}]
  /\ numbers \in [NumberField -> Number]
  /\ save_manifest \in BOOLEAN

Return(err) == error' = err /\ pc' = "returned"

None == [f \in NumberField |-> 0]

(* versionSetCreate leaves next_file_number and current as it finds them.  *)
Init ==
  /\ manifest \in Seq(Entries)
  /\ pos = 0
  /\ pc = "open"
  /\ error = "Ok"
  /\ input = << >>
  /\ edit = VersionEditInit
  /\ last = None
  /\ have = [f \in NumberField |-> FALSE]
  /\ next_file_number \in Number
  /\ current \in {"NULL", "dangling"}
  /\ v = [refs |-> 0, state |-> "live"]
  /\ numbers = None
  /\ save_manifest = FALSE

(* CURRENT cannot be read or does not end with a newline, or the manifest  *)
(* it names cannot be opened; or all is well.                              *)
OpenManifest ==
  /\ pc = "open"
  /\ \/ \E err \in {"IOError", "Corruption"} : Return(err)
     \/ pc' = "read" /\ UNCHANGED error
  /\ UNCHANGED <<manifest, pos, decoder, collected, version_set>>
------------------------------------------------------------------------------
(* Entry k is the next one the log reader returns.                         *)
NextReadable(k) ==
  /\ k \in (pos + 1)..Len(manifest)
  /\ ~manifest[k].damaged
  /\ \A i \in (pos + 1)..(k - 1) : manifest[i].damaged

Record(k) == VersionEditToSds(manifest[k].edit) \o manifest[k].foreign

(* Broken variant of ReadRecord: the loop does not look at the error.      *)
ReadRecord_AfterError ==
  /\ pc = "read"
  /\ \E k \in DOMAIN manifest :
       /\ NextReadable(k)
       /\ pos' = k
       /\ input' = Record(k)
  /\ edit' = VersionEditInit
  /\ pc' = "decode"
  /\ UNCHANGED <<manifest, error, collected, version_set>>

(* readLogRecord returns a record, and decodeVersionEditSlice clears the   *)
(* edit.                                                                   *)
ReadRecord ==
  /\ pc = "read"
  /\ error = "Ok"
  /\ \E k \in DOMAIN manifest :
       /\ NextReadable(k)
       /\ pos' = k
       /\ input' = Record(k)
  /\ edit' = VersionEditInit
  /\ pc' = "decode"
  /\ UNCHANGED <<manifest, error, collected, version_set>>

(* The loop ends at the end of the log, or after an error, which is looked *)
(* at only once another record has been read.                              *)
EndOfLoop ==
  /\ pc = "read"
  /\ \/ /\ error # "Ok"
        /\ \E k \in DOMAIN manifest : NextReadable(k) /\ pos' = k
     \/ /\ \A k \in DOMAIN manifest : ~NextReadable(k)
        /\ pos' = Len(manifest)
  /\ pc' = "check"
  /\ UNCHANGED <<manifest, error, decoder, collected, version_set>>

(* Broken variant of DecodeField: the field is not consumed.               *)
DecodeField_InPlace ==
  /\ pc = "decode"
  /\ input # << >>
  /\ ~Malformed(Head(input))
  /\ edit' = Decoded(edit, Head(input))
  /\ UNCHANGED <<manifest, pos, pc, input, error, collected, version_set>>

(* One turn of the loop of decodeVersionEditSlice.                         *)
DecodeField ==
  /\ pc = "decode"
  /\ input # << >>
  /\ ~Malformed(Head(input))
  /\ edit' = Decoded(edit, Head(input))
  /\ input' = Tail(input)
  /\ UNCHANGED <<manifest, pos, pc, error, collected, version_set>>

(* The rest is left.  What was decoded stays in the edit.                  *)
DecodeFails ==
  /\ pc = "decode"
  /\ input # << >>
  /\ Malformed(Head(input))
  /\ input' = << >>
  /\ error' = "Corruption"
  /\ pc' = "collect"
  /\ UNCHANGED <<manifest, pos, edit, collected, version_set>>

(* The error returned for a sound edit is uninitialised: it may look like  *)
(* Ok, or like another.                                                    *)
DecodeEnds ==
  /\ pc = "decode"
  /\ input = << >>
  /\ \/ error' = "Ok" /\ pc' = "apply"
     \/ error' = "uninitialised" /\ pc' = "collect"
  /\ UNCHANGED <<manifest, pos, decoder, collected, version_set>>

(* strncmp over the length of the bytewise comparator's name, the wrong    *)
(* way round.                                                              *)
Mismatch(name) == name \in {"bytewise", "bytewise_v2"}

(* versionSetBuilderApply.  New files cannot be applied: the pointer they  *)
(* are reached through is NULL (Crash).  Pointers and deleted files can,   *)
(* if the fields they go to, which nobody set, happen to lead somewhere.   *)
Applies(e) == e.lists["new_files"] = << >>

(* The comparator is checked and the edit applied to the builder.          *)
ApplyEdit ==
  /\ pc = "apply"
  /\ IF Mismatch(edit.comparator)
     THEN error' = "InvalidArgument"
     ELSE Applies(edit) /\ UNCHANGED error
  /\ pc' = "collect"
  /\ UNCHANGED <<manifest, pos, decoder, collected, version_set>>

(* The numbers are collected, of an edit that was refused too.             *)
CollectNumbers ==
  /\ pc = "collect"
  /\ last' = [f \in NumberField |->
                IF EditHas(edit, f) THEN edit.numbers[f] ELSE last[f]]
  /\ have' = [f \in NumberField |-> have[f] \/ EditHas(edit, f)]
  /\ pc' = "read"
  /\ UNCHANGED <<manifest, pos, error, decoder, version_set>>
------------------------------------------------------------------------------
(* Broken variant of MakeFileNumberUsed: a number that is the next one is  *)
(* handed out again.                                                       *)
MakeFileNumberUsed_Next(next, number) ==
  IF next < number THEN (number + 1) % (MaxNumber + 1) ELSE next

(* Broken variant of MakeFileNumberUsed: unbounded numbers.                *)
MakeFileNumberUsed_Unbounded(next, number) ==
  IF next <= number THEN number + 1 ELSE next

(* versionSetMakeFileNumberUsed, in 64 bits.                               *)
MakeFileNumberUsed(next, number) ==
  IF next <= number THEN (number + 1) % (MaxNumber + 1) ELSE next

(* Is there a value for every number that must have one?  The log numbers  *)
(* are marked used even if there is not.                                   *)
CheckNumbers ==
  /\ pc = "check"
  /\ IF error # "Ok"
     THEN /\ Return(error)
          /\ UNCHANGED <<last, next_file_number>>
     ELSE LET prev == IF have["prev_log_number"]
                      THEN last["prev_log_number"] ELSE 0
          IN  /\ last' = [last EXCEPT !["prev_log_number"] = prev]
              /\ next_file_number' =
                   MakeFileNumberUsed(
                     MakeFileNumberUsed(next_file_number, prev),
                     last["log_number"])
              /\ IF \A f \in NumberField \ {"prev_log_number"} : have[f]
                 THEN pc' = "install" /\ UNCHANGED error
                 ELSE Return("Corruption")
  /\ UNCHANGED <<manifest, pos, decoder, have, current, v, numbers,
                 save_manifest>>

VersionCreate == [refs |-> 0, state |-> "live"]

VersionRef(version) ==
  [refs |-> version.refs + 1, state |-> version.state]

VersionUnref(version) ==
  [refs |-> version.refs - 1,
   state |-> IF version.refs = 1 THEN "released" ELSE version.state]

(* Broken variant of AppendVersion: the reference is taken first.          *)
AppendVersion_RefFirst(cur, version) ==
  IF cur = "NULL" THEN VersionRef(version)
  ELSE VersionUnref(VersionRef(version))

(* versionSetAppendVersion.  It is the new version that loses a reference  *)
(* if there was a current one.                                             *)
AppendVersion(cur, version) ==
  IF cur = "NULL" THEN VersionRef(version)
  ELSE VersionRef(VersionUnref(version))

(* The version is made and becomes current, and the version set gets its   *)
(* numbers: last["next_file_number"] is that of the manifest.              *)
InstallVersion ==
  /\ pc = "install"
  /\ v' = AppendVersion(current, VersionCreate)
  /\ current' = "v"
  /\ numbers' = last
  /\ next_file_number' = (last["next_file_number"] + 1) % (MaxNumber + 1)
  /\ save_manifest' \in {save_manifest, TRUE}
  /\ Return("Ok")
  /\ UNCHANGED <<manifest, pos, decoder, collected>>

(* The process dies.  It may at any time, and the code has its own reasons *)
(* to: env, builder->vset, builder->base and dummy_versions are never set, *)
(* the error of decodeVersionEditSlice is not an address, and the loop     *)
(* over new files goes through a NULL pointer.                             *)
Crash ==
  /\ pc \notin {"returned", "crashed"}
  /\ pc' = "crashed"
  /\ UNCHANGED <<manifest, pos, error, decoder, collected, version_set>>

Next ==
  \/ OpenManifest \/ ReadRecord \/ EndOfLoop
  \/ DecodeField \/ DecodeFails \/ DecodeEnds
  \/ ApplyEdit \/ CollectNumbers
  \/ CheckNumbers \/ InstallVersion \/ Crash

Spec == Init /\ [][Next]_vars

(* recoverVersions runs under the mutex of its database and waits for      *)
(* nothing but reads of regular files.  Nothing stops the process but, in  *)
(* the end, the NULL pointer new files are applied through.                *)
Fairness == WF_vars(Next /\ ~Crash) /\ WF_vars(pc = "apply" /\ Crash)
------------------------------------------------------------------------------
(***************************************************************************)
(* recoverVersions, whatever becomes of it on the way and over however     *)
(* many variables its state is spread, implements RecoveredVersion.  It    *)
(* installs exactly the numbers the edits gave, and no edit that was       *)
(* refused is ever followed by an installation; or it fails and leaves the *)
(* numbers of the version set as they were, next_file_number among them    *)
(* unless it fails because a number is missing: by then it has marked the  *)
(* log numbers used (versionSet.c:187-270, versionEdit.c:20-85, 170-271).  *)
(***************************************************************************)
Abstract == INSTANCE RecoveredVersion WITH
  outcome <- IF pc = "crashed" THEN "crashed"
             ELSE IF pc = "install" THEN "marked"
             ELSE IF pc # "returned" THEN "none"
             ELSE IF error = "Ok" THEN "installed" ELSE "refused",
  installed <- numbers,
  next_file <- next_file_number

ImplementsRecovery == Abstract!Spec

(* Although versionSetAppendVersion gives up a reference of the version it *)
(* installs, that version is not released while it is current: its count   *)
(* goes through -1, never from 1 to 0 (versionSet.c:32-36,                 *)
(* version.c:37-42).  It may end at 0, one reference short.                *)
CurrentIsLive == current = "v" => v.state = "live"

(* Before a version is installed both log numbers have been marked used: a *)
(* new file would get a higher one, unless one of them was absent, when    *)
(* next_file_number goes round to 0 (versionSet.c:22-26, 245-246).  That   *)
(* lasts until the number in the manifest replaces it (versionSet.c:255).  *)
LogNumbersAreUsed ==
  pc = "install" /\ Absent \notin {last["log_number"], last["prev_log_number"]}
    => /\ last["log_number"] < next_file_number
       /\ last["prev_log_number"] < next_file_number

(* A recovery ends: the loop over the records of the manifest, and in it   *)
(* the loop over the fields of each, come to an end (versionSet.c:187,     *)
(* versionEdit.c:185).                                                     *)
RecoveryEnds == <>(pc \in {"returned", "crashed"})

(* A manifest is refused for its comparator only if an edit in it names    *)
(* one that is not the existing one: the error is that it "does not match  *)
(* existing comparator" (versionSet.c:199).                                *)
RefusedComparatorDiffers ==
  error = "InvalidArgument" => edit.comparator # "bytewise"

(* What editHasLogNumber and its like find in an edit read back is what    *)
(* was logged: logReader_test.c:127-148 asserts it.                        *)
HasNumberWasLogged ==
  pc = "collect" =>
    \A f \in NumberField :
      EditHas(edit, f) => edit.numbers[f] = manifest[pos].edit.numbers[f]
==============================================================================
