---------------------------- MODULE VersionBuilder ----------------------------
(***************************************************************************)
(* builderSaveToVersion for one level: the files of the base version and   *)
(* those the edits added are merged and passed to versionMaybeAddFile.     *)
(* The builder is taken to have a base version, which no caller gives it.  *)
(* A file has a number and a smallest key, a place in the order of         *)
(* internal keys.                                                          *)
(***************************************************************************)
EXTENDS Naturals, Sequences

FileMetaData == [number : Nat, smallest : Nat]

CONSTANT Strays    (* the files an uninitialised pointer may lead to       *)

ASSUME StrayAssumption == Strays \subseteq FileMetaData

VARIABLES
  base, added,       (* what is left of both, in order                     *)
  deleted, save_level,
  files,             (* of the new version                                 *)
  saved,             (* is the level done?                                 *)
  passed,            (* history: the files passed to versionMaybeAddFile   *)
  inputs             (* history: base and added at the start               *)

builderVars == <<base, added, deleted, save_level, files, saved, passed,
                 inputs>>

(* bySmallestKeyOperator.                                                  *)
BySmallestKey(f, g) ==
  \/ f.smallest < g.smallest
  \/ f.smallest = g.smallest /\ f.number < g.number

(* versionCreate does not set the lists of a version: files is what the    *)
(* memory happens to hold.                                                 *)
BuilderInit ==
  /\ inputs = [base |-> base, added |-> added]
  /\ saved = FALSE
  /\ passed = << >>

(* versionMaybeAddFile: a file is added only behind another one, and the   *)
(* assertion that the two do not overlap is behind the same guard.  (It    *)
(* takes a list node for a file, and may stop the process.)                *)
MaybeAdds(fs, f) ==
  IF f.number \in deleted \/ save_level = 0 \/ fs = << >> THEN fs
  ELSE Append(fs, f)

MaybeAddFile(f) ==
  /\ files' = MaybeAdds(files, f)
  /\ passed' = Append(passed, f)

(* The inner loop: a base file below the added file at hand.               *)
BaseFirst ==
  /\ added # << >> /\ base # << >>
  /\ BySmallestKey(Head(base), Head(added))
  /\ MaybeAddFile(Head(base))
  /\ base' = Tail(base)
  /\ UNCHANGED <<added, deleted, save_level, saved, inputs>>

(* Broken variant of AddedFirst: the base file is left out.                *)
AddedFirst_DropsBase ==
  /\ added # << >> /\ base # << >>
  /\ ~BySmallestKey(Head(base), Head(added))
  /\ MaybeAddFile(Head(added))
  /\ base' = Tail(base)
  /\ added' = Tail(added)
  /\ UNCHANGED <<deleted, save_level, saved, inputs>>

(* Broken variant of AddedFirst: the two are passed on in the other order. *)
AddedFirst_Swapped ==
  /\ added # << >> /\ base # << >>
  /\ ~BySmallestKey(Head(base), Head(added))
  /\ files' = MaybeAdds(MaybeAdds(files, Head(base)), Head(added))
  /\ passed' = passed \o <<Head(base), Head(added)>>
  /\ base' = Tail(base)
  /\ added' = Tail(added)
  /\ UNCHANGED <<deleted, save_level, saved, inputs>>

(* The added file, then the base file it was compared with: the inner loop *)
(* is left with both behind it.                                            *)
AddedFirst ==
  /\ added # << >> /\ base # << >>
  /\ ~BySmallestKey(Head(base), Head(added))
  /\ files' = MaybeAdds(MaybeAdds(files, Head(added)), Head(base))
  /\ passed' = passed \o <<Head(added), Head(base)>>
  /\ base' = Tail(base)
  /\ added' = Tail(added)
  /\ UNCHANGED <<deleted, save_level, saved, inputs>>

(* No base file is left: the inner loop does nothing, and the added file   *)
(* is never passed on.                                                     *)
AddedLost ==
  /\ added # << >> /\ base = << >>
  /\ added' = Tail(added)
  /\ UNCHANGED <<base, deleted, save_level, files, saved, passed, inputs>>

RestOfBase ==
  /\ added = << >> /\ base # << >>
  /\ MaybeAddFile(Head(base))
  /\ base' = Tail(base)
  /\ UNCHANGED <<added, deleted, save_level, saved, inputs>>

(* The last call of versionMaybeAddFile gets an uninitialised pointer.  If *)
(* the process survives it, the check of the order goes through the array  *)
(* of lists as if it were one, and finds nothing to compare.               *)
LastFile ==
  /\ added = << >> /\ base = << >>
  /\ ~saved
  /\ \E f \in Strays : MaybeAddFile(f)
  /\ saved' = TRUE
  /\ UNCHANGED <<base, added, deleted, save_level, inputs>>

BuilderNext ==
  BaseFirst \/ AddedFirst \/ AddedLost \/ RestOfBase \/ LastFile
------------------------------------------------------------------------------
From(s) == {s[i] : i \in DOMAIN s}

(* The elements of s that are in S, in order.                              *)
Among(s, S) ==
  LET upto[k \in 0..Len(s)] ==
        IF k = 0 THEN << >>
        ELSE IF s[k] \in S THEN Append(upto[k - 1], s[k]) ELSE upto[k - 1]
  IN  upto[Len(s)]

(* The files passed on, without the one of the uninitialised pointer.      *)
Merged == IF saved THEN SubSeq(passed, 1, Len(passed) - 1) ELSE passed

(* Whatever is added, every file of the base is passed on, once and in its *)
(* place among the others of the base; of the added files the first ones   *)
(* are, in order, each right in front of a base file that is not below it, *)
(* and the others are lost.  Nothing else is passed on but one file at the *)
(* end, the one an uninitialised pointer leads to                          *)
(* (versionBuilder.c:89-112).                                              *)
BaseIsKept ==
  LET of(fs) == Among(Merged, From(fs))
      kept == of(inputs.added)
  IN  saved =>
        /\ of(inputs.base) = inputs.base
        /\ Len(Merged) = Len(inputs.base) + Len(kept)
        /\ Len(passed) = Len(Merged) + 1
        /\ kept = SubSeq(inputs.added, 1, Len(kept))
        /\ \A i \in DOMAIN Merged : Merged[i] \in From(inputs.added) =>
              /\ i < Len(Merged)
              /\ Merged[i + 1] \in From(inputs.base)
              /\ ~BySmallestKey(Merged[i + 1], Merged[i])

InOrder(fs) ==
  \A i, j \in DOMAIN fs : i < j => ~BySmallestKey(fs[j], fs[i])

(* Is a file of the base between the k-th added file and the next one, or  *)
(* behind the last one?                                                    *)
Separated(k) ==
  \E i \in DOMAIN inputs.base :
    /\ ~BySmallestKey(inputs.base[i], inputs.added[k])
    /\ k < Len(inputs.added) =>
         ~BySmallestKey(inputs.added[k + 1], inputs.base[i])

(* When the merge is one: out of two lists in order come all their files   *)
(* in order if a file of the base is behind each added one, before the     *)
(* next, and only then.  The comment on the loop has the files passed on   *)
(* in order and all added ones appended, and the check behind it asks for  *)
(* the order (versionBuilder.c:90-92, 116); this is when they are right,   *)
(* in all other cases the files are out of order or some are lost.         *)
MergesIfSeparated ==
  saved /\ InOrder(inputs.base) /\ InOrder(inputs.added) =>
    (InOrder(Merged) /\ From(inputs.added) \subseteq From(Merged)
       <=> \A k \in DOMAIN inputs.added : Separated(k))
==============================================================================
