-------------------------- MODULE MCVersionRecovery --------------------------
(***************************************************************************)
(* Small manifests for TLC: the edit dbCreate logs, edits with each number *)
(* there, absent or 0, edits with entries in the lists, and fields other   *)
(* writers (LevelDB itself, whose format this is) put in theirs.           *)
(***************************************************************************)
EXTENDS VersionRecovery, SequencesExt

CONSTANTS
  MaxEntries,        (* bound on the length of a manifest                  *)
  OnlyCreated        (* only the manifest dbCreate writes                  *)

With(log, prev, next, sequence) ==
  [VersionEditInit EXCEPT !.numbers["log_number"] = log,
                          !.numbers["prev_log_number"] = prev,
                          !.numbers["next_file_number"] = next,
                          !.numbers["last_sequence"] = sequence]

Listing(f) == [VersionEditInit EXCEPT !.lists[f] = <<0>>]

Entry(e, fs) == [edit |-> e, foreign |-> fs, damaged |-> FALSE]

Whole == With(1, 2, 3, 4)

Damaged == [Entry(Whole, << >>) EXCEPT !.damaged = TRUE]

MCEntries ==
  {Damaged, Entry(CreateEdit, << >>), Entry(Whole, << >>),
   Entry([Whole EXCEPT !.comparator = "other"], <<Junk>>),
   Entry([Whole EXCEPT !.comparator = "bytewise_v2"], << >>),
   Entry(With(5, 0, 0, Absent), << >>),
   Entry(With(Absent, Absent, Absent, 0), <<Field("prev_log_number", 0)>>),
   Entry(With(0, 0, Absent, 6), <<Field("log_number", 0),
                                  Field("log_number", 6),
                                  Field("delete_files", kNumLevels - 1)>>),
   Entry(VersionEditInit, [i \in 1..3 |->
           Field(<<"log_number", "next_file_number", "last_sequence">>[i], 0)]),
   Entry(VersionEditInit, <<Field("new_files", 0)>>),
   Entry(VersionEditInit, <<Field("compact_pointers", kNumLevels)>>)}
  \cup {Entry(Listing(f), << >>) : f \in ListField}

MCInit ==
  /\ IF OnlyCreated
     THEN manifest = <<Entry(CreateEdit, << >>)>>
     ELSE manifest \in BoundedSeq(MCEntries, MaxEntries)
  /\ next_file_number \in {0, 2, Absent}
  /\ Init

MCSpec == MCInit /\ [][Next]_vars

FairSpec == MCSpec /\ Fairness
==============================================================================
