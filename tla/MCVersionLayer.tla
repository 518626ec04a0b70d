---------------------------- MODULE MCVersionLayer ----------------------------
(***************************************************************************)
(* The algorithms of the version layer, on every small input: the order of *)
(* keys and their shortening, the merge of files, the choice of a level to *)
(* compact.  One of the three runs; the others stay where they are.        *)
(***************************************************************************)
EXTENDS KeyShortening, VersionBuilder, LevelScore
LOCAL INSTANCE SequencesExt

CONSTANTS
  KeyBytes, MaxKeyLength,     (* bounds on the keys                        *)
  MaxSmallest, MaxFiles       (* bounds on the files of base and added     *)

VARIABLE algorithm

vars == <<algorithm, keyVars, builderVars, scoreVars>>

MCKeys == BoundedSeq(KeyBytes, MaxKeyLength)

(* Levels 0 to 3, of which the last is not scored.  Half full, just full   *)
(* and more than full, in few files or in many.                            *)
MCVersions ==
  {<<l0, l1, l2, l3>> : l0 \in {[i \in 1..n |-> 7] : n \in {0, 2, 4, 5, 8}},
     l1 \in {<< >>, <<5>>, <<4, 6>>, <<11>>, <<20, 30>>},
     l2 \in {<< >>, <<99>>, <<60, 40>>, <<101>>, <<150, 50>>, <<500>>},
     l3 \in {<< >>, <<90000>>}}

VersionOf(levels) == [level \in 0..3 |-> levels[level + 1]]

MCVersionsByLevel == {VersionOf(levels) : levels \in MCVersions}

(* Files of which none starts below the one before it, numbered from n.    *)
Files(n) ==
  {[i \in DOMAIN s |-> [number |-> n + i, smallest |-> s[i]]] :
     s \in {s \in BoundedSeq(1..MaxSmallest, MaxFiles) :
              \A i \in 2..Len(s) : s[i - 1] <= s[i]}}

(* Where the uninitialised pointer leads: to no file, or to one of base.   *)
MCStrays ==
  {[number |-> 0, smallest |-> 0], [number |-> 11, smallest |-> 1]}

(* The added files may have lower numbers than those of the base, or       *)
(* higher ones.  The list of the version may hold a file or not.           *)
MCInit ==
  /\ algorithm \in {"keys", "files", "score"}
  /\ IF algorithm = "keys" THEN KeyInit
     ELSE /\ start = << >> /\ limit = << >> /\ before = << >>
          /\ call = "freed" /\ char_signed = FALSE
  /\ IF algorithm = "files"
     THEN /\ base \in Files(10)
          /\ added \in Files(0) \cup Files(20)
          /\ deleted \in {{}, {11}, {1, 21}}
          /\ save_level \in {0, 1}
          /\ files \in {<< >>, <<[number |-> 9, smallest |-> 0]>>}
     ELSE /\ base = << >> /\ added = << >> /\ deleted = {} /\ save_level = 0
          /\ files = << >>
  /\ BuilderInit
  /\ IF algorithm = "score" THEN ScoreInit
     ELSE /\ version = VersionOf(<<<< >>, << >>, << >>, << >>>>)
          /\ compaction_level = -1
          /\ compaction_score = <<-1, 1>>

ShortenKey ==
  algorithm = "keys" /\ KeyNext
  /\ UNCHANGED <<algorithm, builderVars, scoreVars>>

SaveToVersion ==
  algorithm = "files" /\ BuilderNext
  /\ UNCHANGED <<algorithm, keyVars, scoreVars>>

ScoreLevels ==
  algorithm = "score" /\ FinalizeVersion
  /\ UNCHANGED <<algorithm, keyVars, builderVars>>

Next == ShortenKey \/ SaveToVersion \/ ScoreLevels

Spec == MCInit /\ [][Next]_vars
==============================================================================
