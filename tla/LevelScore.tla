------------------------------ MODULE LevelScore ------------------------------
(***************************************************************************)
(* versionSetFinalizeVersion: the level of a version that most needs a     *)
(* compaction.  Scores are fractions, a numerator over a denominator, and  *)
(* exact, where the code has doubles.                                      *)
(***************************************************************************)
EXTENDS Integers, Sequences

CONSTANTS
  kNumLevels,
  kL0_CompactionTrigger,   (* files in level 0: 4                          *)
  LevelBytes,              (* bytes in level 1: 10 MB                      *)
  Versions                 (* the versions scored: the sizes of the files  *)
                           (* in each level                                *)

ASSUME ScoreAssumption ==
  /\ kNumLevels \in Nat /\ kNumLevels >= 2
  /\ kL0_CompactionTrigger \in Nat \ {0}
  /\ LevelBytes \in Nat \ {0}
  /\ Versions \subseteq [0..(kNumLevels - 1) -> Seq(Nat)]

VARIABLES
  version, compaction_level, compaction_score

scoreVars == <<version, compaction_level, compaction_score>>

TotalFileSize(sizes) ==
  LET upto[i \in 0..Len(sizes)] ==
        IF i = 0 THEN 0 ELSE upto[i - 1] + sizes[i]
  IN  upto[Len(sizes)]

(* Broken variant of MaxBytesForLevel: one factor too many.                *)
MaxBytesForLevel_TooMuch(level) ==
  LET result[l \in 0..level] ==
        IF l = 0 THEN LevelBytes ELSE result[l - 1] * 10
  IN  result[level]

MaxBytesForLevel(level) ==
  LET result[l \in 1..level] ==
        IF l = 1 THEN LevelBytes ELSE result[l - 1] * 10
  IN  result[level]

(* The last level is not scored: there is none to compact it into.         *)
Scored == 0..(kNumLevels - 2)

Score(level) ==
  IF level = 0 THEN <<Len(version[0]), kL0_CompactionTrigger>>
  ELSE <<TotalFileSize(version[level]), MaxBytesForLevel(level)>>

(* Broken variant of Higher: the last of equals wins.                      *)
Higher_OrEqual(a, b) == a[1] * b[2] >= b[1] * a[2]

Higher(a, b) == a[1] * b[2] > b[1] * a[2]

BestLevel ==
  LET best[level \in Scored] ==
        IF level = 0 THEN 0
        ELSE IF Higher(Score(level), Score(best[level - 1])) THEN level
             ELSE best[level - 1]
  IN  best[kNumLevels - 2]

(* versionCreate.                                                          *)
ScoreInit ==
  /\ version \in Versions
  /\ compaction_level = -1
  /\ compaction_score = <<-1, 1>>

FinalizeVersion ==
  /\ compaction_level = -1
  /\ compaction_level' = BestLevel
  /\ compaction_score' = Score(BestLevel)
  /\ UNCHANGED version

ScoreSpec == ScoreInit /\ [][FinalizeVersion]_scoreVars
------------------------------------------------------------------------------
(* The level chosen is the first of those with the highest score           *)
(* (versionSet.c:82-115).                                                  *)
FirstOfTheHighest ==
  compaction_level # -1 =>
    \A level \in Scored :
      LET mine == compaction_score[1] * Score(level)[2]
          other == Score(level)[1] * compaction_score[2]
      IN  mine >= other /\ (level < compaction_level => mine > other)

(* A score above 1 is what asks for a compaction (versionSet.c:116).  It   *)
(* is above 1 just when some level holds more than it may: four files in   *)
(* level 0, 10 MB in level 1, and in every other level ten times what the  *)
(* one above it may hold (versionSet.c:60-74).                             *)
CompactsWhatIsFull ==
  LET limit[level \in Scored \ {0}] ==
        IF level = 1 THEN LevelBytes ELSE 10 * limit[level - 1]
  IN  compaction_level # -1 =>
        ( compaction_score[1] > compaction_score[2] <=>
            \/ Len(version[0]) > kL0_CompactionTrigger
            \/ \E level \in Scored \ {0} :
                 TotalFileSize(version[level]) > limit[level] )
==============================================================================
