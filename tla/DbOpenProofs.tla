----------------------------- MODULE DbOpenProofs -----------------------------
(***************************************************************************)
(* What holds of DbOpen for any number of processes.                       *)
(***************************************************************************)
EXTENDS DbOpen, TLAPS

THEOREM TypeCorrect == Spec => []TypeOK
<1>1. Init => TypeOK
  <2>. SUFFICES ASSUME Init PROVE TypeOK
    OBVIOUS
  <2>1. error_lost \in BOOLEAN /\ options \in [Process -> DiskDbOptions]
    BY DEF Init, DiskDbOptions
  <2>. QED
    BY <2>1 DEF Init, TypeOK, File, Content, PC, Holding, Creating
<1>2. TypeOK /\ [Next]_vars => TypeOK'
  <2>. SUFFICES ASSUME TypeOK, [Next]_vars PROVE TypeOK'
    OBVIOUS
  <2>1. ASSUME NEW p \in Process, DiskDbOpen(p) PROVE TypeOK'
    BY <2>1 DEF DiskDbOpen, Goto, filesystem, TypeOK, PC, Holding, Creating
  <2>2. ASSUME NEW p \in Process, LockDb(p) PROVE TypeOK'
    BY <2>2 DEF LockDb, Goto, Return, filesystem, TypeOK, PC, Holding, Creating
  <2>3. ASSUME NEW p \in Process, CheckCurrent(p) PROVE TypeOK'
    BY <2>3 DEF CheckCurrent, Goto, Return, filesystem, call, TypeOK, PC,
                Holding, Creating
  <2>4. ASSUME NEW p \in Process, CreateManifest(p) PROVE TypeOK'
    BY <2>4 DEF CreateManifest, Put, Goto, Return, filesystem, call, TypeOK,
                PC, Holding, Creating, File, Content
  <2>5. ASSUME NEW p \in Process, LogEdit(p) PROVE TypeOK'
    <3>1. error_lost' \in BOOLEAN
      BY <2>5 DEF LogEdit, TypeOK
    <3>2. files' \in [File -> Content] /\ survives' \in [File -> SUBSET Content]
      BY <2>5 DEF LogEdit, Put, TypeOK, File, Content
    <3>3. pc' \in [Process -> PC]
      BY <2>5 DEF LogEdit, Goto, TypeOK, PC
    <3>4. \A q \in Process : pc'[q] \in Holding => q \in lock'
      BY <2>5 DEF LogEdit, Goto, TypeOK, Holding, Creating
    <3>. QED
      BY <2>5, <3>1, <3>2, <3>3, <3>4 DEF LogEdit, TypeOK
  <2>6. ASSUME NEW p \in Process, SyncManifest(p) PROVE TypeOK'
    <3>1. error_lost' \in BOOLEAN
      BY <2>6 DEF SyncManifest, TypeOK
    <3>2. survives' \in [File -> SUBSET Content]
      BY <2>6 DEF SyncManifest, TypeOK, File, Content
    <3>3. pc' \in [Process -> PC]
      BY <2>6 DEF SyncManifest, Goto, TypeOK, PC
    <3>4. \A q \in Process : pc'[q] \in Holding => q \in lock'
      BY <2>6 DEF SyncManifest, Goto, TypeOK, Holding, Creating
    <3>. QED
      BY <2>6, <3>1, <3>2, <3>3, <3>4 DEF SyncManifest, TypeOK
  <2>7. ASSUME NEW p \in Process, CloseManifest(p) PROVE TypeOK'
    BY <2>7 DEF CloseManifest, Goto, filesystem, call, TypeOK, PC, Holding,
                Creating
  <2>8. ASSUME NEW p \in Process, WriteTmp(p) PROVE TypeOK'
    BY <2>8 DEF WriteTmp, Put, Goto, call, TypeOK, PC, Holding, Creating, File,
                Content
  <2>9. ASSUME NEW p \in Process, RenameTmp(p) PROVE TypeOK'
    BY <2>9 DEF RenameTmp, Goto, filesystem, call, TypeOK, PC, Holding,
                Creating, File, Content
  <2>10. ASSUME NEW p \in Process, RemoveTmp(p) PROVE TypeOK'
    BY <2>10 DEF RemoveTmp, Put, Goto, Return, filesystem, call, TypeOK, PC,
                 Holding, Creating, File, Content
  <2>11. ASSUME NEW p \in Process, RecoverVersions(p) PROVE TypeOK'
    BY <2>11 DEF RecoverVersions, Goto, Return, filesystem, call, TypeOK, PC,
                 Holding, Creating
  <2>12. ASSUME NEW p \in Process, Exit(p) PROVE TypeOK'
    BY <2>12 DEF Exit, Goto, filesystem, TypeOK, PC, Holding, Creating
  <2>13. ASSUME NEW p \in Process, DiskDbRelease(p) PROVE TypeOK'
    BY <2>13 DEF DiskDbRelease, Goto, filesystem, call, TypeOK, PC, Holding,
                 Creating
  <2>14. CASE PowerLoss
    BY <2>14 DEF PowerLoss, TypeOK, PC, Holding, Creating
  <2>15. CASE UNCHANGED vars
    BY <2>15 DEF vars, TypeOK
  <2>. QED
    BY <2>1, <2>2, <2>3, <2>4, <2>5, <2>6, <2>7, <2>8, <2>9, <2>10, <2>11,
       <2>12, <2>13, <2>14, <2>15 DEF Next, Step
<1>. QED
  BY <1>1, <1>2, PTL DEF Spec
------------------------------------------------------------------------------
(***************************************************************************)
(* Only one process at a time is past the lock, so what CheckCurrent saw   *)
(* stays so until that process changes it: while a process creates the     *)
(* database there is no CURRENT.                                           *)
(***************************************************************************)
OneHolder == \A p, q \in lock : p = q

NoCurrentYet ==
  \A p \in Process : pc[p] \in Creating => files["current"] = "absent"

CreationInv == TypeOK /\ OneHolder /\ NoCurrentYet

(* No other process is past the lock than the one that holds it.           *)
LEMMA HoldersAlone ==
  ASSUME CreationInv, NEW p \in Process, p \in lock
  PROVE  \A q \in Process : q # p => pc[q] \notin Holding
<1>1. \A q \in Process : pc[q] \in Holding => q \in lock
  BY DEF CreationInv, TypeOK
<1>. QED
  BY <1>1 DEF CreationInv, OneHolder

(* A step of the process that holds the lock leaves the others where they  *)
(* are, outside.                                                           *)
LEMMA StepsAlone ==
  ASSUME CreationInv, NEW p \in Process, NEW l \in PC,
         p \in lock, Goto(p, l), lock' = lock,
         l \in Creating => files'["current"] = "absent"
  PROVE  OneHolder' /\ NoCurrentYet'
<1>1. pc'[p] = l /\ \A q \in Process : q # p => pc'[q] = pc[q]
  BY DEF CreationInv, TypeOK, Goto
<1>2. \A q \in Process : q # p => pc[q] \notin Holding
  BY HoldersAlone
<1>3. OneHolder'
  BY <1>1 DEF CreationInv, OneHolder
<1>4. NoCurrentYet'
  BY <1>1, <1>2 DEF NoCurrentYet, Holding
<1>. QED
  BY <1>3, <1>4

LEMMA CreationInductive ==
  ASSUME CreationInv, [Next]_vars
  PROVE  OneHolder' /\ NoCurrentYet'
<1>1. ASSUME NEW p \in Process, DiskDbOpen(p)
      PROVE  OneHolder' /\ NoCurrentYet'
  BY <1>1 DEF DiskDbOpen, Goto, filesystem, CreationInv, TypeOK, OneHolder,
              NoCurrentYet, Holding, Creating
<1>2. ASSUME NEW p \in Process, LockDb(p)
      PROVE  OneHolder' /\ NoCurrentYet'
  BY <1>2 DEF LockDb, Goto, Return, filesystem, CreationInv, TypeOK, OneHolder,
              NoCurrentYet, Holding, Creating
<1>3. ASSUME NEW p \in Process, pc[p] \in Holding, lock' = lock,
             NEW l \in PC, Goto(p, l),
             l \in Creating => files'["current"] = "absent"
      PROVE  OneHolder' /\ NoCurrentYet'
  BY <1>3, StepsAlone DEF CreationInv, TypeOK
<1>4. ASSUME NEW p \in Process, pc[p] \in Creating
      PROVE  files["current"] = "absent" /\ pc[p] \in Holding
  BY <1>4 DEF CreationInv, NoCurrentYet, Holding
<1>5. ASSUME NEW p \in Process, CheckCurrent(p)
      PROVE  OneHolder' /\ NoCurrentYet'
  BY <1>3, <1>5
  DEF CheckCurrent, Return, filesystem, call, Holding, Creating, PC
<1>6. ASSUME NEW p \in Process, CreateManifest(p)
      PROVE  OneHolder' /\ NoCurrentYet'
  BY <1>3, <1>4, <1>6
  DEF CreateManifest, Put, Return, filesystem, call, Holding, Creating, PC,
      CreationInv, TypeOK, File
<1>7. ASSUME NEW p \in Process, LogEdit(p)
      PROVE  OneHolder' /\ NoCurrentYet'
  BY <1>3, <1>4, <1>7
  DEF LogEdit, Put, call, Holding, Creating, PC, CreationInv, TypeOK, File
<1>8. ASSUME NEW p \in Process, SyncManifest(p)
      PROVE  OneHolder' /\ NoCurrentYet'
  BY <1>3, <1>4, <1>8 DEF SyncManifest, call, Holding, Creating, PC
<1>9. ASSUME NEW p \in Process, CloseManifest(p)
      PROVE  OneHolder' /\ NoCurrentYet'
  BY <1>3, <1>4, <1>9 DEF CloseManifest, filesystem, call, Holding, Creating, PC
<1>10. ASSUME NEW p \in Process, WriteTmp(p)
       PROVE  OneHolder' /\ NoCurrentYet'
  BY <1>3, <1>4, <1>10
  DEF WriteTmp, Put, call, Holding, Creating, PC, CreationInv, TypeOK, File
<1>11. ASSUME NEW p \in Process, RenameTmp(p)
       PROVE  OneHolder' /\ NoCurrentYet'
  BY <1>3, <1>4, <1>11
  DEF RenameTmp, filesystem, call, Holding, Creating, PC
<1>12. ASSUME NEW p \in Process, RemoveTmp(p)
       PROVE  OneHolder' /\ NoCurrentYet'
  BY <1>3, <1>4, <1>12 DEF RemoveTmp, Return, call, Holding, Creating, PC
<1>13. ASSUME NEW p \in Process, RecoverVersions(p)
       PROVE  OneHolder' /\ NoCurrentYet'
  BY <1>3, <1>13
  DEF RecoverVersions, Return, filesystem, call, Holding, Creating, PC
<1>14. ASSUME NEW p \in Process, Exit(p)
       PROVE  OneHolder' /\ NoCurrentYet'
  BY <1>14 DEF Exit, Goto, filesystem, CreationInv, TypeOK, OneHolder,
               NoCurrentYet, Holding, Creating
<1>15. ASSUME NEW p \in Process, DiskDbRelease(p)
       PROVE  OneHolder' /\ NoCurrentYet'
  BY <1>15 DEF DiskDbRelease, Goto, filesystem, call, CreationInv, TypeOK,
               OneHolder, NoCurrentYet, Creating
<1>16. CASE PowerLoss
  BY <1>16 DEF PowerLoss, OneHolder, NoCurrentYet, Holding, Creating
<1>17. CASE UNCHANGED vars
  BY <1>17 DEF vars, CreationInv, OneHolder, NoCurrentYet
<1>. QED
  BY <1>1, <1>2, <1>5, <1>6, <1>7, <1>8, <1>9, <1>10, <1>11, <1>12, <1>13,
     <1>14, <1>15, <1>16, <1>17 DEF Next, Step

LEMMA CreationInvariant == Spec => []CreationInv
<1>1. Init => OneHolder /\ NoCurrentYet
  BY DEF Init, OneHolder, NoCurrentYet, Holding, Creating
<1>2. CreationInv /\ TypeOK' /\ [Next]_vars => CreationInv'
  BY CreationInductive DEF CreationInv
<1>3. TypeOK /\ OneHolder /\ NoCurrentYet => CreationInv
  BY DEF CreationInv
<1>. QED
  BY <1>1, <1>2, <1>3, TypeCorrect, PTL DEF Spec

(* No process, racing or not, creates a database over an existing one.     *)
THEOREM NotCreatedOver == Spec => NeverCreatedOver
<1>1. ASSUME CreationInv, NEW p \in Process, Step(p),
             files["current"] # "absent"
      PROVE  UNCHANGED <<files["current"], files["manifest"]>>
  <2>1. pc[p] \notin Creating
    BY <1>1 DEF CreationInv, NoCurrentYet
  <2>2. LockDb(p) \/ CheckCurrent(p) \/ RecoverVersions(p)
    BY <1>1, <2>1
    DEF Step, Creating, CreateManifest, LogEdit, SyncManifest, CloseManifest,
        WriteTmp, RenameTmp, RemoveTmp
  <2>. QED
    BY <2>2 DEF LockDb, CheckCurrent, RecoverVersions, filesystem
<1>2. CreationInv =>
        [(\E p \in Process : Step(p)) /\ files["current"] # "absent" =>
           UNCHANGED <<files["current"], files["manifest"]>>]_vars
  BY <1>1
<1>. QED
  BY <1>2, CreationInvariant, PTL DEF NeverCreatedOver
------------------------------------------------------------------------------
(***************************************************************************)
(* Crash consistency, while no error is lost.  What a power loss may leave *)
(* is part of the invariant: once CURRENT may survive one, the manifest    *)
(* surely does.                                                            *)
(***************************************************************************)
Synced == {"close", "set_current", "rename"}

CurrentSurvival ==
  /\ survives["current"] \subseteq {"absent", "whole"}
  /\ files["current"] \in survives["current"]
  /\ files["current"] = "absent" => survives["current"] = {"absent"}
  /\ "whole" \in survives["current"] => /\ files["manifest"] = "whole"
                                        /\ survives["manifest"] = {"whole"}

CreationProgress ==
  \A p \in Process :
    /\ pc[p] = "sync" => files["manifest"] = "whole"
    /\ pc[p] \in Synced => /\ files["manifest"] = "whole"
                           /\ survives["manifest"] = {"whole"}
    /\ pc[p] = "rename" => /\ files["tmp"] = "whole"
                           /\ survives["tmp"] = {"absent", "whole"}

SurvivalInv == CreationInv /\ CurrentSurvival /\ CreationProgress

(* What the steps that write no file, and are not in the middle of one,    *)
(* leave of the invariant.                                                 *)
LEMMA QuietStep ==
  ASSUME SurvivalInv, UNCHANGED <<files, survives>>,
         \A q \in Process :
           pc'[q] = pc[q] \/ pc'[q] \notin Synced \cup {"sync"}
  PROVE  CurrentSurvival' /\ CreationProgress'
<1>1. CurrentSurvival'
  BY DEF SurvivalInv, CurrentSurvival
<1>2. CreationProgress'
  BY DEF SurvivalInv, CreationProgress, Synced
<1>. QED
  BY <1>1, <1>2

(* While a process creates the database it is the only one that does, and  *)
(* no power loss can bring a CURRENT back.                                 *)
LEMMA CreatesAlone ==
  ASSUME SurvivalInv, NEW p \in Process, pc[p] \in Creating
  PROVE  /\ files["current"] = "absent" /\ survives["current"] = {"absent"}
         /\ \A q \in Process : q # p => pc[q] \notin Creating
<1>1. files["current"] = "absent"
  BY DEF SurvivalInv, CreationInv, NoCurrentYet
<1>2. survives["current"] = {"absent"}
  BY <1>1 DEF SurvivalInv, CurrentSurvival
<1>3. p \in lock
  BY DEF SurvivalInv, CreationInv, TypeOK, Holding
<1>4. \A q \in Process : q # p => pc[q] \notin Creating
  BY <1>3, HoldersAlone DEF SurvivalInv, Holding
<1>. QED
  BY <1>1, <1>2, <1>4

LEMMA SurvivalInductive ==
  ASSUME ~error_lost', SurvivalInv, [Next]_vars
  PROVE  CurrentSurvival' /\ CreationProgress'
<1>0. TypeOK
  BY DEF SurvivalInv, CreationInv
<1>1. ASSUME NEW p \in Process, DiskDbOpen(p)
      PROVE  CurrentSurvival' /\ CreationProgress'
  BY <1>0, <1>1, QuietStep DEF Synced, DiskDbOpen, Goto, filesystem, TypeOK
<1>2. ASSUME NEW p \in Process, LockDb(p)
      PROVE  CurrentSurvival' /\ CreationProgress'
  BY <1>0, <1>2, QuietStep DEF Synced, LockDb, Goto, Return, filesystem, TypeOK
<1>3. ASSUME NEW p \in Process, CheckCurrent(p)
      PROVE  CurrentSurvival' /\ CreationProgress'
  BY <1>0, <1>3, QuietStep
  DEF Synced, CheckCurrent, Goto, Return, filesystem, TypeOK
<1>4. ASSUME NEW p \in Process, CreateManifest(p)
      PROVE  CurrentSurvival' /\ CreationProgress'
  <2>1. pc[p] \in Creating
    BY <1>4 DEF CreateManifest, Creating
  <2>2. CASE Goto(p, "log")
    <3>1. /\ files'["current"] = files["current"]
          /\ survives'["current"] = survives["current"]
          /\ \A q \in Process : pc'[q] = IF q = p THEN "log" ELSE pc[q]
      BY <1>0, <1>4, <2>2
      DEF CreateManifest, Put, Goto, filesystem, TypeOK, File
    <3>. QED
      BY <2>1, <3>1, CreatesAlone
      DEF CurrentSurvival, CreationProgress, Synced, Creating
  <2>3. CASE Return(p) /\ UNCHANGED filesystem
    BY <1>0, <2>3, QuietStep DEF Synced, Goto, Return, filesystem, TypeOK
  <2>. QED
    BY <1>4, <2>2, <2>3 DEF CreateManifest
<1>5. ASSUME NEW p \in Process, LogEdit(p)
      PROVE  CurrentSurvival' /\ CreationProgress'
  <2>1. pc[p] \in Creating
    BY <1>5 DEF LogEdit, Creating
  <2>2. /\ files'["current"] = files["current"]
        /\ survives'["current"] = survives["current"]
        /\ files'["manifest"] = "whole"
        /\ \A q \in Process : pc'[q] = IF q = p THEN "sync" ELSE pc[q]
    BY <1>0, <1>5 DEF LogEdit, Put, Goto, TypeOK, File
  <2>. QED
    BY <2>1, <2>2, CreatesAlone
    DEF CurrentSurvival, CreationProgress, Synced, Creating
<1>6. ASSUME NEW p \in Process, SyncManifest(p)
      PROVE  CurrentSurvival' /\ CreationProgress'
  <2>1. pc[p] \in Creating
    BY <1>6 DEF SyncManifest, Creating
  <2>2. files["manifest"] = "whole"
    BY <1>6 DEF SyncManifest, SurvivalInv, CreationProgress
  <2>3. /\ files' = files
        /\ survives'["current"] = survives["current"]
        /\ survives'["manifest"] = {"whole"}
        /\ \A q \in Process : pc'[q] = IF q = p THEN "close" ELSE pc[q]
    BY <1>0, <1>6, <2>2 DEF SyncManifest, Goto, TypeOK, File
  <2>. QED
    BY <2>1, <2>2, <2>3, CreatesAlone
    DEF CurrentSurvival, CreationProgress, Synced, Creating
<1>7. ASSUME NEW p \in Process, CloseManifest(p)
      PROVE  CurrentSurvival' /\ CreationProgress'
  <2>1. pc[p] = "close" /\ UNCHANGED <<files, survives>>
    BY <1>7 DEF CloseManifest, filesystem
  <2>2. \A q \in Process : pc'[q] = IF q = p THEN "set_current" ELSE pc[q]
    BY <1>0, <1>7 DEF CloseManifest, Goto, TypeOK
  <2>. QED
    BY <2>1, <2>2 DEF SurvivalInv, CurrentSurvival, CreationProgress, Synced
<1>8. ASSUME NEW p \in Process, WriteTmp(p)
      PROVE  CurrentSurvival' /\ CreationProgress'
  <2>1. pc[p] \in Creating /\ pc[p] \in Synced
    BY <1>8 DEF WriteTmp, Creating, Synced
  <2>2. /\ files'["current"] = files["current"]
        /\ files'["manifest"] = files["manifest"]
        /\ survives'["current"] = survives["current"]
        /\ survives'["manifest"] = survives["manifest"]
    BY <1>0, <1>8 DEF WriteTmp, Put, TypeOK, File
  <2>3. CASE Goto(p, "rename")
    <3>1. /\ files'["tmp"] = "whole"
          /\ survives'["tmp"] = {"absent", "whole"}
          /\ \A q \in Process : pc'[q] = IF q = p THEN "rename" ELSE pc[q]
      BY <1>0, <1>8, <2>3 DEF WriteTmp, Goto, TypeOK, File
    <3>. QED
      BY <2>1, <2>2, <3>1, CreatesAlone
      DEF SurvivalInv, CurrentSurvival, CreationProgress, Synced, Creating
  <2>4. CASE Goto(p, "remove_tmp")
    <3>1. \A q \in Process : pc'[q] = IF q = p THEN "remove_tmp" ELSE pc[q]
      BY <1>0, <2>4 DEF Goto, TypeOK
    <3>. QED
      BY <2>1, <2>2, <3>1, CreatesAlone
      DEF SurvivalInv, CurrentSurvival, CreationProgress, Synced, Creating
  <2>. QED
    BY <1>8, <2>3, <2>4 DEF WriteTmp
<1>9. ASSUME NEW p \in Process, RenameTmp(p)
      PROVE  CurrentSurvival' /\ CreationProgress'
  <2>1. /\ pc[p] \in Creating
        /\ files["manifest"] = "whole" /\ survives["manifest"] = {"whole"}
        /\ files["tmp"] = "whole" /\ survives["tmp"] = {"absent", "whole"}
    BY <1>9 DEF RenameTmp, Creating, SurvivalInv, CreationProgress, Synced
  <2>2. CASE Goto(p, "recover")
    <3>1. /\ files'["current"] = files["tmp"]
          /\ files'["manifest"] = files["manifest"]
          /\ survives'["current"] =
               survives["current"] \cup (survives["tmp"] \ {"absent"})
          /\ survives'["manifest"] = survives["manifest"]
          /\ \A q \in Process : pc'[q] = IF q = p THEN "recover" ELSE pc[q]
      BY <1>0, <1>9, <2>2 DEF RenameTmp, Goto, filesystem, TypeOK, File
    <3>2. /\ files["current"] = "absent" /\ survives["current"] = {"absent"}
          /\ \A q \in Process : q # p => pc[q] \notin Creating
      BY <2>1, CreatesAlone
    <3>3. CreationProgress'
      BY <3>1, <3>2 DEF CreationProgress, Synced, Creating
    <3>4. survives'["current"] = {"absent", "whole"}
      BY <2>1, <3>1, <3>2
    <3>. QED
      BY <2>1, <3>1, <3>3, <3>4 DEF CurrentSurvival
  <2>3. CASE Goto(p, "remove_tmp") /\ UNCHANGED filesystem
    BY <1>0, <2>3, QuietStep DEF Synced, Goto, filesystem, TypeOK
  <2>. QED
    BY <1>9, <2>2, <2>3 DEF RenameTmp
<1>10. ASSUME NEW p \in Process, RemoveTmp(p)
       PROVE  CurrentSurvival' /\ CreationProgress'
  <2>1. pc[p] \in Creating
    BY <1>10 DEF RemoveTmp, Creating
  <2>2. /\ files'["current"] = files["current"]
        /\ survives'["current"] = survives["current"]
        /\ \A q \in Process : pc'[q] = IF q = p THEN "returned" ELSE pc[q]
    BY <1>0, <1>10 DEF RemoveTmp, Put, Goto, Return, filesystem, TypeOK, File
  <2>. QED
    BY <2>1, <2>2, CreatesAlone
    DEF CurrentSurvival, CreationProgress, Synced, Creating
<1>11. ASSUME NEW p \in Process, RecoverVersions(p)
       PROVE  CurrentSurvival' /\ CreationProgress'
  BY <1>0, <1>11, QuietStep
  DEF Synced, RecoverVersions, Goto, Return, filesystem, TypeOK
<1>12. ASSUME NEW p \in Process, Exit(p)
       PROVE  CurrentSurvival' /\ CreationProgress'
  BY <1>0, <1>12, QuietStep DEF Synced, Exit, Goto, filesystem, TypeOK
<1>13. ASSUME NEW p \in Process, DiskDbRelease(p)
       PROVE  CurrentSurvival' /\ CreationProgress'
  BY <1>0, <1>13, QuietStep DEF Synced, DiskDbRelease, Goto, filesystem, TypeOK
<1>14. CASE PowerLoss
  <2>1. /\ \A f \in File : files'[f] \in survives[f]
        /\ \A f \in File : survives'[f] = {files'[f]}
        /\ \A q \in Process : pc'[q] = "idle"
    BY <1>14 DEF PowerLoss
  <2>. QED
    BY <2>1 DEF SurvivalInv, CurrentSurvival, CreationProgress, Synced, File
<1>15. CASE UNCHANGED vars
  BY <1>15, QuietStep DEF Synced, vars
<1>. QED
  BY <1>1, <1>2, <1>3, <1>4, <1>5, <1>6, <1>7, <1>8, <1>9, <1>10, <1>11,
     <1>12, <1>13, <1>14, <1>15 DEF Next, Step

LEMMA ErrorsStayLost ==
  ASSUME TypeOK, [Next]_vars, error_lost
  PROVE  error_lost'
BY DEF Next, Step, vars, TypeOK, call, DiskDbOpen, LockDb, CheckCurrent,
       CreateManifest, LogEdit, SyncManifest, CloseManifest, WriteTmp,
       RenameTmp, RemoveTmp, RecoverVersions, DiskDbRelease, Exit, PowerLoss

(* A CURRENT names a manifest that holds the whole version edit, after any *)
(* deaths of any processes, any power loss, and any failing call whose     *)
(* error is not one of the two that dbCreate loses (db.c:93).              *)
THEOREM CurrentStaysSafe == Spec => []CurrentIsSafe
<1>1. Init => CurrentSurvival /\ CreationProgress
  BY DEF Init, CurrentSurvival, CreationProgress, Synced, File
<1>2. (~error_lost => CurrentSurvival /\ CreationProgress)
        /\ CreationInv /\ [Next]_vars
        => (~error_lost => CurrentSurvival /\ CreationProgress)'
  <2>. SUFFICES ASSUME ~error_lost => CurrentSurvival /\ CreationProgress,
                       CreationInv, [Next]_vars, ~error_lost'
                PROVE  CurrentSurvival' /\ CreationProgress'
    OBVIOUS
  <2>1. ~error_lost
    BY ErrorsStayLost DEF CreationInv
  <2>. QED
    BY <2>1, SurvivalInductive DEF SurvivalInv
<1>3. (~error_lost => CurrentSurvival /\ CreationProgress) => CurrentIsSafe
  BY DEF CurrentSurvival, CurrentNamesManifest, CurrentIsSafe
<1>. QED
  BY <1>1, <1>2, <1>3, CreationInvariant, PTL DEF Spec
==============================================================================
