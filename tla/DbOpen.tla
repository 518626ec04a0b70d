-------------------------------- MODULE DbOpen --------------------------------
(***************************************************************************)
(* Opening a database: diskDbOpen and what it calls in db.c (RecoverDb,    *)
(* dbCreate, dbSetCurrentFile), by several processes on one directory,     *)
(* with processes that die, calls on files that fail, and power losses.    *)
(*                                                                         *)
(* Three files matter: MANIFEST-000001, CURRENT, which names it, and the   *)
(* temporary file that becomes CURRENT.  A process opens the database, may *)
(* release it and open it again, and exits; another may start in its       *)
(* place.  What RecoverDb returned is not kept: diskDbOpen tells its       *)
(* caller &Ok whatever it was, and LOCK is not released with the rest.     *)
(***************************************************************************)
EXTENDS Naturals

CONSTANT Process   (* the processes that may open the database             *)

VARIABLES
  files,      (* what a process finds in each file                         *)
  survives,   (* what each file may hold after a power loss                *)
  lock,       (* the processes that hold LOCK                              *)
  pc,         (* where each process is                                     *)
  options,    (* the DiskDbOptions it opens the database with              *)
  error_lost  (* history: logging or syncing a manifest failed             *)

vars == <<files, survives, lock, pc, options, error_lost>>

File == {"manifest", "tmp", "current"}

(* A file that exists holds nothing, part or all of what is written to it. *)
Content == {"absent", "empty", "partial", "whole"}

DiskDbOptions == [create_if_missing : BOOLEAN, error_if_exists : BOOLEAN]

PC == {"idle", "lock", "check", "create", "log", "sync", "close",
       "set_current", "rename", "remove_tmp", "recover", "returned"}

(* A process in dbCreate, and one past envLockFile.                        *)
Creating == {"create", "log", "sync", "close", "set_current", "rename",
             "remove_tmp"}
Holding == Creating \cup {"check", "recover"}

(* Types, and a process past envLockFile holds LOCK.                       *)
TypeOK ==
  /\ files \in [File -> Content]
  /\ survives \in [File -> SUBSET Content]
  /\ lock \in SUBSET Process
  /\ pc \in [Process -> PC]
  /\ options \in [Process -> DiskDbOptions]
  /\ error_lost \in BOOLEAN
  /\ \A p \in Process : pc[p] \in Holding => p \in lock
------------------------------------------------------------------------------
(* A file comes to hold c; until it is synced a power loss may leave any   *)
(* of what it held before, or of loss.                                     *)
Put(f, c, loss) ==
  /\ files' = [files EXCEPT ![f] = c]
  /\ survives' = [survives EXCEPT ![f] = @ \cup loss]

Goto(p, label) == pc' = [pc EXCEPT ![p] = label]

(* RecoverDb returns an error.  Nothing releases LOCK.                     *)
Return(p) == Goto(p, "returned")

filesystem == <<files, survives>>
call == <<lock, options, error_lost>>

Init ==
  /\ files = [f \in File |-> "absent"]
  /\ survives = [f \in File |-> {"absent"}]
  /\ lock = {}
  /\ pc = [p \in Process |-> "idle"]
  /\ options = [p \in Process |-> [create_if_missing |-> FALSE,
                                   error_if_exists |-> FALSE]]
  /\ error_lost = FALSE

(* A process calls diskDbOpen.                                             *)
DiskDbOpen(p) ==
  /\ pc[p] = "idle"
  /\ \E o \in DiskDbOptions : options' = [options EXCEPT ![p] = o]
  /\ Goto(p, "lock")
  /\ UNCHANGED <<filesystem, lock, error_lost>>

(* Broken variant of LockDb: the error of envLockFile is not looked at.    *)
LockDb_ErrorIgnored(p) ==
  /\ pc[p] = "lock"
  /\ \/ lock = {} /\ lock' = {p}
     \/ UNCHANGED lock
  /\ Goto(p, "check")
  /\ UNCHANGED <<filesystem, options, error_lost>>

(* Broken variant of LockDb: it waits until LOCK is free.                  *)
LockDb_Waits(p) ==
  /\ pc[p] = "lock"
  /\ lock \subseteq {p}
  /\ lock' = {p}
  /\ Goto(p, "check")
  /\ UNCHANGED <<filesystem, options, error_lost>>

(* envLockFile: it may fail, and must if another process holds the lock;   *)
(* it does not wait.  A process that has kept LOCK from an earlier open    *)
(* may be given it again.                                                  *)
LockDb(p) ==
  /\ pc[p] = "lock"
  /\ \/ /\ lock \subseteq {p}
        /\ lock' = {p}
        /\ Goto(p, "check")
     \/ /\ Return(p)
        /\ UNCHANGED lock
  /\ UNCHANGED <<filesystem, options, error_lost>>

(* Is there a CURRENT?                                                     *)
CheckCurrent(p) ==
  /\ pc[p] = "check"
  /\ IF files["current"] = "absent"
     THEN IF options[p].create_if_missing
          THEN Goto(p, "create")
          ELSE Return(p)
     ELSE IF options[p].error_if_exists
          THEN Return(p)
          ELSE Goto(p, "recover")
  /\ UNCHANGED <<filesystem, call>>

(* dbCreate: envWritableFileCreate makes or truncates the manifest.        *)
CreateManifest(p) ==
  /\ pc[p] = "create"
  /\ \/ /\ Put("manifest", "empty", {"empty"})
        /\ Goto(p, "log")
     \/ /\ Return(p)
        /\ UNCHANGED filesystem
  /\ UNCHANGED call

(* The errors of the next three steps stay in the error declared in the    *)
(* inner block (db.c:93), so each of them only skips what is left of that  *)
(* block: the outer error is still that of envWritableFileCreate, Ok.      *)
LogEdit(p) ==
  /\ pc[p] = "log"
  /\ \/ /\ Put("manifest", "whole", {"partial", "whole"})
        /\ Goto(p, "sync")
        /\ UNCHANGED error_lost
     \/ /\ \E c \in {"empty", "partial"} : Put("manifest", c, {c})
        /\ Goto(p, "set_current")
        /\ error_lost' = TRUE
  /\ UNCHANGED <<lock, options>>

(* Broken variant of SyncManifest: nothing is synced.                      *)
SyncManifest_Skipped(p) ==
  /\ pc[p] = "sync"
  /\ Goto(p, "close")
  /\ UNCHANGED <<files, survives, call>>

(* writableFileSync syncs the directory of a manifest, then its bytes.     *)
SyncManifest(p) ==
  /\ pc[p] = "sync"
  /\ \/ /\ survives' = [survives EXCEPT !["manifest"] = {files["manifest"]}]
        /\ Goto(p, "close")
        /\ UNCHANGED error_lost
     \/ /\ Goto(p, "set_current")
        /\ error_lost' = TRUE
        /\ UNCHANGED survives
  /\ UNCHANGED <<files, lock, options>>

CloseManifest(p) ==
  /\ pc[p] = "close"
  /\ Goto(p, "set_current")
  /\ UNCHANGED <<filesystem, call>>

(* dbSetCurrentFile: envWriteSdsToFileSync writes the temporary file and   *)
(* syncs its bytes, though not its directory.                              *)
WriteTmp(p) ==
  /\ pc[p] = "set_current"
  /\ \/ /\ files' = [files EXCEPT !["tmp"] = "whole"]
        /\ survives' = [survives EXCEPT !["tmp"] = {"absent", "whole"}]
        /\ Goto(p, "rename")
     \/ /\ \E c \in {"absent", "empty", "partial", "whole"} :
              Put("tmp", c, {"absent", "empty", "partial", c})
        /\ Goto(p, "remove_tmp")
  /\ UNCHANGED call

(* envRenameFile gives CURRENT the bytes of the temporary file, at once.   *)
RenameTmp(p) ==
  /\ pc[p] = "rename"
  /\ \/ /\ files' = [files EXCEPT !["current"] = files["tmp"],
                                  !["tmp"] = "absent"]
        /\ survives' =
             [survives EXCEPT
                !["current"] = @ \cup (survives["tmp"] \ {"absent"}),
                !["tmp"] = @ \cup {"absent"}]
        /\ Goto(p, "recover")
     \/ /\ Goto(p, "remove_tmp")
        /\ UNCHANGED filesystem
  /\ UNCHANGED call

(* The error path of dbSetCurrentFile; its envRemoveFile may fail too.     *)
RemoveTmp(p) ==
  /\ pc[p] = "remove_tmp"
  /\ \/ Put("tmp", "absent", {"absent"})
     \/ UNCHANGED filesystem
  /\ Return(p)
  /\ UNCHANGED call

(* recoverVersions only reads.  It may succeed or fail (for want of a next *)
(* file number, or since versionSet.c:195-201 refuses the very comparator  *)
(* dbCreate writes); either way it is the end of RecoverDb.                *)
RecoverVersions(p) ==
  /\ pc[p] = "recover"
  /\ Return(p)
  /\ UNCHANGED <<filesystem, call>>

(* diskDbRelease: everything goes but LOCK.                                *)
DiskDbRelease(p) ==
  /\ pc[p] = "returned"
  /\ Goto(p, "idle")
  /\ UNCHANGED <<filesystem, call>>

(* The process exits, or dies wherever it is, a failed assertion included; *)
(* the system releases its lock.  Its successor is idle.                   *)
Exit(p) ==
  /\ pc[p] # "idle" \/ p \in lock
  /\ Goto(p, "idle")
  /\ lock' = lock \ {p}
  /\ UNCHANGED <<filesystem, options, error_lost>>

(* The machine stops; each file is left with one of the contents that may  *)
(* be on the medium.                                                       *)
PowerLoss ==
  /\ files' \in {f \in [File -> Content] :
                 \A x \in File : f[x] \in survives[x]}
  /\ survives' = [x \in File |-> {files'[x]}]
  /\ lock' = {}
  /\ pc' = [p \in Process |-> "idle"]
  /\ UNCHANGED <<options, error_lost>>

Step(p) ==
  \/ LockDb(p)
  \/ CheckCurrent(p)
  \/ CreateManifest(p)
  \/ LogEdit(p)
  \/ SyncManifest(p)
  \/ CloseManifest(p)
  \/ WriteTmp(p)
  \/ RenameTmp(p)
  \/ RemoveTmp(p)
  \/ RecoverVersions(p)

Next ==
  \/ \E p \in Process : DiskDbOpen(p) \/ Step(p) \/ DiskDbRelease(p) \/ Exit(p)
  \/ PowerLoss

Spec == Init /\ [][Next]_vars

(* A process that runs takes its next step: none of the calls blocks.      *)
FairSpec == Spec /\ \A p \in Process : WF_vars(Step(p))
------------------------------------------------------------------------------
(* A CURRENT that can be found, now or after a power loss, is whole and    *)
(* names a manifest that holds the whole version edit.  This is what the   *)
(* branch of dbCreate that removes the manifest is for (db.c:108-111).     *)
CurrentNamesManifest ==
  files["current"] # "absent" =>
    files["current"] = "whole" /\ files["manifest"] = "whole"

(* The order of dbCreate and dbSetCurrentFile is right, whatever dies and  *)
(* whichever other calls fail: the manifest is synced before anything is   *)
(* renamed, and so is the temporary file; only the two errors that         *)
(* dbCreate loses can leave a CURRENT that names a broken manifest.        *)
CurrentIsSafe == ~error_lost => CurrentNamesManifest

(* A database that exists is never created over: while there is a CURRENT  *)
(* no step of a process changes it or the manifest, whichever processes    *)
(* race through the check of RecoverDb (db.c:129), whichever of them die   *)
(* and whatever fails.                                                     *)
NeverCreatedOver ==
  [][(\E p \in Process : Step(p)) /\ files["current"] # "absent" =>
       UNCHANGED <<files["current"], files["manifest"]>>]_vars

(* An open returns, unless its process dies first.  LOCK is never given    *)
(* back before its holder exits, so this is for envLockFile not to wait.   *)
OpenReturns ==
  \A p \in Process : pc[p] = "lock" ~> pc[p] \in {"returned", "idle"}
==============================================================================
