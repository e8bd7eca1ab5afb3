----------------------------- MODULE GssBackup ------------------------------
(***************************************************************************)
(* backupdb.wsf: one run of the backup script, started by the operator or  *)
(* by another script with /undo:<X>.  Each step is one command or group of *)
(* file operations of the script, in the script's order; a crash may come  *)
(* between any two.  The working folder cab_build survives a run that does *)
(* not reach its end.                                                      *)
(***************************************************************************)
EXTENDS GssStore

VARIABLES
    bpc,    \* the step the script is at, "idle" when it does not run
    bkind,  \* how it was started: "backup", "undo" or "named"
    bres,   \* its exit code
    work,   \* cab_build of each folder: passwords.reg and the database copy
    bseen   \* observed: the database contents live since the run began

backupVars == <<bpc, bkind, bres, work, bseen>>
bVars == <<machineVars, folderVars, backupVars>>

WorkDir == [reg : Keys \cup {Header, None}, db : DbFile \cup {None}, ro : BOOLEAN]
EmptyDir == [reg |-> None, db |-> None, ro |-> FALSE]

BackupTypeOK ==
    /\ StoreTypeOK
    /\ bpc \in {"idle", "export", "dump", "delete", "database", "makecab",
                "cleanup", "keep", "open", "restore", "done"}
    /\ bkind \in Kinds
    /\ bres \in {0, 1}
    /\ work \in [{"backup", "undo"} -> WorkDir]
    /\ bseen \subseteq Nat

BackupInit ==
    /\ bpc = "idle"
    /\ bkind = "backup"
    /\ bres = 0
    /\ work = [f \in {"backup", "undo"} |-> EmptyDir]
    /\ bseen = {}

BFolder == FolderOf(bkind)

-----------------------------------------------------------------------------
\* The date the new cabinet gets.
NewDates ==
    IF "clock" \in Faults
    THEN {d \in 1..MaxDate : \A c \in cabs : c.date # d}
    ELSE {clock + 1} \cap 1..MaxDate

\* The switches are read, the output and working folders are made.
Start(kind) ==
    /\ bpc = "idle"
    /\ kind = "named" => "named" \in Faults
    /\ NewDates # {}
    /\ bpc' = "export"
    /\ bkind' = kind
    /\ bseen' = IF live.db = None THEN {} ELSE {live.db.data}
    /\ UNCHANGED <<machineVars, folderVars, bres, work>>

\* ngserver -export writes the server's credentials to the registry; the
\* script reads the user and the password it needs back from there.
Export ==
    /\ bpc = "export"
    /\ registry' = live.creds
    /\ bpc' = "dump"
    /\ UNCHANGED <<live, server, installed, nextData, folderVars, bkind, bres,
                   work, bseen>>

\* exportHklm reads and deletes the registry key, writeReg writes
\* passwords.reg over any older one.
Dump ==
    /\ bpc = "dump"
    /\ work' = [work EXCEPT ![BFolder].reg =
                   IF registry = None THEN Header ELSE registry]
    /\ registry' = None
    /\ bpc' = "delete"
    /\ UNCHANGED <<live, server, installed, nextData, folderVars, bkind, bres,
                   bseen>>

\* Variant: an old copy is not deleted first.
DeleteOld_Skipped ==
    /\ bpc = "delete"
    /\ bpc' = "database"
    /\ UNCHANGED <<machineVars, folderVars, bkind, bres, work, bseen>>

\* FS.DeleteFile without force, errors ignored: a read-only copy stays.
DeleteOld ==
    /\ bpc = "delete"
    /\ work' = [work EXCEPT ![BFolder] =
                   IF @.ro THEN @ ELSE [@ EXCEPT !.db = None]]
    /\ bpc' = "database"
    /\ UNCHANGED <<machineVars, folderVars, bkind, bres, bseen>>

\* FS.CopyFile works when nothing holds the database file and no read-only
\* copy is in the way; dbbackup runs only if there is no copy by then, and
\* logs in with the exported credentials.
CopyWorks == server = "down" /\ live.db # None /\ ~work[BFolder].ro
DbbackupWorks == server # "down" /\ live.db # None /\ live.db.key = live.creds

Database ==
    /\ bpc = "database"
    /\ \/ /\ CopyWorks
          /\ work' = [work EXCEPT ![BFolder].db = live.db]
       \/ /\ ~CopyWorks /\ work[BFolder].db = None /\ DbbackupWorks
          /\ \E ro \in {b \in BOOLEAN : b => "readonly" \in Faults} :
               work' = [work EXCEPT ![BFolder].db = live.db, ![BFolder].ro = ro]
       \/ /\ ~CopyWorks
          /\ work[BFolder].db # None \/ ~DbbackupWorks \/ "dbbackup" \in Faults
          /\ UNCHANGED work
    /\ bpc' = "makecab"
    /\ UNCHANGED <<machineVars, folderVars, bkind, bres, bseen>>

\* Variant: the result of makecab is not looked at.
Makecab_Unchecked ==
    /\ bpc = "makecab"
    /\ \E d \in NewDates :
         /\ cabs' = cabs \cup
              {[folder |-> BFolder, date |-> d,
                body |-> [reg |-> work[BFolder].reg, pub |-> live.pub,
                          priv |-> live.priv, db |-> work[BFolder].db]]}
         /\ clock' = d
    /\ bpc' = "cleanup"
    /\ UNCHANGED <<machineVars, link, bkind, bres, work, bseen>>

\* makecab packs passwords.reg and the database copy from the working folder
\* and the certificates from the program folder.
Makecab ==
    /\ bpc = "makecab"
    /\ work[BFolder].db # None /\ live.pub # None /\ live.priv # None
    /\ \E d \in NewDates :
         /\ cabs' = cabs \cup
              {[folder |-> BFolder, date |-> d,
                body |-> [reg |-> work[BFolder].reg, pub |-> live.pub,
                          priv |-> live.priv, db |-> work[BFolder].db]]}
         /\ clock' = d
    /\ bpc' = "cleanup"
    /\ UNCHANGED <<machineVars, link, bkind, bres, work, bseen>>

\* Variant: after a failure the database step is tried again.
MakecabFails_Retried ==
    /\ bpc = "makecab"
    /\ \/ "makecab" \in Faults
       \/ work[BFolder].db = None \/ live.pub = None \/ live.priv = None
    /\ bpc' = "database"
    /\ UNCHANGED <<machineVars, folderVars, bkind, bres, work, bseen>>

\* makecab fails, always when a listed file is missing: the script quits with
\* 1 and leaves the working folder as it is.
MakecabFails ==
    /\ bpc = "makecab"
    /\ \/ "makecab" \in Faults
       \/ work[BFolder].db = None \/ live.pub = None \/ live.priv = None
    /\ bres' = 1
    /\ bpc' = "done"
    /\ UNCHANGED <<machineVars, folderVars, bkind, work, bseen>>

\* The temporary files go, the database with force; then the folder.
AfterCleanup == IF bkind = "named" THEN "done" ELSE "keep"

Cleanup ==
    /\ bpc = "cleanup"
    /\ work' = [work EXCEPT ![BFolder] = EmptyDir]
    /\ bres' = 0
    /\ bpc' = AfterCleanup
    /\ UNCHANGED <<machineVars, folderVars, bkind, bseen>>

\* keepFiles counts every .cab file of the folder, whoever made it.
Keep ==
    /\ bpc = "keep"
    /\ cabs' = (cabs \ FilesIn(BFolder))
                 \cup KeepFiles(FilesIn(BFolder), EffectiveKeep(bkind))
    /\ bpc' = "open"
    /\ UNCHANGED <<machineVars, link, clock, bkind, bres, work, bseen>>

\* "Open Latest ..." first, then "Restore Latest ..." or "Undo Latest ...".
LinkOpen ==
    /\ bpc = "open"
    /\ link' = [link EXCEPT ![bkind].open = clock]
    /\ bpc' = "restore"
    /\ UNCHANGED <<machineVars, cabs, clock, bkind, bres, work, bseen>>

\* The second one only when the restore script is there.
LinkRestore ==
    /\ bpc = "restore"
    /\ link' = IF "noscript" \in Faults THEN link
               ELSE [link EXCEPT ![bkind].restore = clock]
    /\ bpc' = "done"
    /\ UNCHANGED <<machineVars, cabs, clock, bkind, bres, work, bseen>>

BackupStep ==
    \/ Export \/ Dump \/ DeleteOld \/ Database
    \/ Makecab \/ MakecabFails \/ Cleanup \/ Keep \/ LinkOpen \/ LinkRestore

\* The process is gone, and with it what it knew.
Gone == bpc' = "idle" /\ bkind' = "backup" /\ bres' = 0 /\ bseen' = {}

\* The script has quit and whoever started it goes on.
Return ==
    /\ bpc = "done"
    /\ Gone
    /\ UNCHANGED <<machineVars, folderVars, work>>

\* The script dies where it is; after a reboot the server is down.
BackupCrash ==
    /\ "crash" \in Faults
    /\ bpc # "idle"
    /\ Gone
    /\ server' \in {server, "down"}
    /\ UNCHANGED <<live, registry, installed, nextData, folderVars, work>>

\* What console users and administrators do meanwhile.
UserWork ==
    /\ Work
    /\ bseen' = IF bpc = "idle" THEN bseen ELSE bseen \cup {nextData}
    /\ UNCHANGED <<folderVars, bpc, bkind, bres, work>>

NewInstallation ==
    /\ bpc = "idle"
    /\ Reinstall
    /\ UNCHANGED <<folderVars, backupVars>>

ServerStopped == AdminStop /\ UNCHANGED <<folderVars, backupVars>>

ServerStarted ==
    /\ bpc = "dump" => "restart" \in Faults
    /\ AdminStart
    /\ UNCHANGED <<folderVars, backupVars>>

BInit == StoreInit /\ BackupInit

BNext ==
    \/ \E kind \in Kinds : Start(kind)
    \/ BackupStep \/ Return \/ BackupCrash
    \/ UserWork \/ NewInstallation \/ ServerStopped \/ ServerStarted

BSpec == BInit /\ [][BNext]_bVars /\ WF_bVars(BackupStep \/ Return)

-----------------------------------------------------------------------------
(* Properties. *)

\* A cabinet is one piece: the database in it accepts the password in it, and
\* the certificates are that installation's, whatever runs failed before and
\* left files in cab_build (backupdb.wsf:291-309, 381-406).
CabinetsWhole == \A c \in cabs : Whole(c.body)

\* A new cabinet holds a database content that was live while the run that
\* built it was going on, never one an earlier run left behind
\* (backupdb.wsf:288-309).
CabinetsCurrent ==
    [][\A c \in cabs' \ cabs : c.body.db.data \in bseen]_bVars

\* A shortcut always leads to a cabinet that is there, also while a run has
\* rotated the folder and has not yet written its own shortcuts: the reason
\* to keep two (backupdb.wsf:141-145, 408-440).
LinkDates(kind) == {link[kind].open, link[kind].restore} \ {None}
ShortcutsResolve ==
    \A kind \in Rotating : \A d \in LinkDates(kind) :
        \E c \in FilesIn(FolderOf(kind)) : c.date = d

\* When a rotating run has come to its end without an error, both of its
\* shortcuts lead to the cabinet it built, and that is the newest one of the
\* folder, whatever earlier runs crashed half way (restoredb.wsf:170-173).
FinishedRunIsLatest ==
    bpc = "done" /\ bres = 0 /\ bkind # "named" =>
        \E c \in FilesIn(BFolder) :
            /\ link[bkind].open = c.date /\ link[bkind].restore = c.date
            /\ Newer(c, FilesIn(BFolder)) = {}

\* After a run's rotation the folder holds no more cabinets than that run was
\* told to keep, however many crashed or named runs added (backupdb.wsf:564-605).
FolderBounded ==
    bpc \in {"open", "restore"} =>
        Cardinality(FilesIn(BFolder)) <= EffectiveKeep(bkind)

\* No step, of any run and whatever keep counts are configured, deletes one of
\* the two newest cabinets of a folder (backupdb.wsf:141-145, 590-602).
NewestTwoSurvive ==
    [][\A c \in cabs : Cardinality(Newer(c, FilesIn(c.folder))) < 2
                           => c \in cabs']_bVars

\* A run that was started comes to an end, whether or not dbbackup and makecab
\* gave it anything to pack: no failed step is repeated (backupdb.wsf:288-440).
BackupEnds == bpc # "idle" ~> bpc = "idle"
=============================================================================
