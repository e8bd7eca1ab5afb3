-------------------------- MODULE GssBackupProofs ---------------------------
(***************************************************************************)
(* Proofs about GssBackup: types, wholeness of cabinets, the shortcuts and *)
(* the rotation, for any number of installations, runs and cabinets and    *)
(* for every configured keep count.                                        *)
(***************************************************************************)
EXTENDS GssBackup, FiniteSetTheorems, TLAPS

-----------------------------------------------------------------------------
(* Types. *)

\* passwords.reg has been written by the time the cabinet is built.
Dumped == bpc \in {"delete", "database", "makecab"} => work[BFolder].reg # None

TypeInv == BackupTypeOK /\ Dumped

LEMMA FolderType ==
    ASSUME NEW kind \in Kinds
    PROVE  FolderOf(kind) \in {"backup", "undo"}
BY DEF FolderOf

LEMMA StartType ==
    ASSUME TypeInv, NEW kind \in Kinds, Start(kind)
    PROVE  TypeInv'
BY StoreAssumption
   DEF TypeInv, BackupTypeOK, StoreTypeOK, Dumped, Start, Kinds, Rotating,
       machineVars, folderVars, Live, DbFile

LEMMA ExportType == TypeInv /\ Export => TypeInv'
BY StoreAssumption
   DEF TypeInv, BackupTypeOK, StoreTypeOK, Dumped, Export, folderVars, Live

LEMMA DumpType == TypeInv /\ Dump => TypeInv'
<1> SUFFICES ASSUME TypeInv, Dump PROVE TypeInv'
    OBVIOUS
<1>1. BFolder \in {"backup", "undo"} /\ BFolder' = BFolder
    BY FolderType DEF TypeInv, BackupTypeOK, BFolder, FolderOf, Dump
<1>2. work' \in [{"backup", "undo"} -> WorkDir]
    BY <1>1 DEF TypeInv, BackupTypeOK, StoreTypeOK, Dump, WorkDir
<1>3. Dumped'
    BY <1>1, StoreAssumption
       DEF TypeInv, BackupTypeOK, StoreTypeOK, Dump, Dumped, WorkDir
<1> QED
    BY <1>2, <1>3 DEF TypeInv, BackupTypeOK, StoreTypeOK, Dump, folderVars

LEMMA DeleteOldType == TypeInv /\ DeleteOld => TypeInv'
<1> SUFFICES ASSUME TypeInv, DeleteOld PROVE TypeInv'
    OBVIOUS
<1>1. BFolder \in {"backup", "undo"} /\ BFolder' = BFolder
    BY FolderType DEF TypeInv, BackupTypeOK, BFolder, FolderOf, DeleteOld
<1>2. /\ work' \in [{"backup", "undo"} -> WorkDir]
      /\ work'[BFolder].reg = work[BFolder].reg
    BY <1>1 DEF TypeInv, BackupTypeOK, DeleteOld, WorkDir
<1> QED
    BY <1>1, <1>2 DEF TypeInv, BackupTypeOK, StoreTypeOK, DeleteOld, Dumped,
                      machineVars, folderVars

LEMMA DatabaseType == TypeInv /\ Database => TypeInv'
<1> SUFFICES ASSUME TypeInv, Database PROVE TypeInv'
    OBVIOUS
<1>1. BFolder \in {"backup", "undo"} /\ BFolder' = BFolder
    BY FolderType DEF TypeInv, BackupTypeOK, BFolder, FolderOf, Database
<1>2. /\ work' \in [{"backup", "undo"} -> WorkDir]
      /\ work'[BFolder].reg = work[BFolder].reg
    <2>1. CASE UNCHANGED work
        BY <2>1 DEF TypeInv, BackupTypeOK
    <2>2. CASE /\ live.db # None
               /\ work' = [work EXCEPT ![BFolder].db = live.db]
        BY <1>1, <2>2 DEF TypeInv, BackupTypeOK, StoreTypeOK, WorkDir, Live
    <2>3. CASE /\ live.db # None
               /\ \E ro \in BOOLEAN :
                    work' = [work EXCEPT ![BFolder].db = live.db,
                                         ![BFolder].ro = ro]
        BY <1>1, <2>3 DEF TypeInv, BackupTypeOK, StoreTypeOK, WorkDir, Live
    <2> QED
        BY <2>1, <2>2, <2>3 DEF Database, CopyWorks, DbbackupWorks
<1> QED
    BY <1>1, <1>2 DEF TypeInv, BackupTypeOK, StoreTypeOK, Database, Dumped,
                      machineVars, folderVars

LEMMA NewDatesType == TypeInv => NewDates \subseteq Nat
BY DEF TypeInv, BackupTypeOK, StoreTypeOK, NewDates

LEMMA MakecabType == TypeInv /\ Makecab => TypeInv'
<1> SUFFICES ASSUME TypeInv, Makecab PROVE TypeInv'
    OBVIOUS
<1>1. PICK d \in NewDates :
        /\ cabs' = cabs \cup
             {[folder |-> BFolder, date |-> d,
               body |-> [reg |-> work[BFolder].reg, pub |-> live.pub,
                         priv |-> live.priv, db |-> work[BFolder].db]]}
        /\ clock' = d
    BY DEF Makecab
<1>2. BFolder \in {"backup", "undo"} /\ d \in Nat
    BY FolderType, NewDatesType, <1>1 DEF TypeInv, BackupTypeOK, BFolder
<1>3. [reg |-> work[BFolder].reg, pub |-> live.pub,
       priv |-> live.priv, db |-> work[BFolder].db] \in Body
    BY <1>2 DEF TypeInv, BackupTypeOK, StoreTypeOK, Makecab, Dumped, WorkDir,
                Live, Body
<1>4. cabs' \subseteq Cabinet
    BY <1>1, <1>2, <1>3
       DEF TypeInv, BackupTypeOK, StoreTypeOK, Cabinet
<1> QED
    BY <1>1, <1>2, <1>4 DEF TypeInv, BackupTypeOK, StoreTypeOK, Makecab, Dumped,
                            machineVars

LEMMA MakecabFailsType == TypeInv /\ MakecabFails => TypeInv'
BY DEF TypeInv, BackupTypeOK, StoreTypeOK, Dumped, MakecabFails, machineVars,
       folderVars

LEMMA CleanupType == TypeInv /\ Cleanup => TypeInv'
<1> SUFFICES ASSUME TypeInv, Cleanup PROVE TypeInv'
    OBVIOUS
<1>1. work' \in [{"backup", "undo"} -> WorkDir]
    BY DEF TypeInv, BackupTypeOK, Cleanup, WorkDir, EmptyDir
<1> QED
    BY <1>1 DEF TypeInv, BackupTypeOK, StoreTypeOK, Dumped, Cleanup,
                AfterCleanup, machineVars, folderVars

LEMMA KeepType == TypeInv /\ Keep => TypeInv'
BY DEF TypeInv, BackupTypeOK, StoreTypeOK, Dumped, Keep, KeepFiles, FilesIn,
       machineVars

LEMMA LinkOpenType == TypeInv /\ LinkOpen => TypeInv'
<1> SUFFICES ASSUME TypeInv, LinkOpen PROVE TypeInv'
    OBVIOUS
<1>1. link' \in [Rotating -> Shortcuts]
    BY DEF TypeInv, BackupTypeOK, StoreTypeOK, LinkOpen, Shortcuts
<1> QED
    BY <1>1 DEF TypeInv, BackupTypeOK, StoreTypeOK, Dumped, LinkOpen,
                machineVars

LEMMA LinkRestoreType == TypeInv /\ LinkRestore => TypeInv'
<1> SUFFICES ASSUME TypeInv, LinkRestore PROVE TypeInv'
    OBVIOUS
<1>1. link' \in [Rotating -> Shortcuts]
    BY DEF TypeInv, BackupTypeOK, StoreTypeOK, LinkRestore, Shortcuts
<1> QED
    BY <1>1 DEF TypeInv, BackupTypeOK, StoreTypeOK, Dumped, LinkRestore,
                machineVars

LEMMA EndType == TypeInv /\ (Return \/ BackupCrash) => TypeInv'
BY DEF TypeInv, BackupTypeOK, StoreTypeOK, Dumped, Return, BackupCrash, Gone,
       machineVars, folderVars, Kinds, Rotating

LEMMA WorkType == TypeInv /\ UserWork => TypeInv'
<1> SUFFICES ASSUME TypeInv, UserWork PROVE TypeInv'
    OBVIOUS
<1>1. live' \in Live /\ nextData' \in Nat
    BY DEF TypeInv, BackupTypeOK, StoreTypeOK, UserWork, Work, WholeLive, Live,
           DbFile
<1>2. bseen' \subseteq Nat
    BY DEF TypeInv, BackupTypeOK, StoreTypeOK, UserWork
<1> QED
    BY <1>1, <1>2 DEF TypeInv, BackupTypeOK, StoreTypeOK, Dumped, UserWork,
                      Work, folderVars, BFolder, FolderOf

LEMMA ServerType ==
    TypeInv /\ (NewInstallation \/ ServerStopped \/ ServerStarted) => TypeInv'
<1> SUFFICES ASSUME TypeInv, NewInstallation \/ ServerStopped \/ ServerStarted
             PROVE  TypeInv'
    OBVIOUS
<1>1. CASE NewInstallation
    <2>1. live' \in Live /\ nextData' \in Nat
        BY <1>1 DEF TypeInv, BackupTypeOK, StoreTypeOK, NewInstallation,
                    Reinstall, Live, DbFile
    <2> QED
        BY <1>1, <2>1 DEF TypeInv, BackupTypeOK, StoreTypeOK, Dumped,
                          NewInstallation, Reinstall, folderVars, backupVars
<1>2. CASE ServerStopped
    BY <1>2 DEF TypeInv, BackupTypeOK, StoreTypeOK, Dumped, ServerStopped,
                AdminStop, folderVars, backupVars, BFolder, FolderOf
<1>3. CASE ServerStarted
    <2>1. live' \in Live
        BY <1>3 DEF TypeInv, BackupTypeOK, StoreTypeOK, ServerStarted,
                    AdminStart, StartedCreds, Live
    <2> QED
        BY <1>3, <2>1 DEF TypeInv, BackupTypeOK, StoreTypeOK, Dumped,
                          ServerStarted, AdminStart, folderVars, backupVars,
                          BFolder, FolderOf
<1> QED
    BY <1>1, <1>2, <1>3

LEMMA InitType == BInit => TypeInv
<1> SUFFICES ASSUME BInit PROVE TypeInv
    OBVIOUS
<1>1. live \in Live
    BY DEF BInit, StoreInit, Live, DbFile
<1>2. link \in [Rotating -> Shortcuts]
    BY DEF BInit, StoreInit, Shortcuts
<1>3. work \in [{"backup", "undo"} -> WorkDir]
    BY DEF BInit, BackupInit, WorkDir, EmptyDir
<1> QED
    BY <1>1, <1>2, <1>3
       DEF BInit, StoreInit, BackupInit, TypeInv, BackupTypeOK, StoreTypeOK,
           Dumped, Kinds, Rotating

LEMMA NextType == TypeInv /\ [BNext]_bVars => TypeInv'
<1> SUFFICES ASSUME TypeInv, [BNext]_bVars PROVE TypeInv'
    OBVIOUS
<1>1. CASE UNCHANGED bVars
    BY <1>1 DEF TypeInv, BackupTypeOK, StoreTypeOK, Dumped, BFolder, FolderOf,
                bVars, machineVars, folderVars, backupVars
<1>2. CASE BNext
    BY <1>2, StartType, ExportType, DumpType, DeleteOldType, DatabaseType,
       MakecabType, MakecabFailsType, CleanupType, KeepType, LinkOpenType,
       LinkRestoreType, EndType, WorkType, ServerType
       DEF BNext, BackupStep
<1> QED
    BY <1>1, <1>2

\* Every variable of the backup script and of what it works on keeps its type;
\* in particular no cabinet is built without a database or a password file
\* (backupdb.wsf:250-382).
THEOREM BackupTypes == BSpec => []BackupTypeOK
<1>1. BSpec => []TypeInv
    BY InitType, NextType, PTL DEF BSpec
<1> QED
    BY <1>1, PTL DEF TypeInv

-----------------------------------------------------------------------------
(* A cabinet is one piece.  While a run goes on the server's credentials do  *)
(* not change, the working folder's password file is this run's from Dump    *)
(* on, and its database copy is this run's from Database on, because the     *)
(* copy a failed run left has been deleted: that needs copies that are not   *)
(* read-only.                                                                *)

MayLeaveOldCopies == "readonly" \in Faults \/ "restart" \in Faults

WholeInv ==
    /\ WholeLive
    /\ registry = None \/ registry = live.creds
    /\ bpc = "dump" => registry = live.creds
    /\ bpc \in {"delete", "database", "makecab"} =>
         work[BFolder].reg = live.creds
    /\ bpc = "database" => work[BFolder].db = None
    /\ bpc = "makecab" /\ work[BFolder].db # None =>
         work[BFolder].db.key = live.creds
    /\ \A f \in {"backup", "undo"} : ~work[f].ro
    /\ CabinetsWhole

LEMMA WholeInit == BInit => WholeInv
<1> SUFFICES ASSUME BInit PROVE WholeInv
    OBVIOUS
<1>1. WholeLive
    BY StoreAssumption DEF BInit, StoreInit, WholeLive, DbFile
<1>2. \A f \in {"backup", "undo"} : ~work[f].ro
    BY DEF BInit, BackupInit, EmptyDir
<1> QED
    BY <1>1, <1>2 DEF BInit, StoreInit, BackupInit, WholeInv, CabinetsWhole

LEMMA WholeDump ==
    ASSUME TypeInv, WholeInv, Dump
    PROVE  WholeInv'
<1>1. BFolder \in {"backup", "undo"} /\ BFolder' = BFolder
    BY FolderType DEF TypeInv, BackupTypeOK, BFolder, FolderOf, Dump
<1>2. /\ work'[BFolder].reg = live.creds
      /\ \A f \in {"backup", "undo"} : work'[f].ro = work[f].ro
    BY <1>1, StoreAssumption
       DEF TypeInv, BackupTypeOK, StoreTypeOK, Dump, WholeInv, WorkDir, Live
<1> QED
    BY <1>1, <1>2 DEF WholeInv, WholeLive, CabinetsWhole, Dump, folderVars

LEMMA WholeDeleteOld ==
    ASSUME TypeInv, WholeInv, DeleteOld
    PROVE  WholeInv'
<1>1. BFolder \in {"backup", "undo"} /\ BFolder' = BFolder
    BY FolderType DEF TypeInv, BackupTypeOK, BFolder, FolderOf, DeleteOld
<1>2. /\ work'[BFolder].reg = work[BFolder].reg
      /\ work'[BFolder].db = None
      /\ \A f \in {"backup", "undo"} : work'[f].ro = work[f].ro
    BY <1>1 DEF TypeInv, BackupTypeOK, DeleteOld, WholeInv, WorkDir
<1> QED
    BY <1>1, <1>2 DEF WholeInv, WholeLive, CabinetsWhole, DeleteOld, folderVars,
                      machineVars

LEMMA WholeDatabase ==
    ASSUME TypeInv, WholeInv, Database, ~MayLeaveOldCopies
    PROVE  WholeInv'
<1>1. BFolder \in {"backup", "undo"} /\ BFolder' = BFolder
    BY FolderType DEF TypeInv, BackupTypeOK, BFolder, FolderOf, Database
<1>2. /\ work'[BFolder].reg = work[BFolder].reg
      /\ work'[BFolder].db \in {None, live.db}
      /\ \A f \in {"backup", "undo"} : ~work'[f].ro
    <2>1. CASE UNCHANGED work
        BY <1>1, <2>1 DEF WholeInv, Database
    <2>2. CASE work' = [work EXCEPT ![BFolder].db = live.db]
        BY <1>1, <2>2 DEF TypeInv, BackupTypeOK, WorkDir, WholeInv
    <2>3. CASE \E ro \in {b \in BOOLEAN : b => "readonly" \in Faults} :
                 work' = [work EXCEPT ![BFolder].db = live.db,
                                      ![BFolder].ro = ro]
        <3>1. work' = [work EXCEPT ![BFolder].db = live.db,
                                   ![BFolder].ro = FALSE]
            <4>1. PICK ro \in {b \in BOOLEAN : b => "readonly" \in Faults} :
                    work' = [work EXCEPT ![BFolder].db = live.db,
                                         ![BFolder].ro = ro]
                BY <2>3
            <4>2. ro = FALSE
                BY Zenon DEF MayLeaveOldCopies
            <4> QED
                BY <4>1, <4>2
        <3> QED
            BY <1>1, <3>1 DEF TypeInv, BackupTypeOK, WorkDir, WholeInv
    <2> QED
        BY <2>1, <2>2, <2>3 DEF Database
<1> QED
    BY <1>1, <1>2 DEF WholeInv, WholeLive, CabinetsWhole, Database, folderVars,
                      machineVars

LEMMA WholeMakecab ==
    ASSUME TypeInv, WholeInv, Makecab
    PROVE  WholeInv'
<1>1. PICK d \in NewDates :
        cabs' = cabs \cup
             {[folder |-> BFolder, date |-> d,
               body |-> [reg |-> work[BFolder].reg, pub |-> live.pub,
                         priv |-> live.priv, db |-> work[BFolder].db]]}
    BY DEF Makecab
<1>2. CabinetsWhole'
    BY <1>1 DEF CabinetsWhole, Whole, WholeInv, WholeLive, Makecab
<1> QED
    BY <1>2 DEF WholeInv, WholeLive, Makecab, machineVars

LEMMA WholeCleanup ==
    ASSUME TypeInv, WholeInv, Cleanup
    PROVE  WholeInv'
<1>1. \A f \in {"backup", "undo"} : ~work'[f].ro
    BY DEF TypeInv, BackupTypeOK, WholeInv, Cleanup, EmptyDir
<1>2. bpc' \in {"keep", "done"}
    BY DEF Cleanup, AfterCleanup
<1> QED
    BY <1>1, <1>2 DEF WholeInv, WholeLive, CabinetsWhole, Cleanup, folderVars,
                      machineVars

LEMMA WholeKeep ==
    ASSUME WholeInv, Keep
    PROVE  WholeInv'
BY DEF WholeInv, WholeLive, CabinetsWhole, Keep, KeepFiles, FilesIn, machineVars

LEMMA WholeOtherSteps ==
    ASSUME TypeInv, WholeInv,
           \/ \E kind \in Kinds : Start(kind)
           \/ Export \/ MakecabFails \/ LinkOpen \/ LinkRestore
           \/ Return \/ BackupCrash
    PROVE  WholeInv'
<1>1. CASE \E kind \in Kinds : Start(kind)
    BY <1>1 DEF WholeInv, WholeLive, CabinetsWhole, Start, folderVars,
                machineVars
<1>2. CASE Export
    BY <1>2 DEF WholeInv, WholeLive, CabinetsWhole, Export, folderVars
<1>3. CASE MakecabFails \/ LinkOpen \/ LinkRestore
    BY <1>3 DEF WholeInv, WholeLive, CabinetsWhole, MakecabFails, LinkOpen,
                LinkRestore, folderVars, machineVars
<1>4. CASE Return \/ BackupCrash
    BY <1>4 DEF WholeInv, WholeLive, CabinetsWhole, Return, BackupCrash, Gone,
                folderVars, machineVars
<1> QED
    BY <1>1, <1>2, <1>3, <1>4

LEMMA WholeSurroundings ==
    ASSUME TypeInv, WholeInv, ~MayLeaveOldCopies,
           \/ UserWork \/ NewInstallation \/ ServerStopped \/ ServerStarted
    PROVE  WholeInv'
<1>1. CASE UserWork
    <2>1. /\ live'.creds = live.creds /\ live'.pub = live.pub
          /\ live'.priv = live.priv
          /\ live'.db # None /\ live'.db.key = live.creds
        <3>1. live.db \in DbFile /\ nextData \in Nat /\ live \in Live
            BY <1>1 DEF TypeInv, BackupTypeOK, StoreTypeOK, Live, UserWork,
                        Work, WholeLive
        <3>2. live' = [live EXCEPT !.db = [live.db EXCEPT !.data = nextData]]
            BY <1>1 DEF UserWork, Work
        <3>3. [live.db EXCEPT !.data = nextData] \in DbFile
            BY <3>1 DEF DbFile
        <3>4. live'.db = [live.db EXCEPT !.data = nextData]
            BY <3>1, <3>2 DEF Live
        <3>5. live'.db.key = live.db.key
            BY <3>1, <3>4 DEF DbFile
        <3> QED
            BY <3>1, <3>2, <3>3, <3>4, <3>5, StoreAssumption
               DEF Live, WholeInv, WholeLive
    <2>2. UNCHANGED <<bpc, bkind, work, cabs, registry>>
        BY <1>1 DEF UserWork, Work, folderVars
    <2> QED
        BY <2>1, <2>2 DEF WholeInv, WholeLive, CabinetsWhole, BFolder, FolderOf
<1>2. CASE NewInstallation
    <2>1. WholeLive' /\ registry' = None
        BY <1>2, StoreAssumption
           DEF NewInstallation, Reinstall, WholeLive, DbFile, TypeInv,
               BackupTypeOK, StoreTypeOK
    <2> QED
        BY <1>2, <2>1 DEF WholeInv, CabinetsWhole, NewInstallation, folderVars,
                          backupVars
<1>3. CASE ServerStopped
    BY <1>3 DEF WholeInv, WholeLive, CabinetsWhole, ServerStopped, AdminStop,
                folderVars, backupVars, BFolder, FolderOf
<1>4. CASE ServerStarted
    <2>1. StartedCreds = live.creds /\ bpc # "dump"
        BY <1>4 DEF WholeInv, StartedCreds, ServerStarted, MayLeaveOldCopies
    <2>2. live' = live /\ registry' = None
        BY <1>4, <2>1 DEF TypeInv, BackupTypeOK, StoreTypeOK, Live,
                          ServerStarted, AdminStart
    <2> QED
        BY <1>4, <2>1, <2>2 DEF WholeInv, WholeLive, CabinetsWhole,
              ServerStarted, folderVars, backupVars, BFolder, FolderOf
<1> QED
    BY <1>1, <1>2, <1>3, <1>4

LEMMA WholeNext ==
    ASSUME TypeInv, WholeInv, ~MayLeaveOldCopies, [BNext]_bVars
    PROVE  WholeInv'
<1>1. CASE UNCHANGED bVars
    BY <1>1 DEF WholeInv, WholeLive, CabinetsWhole, BFolder, FolderOf, bVars,
                machineVars, folderVars, backupVars
<1>2. CASE BNext
    BY <1>2, WholeDump, WholeDeleteOld, WholeDatabase, WholeMakecab,
       WholeCleanup, WholeKeep, WholeOtherSteps, WholeSurroundings
       DEF BNext, BackupStep
<1> QED
    BY <1>1, <1>2

\* Where dbbackup.exe leaves no read-only copies and nobody starts the server
\* while a run has the credentials in the registry, every cabinet in every
\* folder is one piece, after any number of crashed and failed runs
\* (backupdb.wsf:291-309, 381-406).
THEOREM WholeCabinets ==
    ASSUME ~MayLeaveOldCopies
    PROVE  BSpec => []CabinetsWhole
<1>1. TypeInv /\ WholeInv /\ [BNext]_bVars => (TypeInv /\ WholeInv)'
    BY NextType, WholeNext
<1>2. BInit => TypeInv /\ WholeInv
    BY InitType, WholeInit
<1>3. BSpec => [](TypeInv /\ WholeInv)
    BY <1>1, <1>2, PTL DEF BSpec
<1> QED
    BY <1>3, PTL DEF WholeInv

-----------------------------------------------------------------------------
(* The shortcuts.  In the default configuration, when no run is killed and   *)
(* the restore script is there, the cabinets of a folder are those its       *)
(* shortcuts know of and, from Makecab until LinkRestore, one more that is   *)
(* newer than all of them: so the one the shortcuts lead to has at most one  *)
(* newer cabinet when the folder is rotated, and a count of two keeps it.    *)

DefaultAndUndisturbed ==
    /\ ~SharedFolder
    /\ {"crash", "clock", "named", "noscript"} \cap Faults = {}

Fresh == {"cleanup", "keep", "open", "restore"}

UniqueDates == \A c, d \in cabs : c.date = d.date => c = d
NoneLater == \A c \in cabs : c.date <= clock
OthersKnown ==
    \A kind \in Rotating : \A c \in FilesIn(FolderOf(kind)) :
        \/ link[kind].restore # None /\ c.date <= link[kind].restore
        \/ bkind = kind /\ bpc \in Fresh /\ c.date = clock
RestoreResolves ==
    \A kind \in Rotating : link[kind].restore # None =>
        \E c \in FilesIn(FolderOf(kind)) : c.date = link[kind].restore
OpenLikeRestore ==
    \A kind \in Rotating :
        link[kind].open = IF bkind = kind /\ bpc = "restore"
                          THEN clock ELSE link[kind].restore
FreshThere == bpc \in Fresh => \E c \in FilesIn(BFolder) : c.date = clock

LinkInv ==
    /\ bkind \in Rotating
    /\ UniqueDates /\ NoneLater
    /\ OthersKnown /\ RestoreResolves /\ OpenLikeRestore /\ FreshThere

LEMMA FoldersDiffer ==
    ASSUME ~SharedFolder, NEW k1 \in Rotating, NEW k2 \in Rotating,
           FolderOf(k1) = FolderOf(k2)
    PROVE  k1 = k2
BY DEF Rotating, FolderOf

LEMMA LinkInit == BInit => LinkInv
BY StoreAssumption
   DEF BInit, StoreInit, BackupInit, LinkInv, Rotating, UniqueDates, NoneLater,
       OthersKnown, RestoreResolves, OpenLikeRestore, FreshThere, FilesIn, Fresh

\* A step that leaves the folders, the shortcuts and the kind of run alone.
LEMMA LinkUntouched ==
    ASSUME LinkInv, UNCHANGED <<cabs, link, clock, bkind>>,
           bpc' \in Fresh <=> bpc \in Fresh,
           bpc' = "restore" <=> bpc = "restore"
    PROVE  LinkInv'
BY DEF LinkInv, UniqueDates, NoneLater, OthersKnown, RestoreResolves,
       OpenLikeRestore, FreshThere, FilesIn, BFolder, FolderOf

LEMMA LinkStart ==
    ASSUME LinkInv, DefaultAndUndisturbed, NEW kind \in Kinds, Start(kind)
    PROVE  LinkInv'
<1>1. kind \in Rotating /\ bpc = "idle" /\ bpc' = "export"
    BY DEF Start, Kinds, DefaultAndUndisturbed
<1>2. UNCHANGED <<cabs, link, clock>> /\ bkind' = kind
    BY DEF Start, folderVars
<1> QED
    BY <1>1, <1>2
       DEF LinkInv, UniqueDates, NoneLater, OthersKnown, RestoreResolves,
           OpenLikeRestore, FreshThere, FilesIn, FolderOf, Fresh

LEMMA LinkMakecab ==
    ASSUME TypeInv, LinkInv, DefaultAndUndisturbed, Makecab
    PROVE  LinkInv'
<1> DEFINE new == [folder |-> BFolder, date |-> clock + 1,
                   body |-> [reg |-> work[BFolder].reg, pub |-> live.pub,
                             priv |-> live.priv, db |-> work[BFolder].db]]
<1>1. cabs' = cabs \cup {new} /\ clock' = clock + 1
    BY DEF Makecab, NewDates, DefaultAndUndisturbed
<1>2. bpc = "makecab" /\ bpc' = "cleanup" /\ UNCHANGED <<link, bkind>>
    BY DEF Makecab
<1>3. clock \in Nat /\ \A c \in cabs : c.date \in Nat
    BY DEF TypeInv, BackupTypeOK, StoreTypeOK, Cabinet
<1>4. \A c \in cabs : c.date < new.date
    BY <1>3 DEF LinkInv, NoneLater
<1> HIDE DEF new
<1>5. UniqueDates' /\ NoneLater'
    <2>1. new.date = clock + 1
        BY DEF new
    <2>2. UniqueDates'
        BY <1>1, <1>3, <1>4, <2>1 DEF LinkInv, UniqueDates
    <2>3. NoneLater'
        BY <1>1, <1>3, <2>1 DEF LinkInv, NoneLater
    <2> QED
        BY <2>2, <2>3
<1>6. new.date = clock' /\ new.folder = BFolder /\ BFolder' = BFolder
    BY <1>1, <1>2 DEF new, BFolder, FolderOf
<1>7. OthersKnown'
    <2> SUFFICES ASSUME NEW kind \in Rotating,
                        NEW c \in cabs', c.folder = FolderOf(kind)
                 PROVE  \/ link[kind].restore # None
                           /\ c.date <= link[kind].restore
                        \/ bkind = kind /\ c.date = clock'
        BY <1>2 DEF OthersKnown, FilesIn, Fresh, FolderOf
    <2>1. CASE c \in cabs
        BY <1>2, <2>1 DEF LinkInv, OthersKnown, FilesIn, Fresh
    <2>2. CASE c = new
        BY <1>6, <2>2, FoldersDiffer
           DEF BFolder, LinkInv, DefaultAndUndisturbed
    <2> QED
        BY <1>1, <2>1, <2>2
<1>8. RestoreResolves'
    BY <1>1, <1>2 DEF LinkInv, RestoreResolves, FilesIn, FolderOf
<1>9. OpenLikeRestore'
    BY <1>2 DEF LinkInv, OpenLikeRestore
<1>10. FreshThere'
    BY <1>1, <1>6 DEF FreshThere, FilesIn
<1> QED
    BY <1>2, <1>5, <1>7, <1>8, <1>9, <1>10 DEF LinkInv

LEMMA AtMostOne ==
    ASSUME NEW S, \A c, d \in S : c = d
    PROVE  IsFiniteSet(S) /\ Cardinality(S) \in 0..1
<1>1. CASE S = {}
    BY <1>1, FS_EmptySet
<1>2. CASE S # {}
    <2>1. PICK c \in S : TRUE
        BY <1>2
    <2>2. S = {c}
        BY <2>1
    <2> QED
        BY <2>2, FS_Singleton
<1> QED
    BY <1>1, <1>2

LEMMA FloorOfTwo ==
    ASSUME NEW kind \in Rotating
    PROVE  EffectiveKeep(kind) \in Int /\ EffectiveKeep(kind) >= 2
BY StoreAssumption DEF EffectiveKeep

LEMMA LinkKeep ==
    ASSUME TypeInv, LinkInv, DefaultAndUndisturbed, Keep
    PROVE  LinkInv'
<1> DEFINE S == FilesIn(BFolder)
           kept == KeepFiles(S, EffectiveKeep(bkind))
<1>1. cabs' = (cabs \ S) \cup kept /\ kept \subseteq S /\ S \subseteq cabs
    BY DEF Keep, KeepFiles, FilesIn
<1>2. /\ bpc = "keep" /\ bpc' = "open"
      /\ UNCHANGED <<link, clock, bkind>> /\ BFolder' = BFolder
    BY DEF Keep, BFolder, FolderOf
<1>3. clock \in Nat /\ \A c \in cabs : c.date \in Nat
    BY DEF TypeInv, BackupTypeOK, StoreTypeOK, Cabinet
<1>4. bkind \in Rotating /\ link[bkind].restore \in Nat \cup {None}
    BY DEF LinkInv, TypeInv, BackupTypeOK, StoreTypeOK, Shortcuts
<1>5. ASSUME NEW c \in S, \A d, e \in Newer(c, S) : d = e
      PROVE  c \in kept
    BY <1>4, <1>5, AtMostOne, FloorOfTwo DEF KeepFiles
<1>6. ASSUME NEW c \in S, c.date = clock
      PROVE  c \in kept
    <2>1. Newer(c, S) = {}
        BY <1>1, <1>3, <1>6 DEF Newer, LinkInv, NoneLater
    <2> QED
        BY <1>5, <2>1
<1>7. ASSUME NEW c \in S, link[bkind].restore # None,
             c.date = link[bkind].restore
      PROVE  c \in kept
    <2>1. \A d \in Newer(c, S) : d.date = clock /\ d \in cabs
        BY <1>1, <1>3, <1>4, <1>7 DEF Newer, LinkInv, OthersKnown, BFolder
    <2>2. \A d, e \in Newer(c, S) : d = e
        BY <2>1 DEF LinkInv, UniqueDates
    <2> QED
        BY <1>5, <2>2
<1> HIDE DEF kept
<1>8. UniqueDates' /\ NoneLater'
    BY <1>1, <1>2 DEF LinkInv, UniqueDates, NoneLater
<1>9. OthersKnown'
    BY <1>1, <1>2 DEF LinkInv, OthersKnown, FilesIn, FolderOf, Fresh
<1>10. RestoreResolves'
    <2> SUFFICES ASSUME NEW kind \in Rotating, link[kind].restore # None
                 PROVE  \E c \in cabs' : /\ c.folder = FolderOf(kind)
                                         /\ c.date = link[kind].restore
        BY <1>2 DEF RestoreResolves, FilesIn, FolderOf
    <2>1. PICK c \in cabs : /\ c.folder = FolderOf(kind)
                            /\ c.date = link[kind].restore
        BY DEF LinkInv, RestoreResolves, FilesIn
    <2>2. CASE kind = bkind
        <3>1. c \in S
            BY <2>1, <2>2 DEF FilesIn, BFolder
        <3> QED
            BY <1>1, <1>7, <2>1, <2>2, <3>1
    <2>3. CASE kind # bkind
        <3>1. c \notin S
            BY <1>4, <2>1, <2>3, FoldersDiffer
               DEF FilesIn, BFolder, DefaultAndUndisturbed
        <3> QED
            BY <1>1, <2>1, <3>1
    <2> QED
        BY <2>2, <2>3
<1>11. OpenLikeRestore'
    BY <1>2 DEF LinkInv, OpenLikeRestore
<1>12. FreshThere'
    <2>1. PICK c \in S : c.date = clock
        BY <1>2 DEF LinkInv, FreshThere, Fresh
    <2>2. c \in cabs' /\ c.folder = BFolder
        BY <1>1, <1>6, <2>1 DEF FilesIn
    <2> QED
        BY <1>2, <2>1, <2>2 DEF FreshThere, FilesIn
<1> QED
    BY <1>2, <1>4, <1>8, <1>9, <1>10, <1>11, <1>12 DEF LinkInv

LEMMA LinkLinkOpen ==
    ASSUME TypeInv, LinkInv, LinkOpen
    PROVE  LinkInv'
<1>1. /\ bpc = "open" /\ bpc' = "restore" /\ UNCHANGED <<cabs, clock, bkind>>
      /\ link'[bkind].open = clock
      /\ \A kind \in Rotating : link'[kind].restore = link[kind].restore
      /\ \A kind \in Rotating \ {bkind} : link'[kind] = link[kind]
    BY DEF LinkOpen, TypeInv, BackupTypeOK, StoreTypeOK, LinkInv, Shortcuts
<1> QED
    BY <1>1 DEF LinkInv, UniqueDates, NoneLater, OthersKnown, RestoreResolves,
                OpenLikeRestore, FreshThere, FilesIn, BFolder, FolderOf, Fresh

LEMMA LinkLinkRestore ==
    ASSUME TypeInv, LinkInv, DefaultAndUndisturbed, LinkRestore
    PROVE  LinkInv'
<1>1. /\ bpc = "restore" /\ bpc' = "done" /\ UNCHANGED <<cabs, clock, bkind>>
      /\ link'[bkind].restore = clock
      /\ link'[bkind].open = link[bkind].open
      /\ \A kind \in Rotating \ {bkind} : link'[kind] = link[kind]
    BY DEF LinkRestore, TypeInv, BackupTypeOK, StoreTypeOK, LinkInv, Shortcuts,
           DefaultAndUndisturbed
<1>2. clock \in Nat
    BY DEF TypeInv, BackupTypeOK, StoreTypeOK
<1>3. UniqueDates' /\ NoneLater' /\ FreshThere'
    BY <1>1 DEF LinkInv, UniqueDates, NoneLater, FreshThere, Fresh
<1>4. OthersKnown'
    <2> SUFFICES ASSUME NEW kind \in Rotating,
                        NEW c \in FilesIn(FolderOf(kind))
                 PROVE  /\ link'[kind].restore # None
                        /\ c.date <= link'[kind].restore
        BY <1>1 DEF OthersKnown, FilesIn, FolderOf
    <2>1. CASE kind = bkind
        BY <1>1, <1>2, <2>1, StoreAssumption DEF LinkInv, NoneLater, FilesIn
    <2>2. CASE kind # bkind
        BY <1>1, <2>2 DEF LinkInv, OthersKnown
    <2> QED
        BY <2>1, <2>2
<1>5. RestoreResolves'
    <2> SUFFICES ASSUME NEW kind \in Rotating, link'[kind].restore # None
                 PROVE  \E c \in FilesIn(FolderOf(kind)) :
                            c.date = link'[kind].restore
        BY <1>1 DEF RestoreResolves, FilesIn, FolderOf
    <2>1. CASE kind = bkind
        BY <1>1, <2>1 DEF LinkInv, FreshThere, Fresh, BFolder
    <2>2. CASE kind # bkind
        BY <1>1, <2>2 DEF LinkInv, RestoreResolves
    <2> QED
        BY <2>1, <2>2
<1>6. OpenLikeRestore'
    <2> SUFFICES ASSUME NEW kind \in Rotating
                 PROVE  link'[kind].open = link'[kind].restore
        BY <1>1 DEF OpenLikeRestore
    <2>1. CASE kind = bkind
        BY <1>1, <2>1 DEF LinkInv, OpenLikeRestore
    <2>2. CASE kind # bkind
        BY <1>1, <2>2 DEF LinkInv, OpenLikeRestore
    <2> QED
        BY <2>1, <2>2
<1> QED
    BY <1>1, <1>3, <1>4, <1>5, <1>6 DEF LinkInv

LEMMA LinkGone ==
    ASSUME LinkInv, DefaultAndUndisturbed, Return
    PROVE  LinkInv'
<1>1. /\ bpc = "done" /\ bpc' = "idle" /\ bkind' = "backup"
      /\ UNCHANGED <<cabs, link, clock>>
    BY DEF Return, Gone, folderVars
<1> QED
    BY <1>1 DEF LinkInv, UniqueDates, NoneLater, OthersKnown, RestoreResolves,
                OpenLikeRestore, FreshThere, FilesIn, FolderOf, Fresh, Rotating

LEMMA LinkNext ==
    ASSUME TypeInv, LinkInv, DefaultAndUndisturbed, [BNext]_bVars
    PROVE  LinkInv'
<1>1. CASE UNCHANGED bVars
    BY <1>1, LinkUntouched DEF bVars, folderVars, backupVars
<1>2. CASE Export \/ Dump \/ DeleteOld \/ Database \/ MakecabFails
    BY <1>2, LinkUntouched
       DEF Export, Dump, DeleteOld, Database, MakecabFails, folderVars, Fresh
<1>3. CASE Cleanup
    <2>1. bpc = "cleanup" /\ bpc' = "keep"
        BY <1>3 DEF Cleanup, AfterCleanup, LinkInv, Rotating
    <2> QED
        BY <1>3, <2>1, LinkUntouched DEF Cleanup, folderVars, Fresh
<1>4. CASE BackupCrash
    BY <1>4 DEF BackupCrash, DefaultAndUndisturbed
<1>5. CASE UserWork \/ NewInstallation \/ ServerStopped \/ ServerStarted
    BY <1>5, LinkUntouched
       DEF UserWork, NewInstallation, ServerStopped, ServerStarted, folderVars,
           backupVars
<1>6. CASE BNext
    BY <1>2, <1>3, <1>4, <1>5, <1>6, LinkStart, LinkMakecab, LinkKeep,
       LinkLinkOpen, LinkLinkRestore, LinkGone
       DEF BNext, BackupStep
<1> QED
    BY <1>1, <1>6

LEMMA LinkInvResolves == TypeInv /\ LinkInv => ShortcutsResolve
<1> SUFFICES ASSUME LinkInv, NEW kind \in Rotating, NEW d \in LinkDates(kind)
             PROVE  \E c \in FilesIn(FolderOf(kind)) : c.date = d
    BY DEF ShortcutsResolve
<1>1. CASE d = link[kind].restore
    BY <1>1 DEF LinkInv, RestoreResolves, LinkDates
<1>2. CASE d = link[kind].open /\ d # link[kind].restore
    <2>1. bkind = kind /\ bpc = "restore" /\ d = clock
        BY <1>2 DEF LinkInv, OpenLikeRestore
    <2> QED
        BY <2>1 DEF LinkInv, FreshThere, Fresh, BFolder
<1> QED
    BY <1>1, <1>2 DEF LinkDates

\* In the default configuration every shortcut always leads to a cabinet that
\* is there, between the rotation and the writing of the shortcuts too,
\* whatever keep count is configured (backupdb.wsf:141-145, 408-440).
THEOREM ShortcutsAlwaysResolve ==
    ASSUME DefaultAndUndisturbed
    PROVE  BSpec => []ShortcutsResolve
<1>1. TypeInv /\ LinkInv /\ [BNext]_bVars => (TypeInv /\ LinkInv)'
    BY NextType, LinkNext
<1>2. BInit => TypeInv /\ LinkInv
    BY InitType, LinkInit
<1>3. TypeInv /\ LinkInv => ShortcutsResolve
    BY LinkInvResolves
<1> QED
    BY <1>1, <1>2, <1>3, PTL DEF BSpec

-----------------------------------------------------------------------------
(* The rotation in any configuration. *)

LEMMA CabsFiniteNext ==
    ASSUME IsFiniteSet(cabs), [BNext]_bVars
    PROVE  IsFiniteSet(cabs')
<1>1. CASE Makecab
    BY <1>1, FS_AddElement DEF Makecab
<1>2. CASE Keep
    <2>1. cabs' \subseteq cabs
        BY <1>2 DEF Keep, KeepFiles, FilesIn
    <2> QED
        BY <2>1, FS_Subset
<1>3. CASE UNCHANGED cabs
    BY <1>3
<1> QED
    BY <1>1, <1>2, <1>3
       DEF BNext, BackupStep, Start, Export, Dump, DeleteOld, Database,
           MakecabFails, Cleanup, LinkOpen, LinkRestore, Return, BackupCrash,
           UserWork, NewInstallation, ServerStopped, ServerStarted, bVars,
           folderVars

\* A named run never gets to the rotation.
Rotates == bpc = "keep" => bkind \in Rotating

LEMMA RotatesNext == TypeInv /\ Rotates /\ [BNext]_bVars => Rotates'
<1> SUFFICES ASSUME TypeInv, Rotates, [BNext]_bVars PROVE Rotates'
    OBVIOUS
<1>1. CASE Cleanup
    BY <1>1 DEF Cleanup, AfterCleanup, TypeInv, BackupTypeOK, Kinds, Rotates
<1>2. CASE ~Cleanup
    BY <1>2
       DEF Rotates, BNext, BackupStep, Start, Export, Dump, DeleteOld, Database,
           Makecab, MakecabFails, Keep, LinkOpen, LinkRestore, Return, Gone,
           BackupCrash, UserWork, NewInstallation, ServerStopped,
           ServerStarted, bVars, backupVars
<1> QED
    BY <1>1, <1>2

LEMMA TwoStay ==
    ASSUME Rotates, IsFiniteSet(cabs), [BNext]_bVars, NEW c \in cabs,
           Cardinality(Newer(c, FilesIn(c.folder))) < 2
    PROVE  c \in cabs'
<1>1. CASE Keep
    <2>1. CASE c \notin FilesIn(BFolder)
        BY <1>1, <2>1 DEF Keep
    <2>2. CASE c \in FilesIn(BFolder)
        <3>1. IsFiniteSet(Newer(c, FilesIn(BFolder)))
            BY FS_Subset DEF Newer, FilesIn
        <3>2. Cardinality(Newer(c, FilesIn(BFolder))) \in Nat
            BY <3>1, FS_CardinalityType
        <3>3. bkind \in Rotating
            BY <1>1 DEF Keep, Rotates
        <3>4. Cardinality(Newer(c, FilesIn(BFolder))) < EffectiveKeep(bkind)
            BY <2>2, <3>2, <3>3, FloorOfTwo DEF FilesIn
        <3> QED
            BY <1>1, <2>2, <3>4 DEF Keep, KeepFiles
    <2> QED
        BY <2>1, <2>2
<1>2. CASE cabs \subseteq cabs'
    BY <1>2
<1> QED
    BY <1>1, <1>2
       DEF BNext, BackupStep, Start, Export, Dump, DeleteOld, Database, Makecab,
           MakecabFails, Cleanup, LinkOpen, LinkRestore, Return, BackupCrash,
           UserWork, NewInstallation, ServerStopped, ServerStarted, bVars,
           folderVars

\* No step, of any run and whatever keep counts are configured, deletes one of
\* the two newest cabinets of a folder, however many cabinets there are and
\* whoever built them (backupdb.wsf:141-145, 590-602).
THEOREM NewestTwoAlwaysSurvive == BSpec => NewestTwoSurvive
<1> DEFINE Inv == TypeInv /\ Rotates /\ IsFiniteSet(cabs)
<1>1. BInit => Inv
    BY InitType, FS_EmptySet DEF BInit, StoreInit, BackupInit, Rotates
<1>2. Inv /\ [BNext]_bVars => Inv'
    BY NextType, RotatesNext, CabsFiniteNext
<1>3. Inv /\ [BNext]_bVars =>
        [\A c \in cabs : Cardinality(Newer(c, FilesIn(c.folder))) < 2
                            => c \in cabs']_bVars
    BY TwoStay
<1> QED
    BY <1>1, <1>2, <1>3, PTL DEF BSpec, NewestTwoSurvive

-----------------------------------------------------------------------------
(* The cabinet a run builds.                                                 *)

LEMMA MakecabAdds ==
    ASSUME Makecab
    PROVE  \E new :
             /\ cabs' = cabs \cup {new}
             /\ new.date = clock' /\ clock' \in NewDates
             /\ new.folder = BFolder
             /\ new.body = [reg |-> work[BFolder].reg, pub |-> live.pub,
                            priv |-> live.priv, db |-> work[BFolder].db]
<1>1. PICK d \in NewDates :
        /\ cabs' = cabs \cup
             {[folder |-> BFolder, date |-> d,
               body |-> [reg |-> work[BFolder].reg, pub |-> live.pub,
                         priv |-> live.priv, db |-> work[BFolder].db]]}
        /\ clock' = d
    BY DEF Makecab
<1> WITNESS [folder |-> BFolder, date |-> d,
             body |-> [reg |-> work[BFolder].reg, pub |-> live.pub,
                       priv |-> live.priv, db |-> work[BFolder].db]]
<1> QED
    BY <1>1

-----------------------------------------------------------------------------
(* How many a rotation leaves.  The ranks of those kept, the numbers of      *)
(* newer ones, are all different and below the count: so there are no more   *)
(* of them than the count says.                                              *)

LEMMA RotationBounds ==
    ASSUME NEW S, IsFiniteSet(S), \A c \in S : c.date \in Nat,
           \A c, d \in S : c.date = d.date => c = d,
           NEW n \in Nat \ {0}
    PROVE  /\ IsFiniteSet(KeepFiles(S, n))
           /\ Cardinality(KeepFiles(S, n)) <= n
<1> DEFINE K == KeepFiles(S, n)
           rank == [c \in K |-> Cardinality(Newer(c, S))]
<1>1. K \subseteq S /\ IsFiniteSet(K) /\ Cardinality(K) \in Nat
    <2>1. K \subseteq S
        BY DEF KeepFiles
    <2> QED
        BY <2>1, FS_Subset, FS_CardinalityType
<1>2. \A c \in S : /\ Newer(c, S) \subseteq S /\ IsFiniteSet(Newer(c, S))
                   /\ Cardinality(Newer(c, S)) \in Nat
    <2> TAKE c \in S
    <2>1. Newer(c, S) \subseteq S
        BY DEF Newer
    <2> QED
        BY <2>1, FS_Subset, FS_CardinalityType
<1>3. rank \in [K -> 0..(n - 1)]
    BY <1>1, <1>2 DEF KeepFiles
<1>4. \A c, d \in S : c.date < d.date =>
        Cardinality(Newer(d, S)) # Cardinality(Newer(c, S))
    <2> SUFFICES ASSUME NEW c \in S, NEW d \in S, c.date < d.date
                 PROVE  Cardinality(Newer(d, S)) # Cardinality(Newer(c, S))
        OBVIOUS
    <2>1. Newer(d, S) \subseteq Newer(c, S)
        BY DEF Newer
    <2>2. d \in Newer(c, S) /\ d \notin Newer(d, S)
        BY DEF Newer
    <2> QED
        BY <1>2, <2>1, <2>2, FS_Subset
<1>5. \A c, d \in K : c # d => rank[c] # rank[d]
    <2> SUFFICES ASSUME NEW c \in K, NEW d \in K, c # d
                 PROVE  rank[c] # rank[d]
        OBVIOUS
    <2>1. c.date < d.date \/ d.date < c.date
        BY <1>1
    <2> QED
        BY <1>1, <1>4, <2>1
<1>6. IsFiniteSet(0..(n - 1)) /\ Cardinality(0..(n - 1)) = n
    BY FS_Interval
<1> HIDE DEF K, rank
<1>7. ~(n < Cardinality(K))
    BY <1>1, <1>3, <1>5, <1>6, FS_PigeonHole
<1> QED
    BY <1>1, <1>7 DEF K

\* Without the clock fault every cabinet is newer than those before it; with
\* it, only different.
DatesInv == UniqueDates /\ ("clock" \notin Faults => NoneLater)

LEMMA DatesNext ==
    ASSUME TypeInv, DatesInv, [BNext]_bVars
    PROVE  DatesInv'
<1>0. clock \in Nat /\ \A c \in cabs : c.date \in Nat
    BY DEF TypeInv, BackupTypeOK, StoreTypeOK, Cabinet
<1>1. CASE Makecab
    <2>1. PICK new : /\ cabs' = cabs \cup {new} /\ new.date = clock'
                     /\ clock' \in NewDates
        BY <1>1, MakecabAdds
    <2>2. \A c \in cabs : c.date # clock'
        BY <1>0, <2>1 DEF NewDates, DatesInv, NoneLater
    <2>3. "clock" \notin Faults => clock' = clock + 1
        BY <2>1 DEF NewDates
    <2> QED
        BY <1>0, <2>1, <2>2, <2>3 DEF DatesInv, UniqueDates, NoneLater
<1>2. CASE cabs' \subseteq cabs /\ UNCHANGED clock
    BY <1>2 DEF DatesInv, UniqueDates, NoneLater
<1> QED
    BY <1>1, <1>2
       DEF BNext, BackupStep, Start, Export, Dump, DeleteOld, Database,
           MakecabFails, Cleanup, Keep, KeepFiles, FilesIn, LinkOpen,
           LinkRestore, Return, BackupCrash, UserWork, NewInstallation,
           ServerStopped, ServerStarted, bVars, folderVars

BoundInv ==
    bpc \in {"open", "restore"} =>
        /\ bkind \in Rotating
        /\ Cardinality(FilesIn(BFolder)) <= EffectiveKeep(bkind)

LEMMA BoundNext ==
    ASSUME TypeInv, Rotates, IsFiniteSet(cabs), DatesInv, BoundInv,
           [BNext]_bVars
    PROVE  BoundInv'
<1>1. CASE Keep
    <2> DEFINE S == FilesIn(BFolder)
               n == EffectiveKeep(bkind)
    <2>1. bkind \in Rotating /\ UNCHANGED bkind /\ BFolder' = BFolder
        BY <1>1 DEF Keep, Rotates, BFolder, FolderOf
    <2>2. n \in Nat \ {0}
        BY <2>1, FloorOfTwo
    <2>3. /\ S \subseteq cabs /\ IsFiniteSet(S)
          /\ \A c \in S : c.date \in Nat
          /\ \A c, d \in S : c.date = d.date => c = d
        <3>1. S \subseteq cabs
            BY DEF FilesIn
        <3> QED
            BY <3>1, FS_Subset
               DEF TypeInv, BackupTypeOK, StoreTypeOK, Cabinet, DatesInv,
                   UniqueDates
    <2>4. Cardinality(KeepFiles(S, n)) <= n
        BY <2>2, <2>3, RotationBounds
    <2>5. FilesIn(BFolder)' = KeepFiles(S, n)
        BY <1>1, <2>1 DEF Keep, KeepFiles, FilesIn
    <2>6. EffectiveKeep(bkind)' = n
        BY <2>1 DEF EffectiveKeep
    <2> QED
        BY <2>1, <2>4, <2>5, <2>6 DEF BoundInv
<1>2. CASE bpc' \in {"open", "restore"} => bpc \in {"open", "restore"}
                                           /\ UNCHANGED <<bkind, cabs>>
    BY <1>2 DEF BoundInv, FilesIn, BFolder, FolderOf, EffectiveKeep
<1> QED
    BY <1>1, <1>2
       DEF BNext, BackupStep, Start, Export, Dump, DeleteOld, Database, Makecab,
           MakecabFails, Cleanup, AfterCleanup, LinkOpen, LinkRestore, Return,
           BackupCrash, Gone, UserWork, NewInstallation, ServerStopped,
           ServerStarted, bVars, folderVars, backupVars

\* After its rotation a folder holds no more cabinets than the run was told to
\* keep, however many crashed and named runs had added, whatever dates the
\* cabinets got and however small the configured count (backupdb.wsf:564-605).
THEOREM FoldersStayBounded == BSpec => []FolderBounded
<1> DEFINE Inv == TypeInv /\ Rotates /\ IsFiniteSet(cabs) /\ DatesInv
                  /\ BoundInv
<1>1. BInit => Inv
    BY InitType, FS_EmptySet
       DEF BInit, StoreInit, BackupInit, Rotates, DatesInv, UniqueDates,
           NoneLater, BoundInv
<1>2. Inv /\ [BNext]_bVars => Inv'
    BY NextType, RotatesNext, CabsFiniteNext, DatesNext, BoundNext
<1>3. Inv => FolderBounded
    BY DEF BoundInv, FolderBounded
<1> QED
    BY <1>1, <1>2, <1>3, PTL DEF BSpec

-----------------------------------------------------------------------------
(* What is in a new cabinet was live during the run that built it.           *)

\* The copy in the working folder is the old one or the live database.
LEMMA DatabaseTakes ==
    ASSUME TypeInv, Database
    PROVE  /\ work'[BFolder].db \in {work[BFolder].db, live.db}
           /\ "readonly" \notin Faults =>
                \A f \in {"backup", "undo"} : work'[f].ro => work[f].ro
<1>1. BFolder \in {"backup", "undo"}
    BY FolderType DEF TypeInv, BackupTypeOK, BFolder
<1>2. CASE UNCHANGED work
    BY <1>2
<1>3. CASE work' = [work EXCEPT ![BFolder].db = live.db]
    BY <1>1, <1>3 DEF TypeInv, BackupTypeOK, WorkDir
<1>4. ASSUME NEW ro \in BOOLEAN, ro => "readonly" \in Faults,
             work' = [work EXCEPT ![BFolder].db = live.db,
                                  ![BFolder].ro = ro]
      PROVE  /\ work'[BFolder].db \in {work[BFolder].db, live.db}
             /\ "readonly" \notin Faults =>
                  \A f \in {"backup", "undo"} : work'[f].ro => work[f].ro
    <2>1. /\ work'[BFolder].db = live.db /\ work'[BFolder].ro = ro
          /\ \A f \in {"backup", "undo"} \ {BFolder} : work'[f] = work[f]
        BY <1>1, <1>4 DEF TypeInv, BackupTypeOK, WorkDir
    <2>2. "readonly" \notin Faults => ~work'[BFolder].ro
        BY <1>4, <2>1, Zenon
    <2> QED
        BY <1>1, <2>1, <2>2
<1> QED
    BY <1>2, <1>3, <1>4 DEF Database

LEMMA DeleteOldDeletes ==
    ASSUME TypeInv, DeleteOld, ~work[BFolder].ro
    PROVE  /\ work'[BFolder].db = None
           /\ \A f \in {"backup", "undo"} : work'[f].ro = work[f].ro
<1>1. BFolder \in {"backup", "undo"}
    BY FolderType DEF TypeInv, BackupTypeOK, BFolder
<1> QED
    BY <1>1 DEF TypeInv, BackupTypeOK, DeleteOld, WorkDir

CurrentInv ==
    /\ \A f \in {"backup", "undo"} : ~work[f].ro
    /\ bpc # "idle" /\ live.db # None => live.db.data \in bseen
    /\ bpc = "database" => work[BFolder].db = None
    /\ bpc = "makecab" /\ work[BFolder].db # None =>
         work[BFolder].db.data \in bseen

LEMMA CurrentScript ==
    ASSUME TypeInv, CurrentInv, "readonly" \notin Faults,
           \/ \E kind \in Kinds : Start(kind)
           \/ BackupStep \/ Return \/ BackupCrash
    PROVE  CurrentInv'
<1>1. BFolder \in {"backup", "undo"}
    BY FolderType DEF TypeInv, BackupTypeOK, BFolder
<1>2. CASE \E kind \in Kinds : Start(kind)
    BY <1>2 DEF CurrentInv, Start, machineVars
<1>3. CASE Export \/ MakecabFails \/ Makecab \/ Keep \/ LinkOpen \/ LinkRestore
    BY <1>3 DEF CurrentInv, Export, MakecabFails, Makecab, Keep, LinkOpen,
                LinkRestore, machineVars
<1>4. CASE Dump
    <2>1. \A f \in {"backup", "undo"} : work'[f].ro = work[f].ro
        BY <1>1, <1>4 DEF Dump, TypeInv, BackupTypeOK, WorkDir
    <2> QED
        BY <1>4, <2>1 DEF CurrentInv, Dump
<1>5. CASE DeleteOld
    <2>1. BFolder' = BFolder
        BY <1>5 DEF DeleteOld, BFolder, FolderOf
    <2> QED
        BY <1>1, <1>5, <2>1, DeleteOldDeletes
           DEF CurrentInv, DeleteOld, machineVars
<1>6. CASE Database
    <2>1. BFolder' = BFolder
        BY <1>6 DEF Database, BFolder, FolderOf
    <2> QED
        BY <1>1, <1>6, <2>1, DatabaseTakes
           DEF CurrentInv, Database, machineVars
<1>7. CASE Cleanup
    <2>1. \A f \in {"backup", "undo"} : ~work'[f].ro
        BY <1>7 DEF Cleanup, EmptyDir, CurrentInv, TypeInv, BackupTypeOK
    <2> QED
        BY <1>7, <2>1 DEF CurrentInv, Cleanup, AfterCleanup, machineVars
<1>8. CASE Return \/ BackupCrash
    BY <1>8 DEF CurrentInv, Return, BackupCrash, Gone
<1> QED
    BY <1>2, <1>3, <1>4, <1>5, <1>6, <1>7, <1>8 DEF BackupStep

LEMMA CurrentNext ==
    ASSUME TypeInv, CurrentInv, "readonly" \notin Faults, [BNext]_bVars
    PROVE  CurrentInv'
<1>1. CASE UserWork
    <2>1. live'.db.data = nextData /\ live'.db # None
        BY <1>1, StoreAssumption
           DEF UserWork, Work, WholeLive, TypeInv, BackupTypeOK, StoreTypeOK,
               Live, DbFile
    <2>2. UNCHANGED <<bpc, bkind, work>>
          /\ (bpc # "idle" => bseen' = bseen \cup {nextData})
        BY <1>1 DEF UserWork
    <2> QED
        BY <2>1, <2>2 DEF CurrentInv, BFolder, FolderOf
<1>2. CASE NewInstallation
    BY <1>2 DEF CurrentInv, NewInstallation, backupVars
<1>3. CASE ServerStopped \/ ServerStarted \/ UNCHANGED bVars
    <2>1. live'.db = live.db /\ UNCHANGED <<bpc, bkind, work, bseen>>
        BY <1>3 DEF ServerStopped, ServerStarted, AdminStop, AdminStart,
                    bVars, machineVars, backupVars, TypeInv, BackupTypeOK,
                    StoreTypeOK, Live
    <2> QED
        BY <2>1 DEF CurrentInv, BFolder, FolderOf
<1> QED
    BY <1>1, <1>2, <1>3, CurrentScript DEF BNext

LEMMA NewOnesCurrent ==
    ASSUME TypeInv, CurrentInv, [BNext]_bVars, NEW c \in cabs' \ cabs
    PROVE  c.body.db.data \in bseen
<1>1. CASE Makecab
    <2>1. PICK new : /\ cabs' = cabs \cup {new}
                     /\ new.body.db = work[BFolder].db
        BY <1>1, MakecabAdds
    <2>2. c.body.db = work[BFolder].db
        BY <2>1
    <2> QED
        BY <1>1, <2>2 DEF Makecab, CurrentInv
<1>2. CASE cabs' \subseteq cabs
    BY <1>2
<1> QED
    BY <1>1, <1>2
       DEF BNext, BackupStep, Start, Export, Dump, DeleteOld, Database,
           MakecabFails, Cleanup, Keep, KeepFiles, FilesIn, LinkOpen,
           LinkRestore, Return, BackupCrash, UserWork, NewInstallation,
           ServerStopped, ServerStarted, bVars, folderVars

\* Where dbbackup.exe leaves no read-only copies, a new cabinet holds a
\* database content that was live during the run that built it, never the copy
\* a crashed or failed run left in cab_build (backupdb.wsf:288-309).
THEOREM CabinetsAreCurrent ==
    ASSUME "readonly" \notin Faults
    PROVE  BSpec => CabinetsCurrent
<1> DEFINE Inv == TypeInv /\ CurrentInv
<1>1. BInit => Inv
    <2>1. BInit => CurrentInv
        BY DEF BInit, BackupInit, CurrentInv, EmptyDir
    <2> QED
        BY <2>1, InitType
<1>2. Inv /\ [BNext]_bVars => Inv'
    BY NextType, CurrentNext
<1>3. Inv /\ [BNext]_bVars =>
        [\A c \in cabs' \ cabs : c.body.db.data \in bseen]_bVars
    BY NewOnesCurrent
<1> QED
    BY <1>1, <1>2, <1>3, PTL DEF BSpec, CabinetsCurrent

-----------------------------------------------------------------------------
(* A run that has finished.  Its cabinet is the last one built, so nothing   *)
(* in the folder is newer, the rotation keeps it, and both shortcuts get its *)
(* date.                                                                     *)

FreshInv ==
    /\ bpc \in Fresh => \E c \in FilesIn(BFolder) : c.date = clock
    /\ bpc \in {"keep", "open", "restore"} => bkind \in Rotating
    /\ bpc = "restore" => link[bkind].open = clock

LatestInv == NoneLater /\ FreshInv /\ FinishedRunIsLatest

LEMMA NewestIsKept ==
    ASSUME TypeInv, NoneLater, Keep, bkind \in Rotating,
           NEW c \in FilesIn(BFolder), c.date = clock
    PROVE  c \in cabs'
<1>1. clock \in Nat /\ \A d \in cabs : d.date \in Nat
    BY DEF TypeInv, BackupTypeOK, StoreTypeOK, Cabinet
<1>2. Newer(c, FilesIn(BFolder)) = {}
    BY <1>1 DEF Newer, NoneLater, FilesIn
<1>3. Cardinality(Newer(c, FilesIn(BFolder))) < EffectiveKeep(bkind)
    BY <1>2, FS_EmptySet, FloorOfTwo
<1> QED
    BY <1>3 DEF Keep, KeepFiles

LEMMA LatestNext ==
    ASSUME TypeInv, LatestInv, {"clock", "noscript"} \cap Faults = {},
           [BNext]_bVars
    PROVE  LatestInv'
<1>1. NoneLater'
    <2>1. CASE Makecab
        <3>1. PICK new : /\ cabs' = cabs \cup {new} /\ new.date = clock + 1
                         /\ clock' = clock + 1
            BY <2>1, MakecabAdds DEF NewDates
        <3> QED
            BY <3>1 DEF LatestInv, NoneLater, TypeInv, BackupTypeOK,
                        StoreTypeOK, Cabinet
    <2>2. CASE cabs' \subseteq cabs /\ UNCHANGED clock
        BY <2>2 DEF LatestInv, NoneLater
    <2> QED
        BY <2>1, <2>2
           DEF BNext, BackupStep, Start, Export, Dump, DeleteOld, Database,
               MakecabFails, Cleanup, Keep, KeepFiles, FilesIn, LinkOpen,
               LinkRestore, Return, BackupCrash, UserWork, NewInstallation,
               ServerStopped, ServerStarted, bVars, folderVars
<1>2. CASE Makecab
    <2>1. PICK new : /\ cabs' = cabs \cup {new} /\ new.date = clock'
                     /\ new.folder = BFolder
        BY <1>2, MakecabAdds
    <2>2. bpc' = "cleanup" /\ BFolder' = BFolder
        BY <1>2 DEF Makecab, BFolder, FolderOf
    <2> QED
        BY <1>1, <2>1, <2>2 DEF LatestInv, FreshInv, FinishedRunIsLatest,
                                FilesIn
<1>3. CASE Cleanup
    <2>1. bpc = "cleanup" /\ UNCHANGED <<cabs, clock, bkind>>
          /\ bpc' = AfterCleanup
        BY <1>3 DEF Cleanup, folderVars
    <2> QED
        BY <1>1, <2>1 DEF LatestInv, FreshInv, FinishedRunIsLatest, Fresh,
                          AfterCleanup, FilesIn, BFolder, FolderOf, TypeInv,
                          BackupTypeOK, Kinds
<1>4. CASE Keep
    <2>1. /\ bpc = "keep" /\ bpc' = "open" /\ UNCHANGED <<link, clock, bkind>>
          /\ bkind \in Rotating /\ BFolder' = BFolder
        BY <1>4 DEF Keep, LatestInv, FreshInv, BFolder, FolderOf
    <2>2. PICK c \in FilesIn(BFolder) : c.date = clock
        BY <2>1 DEF LatestInv, FreshInv, Fresh
    <2>3. c \in cabs' /\ c.folder = BFolder
        BY <1>4, <2>1, <2>2, NewestIsKept DEF LatestInv, FilesIn
    <2> QED
        BY <1>1, <2>1, <2>2, <2>3 DEF LatestInv, FreshInv, FinishedRunIsLatest,
                                      FilesIn
<1>5. CASE LinkOpen
    <2>1. /\ bpc = "open" /\ bpc' = "restore" /\ bkind \in Rotating
          /\ UNCHANGED <<cabs, clock, bkind>> /\ link'[bkind].open = clock
        BY <1>5 DEF LinkOpen, LatestInv, FreshInv, TypeInv, BackupTypeOK,
                    StoreTypeOK, Shortcuts
    <2> QED
        BY <1>1, <2>1 DEF LatestInv, FreshInv, FinishedRunIsLatest, Fresh,
                          FilesIn, BFolder, FolderOf
<1>6. CASE LinkRestore
    <2>1. /\ bpc = "restore" /\ bpc' = "done" /\ bkind \in Rotating
          /\ UNCHANGED <<cabs, clock, bkind>> /\ link'[bkind].restore = clock
          /\ link'[bkind].open = link[bkind].open
        BY <1>6 DEF LinkRestore, LatestInv, FreshInv, TypeInv, BackupTypeOK,
                    StoreTypeOK, Shortcuts
    <2>2. PICK c \in FilesIn(BFolder) : c.date = clock
        BY <2>1 DEF LatestInv, FreshInv, Fresh
    <2>3. Newer(c, FilesIn(BFolder)) = {}
        BY <2>2 DEF Newer, LatestInv, NoneLater, FilesIn, TypeInv,
                    BackupTypeOK, StoreTypeOK, Cabinet
    <2>4. link[bkind].open = clock
        BY <2>1 DEF LatestInv, FreshInv
    <2>5. FinishedRunIsLatest'
        BY <2>1, <2>2, <2>3, <2>4
           DEF FinishedRunIsLatest, FilesIn, BFolder, FolderOf, Newer
    <2> QED
        BY <1>1, <2>1, <2>5 DEF LatestInv, FreshInv, Fresh
<1>7. CASE MakecabFails
    BY <1>1, <1>7 DEF MakecabFails, LatestInv, FreshInv, FinishedRunIsLatest,
                      Fresh
<1>8. CASE UNCHANGED <<folderVars, bpc, bkind, bres>>
    BY <1>1, <1>8 DEF LatestInv, FreshInv, FinishedRunIsLatest, FilesIn,
                      BFolder, FolderOf, Newer, folderVars
<1>9. CASE bpc' \in {"idle", "export", "dump", "delete", "database", "makecab"}
    BY <1>1, <1>9 DEF LatestInv, FreshInv, FinishedRunIsLatest, Fresh
<1> QED
    BY <1>2, <1>3, <1>4, <1>5, <1>6, <1>7, <1>8, <1>9
       DEF BNext, BackupStep, Start, Export, Dump, DeleteOld, Database, Return,
           Gone, BackupCrash, UserWork, NewInstallation, ServerStopped,
           ServerStarted, bVars, backupVars

\* When a run that maintains shortcuts has ended without an error, both lead
\* to the cabinet it built and nothing in the folder is newer, whatever
\* earlier runs crashed or failed half way and whoever else puts cabinets
\* there (restoredb.wsf:170-173).
THEOREM FinishedRunsAreLatest ==
    ASSUME {"clock", "noscript"} \cap Faults = {}
    PROVE  BSpec => []FinishedRunIsLatest
<1> DEFINE Inv == TypeInv /\ LatestInv
<1>1. BInit => Inv
    <2>1. BInit => LatestInv
        BY DEF BInit, StoreInit, BackupInit, LatestInv, NoneLater, FreshInv,
               Fresh, FinishedRunIsLatest
    <2> QED
        BY <2>1, InitType
<1>2. Inv /\ [BNext]_bVars => Inv'
    BY NextType, LatestNext
<1>3. Inv => FinishedRunIsLatest
    BY DEF LatestInv
<1> QED
    BY <1>1, <1>2, <1>3, PTL DEF BSpec
=============================================================================
