-------------------------- MODULE GssRestoreProofs --------------------------
(***************************************************************************)
(* Proofs about GssRestore: the restore script and the backups it works    *)
(* with, for any number of installations, cabinets and runs.  Every        *)
(* theorem names the faults it does without; what it does not name may     *)
(* happen.                                                                 *)
(***************************************************************************)
EXTENDS GssRestore, GssBackupProofs

-----------------------------------------------------------------------------
(* Types, and what the restore script knows at each of its steps.            *)

\* The undo backup runs exactly while the restore waits for it, and no other
\* backup runs beside a restore.
OneAtATime ==
    /\ bpc # "idle" => rpc \in {"idle", "undoing"}
    /\ rpc = "undoing" => bpc # "idle" /\ bkind = "undo"

\* A restore has chosen something; it extracts only from cabinets.
Chosen ==
    /\ rpc # "idle" => rsel # None /\ before # None
    /\ rpc = "idle" => rsel = None /\ before = None
    /\ rpc # "idle" /\ rsel.deep => "tree" \in Faults
    /\ rpc \in ExtractSteps => ~rsel.dir
    /\ rundo # None => rpc \notin {"idle", "undo", "undoing"}

RestoreTypeInv == TypeInv /\ RestoreTypeOK /\ OneAtATime /\ Chosen

LEMMA BackupsType ==
    ASSUME RestoreTypeInv, Backups
    PROVE  RestoreTypeInv'
<1>1. BNext /\ UNCHANGED restoreVars
    BY DEF Backups, BNext
<1>2. TypeInv'
    BY <1>1, NextType DEF RestoreTypeInv
<1>3. RestoreTypeOK' /\ Chosen'
    BY <1>1, <1>2 DEF RestoreTypeInv, RestoreTypeOK, Chosen, TypeInv,
                      restoreVars
<1>4. OneAtATime'
    <2>1. CASE rpc = "idle"
        BY <1>1, <2>1 DEF OneAtATime, restoreVars
    <2>2. CASE rpc # "idle" /\ BackupStep
        <3>1. rpc = "undoing" /\ bkind = "undo"
            BY <2>2 DEF RestoreTypeInv, OneAtATime, BackupStep, Export, Dump,
                        DeleteOld, Database, Makecab, MakecabFails, Cleanup,
                        Keep, LinkOpen, LinkRestore
        <3> QED
            BY <1>1, <2>2, <3>1
               DEF OneAtATime, BackupStep, Export, Dump, DeleteOld, Database,
                   Makecab, MakecabFails, Cleanup, AfterCleanup, Keep,
                   LinkOpen, LinkRestore, restoreVars
    <2>3. CASE rpc \notin {"idle", "undoing"} /\ (Return \/ BackupCrash)
        BY <1>1, <2>3 DEF OneAtATime, restoreVars, Return, BackupCrash, Gone
    <2> QED
        BY <2>1, <2>2, <2>3 DEF Backups
<1> QED
    BY <1>2, <1>3, <1>4 DEF RestoreTypeInv

LEMMA SurroundingsType ==
    ASSUME RestoreTypeInv, Surroundings
    PROVE  RestoreTypeInv'
<1>1. BNext /\ UNCHANGED <<rpc, rsel, rundo, extract, before, bpc, bkind>>
    BY DEF Surroundings, BNext, UserWork, NewInstallation, ServerStopped,
           ServerStarted, backupVars
<1>2. TypeInv'
    BY <1>1, NextType DEF RestoreTypeInv
<1>3. served' \subseteq DbFile
    <2>1. CASE UserWork /\ served' = served \cup {live'.db}
        <3>1. live'.db \in DbFile
            BY <2>1 DEF UserWork, Work, WholeLive, RestoreTypeInv, TypeInv,
                        BackupTypeOK, StoreTypeOK, Live, DbFile
        <3> QED
            BY <2>1, <3>1 DEF RestoreTypeInv, RestoreTypeOK
    <2>2. CASE NewInstallation /\ served' = served \cup {live'.db}
        <3>1. live'.db \in DbFile
            BY <2>2 DEF NewInstallation, Reinstall, RestoreTypeInv, TypeInv,
                        BackupTypeOK, StoreTypeOK, DbFile
        <3> QED
            BY <2>2, <3>1 DEF RestoreTypeInv, RestoreTypeOK
    <2>3. CASE UNCHANGED served
        BY <2>3 DEF RestoreTypeInv, RestoreTypeOK
    <2> QED
        BY <2>1, <2>2, <2>3 DEF Surroundings
<1>4. RestoreTypeOK'
    BY <1>1, <1>2, <1>3 DEF RestoreTypeInv, RestoreTypeOK, TypeInv
<1>5. OneAtATime' /\ Chosen'
    BY <1>1 DEF RestoreTypeInv, OneAtATime, Chosen
<1> QED
    BY <1>2, <1>4, <1>5 DEF RestoreTypeInv

LEMMA SelectType ==
    ASSUME RestoreTypeInv, Select
    PROVE  RestoreTypeInv'
<1>1. PICK c \in cabs, dir \in BOOLEAN, deep \in BOOLEAN :
        /\ deep => dir /\ "tree" \in Faults
        /\ rsel' = [dir |-> dir, cab |-> c, deep |-> deep,
                    newest |-> Newer(c, FilesIn(c.folder)) = {}]
    BY DEF Select
<1>2. rsel' \in Source
    BY <1>1 DEF RestoreTypeInv, TypeInv, BackupTypeOK, StoreTypeOK, Source
<1>3. /\ rpc = "idle" /\ rpc' = "undo"
      /\ UNCHANGED <<bVars, rundo, extract, served>>
    BY DEF Select
<1>4. TypeInv'
    BY <1>3, NextType DEF RestoreTypeInv
<1>8. before' \in FoundThen
    <2>1. PICK b \in BOOLEAN :
            before' = [live |-> live, next |-> nextData, clean |-> b]
        BY DEF Select
    <2> QED
        BY <2>1 DEF FoundThen, RestoreTypeInv, TypeInv, BackupTypeOK,
                    StoreTypeOK
<1>5. RestoreTypeOK'
    BY <1>2, <1>3, <1>4, <1>8
       DEF RestoreTypeInv, RestoreTypeOK, TypeInv, BackupTypeOK, StoreTypeOK,
           BeforeStop
<1>6. OneAtATime'
    BY <1>3 DEF OneAtATime, Select, bVars, backupVars
<1>7. Chosen'
    BY <1>1, <1>2, <1>3, <1>8, RestoreAssumption
       DEF Chosen, RestoreTypeInv, TypeInv, BackupTypeOK, StoreTypeOK,
           ExtractSteps
<1> QED
    BY <1>4, <1>5, <1>6, <1>7 DEF RestoreTypeInv

LEMMA AfterUndoStep ==
    /\ AfterUndo \in {"stop", "reg"}
    /\ AfterUndo = "reg" => ~rsel.dir
BY DEF AfterUndo

LEMMA UndoType ==
    ASSUME RestoreTypeInv, RunUndo \/ UndoReturned \/ NoUndoScript
    PROVE  RestoreTypeInv'
<1>1. TypeInv'
    <2>1. RunUndo => BNext
        BY DEF RunUndo, BNext, Kinds, Rotating
    <2>2. UndoReturned => BNext
        BY DEF UndoReturned, BNext, Return
    <2>3. NoUndoScript => UNCHANGED bVars
        BY DEF NoUndoScript
    <2> QED
        BY <2>1, <2>2, <2>3, NextType DEF RestoreTypeInv
<1>2. /\ UNCHANGED <<rsel, extract, before, served>>
      /\ rpc' \in {"undoing", "stop", "reg", "failed"}
      /\ rpc' = "reg" => ~rsel.dir
      /\ rpc \in {"undo", "undoing"}
    BY AfterUndoStep DEF RunUndo, UndoReturned, NoUndoScript, scriptVars
<1>3. rundo' \in Nat \cup {None} /\ (rpc' = "undoing" => rundo' = None)
    BY DEF RunUndo, UndoReturned, NoUndoScript, scriptVars, RestoreTypeInv,
           RestoreTypeOK, TypeInv, BackupTypeOK, StoreTypeOK, Chosen, AfterUndo
<1>4. RestoreTypeOK' /\ Chosen'
    BY <1>1, <1>2, <1>3
       DEF RestoreTypeInv, RestoreTypeOK, TypeInv, Chosen, BeforeStop, Ended,
           ExtractSteps
<1>5. OneAtATime'
    BY AfterUndoStep
       DEF OneAtATime, RestoreTypeInv, RunUndo, UndoReturned, NoUndoScript,
           Start, Gone, bVars, backupVars
<1> QED
    BY <1>1, <1>4, <1>5 DEF RestoreTypeInv

LEMMA ExtractType ==
    ASSUME RestoreTypeInv, NEW f \in ExtractSteps,
           ExtractFile(f) \/ ExtractLeftover(f) \/ ExtractFails(f)
    PROVE  RestoreTypeInv'
<1>1. UNCHANGED <<bVars, rsel, rundo, before, served>> /\ rpc = f
    BY DEF ExtractFile, ExtractLeftover, ExtractFails, scriptVars
<1>2. TypeInv'
    BY <1>1, NextType DEF RestoreTypeInv
<1>3. rpc' \in {"pub", "priv", "db", "stop", "failed"}
    BY DEF ExtractFile, ExtractLeftover, ExtractFails, AfterExtract,
           ExtractSteps
<1>4. rsel \in Source
    BY <1>1 DEF RestoreTypeInv, RestoreTypeOK, Chosen, ExtractSteps
<1>5. extract' \in Extracted
    <2>1. CASE ExtractFile(f)
        <3>1. CASE f = "reg"
            BY <1>4, <2>1, <3>1
               DEF ExtractFile, RestoreTypeInv, RestoreTypeOK, Extracted,
                   Source, Cabinet, Body
        <3>2. CASE f = "pub"
            BY <1>4, <2>1, <3>2
               DEF ExtractFile, RestoreTypeInv, RestoreTypeOK, Extracted,
                   Source, Cabinet, Body
        <3>3. CASE f = "priv"
            BY <1>4, <2>1, <3>3
               DEF ExtractFile, RestoreTypeInv, RestoreTypeOK, Extracted,
                   Source, Cabinet, Body
        <3>4. CASE f = "db"
            BY <1>4, <2>1, <3>4
               DEF ExtractFile, RestoreTypeInv, RestoreTypeOK, Extracted,
                   Source, Cabinet, Body
        <3> QED
            BY <3>1, <3>2, <3>3, <3>4 DEF ExtractSteps
    <2>2. CASE UNCHANGED extract
        BY <2>2 DEF RestoreTypeInv, RestoreTypeOK
    <2> QED
        BY <2>1, <2>2 DEF ExtractLeftover, ExtractFails, scriptVars
<1>6. RestoreTypeOK'
    BY <1>1, <1>2, <1>3, <1>5
       DEF RestoreTypeInv, RestoreTypeOK, TypeInv, BeforeStop, Ended,
           ExtractSteps
<1>7. OneAtATime' /\ Chosen'
    BY <1>1, <1>3 DEF RestoreTypeInv, OneAtATime, Chosen, ExtractSteps, bVars,
                      backupVars
<1> QED
    BY <1>2, <1>6, <1>7 DEF RestoreTypeInv

\* What the restore script has at hand to put in place is a file or nothing.
LEMMA FilesType ==
    ASSUME RestoreTypeInv, rpc # "idle"
    PROVE  Files \in Extracted
<1>1. rsel \in Source /\ extract \in Extracted
    BY DEF RestoreTypeInv, RestoreTypeOK, Chosen
<1>2. rsel.cab.body \in Extracted
    BY <1>1 DEF Source, Cabinet, Body, Extracted
<1>3. [rsel.cab.body EXCEPT !.db = None] \in Extracted
    BY <1>2 DEF Extracted
<1> QED
    BY <1>1, <1>2, <1>3 DEF Files

LEMMA TakenType ==
    ASSUME extract \in Extracted, NEW f \in ExtractSteps
    PROVE  Taken(f) \in Extracted
BY DEF Taken, Extracted, ExtractSteps

\* The steps from the stop to the restart, as far as the types go.
LEMMA SwapType ==
    ASSUME RestoreTypeInv,
           \/ Stop \/ Import \/ ClearReg \/ ClearPub \/ MovePub
           \/ ClearPriv \/ MovePriv \/ Wait \/ ClearDb \/ MoveDb
           \/ FileFails \/ RemoveExtract \/ Restart
    PROVE  RestoreTypeInv'
<1>1. /\ UNCHANGED <<nextData, folderVars, backupVars, rsel, rundo, before,
                 served>>
      /\ rpc \in AfterStop \cup {"stop"}
      /\ rpc' \in AfterStop \cup {"broken", "done"}
    BY DEF Stop, Import, ClearReg, ClearPub, MovePub, ClearPriv, MovePriv,
           Wait, ClearDb, MoveDb, FileFails, RemoveExtract, Restart,
           scriptVars, bVars, machineVars, AfterStop, FileSteps
<1>2. Files \in Extracted /\ extract \in Extracted /\ live \in Live
    BY <1>1, FilesType
       DEF RestoreTypeInv, RestoreTypeOK, TypeInv, BackupTypeOK, StoreTypeOK,
           AfterStop, FileSteps
<1>3. extract' \in Extracted
    <2>1. NothingExtracted \in Extracted
        BY DEF NothingExtracted, Extracted
    <2> QED
        BY <1>2, <2>1, TakenType
           DEF Stop, Import, ClearReg, ClearPub, MovePub, ClearPriv, MovePriv,
               Wait, ClearDb, MoveDb, FileFails, RemoveExtract, Restart,
               scriptVars, ExtractSteps
<1>4. live' \in Live
    <2>1. StartedCreds \in Keys
        BY <1>2 DEF StartedCreds, RestoreTypeInv, TypeInv, BackupTypeOK,
                    StoreTypeOK, Live
    <2>2. CASE UNCHANGED live
        BY <1>2, <2>2
    <2>3. CASE Restart
        BY <1>2, <2>1, <2>3 DEF Restart, Live
    <2>4. CASE ClearPub \/ MovePub
        BY <1>2, <2>4 DEF ClearPub, MovePub, Live, Extracted
    <2>5. CASE ClearPriv \/ MovePriv
        BY <1>2, <2>5 DEF ClearPriv, MovePriv, Live, Extracted
    <2>6. CASE ClearDb \/ MoveDb
        BY <1>2, <2>6 DEF ClearDb, MoveDb, Live, Extracted
    <2> QED
        BY <2>2, <2>3, <2>4, <2>5, <2>6
           DEF Stop, Import, ClearReg, Wait, FileFails, RemoveExtract, bVars,
               machineVars
<1>5. registry' \in Keys \cup {None}
    BY <1>2 DEF Stop, Import, ClearReg, ClearPub, MovePub, ClearPriv,
                MovePriv, Wait, ClearDb, MoveDb, FileFails, RemoveExtract,
                Restart, bVars, machineVars, RestoreTypeInv, TypeInv,
                BackupTypeOK, StoreTypeOK, Extracted
<1>6. server' \in {"up", "stopping", "down"} /\ installed' \in BOOLEAN
    <2>1. server' \in {"up", "stopping", "down"}
        BY DEF Stop, Import, ClearReg, ClearPub, MovePub, ClearPriv, MovePriv,
               Wait, ClearDb, MoveDb, FileFails, RemoveExtract, Restart, bVars,
               machineVars, RestoreTypeInv, TypeInv, BackupTypeOK, StoreTypeOK
    <2>2. installed' \in BOOLEAN
        <3>1. CASE Stop
            BY Zenon, <3>1 DEF Stop
        <3>2. CASE Restart
            BY <3>2 DEF Restart
        <3>3. CASE UNCHANGED installed
            BY <3>3 DEF RestoreTypeInv, TypeInv, BackupTypeOK, StoreTypeOK
        <3> QED
            BY <3>1, <3>2, <3>3
               DEF Import, ClearReg, ClearPub, MovePub, ClearPriv, MovePriv,
                   Wait, ClearDb, MoveDb, FileFails, RemoveExtract, bVars,
                   machineVars
    <2> QED
        BY <2>1, <2>2
<1>7. TypeInv'
    BY <1>1, <1>4, <1>5, <1>6
       DEF RestoreTypeInv, TypeInv, BackupTypeOK, StoreTypeOK, Dumped,
           folderVars, backupVars, BFolder, FolderOf
<1>8. RestoreTypeOK'
    BY <1>1, <1>3, <1>7 DEF RestoreTypeInv, RestoreTypeOK, TypeInv, Ended
<1>9. OneAtATime' /\ Chosen'
    BY <1>1 DEF RestoreTypeInv, OneAtATime, Chosen, ExtractSteps, AfterStop,
                FileSteps, backupVars
<1> QED
    BY <1>7, <1>8, <1>9 DEF RestoreTypeInv

LEMMA RestoreEndType ==
    ASSUME RestoreTypeInv, RestoreReturn \/ RestoreCrash \/ DbservExits
    PROVE  RestoreTypeInv'
<1>1. CASE RestoreReturn
    <2>1. TypeInv'
        BY <1>1, NextType DEF RestoreTypeInv, RestoreReturn
    <2> QED
        BY <1>1, <2>1
           DEF RestoreReturn, RestoreGone, Ended, RestoreTypeInv,
               RestoreTypeOK, TypeInv, OneAtATime, Chosen, ExtractSteps,
               bVars, backupVars
<1>2. CASE RestoreCrash
    <2>1. TypeInv'
        BY <1>2 DEF RestoreCrash, Gone, RestoreTypeInv, TypeInv, BackupTypeOK,
                    StoreTypeOK, Dumped, folderVars, Kinds, Rotating
    <2> QED
        BY <1>2, <2>1
           DEF RestoreCrash, RestoreGone, Gone, RestoreTypeInv, RestoreTypeOK,
               TypeInv, OneAtATime, Chosen, ExtractSteps
<1>3. CASE DbservExits
    BY <1>3 DEF DbservExits, RestoreTypeInv, RestoreTypeOK, TypeInv,
                BackupTypeOK, StoreTypeOK, Dumped, OneAtATime, Chosen,
                folderVars, backupVars, restoreVars, BFolder, FolderOf
<1> QED
    BY <1>1, <1>2, <1>3

LEMMA RestoreInitType == Init => RestoreTypeInv
<1> SUFFICES ASSUME Init PROVE RestoreTypeInv
    OBVIOUS
<1>1. TypeInv
    BY InitType DEF Init
<1>2. extract \in Extracted
    BY DEF Init, RestoreInit, NothingExtracted, Extracted
<1>3. served \subseteq DbFile
    BY DEF Init, BInit, StoreInit, RestoreInit, DbFile
<1>4. bpc = "idle"
    BY DEF Init, BInit, BackupInit
<1> QED
    BY <1>1, <1>2, <1>3, <1>4
       DEF Init, RestoreInit, RestoreTypeInv, RestoreTypeOK, TypeInv,
           OneAtATime, Chosen, ExtractSteps

LEMMA RestoreNextType == RestoreTypeInv /\ [Next]_rVars => RestoreTypeInv'
<1> SUFFICES ASSUME RestoreTypeInv, [Next]_rVars PROVE RestoreTypeInv'
    OBVIOUS
<1>1. CASE UNCHANGED rVars
    <2>1. TypeInv'
        BY <1>1, NextType DEF RestoreTypeInv, rVars
    <2> QED
        BY <1>1, <2>1 DEF rVars, restoreVars, bVars, backupVars,
                          RestoreTypeInv, RestoreTypeOK, TypeInv, OneAtATime,
                          Chosen
<1>2. CASE Next
    BY <1>2, BackupsType, SurroundingsType, SelectType, UndoType, ExtractType,
       SwapType, RestoreEndType
       DEF Next, RestoreStep
<1> QED
    BY <1>1, <1>2

\* Every variable of the restore script and of what it works on keeps its
\* type, whatever fails: in particular the undo backup and the restore never
\* run at the same time (restoredb.wsf:80-310, 759-789).
THEOREM RestoreTypes == Spec => []RestoreTypeOK
<1>1. Spec => []RestoreTypeInv
    BY RestoreInitType, RestoreNextType, PTL DEF Spec
<1> QED
    BY <1>1, PTL DEF RestoreTypeInv

-----------------------------------------------------------------------------
(* What goes on beside a restore.                                            *)

\* While the restore script works on the server no backup does anything.
LEMMA NoBackupBeside ==
    ASSUME RestoreTypeInv, Backups
    PROVE  rpc \in {"idle", "undoing"}
BY DEF Backups, RestoreTypeInv, OneAtATime, BackupStep, Export, Dump,
       DeleteOld, Database, Makecab, MakecabFails, Cleanup, Keep, LinkOpen,
       LinkRestore, Return, BackupCrash

LEMMA BackupsLeave ==
    ASSUME Backups
    PROVE  /\ UNCHANGED <<live, installed, nextData, restoreVars>>
           /\ server' \in {server, "down"}
BY DEF Backups, Start, BackupStep, Export, Dump, DeleteOld, Database, Makecab,
       MakecabFails, Cleanup, Keep, LinkOpen, LinkRestore, Return, BackupCrash,
       machineVars

\* Users may still work, which gives the database another content; the server
\* may be stopped and, when that is among the faults, started.
LEMMA SurroundingsLeave ==
    ASSUME Surroundings, rpc # "idle"
    PROVE  /\ UNCHANGED <<folderVars, bpc, bkind, bres, work, rpc, rsel, rundo,
                          extract, before>>
           /\ \/ /\ UNCHANGED <<registry, live>>
                 /\ server' \in {server, "down"}
              \/ server = "up" /\ UserWork /\ UNCHANGED <<registry, server>>
              \/ "start" \in Faults /\ ServerStarted
BY DEF Surroundings, UserWork, Work, ServerStopped, AdminStop, ServerStarted,
       backupVars

\* Starting the server uses up what was left for it in the registry.
LEMMA StartLeaves ==
    ASSUME RestoreTypeInv, ServerStarted
    PROVE  /\ server = "down" /\ live.db # None /\ UNCHANGED nextData
           /\ live' = [live EXCEPT !.creds = StartedCreds]
           /\ live'.creds = StartedCreds
           /\ live'.pub = live.pub /\ live'.priv = live.priv
           /\ live'.db = live.db
           /\ registry' = None
BY DEF ServerStarted, AdminStart, RestoreTypeInv, TypeInv, BackupTypeOK,
       StoreTypeOK, Live

LEMMA WorkLeaves ==
    ASSUME RestoreTypeInv, UserWork
    PROVE  /\ live'.creds = live.creds
           /\ live'.pub = live.pub /\ live'.priv = live.priv
           /\ live.db # None /\ live'.db # None /\ live'.db.key = live.db.key
           /\ live'.db.data = nextData
BY StoreAssumption
   DEF UserWork, Work, WholeLive, RestoreTypeInv, TypeInv, BackupTypeOK,
       StoreTypeOK, Live, DbFile

\* The steps that only the restore script takes leave the cabinets alone.
LEMMA RestoreLeavesCabs ==
    ASSUME Next, ~Backups
    PROVE  UNCHANGED cabs
BY DEF Next, Surroundings, UserWork, NewInstallation, ServerStopped,
       ServerStarted, Select, RestoreStep, RunUndo, Start, UndoReturned,
       NoUndoScript, ExtractFile, ExtractLeftover, ExtractFails, Stop, Import,
       ClearReg, ClearPub, MovePub, ClearPriv, MovePriv, Wait, ClearDb, MoveDb,
       FileFails, RemoveExtract, Restart, RestoreReturn, RestoreCrash,
       DbservExits, bVars, folderVars

-----------------------------------------------------------------------------
(* A restore that gives up.  It gives up before it stops the server, when    *)
(* the state is still the one it found: the undo backup and the extraction   *)
(* leave the server alone, and a server that is started meanwhile reads      *)
(* from the registry at most what was exported of it.                        *)

AsBefore ==
    /\ live.creds = before.live.creds
    /\ live.pub = before.live.pub /\ live.priv = before.live.priv
    /\ before.live.db # None =>
         live.db # None /\ live.db.key = before.live.db.key

HarmlessInv ==
    rpc \in BeforeStop \cup {"failed"}
      /\ ("start" \in Faults => before.clean) =>
        /\ AsBefore
        /\ before.clean => registry \in {None, live.creds}

LEMMA BackupsExport ==
    ASSUME Backups
    PROVE  registry' \in {None, registry, live.creds}
BY DEF Backups, Start, BackupStep, Export, Dump, DeleteOld, Database, Makecab,
       MakecabFails, Cleanup, Keep, LinkOpen, LinkRestore, Return, BackupCrash,
       machineVars

LEMMA HarmlessNext ==
    ASSUME RestoreTypeInv, HarmlessInv, [Next]_rVars
    PROVE  HarmlessInv'
<1> USE DEF HarmlessInv, BeforeStop, ExtractSteps
<1>1. CASE UNCHANGED <<live, before, rpc>>
           /\ registry' \in {None, registry, live.creds}
    BY <1>1 DEF AsBefore
<1>2. CASE Backups \/ UNCHANGED rVars
    BY <1>1, <1>2, BackupsLeave, BackupsExport
       DEF restoreVars, rVars, bVars, machineVars
<1>3. CASE Surroundings
    <2>1. CASE rpc = "idle"
        BY <1>3, <2>1 DEF Surroundings
    <2>2. CASE rpc # "idle" /\ UserWork /\ UNCHANGED registry
        BY <1>3, <2>2, SurroundingsLeave, WorkLeaves DEF AsBefore
    <2>3. CASE rpc # "idle" /\ UNCHANGED <<registry, live>>
        BY <1>1, <1>3, <2>3, SurroundingsLeave
    <2>4. CASE rpc # "idle" /\ "start" \in Faults /\ ServerStarted
        BY <1>3, <2>4, SurroundingsLeave, StartLeaves
           DEF AsBefore, StartedCreds
    <2> QED
        BY <1>3, <2>1, <2>2, <2>3, <2>4, SurroundingsLeave
<1>4. CASE Select
    <2>1. /\ before'.live = live /\ UNCHANGED <<live, registry>>
          /\ before'.clean => registry = None
        BY <1>4 DEF Select, bVars, machineVars
    <2> QED
        BY <2>1 DEF AsBefore
<1>5. CASE RunUndo \/ UndoReturned \/ NoUndoScript
    BY <1>5 DEF RunUndo, Start, UndoReturned, NoUndoScript, AsBefore,
                scriptVars, bVars, machineVars
<1>6. ASSUME NEW f \in ExtractSteps,
             ExtractFile(f) \/ ExtractLeftover(f) \/ ExtractFails(f)
      PROVE  HarmlessInv'
    BY <1>6 DEF ExtractFile, ExtractLeftover, ExtractFails, AsBefore,
                scriptVars, bVars, machineVars
<1>7. CASE Stop \/ Import \/ ClearReg \/ ClearPub \/ MovePub \/ ClearPriv
           \/ MovePriv \/ Wait \/ ClearDb \/ MoveDb \/ FileFails
           \/ RemoveExtract \/ Restart
    BY <1>7 DEF Stop, Import, ClearReg, ClearPub, MovePub, ClearPriv, MovePriv,
                Wait, ClearDb, MoveDb, FileFails, RemoveExtract, Restart
<1>8. CASE RestoreReturn \/ RestoreCrash
    BY <1>8 DEF RestoreReturn, RestoreCrash, RestoreGone
<1>9. CASE DbservExits
    BY <1>1, <1>9 DEF DbservExits, restoreVars
<1> QED
    BY <1>2, <1>3, <1>4, <1>5, <1>6, <1>7, <1>8, <1>9 DEF Next, RestoreStep

LEMMA HarmlessInit == Init => HarmlessInv
BY DEF Init, RestoreInit, HarmlessInv, BeforeStop, ExtractSteps

\* A restore that gives up leaves the installed server as it found it,
\* whichever of the four files could not be extracted, and also after crashes,
\* restores that broke off and undo backups that failed; who starts the server
\* in between must find no credentials an earlier run left in the registry
\* (restoredb.wsf:217-258, 361-364).
THEOREM FailedRestoresAreHarmless == Spec => []FailedRestoreHarmless
<1> DEFINE Inv == RestoreTypeInv /\ HarmlessInv
<1>1. Init => Inv
    BY RestoreInitType, HarmlessInit
<1>2. Inv /\ [Next]_rVars => Inv'
    BY RestoreNextType, HarmlessNext
<1>3. Inv => FailedRestoreHarmless
    BY DEF HarmlessInv, AsBefore, FailedRestoreHarmless
<1> QED
    BY <1>1, <1>2, <1>3, PTL DEF Spec

-----------------------------------------------------------------------------
(* The database.  A restore that extracts has a database in the extract      *)
(* directory from the moment it stops the server until it has put it in      *)
(* place, and removes the directory only afterwards.                         *)

\* The steps of the restore script at which its database file must be there.
NeedsDb == (AfterStop \cup {"stop"}) \ {"rmdir", "restart"}

DatabaseInv ==
    /\ rpc \in NeedsDb => rsel.dir \/ extract.db # None
    /\ rpc = "rmdir" => live.db # None

LEMMA DatabaseSurroundings ==
    ASSUME RestoreTypeInv, Surroundings
    PROVE  /\ UNCHANGED <<rpc, rsel, extract>>
           /\ live.db # None => live'.db # None
<1>1. CASE UserWork
    BY <1>1, WorkLeaves DEF Surroundings
<1>2. CASE NewInstallation
    BY <1>2, StoreAssumption
       DEF Surroundings, NewInstallation, Reinstall, RestoreTypeInv, TypeInv,
           BackupTypeOK, StoreTypeOK, DbFile
<1>3. CASE ServerStopped
    BY <1>3 DEF Surroundings, ServerStopped, AdminStop
<1>4. CASE ServerStarted
    BY <1>4, StartLeaves DEF Surroundings
<1> QED
    BY <1>1, <1>2, <1>3, <1>4 DEF Surroundings

LEMMA DatabaseNext ==
    ASSUME RestoreTypeInv, DatabaseInv, [Next]_rVars
    PROVE  DatabaseInv'
<1> USE DEF DatabaseInv, NeedsDb, AfterStop, FileSteps
<1>1. CASE /\ UNCHANGED <<rpc, rsel, extract>>
           /\ live.db # None => live'.db # None
    BY <1>1
<1>2. CASE Backups \/ DbservExits \/ UNCHANGED rVars
    BY <1>1, <1>2, BackupsLeave DEF DbservExits, rVars, restoreVars, bVars,
                                    machineVars
<1>3. CASE Surroundings
    BY <1>1, <1>3, DatabaseSurroundings
<1>4. CASE Select \/ RestoreReturn \/ RestoreCrash
    BY <1>4 DEF Select, RestoreReturn, RestoreCrash, RestoreGone
<1>5. CASE RunUndo \/ UndoReturned \/ NoUndoScript
    BY <1>5 DEF RunUndo, UndoReturned, NoUndoScript, AfterUndo, scriptVars
<1>6. ASSUME NEW f \in ExtractSteps,
             ExtractFile(f) \/ ExtractLeftover(f) \/ ExtractFails(f)
      PROVE  DatabaseInv'
    <2> SUFFICES ASSUME rpc' = "stop" PROVE extract'.db # None
        BY <1>6 DEF ExtractFile, ExtractLeftover, ExtractFails, AfterExtract,
                    ExtractSteps
    <2>1. f = "db" /\ rpc = "db" /\ UNCHANGED rsel
        BY <1>6 DEF ExtractFile, ExtractLeftover, ExtractFails, AfterExtract,
                    ExtractSteps, scriptVars
    <2>2. rsel \in Source /\ extract \in Extracted
        BY <2>1 DEF RestoreTypeInv, RestoreTypeOK, Chosen, ExtractSteps
    <2> QED
        BY <1>6, <2>1, <2>2, StoreAssumption
           DEF ExtractFile, ExtractLeftover, ExtractFails, Source, Cabinet,
               Body, Extracted, scriptVars
<1>7. CASE Stop \/ Import \/ ClearPub \/ ClearPriv \/ Wait \/ ClearDb
    BY <1>7 DEF Stop, Import, ClearPub, ClearPriv, Wait, ClearDb, scriptVars
<1>8. CASE ClearReg \/ MovePub \/ MovePriv
    BY <1>8 DEF ClearReg, MovePub, MovePriv, Taken, RestoreTypeInv,
                RestoreTypeOK, Extracted
<1>9. CASE MoveDb
    BY <1>9 DEF MoveDb, RestoreTypeInv, TypeInv, BackupTypeOK, StoreTypeOK,
                Live
<1>10. CASE FileFails \/ RemoveExtract \/ Restart
    BY <1>10 DEF FileFails, RemoveExtract, Restart
<1> QED
    BY <1>2, <1>3, <1>4, <1>5, <1>6, <1>7, <1>8, <1>9, <1>10
       DEF Next, RestoreStep

\* Which steps take a database away, and what there is then.
LEMMA DatabaseStep ==
    ASSUME RestoreTypeInv, DatabaseInv, [Next]_rVars
    PROVE  /\ live.db # None /\ live'.db = None => rsel.dir \/ extract.db # None
           /\ extract.db # None /\ extract'.db = None => live'.db # None
<1>1. live \in Live /\ extract \in Extracted
    BY DEF RestoreTypeInv, RestoreTypeOK, TypeInv, BackupTypeOK, StoreTypeOK
<1>2. CASE (live.db # None => live'.db # None) /\ UNCHANGED extract
    BY <1>2
<1>3. CASE Backups \/ UNCHANGED rVars
    BY <1>2, <1>3, BackupsLeave DEF rVars, restoreVars, bVars, machineVars
<1>4. CASE Surroundings
    BY <1>2, <1>4, DatabaseSurroundings
<1>5. CASE Select \/ RestoreReturn \/ RestoreCrash \/ DbservExits
    BY <1>2, <1>5 DEF Select, RestoreReturn, RestoreCrash, DbservExits,
                      restoreVars, bVars, machineVars
<1>6. CASE RunUndo \/ UndoReturned \/ NoUndoScript \/ Stop \/ Import \/ Wait
           \/ FileFails
    BY <1>2, <1>6 DEF RunUndo, Start, UndoReturned, NoUndoScript, Stop, Import,
                      Wait, FileFails, scriptVars, bVars, machineVars
<1>7. ASSUME NEW f \in ExtractSteps,
             ExtractFile(f) \/ ExtractLeftover(f) \/ ExtractFails(f)
      PROVE  /\ UNCHANGED live
             /\ extract.db # None => extract'.db # None
    <2>1. rsel \in Source /\ rsel.cab.body.db # None
        BY <1>7, StoreAssumption
           DEF ExtractFile, ExtractLeftover, ExtractFails, RestoreTypeInv,
               RestoreTypeOK, Chosen, ExtractSteps, Source, Cabinet, Body
    <2> QED
        BY <1>1, <1>7, <2>1
           DEF ExtractFile, ExtractLeftover, ExtractFails, ExtractSteps,
               Extracted, scriptVars, bVars, machineVars
<1>8. CASE ClearReg \/ ClearPub \/ MovePub \/ ClearPriv \/ MovePriv
    <2>1. live'.db = live.db
        BY <1>1, <1>8 DEF ClearReg, ClearPub, MovePub, ClearPriv, MovePriv,
                          Live, bVars, machineVars
    <2>2. extract'.db = extract.db
        BY <1>1, <1>8 DEF ClearReg, ClearPub, MovePub, ClearPriv, MovePriv,
                          Taken, Extracted, scriptVars
    <2> QED
        BY <2>1, <2>2
<1>9. CASE ClearDb
    BY <1>9 DEF ClearDb, DatabaseInv, NeedsDb, AfterStop, FileSteps, scriptVars
<1>10. CASE MoveDb
    BY <1>1, <1>10 DEF MoveDb, Live
<1>11. CASE RemoveExtract
    BY <1>11 DEF RemoveExtract, DatabaseInv, bVars, machineVars
<1>12. CASE Restart
    BY <1>1, <1>2, <1>12 DEF Restart, scriptVars, Live
<1> QED
    BY <1>3, <1>4, <1>5, <1>6, <1>7, <1>8, <1>9, <1>10, <1>11, <1>12
       DEF Next, RestoreStep

\* Whatever fails or crashes, before or after the stop, and whoever starts the
\* server meanwhile: the database in place is deleted only when another has
\* been extracted, or is expected in a directory the operator unpacked, and
\* the extracted one goes only into its place (restoredb.wsf:290-299, 620-632).
THEOREM NoDatabaseIsLost == Spec => NoDatabaseLost
<1> DEFINE Inv == RestoreTypeInv /\ DatabaseInv
<1>1. Init => Inv
    <2>1. Init => DatabaseInv
        BY DEF Init, RestoreInit, DatabaseInv, NeedsDb, AfterStop, FileSteps
    <2> QED
        BY <2>1, RestoreInitType
<1>2. Inv /\ [Next]_rVars => Inv'
    BY RestoreNextType, DatabaseNext
<1>3. Inv /\ [Next]_rVars =>
        [/\ live.db # None /\ live'.db = None => rsel.dir \/ extract.db # None
         /\ extract.db # None /\ extract'.db = None => live'.db # None]_rVars
    BY DatabaseStep
<1> QED
    BY <1>1, <1>2, <1>3, PTL DEF Spec, NoDatabaseLost

-----------------------------------------------------------------------------
(* The chosen cabinet and the rotation of the undo backup.  If it was the    *)
(* newest of its folder, the undo backup adds one newer at most, and then    *)
(* the rotation, which keeps two at least, keeps it.                         *)

BeforeNew == {"export", "dump", "delete", "database", "makecab"}

NewerThanChosen == Newer(rsel.cab, FilesIn(rsel.cab.folder))

NewestInv ==
    rpc \in {"undo", "undoing"} \cup ExtractSteps /\ rsel.newest =>
        /\ rsel.cab \in cabs
        /\ \A d, e \in NewerThanChosen : d = e
        /\ rpc = "undo" \/ bpc \in BeforeNew => NewerThanChosen = {}

LEMMA NewestBackups ==
    ASSUME RestoreTypeInv, Rotates, IsFiniteSet(cabs), NewestInv, Backups
    PROVE  NewestInv'
<1> SUFFICES ASSUME rpc' \in {"undo", "undoing"} \cup ExtractSteps,
                    rsel'.newest
             PROVE  /\ rsel.cab \in cabs'
                    /\ \A d, e \in NewerThanChosen' : d = e
                    /\ rpc = "undo" \/ bpc' \in BeforeNew
                         => NewerThanChosen' = {}
    BY BackupsLeave DEF NewestInv, restoreVars
<1>1. UNCHANGED <<rpc, rsel>> /\ rpc = "undoing" /\ BackupStep
    BY BackupsLeave, NoBackupBeside
       DEF restoreVars, Backups, ExtractSteps
<1>2. /\ rsel.cab \in cabs
      /\ \A d, e \in NewerThanChosen : d = e
      /\ bpc \in BeforeNew => NewerThanChosen = {}
    BY <1>1 DEF NewestInv
<1>3. CASE Export \/ Dump \/ DeleteOld \/ Database
    BY <1>1, <1>2, <1>3
       DEF Export, Dump, DeleteOld, Database, folderVars, BeforeNew,
           NewerThanChosen, FilesIn, Newer
<1>4. CASE Makecab
    <2>1. NewerThanChosen = {} /\ bpc' = "cleanup"
        BY <1>2, <1>4 DEF Makecab, BeforeNew
    <2>2. PICK new : cabs' = cabs \cup {new}
        BY <1>4 DEF Makecab
    <2>3. NewerThanChosen' \subseteq {new}
        BY <1>1, <2>1, <2>2 DEF NewerThanChosen, FilesIn, Newer
    <2> QED
        BY <1>1, <1>2, <2>1, <2>2, <2>3 DEF BeforeNew
<1>5. CASE Keep
    <2>1. IsFiniteSet(NewerThanChosen) /\ Cardinality(NewerThanChosen) \in 0..1
        BY <1>2, AtMostOne
    <2>2. rsel.cab \in cabs'
        <3>1. [BNext]_bVars
            BY <1>5 DEF BNext, BackupStep
        <3> QED
            BY <1>2, <2>1, <3>1, TwoStay DEF NewerThanChosen
    <2>3. cabs' \subseteq cabs /\ bpc' = "open"
        BY <1>5 DEF Keep, KeepFiles, FilesIn
    <2>4. NewerThanChosen' \subseteq NewerThanChosen
        BY <1>1, <2>3 DEF NewerThanChosen, FilesIn, Newer
    <2> QED
        BY <1>1, <1>2, <2>2, <2>3, <2>4 DEF BeforeNew
<1>6. CASE MakecabFails \/ Cleanup \/ LinkOpen \/ LinkRestore
    BY <1>1, <1>2, <1>6
       DEF MakecabFails, Cleanup, AfterCleanup, LinkOpen, LinkRestore,
           folderVars, BeforeNew, NewerThanChosen, FilesIn, Newer
<1> QED
    BY <1>1, <1>3, <1>4, <1>5, <1>6 DEF BackupStep

LEMMA NewestNext ==
    ASSUME RestoreTypeInv, Rotates, IsFiniteSet(cabs), NewestInv,
           [Next]_rVars
    PROVE  NewestInv'
<1>1. CASE UNCHANGED <<cabs, rpc, rsel, bpc>>
    BY <1>1 DEF NewestInv, NewerThanChosen, FilesIn, Newer
<1>2. CASE UNCHANGED rVars \/ DbservExits
    BY <1>1, <1>2 DEF rVars, DbservExits, restoreVars, bVars, folderVars,
                      backupVars
<1>3. CASE Surroundings
    BY <1>1, <1>3
       DEF Surroundings, UserWork, NewInstallation, ServerStopped,
           ServerStarted, folderVars, backupVars
<1>4. CASE Select
    <2>1. PICK c \in cabs, dir \in BOOLEAN, deep \in BOOLEAN :
            rsel' = [dir |-> dir, cab |-> c, deep |-> deep,
                     newest |-> Newer(c, FilesIn(c.folder)) = {}]
        BY <1>4 DEF Select
    <2>2. UNCHANGED cabs
        BY <1>4 DEF Select, bVars, folderVars
    <2>3. rsel'.newest => NewerThanChosen' = {}
        BY <2>1, <2>2 DEF NewerThanChosen, FilesIn, Newer
    <2> QED
        BY <2>1, <2>2, <2>3 DEF NewestInv
<1>5. CASE RunUndo
    BY <1>5 DEF RunUndo, Start, scriptVars, folderVars, NewestInv,
                NewerThanChosen, FilesIn, Newer
<1>6. CASE UndoReturned
    <2>1. rpc' \in {"reg", "stop", "failed"} /\ rpc = "undoing"
          /\ bpc' = "idle" /\ UNCHANGED <<cabs, rsel>>
        BY <1>6, AfterUndoStep DEF UndoReturned, Gone, folderVars
    <2> QED
        BY <2>1 DEF NewestInv, NewerThanChosen, FilesIn, Newer, BeforeNew,
                    ExtractSteps
<1>7. CASE NoUndoScript
    <2>1. rpc' \in {"reg", "stop", "failed"} /\ rpc = "undo"
          /\ UNCHANGED <<bpc, cabs, rsel>>
        BY <1>7, AfterUndoStep DEF NoUndoScript, scriptVars, bVars,
                                   folderVars, backupVars
    <2> QED
        BY <2>1 DEF NewestInv, NewerThanChosen, FilesIn, Newer, ExtractSteps
<1>8. ASSUME NEW f \in ExtractSteps,
             ExtractFile(f) \/ ExtractLeftover(f) \/ ExtractFails(f)
      PROVE  NewestInv'
    <2>1. /\ rpc \in ExtractSteps /\ rpc' # "undo"
          /\ UNCHANGED <<bpc, cabs, rsel>>
        BY <1>8 DEF ExtractFile, ExtractLeftover, ExtractFails, AfterExtract,
                    ExtractSteps, scriptVars, bVars, folderVars, backupVars
    <2> QED
        BY <2>1 DEF NewestInv, NewerThanChosen, FilesIn, Newer
<1>9. CASE \/ Stop \/ Import \/ ClearReg \/ ClearPub \/ MovePub
           \/ ClearPriv \/ MovePriv \/ Wait \/ ClearDb \/ MoveDb
           \/ FileFails \/ RemoveExtract \/ Restart \/ RestoreReturn
           \/ RestoreCrash
    BY <1>9 DEF Stop, Import, ClearReg, ClearPub, MovePub, ClearPriv,
                MovePriv, Wait, ClearDb, MoveDb, FileFails, RemoveExtract,
                Restart, RestoreReturn, RestoreCrash, RestoreGone, NewestInv,
                ExtractSteps
<1> QED
    BY <1>2, <1>3, <1>4, <1>5, <1>6, <1>7, <1>8, <1>9, NewestBackups
       DEF Next, RestoreStep

LEMMA RestoreFiniteNext ==
    ASSUME RestoreTypeInv, Rotates, IsFiniteSet(cabs), [Next]_rVars
    PROVE  Rotates' /\ IsFiniteSet(cabs')
<1>1. CASE [BNext]_bVars
    BY <1>1, CabsFiniteNext, RotatesNext DEF RestoreTypeInv
<1>2. CASE ~Backups /\ Next
    <2>1. UNCHANGED cabs
        BY <1>2, RestoreLeavesCabs
    <2>2. bpc' = "keep" => UNCHANGED <<bpc, bkind>>
        BY <1>2
           DEF Next, Surroundings, UserWork, NewInstallation, ServerStopped,
               ServerStarted, Select, RestoreStep, RunUndo, Start,
               UndoReturned, NoUndoScript, ExtractFile, ExtractLeftover,
               ExtractFails, Stop, Import, ClearReg, ClearPub, MovePub,
               ClearPriv, MovePriv, Wait, ClearDb, MoveDb, FileFails,
               RemoveExtract, Restart, RestoreReturn, RestoreCrash, Gone,
               DbservExits, bVars, backupVars
    <2> QED
        BY <2>1, <2>2 DEF Rotates
<1> QED
    BY <1>1, <1>2 DEF Backups, BNext, rVars

\* The cabinet the "Latest" shortcuts lead to is never rotated away by the undo
\* backup that precedes its own restore, whatever keep counts are configured,
\* whether or not the folders are shared and whatever fails or crashes
\* (backupdb.wsf:141-145, restoredb.wsf:170-173, 215).
THEOREM NewestSelectedAlwaysSurvives == Spec => []NewestSelectedSurvives
<1> DEFINE Inv == RestoreTypeInv /\ Rotates /\ IsFiniteSet(cabs) /\ NewestInv
<1>1. Init => Inv
    BY RestoreInitType, FS_EmptySet
       DEF Init, BInit, StoreInit, BackupInit, RestoreInit, Rotates, NewestInv,
           ExtractSteps
<1>2. Inv /\ [Next]_rVars => Inv'
    BY RestoreNextType, RestoreFiniteNext, NewestNext
<1>3. Inv => NewestSelectedSurvives
    BY DEF NewestInv, NewestSelectedSurvives
<1> QED
    BY <1>1, <1>2, <1>3, PTL DEF Spec

-----------------------------------------------------------------------------
(* What a finished restore has put in place.  Each file is the chosen one    *)
(* from its extraction until it is taken: what expand.exe could pass off for *)
(* it is not there when the extract directory was clean, because a run       *)
(* extracts each file once.  What is in place afterwards stays so until the  *)
(* server starts; when somebody else starts it, the credentials go from the  *)
(* registry into the server and the database may be worked with.             *)

HoldsReg == {"stop", "import"}
HoldsPub == HoldsReg \cup {"clearreg", "clearpub", "movepub"}
HoldsPriv == HoldsPub \cup {"clearpriv", "movepriv"}
HoldsDb == HoldsPriv \cup {"wait", "cleardb", "movedb"}
NotYetReg == {"undo", "undoing", "reg"}
NotYetPub == NotYetReg \cup {"pub"}
NotYetPriv == NotYetPub \cup {"priv"}
NotYetDb == NotYetPriv \cup {"db"}

\* Nothing of an earlier restore passes for what this one extracts.
Sound == "expand" \in Faults => rsel.dir \/ before.clean

Untouched ==
    rpc # "idle" /\ before.clean =>
        /\ rpc \in NotYetReg => extract.reg = None
        /\ rpc \in NotYetPub => extract.pub = None
        /\ rpc \in NotYetPriv => extract.priv = None
        /\ rpc \in NotYetDb => extract.db = None

Extraction ==
    rpc # "idle" /\ ~rsel.dir /\ Sound =>
        /\ rpc \in HoldsReg \cup {"pub", "priv", "db"} =>
             extract.reg = rsel.cab.body.reg
        /\ rpc \in HoldsPub \cup {"priv", "db"} =>
             extract.pub = rsel.cab.body.pub
        /\ rpc \in HoldsPriv \cup {"db"} => extract.priv = rsel.cab.body.priv
        /\ rpc \in HoldsDb => extract.db = rsel.cab.body.db

\* The database put in place, or what console users have made of it.
DbDelivered ==
    /\ live.db # None /\ live.db.key = rsel.cab.body.db.key
    /\ \/ live.db = rsel.cab.body.db
       \/ "start" \in Faults /\ live.db.data >= before.next

Placed ==
    rpc # "idle" /\ Sound =>
        /\ rpc \in AfterStop \ HoldsReg /\ rsel.cab.body.reg # Header =>
             StartedCreds = rsel.cab.body.reg
        /\ rpc \in AfterStop \ HoldsPub => live.pub = rsel.cab.body.pub
        /\ rpc \in AfterStop \ HoldsPriv => live.priv = rsel.cab.body.priv
        /\ rpc \in AfterStop \ HoldsDb => DbDelivered

\* Unless somebody starts it, the server stays down once the wait is over.
StaysDown ==
    /\ "start" \notin Faults
         /\ rpc \in {"cleardb", "movedb", "rmdir", "restart"} =>
           server = "down"
    /\ rpc # "idle" => before.next <= nextData

DeliveryInv == Untouched /\ Extraction /\ Placed /\ StaysDown

LEMMA ExtractionNext ==
    ASSUME RestoreTypeInv, Untouched, Extraction, [Next]_rVars
    PROVE  Untouched' /\ Extraction'
<1> USE DEF Extraction, HoldsReg, HoldsPub, HoldsPriv, HoldsDb, Untouched,
            NotYetReg, NotYetPub, NotYetPriv, NotYetDb, Sound
<1>1. CASE UNCHANGED <<rpc, rsel, extract, before>>
    BY <1>1
<1>2. CASE Backups \/ Surroundings \/ DbservExits \/ UNCHANGED rVars
    BY <1>1, <1>2 DEF Backups, Surroundings, DbservExits, rVars, restoreVars
<1>3. CASE Select
    <2>1. /\ rpc' = "undo" /\ UNCHANGED extract
          /\ before'.clean => extract = NothingExtracted
        BY <1>3 DEF Select
    <2> QED
        BY <2>1 DEF NothingExtracted
<1>4. CASE RestoreReturn \/ RestoreCrash
    BY <1>4 DEF RestoreReturn, RestoreCrash, RestoreGone
<1>5. CASE RunUndo \/ UndoReturned \/ NoUndoScript
    <2>1. /\ rpc \in {"undo", "undoing"}
          /\ rpc' \in {"undoing", "failed", IF rsel.dir THEN "stop" ELSE "reg"}
          /\ UNCHANGED <<rsel, extract, before>>
        BY <1>5 DEF RunUndo, UndoReturned, NoUndoScript, AfterUndo, scriptVars
    <2> QED
        BY <2>1
<1>6. ASSUME NEW f \in ExtractSteps,
             ExtractFile(f) \/ ExtractLeftover(f) \/ ExtractFails(f)
      PROVE  Untouched' /\ Extraction'
    <2>1. /\ rsel \in Source /\ extract \in Extracted
          /\ UNCHANGED <<rsel, before>> /\ ~rsel.dir /\ rpc = f
        BY <1>6 DEF ExtractFile, ExtractLeftover, ExtractFails, scriptVars,
                    RestoreTypeInv, RestoreTypeOK, Chosen, ExtractSteps
    <2>2. CASE ExtractFile(f)
        <3>1. /\ rpc = f /\ rpc' = AfterExtract[f]
              /\ extract' = [extract EXCEPT ![f] = rsel.cab.body[f]]
            BY <2>2 DEF ExtractFile
        <3>2. CASE f = "reg"
            BY <2>1, <3>1, <3>2 DEF AfterExtract, Extracted
        <3>3. CASE f = "pub"
            BY <2>1, <3>1, <3>3 DEF AfterExtract, Extracted
        <3>4. CASE f = "priv"
            BY <2>1, <3>1, <3>4 DEF AfterExtract, Extracted
        <3>5. CASE f = "db"
            BY <2>1, <3>1, <3>5 DEF AfterExtract, Extracted
        <3> QED
            BY <3>2, <3>3, <3>4, <3>5 DEF ExtractSteps
    <2>3. CASE ExtractFails(f)
        BY <2>3 DEF ExtractFails, scriptVars
    <2>4. CASE ExtractLeftover(f)
        <3>1. "expand" \in Faults /\ ~before.clean
            BY <2>1, <2>4 DEF ExtractLeftover, ExtractSteps
        <3> QED
            BY <2>1, <3>1
    <2> QED
        BY <1>6, <2>2, <2>3, <2>4
<1>7. CASE Stop \/ Import \/ ClearPub \/ ClearPriv \/ Wait \/ ClearDb
           \/ FileFails \/ RemoveExtract \/ Restart \/ MoveDb
    BY <1>7 DEF Stop, Import, ClearPub, ClearPriv, Wait, ClearDb, FileFails,
                FileSteps, RemoveExtract, Restart, MoveDb, scriptVars
<1>8. CASE ClearReg \/ MovePub \/ MovePriv
    <2>1. UNCHANGED <<rsel, before>> /\ extract \in Extracted
        BY <1>8 DEF ClearReg, MovePub, MovePriv, RestoreTypeInv, RestoreTypeOK
    <2> QED
        BY <1>8, <2>1 DEF ClearReg, MovePub, MovePriv, Taken, Extracted
<1> QED
    BY <1>2, <1>3, <1>4, <1>5, <1>6, <1>7, <1>8 DEF Next, RestoreStep

\* What is at hand when it is needed is what was chosen.
LEMMA FilesChosen ==
    ASSUME RestoreTypeInv, Extraction
    PROVE  rpc # "idle" /\ Sound =>
           /\ rpc = "import" => Files.reg = rsel.cab.body.reg
           /\ rpc = "movepub" => Files.pub = rsel.cab.body.pub
           /\ rpc = "movepriv" => Files.priv = rsel.cab.body.priv
           /\ rpc = "movedb" /\ Files.db # None => Files.db = rsel.cab.body.db
<1> SUFFICES ASSUME rpc # "idle", Sound
             PROVE  /\ rpc = "import" => Files.reg = rsel.cab.body.reg
                    /\ rpc = "movepub" => Files.pub = rsel.cab.body.pub
                    /\ rpc = "movepriv" => Files.priv = rsel.cab.body.priv
                    /\ rpc = "movedb" /\ Files.db # None =>
                         Files.db = rsel.cab.body.db
    OBVIOUS
<1>1. rsel \in Source
    BY DEF RestoreTypeInv, RestoreTypeOK, Chosen
<1>2. CASE ~rsel.dir
    BY <1>2 DEF Files, Extraction, HoldsReg, HoldsPub, HoldsPriv, HoldsDb
<1>3. CASE rsel.dir
    BY <1>1, <1>3 DEF Files, Source, Cabinet, Body
<1> QED
    BY <1>2, <1>3

LEMMA PlacedSurroundings ==
    ASSUME RestoreTypeInv, Placed, StaysDown, Surroundings
    PROVE  Placed' /\ StaysDown'
<1> USE DEF Placed, Sound
<1>1. CASE rpc = "idle"
    BY <1>1 DEF Surroundings, StaysDown
<1>2. CASE rpc # "idle"
    <2>1. UNCHANGED <<rpc, rsel, before>>
        BY <1>2, SurroundingsLeave
    <2>2. live \in Live /\ nextData \in Nat /\ before.next \in Nat
          /\ before.next <= nextData
        BY <1>2 DEF RestoreTypeInv, RestoreTypeOK, Chosen, FoundThen, TypeInv,
                    BackupTypeOK, StoreTypeOK, StaysDown
    <2>3. CASE UNCHANGED <<registry, live>> /\ server' \in {server, "down"}
        <3>1. nextData' \in {nextData, nextData + 1}
            BY <1>2, <2>2 DEF Surroundings, UserWork, Work, ServerStopped,
                              AdminStop, ServerStarted, AdminStart
        <3> QED
            BY <2>1, <2>2, <2>3, <3>1 DEF StartedCreds, DbDelivered, StaysDown
    <2>4. CASE server = "up" /\ UserWork /\ UNCHANGED <<registry, server>>
        <3>1. nextData' = nextData + 1
            BY <2>4 DEF UserWork, Work
        <3>2. /\ live'.creds = live.creds /\ live'.pub = live.pub
              /\ live'.priv = live.priv /\ live'.db # None
              /\ live'.db.key = live.db.key /\ live'.db.data = nextData
            BY <2>4, WorkLeaves
        <3>3. StaysDown' /\ StartedCreds' = StartedCreds
            BY <2>1, <2>2, <2>4, <3>1, <3>2 DEF StaysDown, StartedCreds
        <3>4. rpc \in AfterStop \ HoldsDb => "start" \in Faults
            BY <2>4 DEF StaysDown, AfterStop, FileSteps, HoldsDb, HoldsPriv,
                        HoldsPub, HoldsReg
        <3>5. rpc \in AfterStop \ HoldsDb /\ Sound => DbDelivered'
            BY <1>2, <2>1, <2>2, <3>2, <3>4 DEF DbDelivered
        <3> QED
            BY <2>1, <3>2, <3>3, <3>5
    <2>5. CASE "start" \in Faults /\ ServerStarted
        <3>1. /\ UNCHANGED nextData /\ live'.creds = StartedCreds
              /\ live'.pub = live.pub /\ live'.priv = live.priv
              /\ live'.db = live.db /\ registry' = None
            BY <2>5, StartLeaves
        <3>2. StartedCreds' = StartedCreds
            BY <3>1 DEF StartedCreds
        <3> QED
            BY <2>1, <2>5, <3>1, <3>2 DEF StaysDown, DbDelivered
    <2> QED
        BY <1>2, <2>3, <2>4, <2>5, SurroundingsLeave
<1> QED
    BY <1>1, <1>2

LEMMA PlacedNext ==
    ASSUME RestoreTypeInv, Extraction, Placed, StaysDown, [Next]_rVars
    PROVE  Placed' /\ StaysDown'
<1> USE DEF Placed, StaysDown, Sound, AfterStop, FileSteps, HoldsReg,
            HoldsPub, HoldsPriv, HoldsDb
<1>1. live \in Live /\ nextData \in Nat
      /\ (rpc # "idle" => before.next \in Nat)
    BY DEF RestoreTypeInv, RestoreTypeOK, Chosen, FoundThen, TypeInv,
           BackupTypeOK, StoreTypeOK
<1>2. CASE UNCHANGED <<rpc, rsel, before, live, registry, nextData>>
           /\ server' \in {server, "down"}
    BY <1>2 DEF StartedCreds, DbDelivered
<1>3. CASE UNCHANGED rVars
    BY <1>2, <1>3 DEF rVars, restoreVars, bVars, machineVars
<1>4. CASE Backups
    <2>1. rpc \in {"idle", "undoing"}
          /\ UNCHANGED <<rpc, rsel, before, live, nextData>>
          /\ server' \in {server, "down"}
        BY <1>4, NoBackupBeside, BackupsLeave DEF restoreVars
    <2> QED
        BY <2>1
<1>5. CASE Surroundings
    BY <1>5, PlacedSurroundings
<1>6. CASE Select
    <2>1. rpc' = "undo" /\ before'.next = nextData /\ UNCHANGED nextData
        BY <1>6 DEF Select, bVars, machineVars
    <2> QED
        BY <1>1, <2>1
<1>7. CASE RestoreReturn \/ RestoreCrash
    BY <1>7 DEF RestoreReturn, RestoreCrash, RestoreGone
<1>8. CASE DbservExits
    BY <1>2, <1>8 DEF DbservExits, restoreVars
<1>9. CASE RunUndo \/ UndoReturned \/ NoUndoScript
    <2>1. /\ rpc' \in {"undoing", "stop", "reg", "failed"} /\ rpc # "idle"
          /\ UNCHANGED <<rsel, before, nextData>>
        BY <1>9, AfterUndoStep
           DEF RunUndo, Start, UndoReturned, NoUndoScript, scriptVars, bVars,
               machineVars
    <2> QED
        BY <2>1
<1>10. ASSUME NEW f \in ExtractSteps,
              ExtractFile(f) \/ ExtractLeftover(f) \/ ExtractFails(f)
       PROVE  Placed' /\ StaysDown'
    <2>1. /\ rpc' \in {"pub", "priv", "db", "stop", "failed"} /\ rpc # "idle"
          /\ UNCHANGED <<rsel, before, nextData>>
        BY <1>10 DEF ExtractFile, ExtractLeftover, ExtractFails, AfterExtract,
                     ExtractSteps, scriptVars, bVars, machineVars
    <2> QED
        BY <2>1
<1>11. CASE Stop \/ Restart \/ FileFails
    BY <1>11 DEF Stop, Restart, FileFails, scriptVars, bVars, machineVars
<1>12. CASE Import
    <2>1. /\ rpc = "import" /\ rpc' = "clearreg"
          /\ UNCHANGED <<rsel, before, nextData>>
          /\ Files.reg # Header => registry' = Files.reg
        BY <1>12 DEF Import, scriptVars
    <2>2. rsel.cab.body.reg # None
        BY <2>1, StoreAssumption DEF RestoreTypeInv, RestoreTypeOK, Chosen,
                                     Source, Cabinet, Body
    <2> QED
        BY <2>1, <2>2, FilesChosen DEF StartedCreds
<1>13. CASE ClearReg \/ ClearPub \/ MovePub
    <2>1. StartedCreds' = StartedCreds
        BY <1>1, <1>13 DEF ClearReg, ClearPub, MovePub, StartedCreds, Live,
                           bVars, machineVars
    <2> QED
        BY <1>1, <1>13, <2>1, FilesChosen
           DEF ClearReg, ClearPub, MovePub, scriptVars, bVars, machineVars,
               Live
<1>14. CASE ClearPriv \/ MovePriv
    <2>1. StartedCreds' = StartedCreds
        BY <1>1, <1>14 DEF ClearPriv, MovePriv, StartedCreds, Live
    <2> QED
        BY <1>1, <1>14, <2>1, FilesChosen
           DEF ClearPriv, MovePriv, scriptVars, Live
<1>15. CASE ClearDb \/ MoveDb
    <2>1. StartedCreds' = StartedCreds
        BY <1>1, <1>15 DEF ClearDb, MoveDb, StartedCreds, Live
    <2> QED
        BY <1>1, <1>15, <2>1, FilesChosen
           DEF ClearDb, MoveDb, scriptVars, Live, DbDelivered
<1>16. CASE Wait \/ RemoveExtract
    BY <1>16 DEF Wait, RemoveExtract, scriptVars, bVars, machineVars,
                 StartedCreds, DbDelivered
<1> QED
    BY <1>3, <1>4, <1>5, <1>6, <1>7, <1>8, <1>9, <1>10, <1>11, <1>12, <1>13,
       <1>14, <1>15, <1>16
       DEF Next, RestoreStep

LEMMA DeliveryInit == Init => DeliveryInv
BY DEF Init, RestoreInit, DeliveryInv, Untouched, Extraction, Placed, StaysDown

LEMMA DeliveryNext ==
    ASSUME RestoreTypeInv, DeliveryInv, [Next]_rVars
    PROVE  DeliveryInv'
BY ExtractionNext, PlacedNext DEF DeliveryInv

\* Starting the server over what was put in place gives the chosen state.
LEMMA RestartDelivers ==
    ASSUME RestoreTypeInv, Placed, Restart, Whole(rsel.cab.body), Sound
    PROVE  /\ WholeLive'
           /\ \/ live'.db = rsel.cab.body.db
              \/ "start" \in Faults /\ live'.db.data >= before.next
<1>1. rsel.cab.body \in Body /\ live \in Live
    BY DEF Restart, RestoreTypeInv, RestoreTypeOK, Chosen, Source, Cabinet,
           TypeInv, BackupTypeOK, StoreTypeOK
<1>2. rsel.cab.body.reg \in Keys
    BY <1>1, StoreAssumption DEF Body, Whole
<1>3. /\ StartedCreds = rsel.cab.body.reg
      /\ live.pub = rsel.cab.body.pub /\ live.priv = rsel.cab.body.priv
      /\ DbDelivered
    BY <1>2, StoreAssumption
       DEF Placed, Restart, AfterStop, FileSteps, HoldsReg, HoldsPub,
           HoldsPriv, HoldsDb
<1>4. /\ live'.creds = rsel.cab.body.reg /\ live'.pub = live.pub
      /\ live'.priv = live.priv /\ live'.db = live.db
    BY <1>1, <1>3 DEF Restart, Live
<1> QED
    BY <1>3, <1>4 DEF Whole, WholeLive, DbDelivered

LEMMA OnlyRestartEnds ==
    ASSUME [Next]_rVars, rpc # "done", rpc' = "done"
    PROVE  Restart
BY AfterUndoStep
   DEF Next, Backups, Surroundings, Select, RestoreStep, RunUndo, UndoReturned,
       NoUndoScript, ExtractFile, ExtractLeftover, ExtractFails, ExtractSteps,
       AfterExtract, Stop, Import, ClearReg, ClearPub, MovePub, ClearPriv,
       MovePriv, Wait, ClearDb, MoveDb, FileFails, RemoveExtract,
       RestoreReturn, RestoreCrash, RestoreGone, DbservExits, restoreVars,
       rVars

\* A restore that reports success has put in place the state the chosen
\* cabinet or directory holds, all of it, whatever earlier restores that
\* crashed or broke off have left half done, although users may work, the
\* server may not stop and others may start it; where expand.exe may report
\* success for what it did not do, the extract directory must have been clean
\* (restoredb.wsf:223-225, 227-310).
THEOREM RestoresDeliver == Spec => RestoreDelivers
<1> DEFINE Inv == RestoreTypeInv /\ DeliveryInv
<1>1. Init => Inv
    BY RestoreInitType, DeliveryInit
<1>2. Inv /\ [Next]_rVars => Inv'
    BY RestoreNextType, DeliveryNext
<1>3. Inv /\ [Next]_rVars =>
        [rpc # "done" /\ rpc' = "done" /\ Whole(rsel.cab.body)
           /\ ("expand" \in Faults => rsel.dir \/ before.clean) =>
             /\ WholeLive'
             /\ \/ live'.db = rsel.cab.body.db
                \/ "start" \in Faults /\ live'.db.data >= before.next]_rVars
    BY OnlyRestartEnds, RestartDelivers DEF DeliveryInv, Sound
<1> QED
    BY <1>1, <1>2, <1>3, PTL DEF Spec, RestoreDelivers

-----------------------------------------------------------------------------
(* One whole state at a time.  Outside the swap the installed server, every  *)
(* cabinet and the chosen one are each of one piece; the swap starts from a  *)
(* whole cabinet and ends with it in place.                                  *)

\* What would mix two states: a crash or an error within the swap, an unpacked
\* backup whose database is not found, a server that is started in the middle,
\* a file left by an earlier restore that passes for an extracted one, and what
\* makes a cabinet mixed in the first place.
NothingMixes ==
    {"crash", "file", "tree", "start", "expand", "readonly", "restart"}
      \cap Faults = {}

OneWhole ==
    /\ rpc \notin AfterStop => WholeInv
    /\ CabinetsWhole
    /\ \A f \in {"backup", "undo"} : ~work[f].ro
    /\ rpc # "idle" => Whole(rsel.cab.body)

SwapInv == DeliveryInv /\ DatabaseInv

\* Then the replacement of the files does not fail either.
LEMMA NoFileFails ==
    ASSUME RestoreTypeInv, SwapInv, NothingMixes
    PROVE  ~FileFails
<1> SUFFICES ASSUME FileFails PROVE FALSE
    OBVIOUS
<1>1. CASE rpc = "movedb" /\ Files.db = None
    <2>1. rsel \in Source /\ ~rsel.deep
        BY <1>1 DEF RestoreTypeInv, RestoreTypeOK, Chosen, NothingMixes
    <2> QED
        BY <1>1, <2>1, StoreAssumption
           DEF Files, SwapInv, DatabaseInv, NeedsDb, AfterStop, FileSteps,
               Source, Cabinet, Body
<1> QED
    BY <1>1 DEF FileFails, NothingMixes, SwapInv, DeliveryInv, StaysDown

LEMMA OneWholeNext ==
    ASSUME RestoreTypeInv, SwapInv, OneWhole, NothingMixes, [Next]_rVars
    PROVE  OneWhole'
<1>1. TypeInv /\ ~MayLeaveOldCopies
    BY DEF RestoreTypeInv, NothingMixes, MayLeaveOldCopies
<1>2. ASSUME [BNext]_bVars, rpc \notin AfterStop
      PROVE  WholeInv' /\ CabinetsWhole'
             /\ \A f \in {"backup", "undo"} : ~work'[f].ro
    BY <1>1, <1>2, WholeNext DEF OneWhole, WholeInv
<1>3. CASE UNCHANGED rVars
    BY <1>3 DEF rVars, restoreVars, bVars, machineVars, folderVars, backupVars,
                OneWhole, WholeInv, WholeLive, CabinetsWhole, BFolder, FolderOf
<1>4. CASE Backups
    <2>1. [BNext]_bVars /\ UNCHANGED restoreVars
        BY <1>4 DEF Backups, BNext
    <2>2. rpc \notin AfterStop
        BY <1>4, NoBackupBeside DEF AfterStop, FileSteps
    <2> QED
        BY <1>2, <2>1, <2>2 DEF OneWhole, restoreVars
<1>5. CASE Surroundings
    <2>1. [BNext]_bVars /\ UNCHANGED <<rpc, rsel>>
        BY <1>5 DEF Surroundings, BNext
    <2>2. CASE rpc \notin AfterStop
        BY <1>2, <2>1, <2>2 DEF OneWhole
    <2>3. CASE rpc \in AfterStop
        <3>1. UNCHANGED <<cabs, work>>
            BY <1>5, <2>3, SurroundingsLeave DEF AfterStop, FileSteps,
                                                 folderVars
        <3> QED
            BY <2>1, <2>3, <3>1 DEF OneWhole, CabinetsWhole
    <2> QED
        BY <2>2, <2>3
<1>6. CASE Select
    <2>1. rsel'.cab \in cabs /\ UNCHANGED bVars /\ rpc = "idle"
        BY <1>6 DEF Select
    <2>2. Whole(rsel'.cab.body)
        BY <2>1 DEF OneWhole, CabinetsWhole
    <2> QED
        BY <1>2, <2>1, <2>2 DEF OneWhole, AfterStop, FileSteps
<1>7. CASE RunUndo \/ UndoReturned \/ NoUndoScript
    <2>1. [BNext]_bVars
        BY <1>7 DEF RunUndo, UndoReturned, NoUndoScript, Return, BNext, Kinds,
                    Rotating
    <2>2. rpc \in {"undo", "undoing"} /\ UNCHANGED rsel
        BY <1>7 DEF RunUndo, UndoReturned, NoUndoScript, scriptVars
    <2> QED
        BY <1>2, <2>1, <2>2 DEF OneWhole, AfterStop, FileSteps
<1>8. ASSUME NEW f \in ExtractSteps,
             ExtractFile(f) \/ ExtractLeftover(f) \/ ExtractFails(f)
      PROVE  OneWhole'
    <2>1. rpc \in ExtractSteps /\ UNCHANGED <<bVars, rsel>>
        BY <1>8 DEF ExtractFile, ExtractLeftover, ExtractFails, scriptVars
    <2> QED
        BY <1>2, <2>1 DEF OneWhole, AfterStop, FileSteps, ExtractSteps
<1>9. CASE Stop \/ Import \/ ClearReg \/ ClearPub \/ MovePub
           \/ ClearPriv \/ MovePriv \/ Wait \/ ClearDb \/ MoveDb
           \/ RemoveExtract
    <2>1. /\ rpc # "idle" /\ rpc' \in AfterStop
          /\ UNCHANGED <<cabs, work, rsel>>
        BY <1>9 DEF Stop, Import, ClearReg, ClearPub, MovePub, ClearPriv,
                    MovePriv, Wait, ClearDb, MoveDb, RemoveExtract, AfterStop,
                    FileSteps, scriptVars, bVars, folderVars, backupVars
    <2> QED
        BY <2>1 DEF OneWhole, CabinetsWhole
<1>10. CASE FileFails
    BY <1>10, NoFileFails
<1>11. CASE Restart
    <2>1. rpc = "restart" /\ Whole(rsel.cab.body)
        BY <1>11 DEF Restart, OneWhole
    <2>2. WholeLive'
        BY <1>11, <2>1, RestartDelivers
           DEF SwapInv, DeliveryInv, Sound, NothingMixes
    <2>3. bpc = "idle"
        BY <2>1 DEF RestoreTypeInv, OneAtATime
    <2>4. /\ UNCHANGED <<cabs, work, bpc, rsel>> /\ registry' = None
        BY <1>11 DEF Restart, scriptVars, folderVars, backupVars
    <2> QED
        BY <2>1, <2>2, <2>3, <2>4 DEF OneWhole, WholeInv, CabinetsWhole
<1>12. CASE RestoreReturn
    <2>1. rpc \in Ended /\ rpc' = "idle" /\ UNCHANGED bVars
        BY <1>12 DEF RestoreReturn, RestoreGone
    <2> QED
        BY <1>2, <2>1 DEF OneWhole, AfterStop, FileSteps, Ended
<1>13. CASE DbservExits
    BY <1>13 DEF DbservExits, restoreVars, folderVars, backupVars, OneWhole,
                 WholeInv, WholeLive, CabinetsWhole, BFolder, FolderOf
<1>14. CASE RestoreCrash
    BY <1>14 DEF RestoreCrash, NothingMixes
<1> QED
    BY <1>3, <1>4, <1>5, <1>6, <1>7, <1>8, <1>9, <1>10, <1>11, <1>12, <1>13,
       <1>14
       DEF Next, RestoreStep

LEMMA OneWholeInit == Init => OneWhole
BY WholeInit DEF Init, RestoreInit, OneWhole, WholeInv, AfterStop, FileSteps

\* Every database there is, in place or in a cabinet, has been served.
ServedInv ==
    /\ live.db # None => live.db \in served
    /\ \A c \in cabs : c.body.db \in served
    /\ rpc # "idle" => rsel.cab.body.db \in served
    /\ bpc = "makecab" /\ work[BFolder].db # None =>
         work[BFolder].db \in served

LEMMA ServedBackups ==
    ASSUME RestoreTypeInv, OneWhole, ServedInv, Backups
    PROVE  ServedInv'
<1>1. UNCHANGED <<live, rpc, rsel, served>> /\ rpc \notin AfterStop
    BY BackupsLeave, NoBackupBeside DEF restoreVars, AfterStop, FileSteps
<1>2. WholeInv /\ TypeInv
    BY <1>1 DEF OneWhole, RestoreTypeInv
<1>3. CASE Makecab
    <2>1. PICK new : /\ cabs' = cabs \cup {new}
                     /\ new.body.db = work[BFolder].db
        BY <1>3, MakecabAdds
    <2> QED
        BY <1>1, <1>3, <2>1 DEF Makecab, ServedInv
<1>4. CASE Database
    <2>1. bpc = "database" /\ bpc' = "makecab" /\ BFolder' = BFolder
          /\ UNCHANGED cabs
        BY <1>4 DEF Database, BFolder, FolderOf, folderVars
    <2>2. work'[BFolder].db \in {None, live.db}
        BY <1>2, <1>4, <2>1, DatabaseTakes DEF WholeInv
    <2> QED
        BY <1>1, <2>1, <2>2 DEF ServedInv
<1>5. CASE cabs' \subseteq cabs /\ bpc' # "makecab"
    BY <1>1, <1>5 DEF ServedInv
<1> QED
    BY <1>3, <1>4, <1>5
       DEF Backups, Start, BackupStep, Export, Dump, DeleteOld, MakecabFails,
           Cleanup, AfterCleanup, Keep, KeepFiles, FilesIn, LinkOpen,
           LinkRestore, Return, BackupCrash, Gone, folderVars

LEMMA ServedNext ==
    ASSUME RestoreTypeInv, SwapInv, OneWhole, ServedInv, NothingMixes,
           [Next]_rVars
    PROVE  ServedInv'
<1>1. live \in Live
    BY DEF RestoreTypeInv, TypeInv, BackupTypeOK, StoreTypeOK
<1>2. CASE /\ UNCHANGED <<cabs, rsel, served>> /\ rpc # "idle"
           /\ live'.db # None => live'.db \in served
           /\ bpc' = "makecab" => UNCHANGED <<bpc, bkind, work>>
    BY <1>2 DEF ServedInv, BFolder, FolderOf
<1>3. CASE UNCHANGED rVars
    BY <1>3 DEF rVars, restoreVars, bVars, machineVars, folderVars, backupVars,
                ServedInv, BFolder, FolderOf
<1>4. CASE Backups
    BY <1>4, ServedBackups
<1>5. CASE Surroundings
    <2>1. UNCHANGED <<cabs, rpc, rsel, bpc, bkind, work>>
        BY <1>5 DEF Surroundings, UserWork, NewInstallation, ServerStopped,
                    ServerStarted, folderVars, backupVars
    <2>2. \/ served' = served \cup {live'.db}
          \/ served' = served /\ live'.db = live.db
        BY <1>1, <1>5 DEF Surroundings, ServerStopped, ServerStarted,
                          AdminStop, AdminStart, Live
    <2> QED
        BY <2>1, <2>2 DEF ServedInv, BFolder, FolderOf
<1>6. CASE Select
    <2>1. rsel'.cab \in cabs /\ UNCHANGED <<bVars, served>>
        BY <1>6 DEF Select
    <2> QED
        BY <2>1 DEF ServedInv, bVars, machineVars, folderVars, backupVars,
                    BFolder, FolderOf
<1>7. CASE RunUndo \/ UndoReturned \/ NoUndoScript
    <2>1. /\ UNCHANGED <<cabs, live, rsel, served>> /\ rpc # "idle"
          /\ bpc' = "makecab" => UNCHANGED <<bpc, bkind, work>>
        BY <1>7 DEF RunUndo, Start, UndoReturned, Gone, NoUndoScript,
                    scriptVars, bVars, machineVars, folderVars, backupVars
    <2> QED
        BY <1>2, <2>1 DEF ServedInv
<1>8. ASSUME NEW f \in ExtractSteps,
             ExtractFile(f) \/ ExtractLeftover(f) \/ ExtractFails(f)
      PROVE  ServedInv'
    <2>1. UNCHANGED <<bVars, rsel, served>> /\ rpc # "idle"
        BY <1>8 DEF ExtractFile, ExtractLeftover, ExtractFails, scriptVars,
                    ExtractSteps
    <2> QED
        BY <1>2, <2>1 DEF ServedInv, bVars, machineVars, folderVars, backupVars
<1>9. CASE \/ Stop \/ Import \/ ClearReg \/ ClearPub \/ MovePub
           \/ ClearPriv \/ MovePriv \/ Wait \/ ClearDb \/ MoveDb
           \/ FileFails \/ RemoveExtract \/ Restart
    <2>1. UNCHANGED <<cabs, rsel, served, bpc, bkind, work>> /\ rpc # "idle"
        BY <1>9 DEF Stop, Import, ClearReg, ClearPub, MovePub, ClearPriv,
                    MovePriv, Wait, ClearDb, MoveDb, FileFails, FileSteps,
                    RemoveExtract, Restart, scriptVars, bVars, folderVars,
                    backupVars
    <2>2. live'.db \in {live.db, None, rsel.cab.body.db}
        <3>1. MoveDb => live'.db = rsel.cab.body.db
            BY <1>1, FilesChosen
               DEF MoveDb, SwapInv, DeliveryInv, Sound, NothingMixes, Live
        <3>2. ClearDb => live'.db = None
            BY <1>1 DEF ClearDb, Live
        <3> QED
            BY <1>1, <1>9, <3>1, <3>2
               DEF Stop, Import, ClearReg, ClearPub, MovePub, ClearPriv,
                   MovePriv, Wait, FileFails, RemoveExtract, Restart, Live,
                   bVars, machineVars
    <2> QED
        BY <1>2, <2>1, <2>2 DEF ServedInv
<1>10. CASE RestoreReturn \/ RestoreCrash
    <2>1. /\ UNCHANGED <<cabs, live, served, work>> /\ rpc' = "idle"
          /\ bpc' = "makecab" => UNCHANGED <<bpc, bkind>>
        BY <1>10 DEF RestoreReturn, RestoreCrash, RestoreGone, Gone, bVars,
                     machineVars, folderVars, backupVars
    <2> QED
        BY <2>1 DEF ServedInv, BFolder, FolderOf
<1>11. CASE DbservExits
    BY <1>11 DEF DbservExits, restoreVars, folderVars, backupVars, ServedInv,
                 BFolder, FolderOf
<1> QED
    BY <1>3, <1>4, <1>5, <1>6, <1>7, <1>8, <1>9, <1>10, <1>11
       DEF Next, RestoreStep

LEMMA ServedInit == Init => ServedInv
BY DEF Init, RestoreInit, BInit, StoreInit, BackupInit, ServedInv

WholeRestoreInv == RestoreTypeInv /\ SwapInv /\ OneWhole /\ ServedInv

LEMMA WholeRestoreInit == Init => WholeRestoreInv
<1>1. Init => DatabaseInv
    BY DEF Init, RestoreInit, DatabaseInv, NeedsDb, AfterStop, FileSteps
<1> QED
    BY <1>1, RestoreInitType, DeliveryInit, OneWholeInit, ServedInit
       DEF WholeRestoreInv, SwapInv

LEMMA WholeRestoreNext ==
    ASSUME NothingMixes, WholeRestoreInv, [Next]_rVars
    PROVE  WholeRestoreInv'
<1>2. RestoreTypeInv' /\ OneWhole' /\ ServedInv'
    BY RestoreNextType, OneWholeNext, ServedNext DEF WholeRestoreInv
<1>3. SwapInv'
    BY DeliveryNext, DatabaseNext DEF WholeRestoreInv, SwapInv
<1> QED
    BY <1>2, <1>3 DEF WholeRestoreInv

-----------------------------------------------------------------------------
(* The undo cabinet.  From the moment the undo backup has built it, it is    *)
(* the newest of its folder, so the rotation keeps it; it is whole, and its  *)
(* credentials are those the restore found, because nothing but a restore    *)
(* changes them while one is under way.                                      *)

IsUndo(c) ==
    /\ c.body.db \in served
    /\ Whole(c.body) /\ c.body.reg = before.live.creds

UndoBuilt ==
    /\ rpc = "undoing"
    /\ \/ bpc \in {"cleanup", "keep", "open", "restore"}
       \/ bpc = "done" /\ bres = 0

UndoHeld == rundo # None => \E c \in cabs : c.date = rundo /\ IsUndo(c)

UndoInv ==
    /\ NoneLater
    /\ UndoBuilt => \E c \in FilesIn(BFolder) : c.date = clock /\ IsUndo(c)
    /\ UndoHeld

LEMMA NoneLaterNext ==
    ASSUME RestoreTypeInv, NoneLater, "clock" \notin Faults, [Next]_rVars
    PROVE  NoneLater'
<1>1. clock \in Nat /\ \A c \in cabs : c.date \in Nat
    BY DEF RestoreTypeInv, TypeInv, BackupTypeOK, StoreTypeOK, Cabinet
<1>2. CASE Makecab
    <2>1. PICK new : /\ cabs' = cabs \cup {new} /\ new.date = clock'
                     /\ clock' \in NewDates
        BY <1>2, MakecabAdds
    <2>2. clock' = clock + 1
        BY <2>1 DEF NewDates
    <2> QED
        BY <1>1, <2>1, <2>2 DEF NoneLater
<1>3. CASE cabs' \subseteq cabs /\ UNCHANGED clock
    BY <1>3 DEF NoneLater
<1>4. CASE Backups
    BY <1>2, <1>3, <1>4
       DEF Backups, BackupStep, Start, Export, Dump, DeleteOld, Database,
           MakecabFails, Cleanup, Keep, KeepFiles, FilesIn, LinkOpen,
           LinkRestore, Return, BackupCrash, folderVars
<1>5. CASE ~Backups
    BY <1>3, <1>5
       DEF Next, Surroundings, UserWork, NewInstallation, ServerStopped,
           ServerStarted, Select, RestoreStep, RunUndo, Start, UndoReturned,
           NoUndoScript, ExtractFile, ExtractLeftover, ExtractFails, Stop,
           Import, ClearReg, ClearPub, MovePub, ClearPriv, MovePriv, Wait,
           ClearDb, MoveDb, FileFails, RemoveExtract, Restart, RestoreReturn,
           RestoreCrash, DbservExits, rVars, bVars, folderVars
<1> QED
    BY <1>4, <1>5

\* The undo backup builds its cabinet from what was live and keeps it.
LEMMA UndoBackups ==
    ASSUME WholeRestoreInv, HarmlessInv, UndoInv, NothingMixes, Backups,
           UndoBuilt'
    PROVE  \E c \in FilesIn(BFolder)' :
             c.date = clock' /\ IsUndo(c)'
<1>1. UNCHANGED <<live, rpc, rsel, served, before>> /\ rpc = "undoing"
    BY BackupsLeave DEF restoreVars, UndoBuilt
<1>2. BackupStep /\ bkind = "undo" /\ TypeInv /\ WholeInv
    BY <1>1 DEF Backups, WholeRestoreInv, RestoreTypeInv, OneAtATime, OneWhole,
                AfterStop, FileSteps
<1>3. \A c : IsUndo(c) => IsUndo(c)'
    BY <1>1 DEF IsUndo, Whole
<1>4. CASE Makecab
    <2>1. PICK new :
            /\ cabs' = cabs \cup {new} /\ new.date = clock'
            /\ new.folder = BFolder
            /\ new.body = [reg |-> work[BFolder].reg, pub |-> live.pub,
                           priv |-> live.priv, db |-> work[BFolder].db]
        BY <1>4, MakecabAdds
    <2>2. bpc = "makecab" /\ work[BFolder].db # None /\ BFolder' = BFolder
        BY <1>4 DEF Makecab, BFolder, FolderOf
    <2>3. live.creds = before.live.creds
        BY <1>1 DEF HarmlessInv, BeforeStop, AsBefore, NothingMixes
    <2>4. /\ work[BFolder].reg = live.creds /\ work[BFolder].db \in served
          /\ work[BFolder].db.key = live.creds
          /\ live.pub = live.creds /\ live.priv = live.creds
        BY <1>2, <2>2 DEF WholeInv, WholeLive, WholeRestoreInv, ServedInv
    <2>5. IsUndo(new)
        BY <2>1, <2>3, <2>4 DEF IsUndo, Whole
    <2> QED
        BY <1>3, <2>1, <2>2, <2>5 DEF FilesIn
<1>5. CASE Keep
    <2>1. /\ bpc = "keep" /\ UNCHANGED clock /\ BFolder' = BFolder
          /\ bkind \in Rotating
        BY <1>2, <1>5 DEF Keep, BFolder, FolderOf, Rotating
    <2>2. PICK c \in FilesIn(BFolder) : c.date = clock /\ IsUndo(c)
        BY <1>1, <2>1 DEF UndoInv, UndoBuilt
    <2>3. c \in cabs' /\ c.folder = BFolder
        BY <1>2, <1>5, <2>1, <2>2, NewestIsKept DEF UndoInv, FilesIn
    <2> QED
        BY <1>3, <2>1, <2>2, <2>3 DEF FilesIn
<1>6. CASE Cleanup \/ LinkOpen \/ LinkRestore
    <2>1. UndoBuilt /\ UNCHANGED <<cabs, clock>> /\ BFolder' = BFolder
        BY <1>1, <1>6 DEF Cleanup, LinkOpen, LinkRestore, UndoBuilt,
                          folderVars, BFolder, FolderOf
    <2>2. PICK c \in FilesIn(BFolder) : c.date = clock /\ IsUndo(c)
        BY <2>1 DEF UndoInv
    <2> QED
        BY <1>3, <2>1, <2>2 DEF FilesIn
<1>7. CASE Export \/ Dump \/ DeleteOld \/ Database \/ MakecabFails
    BY <1>7 DEF Export, Dump, DeleteOld, Database, MakecabFails, UndoBuilt
<1> QED
    BY <1>2, <1>4, <1>5, <1>6, <1>7 DEF BackupStep

LEMMA UndoNext ==
    ASSUME WholeRestoreInv, HarmlessInv, UndoInv, NothingMixes,
           "clock" \notin Faults, [Next]_rVars
    PROVE  UndoInv'
<1>1. NoneLater'
    BY NoneLaterNext DEF WholeRestoreInv, UndoInv
<1>2. ASSUME UNCHANGED <<cabs, clock, bkind, before>>,
             served \subseteq served',
             UNCHANGED <<rpc, bpc, bres>> \/ ~UndoBuilt',
             UNCHANGED rundo \/ rundo' = None
      PROVE  UndoInv'
    <2>1. \A c : IsUndo(c) => IsUndo(c)'
        BY <1>2 DEF IsUndo, Whole
    <2>2. UndoBuilt' => UndoBuilt
        BY <1>2 DEF UndoBuilt
    <2>3. UndoHeld'
        BY <1>2, <2>1 DEF UndoInv, UndoHeld
    <2> QED
        BY <1>1, <1>2, <2>1, <2>2, <2>3 DEF UndoInv, FilesIn, BFolder, FolderOf
<1>3. CASE UNCHANGED rVars
    BY <1>2, <1>3 DEF rVars, restoreVars, bVars, folderVars, backupVars
<1>4. CASE Backups
    <2>1. rundo' = None
        BY <1>4, NoBackupBeside, BackupsLeave
           DEF WholeRestoreInv, RestoreTypeInv, Chosen, restoreVars
    <2> QED
        BY <1>1, <1>4, <2>1, UndoBackups DEF UndoInv, UndoHeld
<1>5. CASE Surroundings
    BY <1>2, <1>5
       DEF Surroundings, UserWork, NewInstallation, ServerStopped,
           ServerStarted, folderVars, backupVars
<1>6. CASE Select
    <2>1. rundo = None
        BY <1>6 DEF Select, WholeRestoreInv, RestoreTypeInv, Chosen
    <2> QED
        BY <1>1, <1>6, <2>1 DEF Select, UndoInv, UndoHeld, UndoBuilt
<1>7. CASE RunUndo
    <2>1. rundo = None
        BY <1>7 DEF RunUndo, WholeRestoreInv, RestoreTypeInv, Chosen
    <2> QED
        BY <1>1, <1>7, <2>1 DEF RunUndo, Start, scriptVars, UndoInv, UndoHeld,
                                UndoBuilt
<1>8. CASE UndoReturned
    <2>1. /\ rpc = "undoing" /\ bpc = "done" /\ rpc' # "undoing"
          /\ UNCHANGED <<cabs, before, served>> /\ rundo = None
        BY <1>8, AfterUndoStep
           DEF UndoReturned, folderVars, WholeRestoreInv, RestoreTypeInv,
               Chosen
    <2>2. CASE UNCHANGED rundo
        BY <1>1, <2>1, <2>2 DEF UndoInv, UndoHeld, UndoBuilt
    <2>3. CASE bres = 0 /\ rundo' = clock
        <3>1. PICK c \in FilesIn(BFolder) : c.date = clock /\ IsUndo(c)
            BY <2>1, <2>3 DEF UndoInv, UndoBuilt
        <3> QED
            BY <1>1, <2>1, <2>3, <3>1
               DEF UndoInv, UndoHeld, UndoBuilt, IsUndo, FilesIn
    <2> QED
        BY <1>8, <2>2, <2>3 DEF UndoReturned
<1>9. CASE NoUndoScript
    BY <1>2, <1>9, AfterUndoStep
       DEF NoUndoScript, scriptVars, bVars, folderVars, backupVars, UndoBuilt
<1>10. ASSUME NEW f \in ExtractSteps,
              ExtractFile(f) \/ ExtractLeftover(f) \/ ExtractFails(f)
       PROVE  UndoInv'
    BY <1>2, <1>10
       DEF ExtractFile, ExtractLeftover, ExtractFails, AfterExtract,
           ExtractSteps, scriptVars, bVars, folderVars, backupVars, UndoBuilt
<1>11. CASE \/ Stop \/ Import \/ ClearReg \/ ClearPub \/ MovePub
            \/ ClearPriv \/ MovePriv \/ Wait \/ ClearDb \/ MoveDb
            \/ FileFails \/ RemoveExtract \/ Restart
    BY <1>2, <1>11
       DEF Stop, Import, ClearReg, ClearPub, MovePub, ClearPriv, MovePriv,
           Wait, ClearDb, MoveDb, FileFails, RemoveExtract, Restart,
           scriptVars, bVars, folderVars, backupVars, UndoBuilt
<1>12. CASE RestoreReturn \/ RestoreCrash
    BY <1>1, <1>12
       DEF RestoreReturn, RestoreCrash, RestoreGone, UndoInv,
           UndoHeld, UndoBuilt
<1>13. CASE DbservExits
    BY <1>2, <1>13 DEF DbservExits, restoreVars, folderVars, backupVars
<1> QED
    BY <1>3, <1>4, <1>5, <1>6, <1>7, <1>8, <1>9, <1>10, <1>11, <1>12, <1>13
       DEF Next, RestoreStep

\* From the moment the restore trusts its undo cabinet until it has finished,
\* the cabinet is there, whole and of the server that was running, for any
\* number of earlier backups and restores that failed and any keep counts
\* (restoredb.wsf:759-789).
THEOREM UndoCabinetAlwaysThere ==
    ASSUME NothingMixes, "clock" \notin Faults
    PROVE  Spec => []UndoCabinetThere
<1> DEFINE Inv == WholeRestoreInv /\ HarmlessInv /\ UndoInv
<1>1. Init => Inv
    <2>1. Init => UndoInv
        BY DEF Init, BInit, StoreInit, RestoreInit, UndoInv, NoneLater,
               UndoBuilt, UndoHeld
    <2> QED
        BY <2>1, WholeRestoreInit, HarmlessInit
<1>2. Inv /\ [Next]_rVars => Inv'
    BY WholeRestoreNext, HarmlessNext, UndoNext
       DEF WholeRestoreInv, SwapInv
<1>3. Inv => UndoCabinetThere
    BY DEF UndoInv, UndoHeld, UndoCabinetThere, IsUndo
<1> QED
    BY <1>1, <1>2, <1>3, PTL DEF Spec

-----------------------------------------------------------------------------
(* The two scripts implement GssPromise.  While the server is up it serves   *)
(* the live database; it is not up from the stop to the restart; users and   *)
(* new installations bring contents that are new, restores ones that were    *)
(* served.                                                                   *)

PromiseInv ==
    /\ \A s \in served : s.data < nextData
    /\ rpc \in AfterStop => server # "up"

LEMMA PromiseInvNext ==
    ASSUME RestoreTypeInv, PromiseInv, {"stop", "start"} \cap Faults = {},
           [Next]_rVars
    PROVE  PromiseInv'
<1>1. /\ nextData \in Nat /\ served \subseteq DbFile
      /\ \A s \in served : s.data \in Nat
    BY DEF RestoreTypeInv, RestoreTypeOK, TypeInv, BackupTypeOK, StoreTypeOK,
           DbFile
<1>2. CASE /\ UNCHANGED <<served, nextData>>
           /\ rpc' \in AfterStop =>
                rpc \in AfterStop /\ server' \in {server, "down"}
    BY <1>2 DEF PromiseInv
<1>3. CASE UNCHANGED rVars
    BY <1>2, <1>3 DEF rVars, restoreVars, bVars, machineVars
<1>4. CASE Backups
    BY <1>2, <1>4, BackupsLeave DEF restoreVars
<1>5. CASE Surroundings
    <2>1. CASE UserWork
        <3>1. /\ live'.db.data = nextData /\ nextData' = nextData + 1
              /\ served' = served \cup {live'.db} \/ served' = served
            BY <1>5, <2>1, WorkLeaves
               DEF Surroundings, UserWork, Work, ServerStopped, ServerStarted,
                   AdminStop, AdminStart, NewInstallation, Reinstall
        <3>2. UNCHANGED <<server, rpc>>
            BY <1>5, <2>1 DEF UserWork, Work, Surroundings
        <3> QED
            BY <1>1, <3>1, <3>2 DEF PromiseInv
    <2>2. CASE rpc = "idle" /\ NewInstallation
                 /\ served' = served \cup {live'.db}
        <3>1. live'.db.data = nextData /\ nextData' = nextData + 1
            BY <2>2 DEF NewInstallation, Reinstall
        <3>2. rpc' = "idle"
            BY <1>5, <2>2 DEF Surroundings
        <3> QED
            BY <1>1, <2>2, <3>1, <3>2 DEF PromiseInv, AfterStop, FileSteps
    <2>3. CASE ServerStopped /\ UNCHANGED served
        BY <1>2, <1>5, <2>3 DEF ServerStopped, AdminStop, Surroundings
    <2>4. CASE rpc = "idle" /\ ServerStarted /\ UNCHANGED served
        BY <1>2, <1>5, <2>4 DEF ServerStarted, AdminStart, Surroundings,
                                AfterStop, FileSteps
    <2> QED
        BY <1>5, <2>1, <2>2, <2>3, <2>4 DEF Surroundings
<1>6. CASE Select \/ RunUndo \/ UndoReturned \/ NoUndoScript
    BY <1>2, <1>6, AfterUndoStep
       DEF Select, RunUndo, Start, UndoReturned, NoUndoScript, scriptVars,
           bVars, machineVars, AfterStop, FileSteps
<1>7. ASSUME NEW f \in ExtractSteps,
             ExtractFile(f) \/ ExtractLeftover(f) \/ ExtractFails(f)
      PROVE  PromiseInv'
    BY <1>2, <1>7
       DEF ExtractFile, ExtractLeftover, ExtractFails, AfterExtract,
           ExtractSteps, scriptVars, bVars, machineVars, AfterStop, FileSteps
<1>8. CASE Stop
    BY <1>8 DEF Stop, PromiseInv, scriptVars
<1>9. CASE Restart \/ RestoreReturn \/ RestoreCrash
    BY <1>2, <1>9 DEF Restart, RestoreReturn, RestoreCrash, RestoreGone,
                      scriptVars, bVars, machineVars, AfterStop, FileSteps
<1>10. CASE Import \/ ClearReg \/ ClearPub \/ MovePub \/ ClearPriv
            \/ MovePriv \/ Wait \/ ClearDb \/ MoveDb \/ FileFails
            \/ RemoveExtract
    BY <1>2, <1>10
       DEF Import, ClearReg, ClearPub, MovePub, ClearPriv, MovePriv, Wait,
           ClearDb, MoveDb, FileFails, RemoveExtract, scriptVars, bVars,
           machineVars, AfterStop, FileSteps
<1>11. CASE DbservExits
    BY <1>2, <1>11 DEF DbservExits, restoreVars
<1> QED
    BY <1>3, <1>4, <1>5, <1>6, <1>7, <1>8, <1>9, <1>10, <1>11
       DEF Next, RestoreStep

\* What GssPromise sees of the state.
Seen == IF server # "up" THEN None
        ELSE IF WholeLive THEN live.db ELSE Mixture

PromiseAll == WholeRestoreInv /\ PromiseInv

LEMMA SeenServing ==
    ASSUME PromiseAll
    PROVE  /\ server # "up" => Seen = None
           /\ server = "up" => Seen = live.db /\ Seen \in served
                               /\ Seen # None
BY DEF PromiseAll, WholeRestoreInv, OneWhole, WholeInv, WholeLive, ServedInv,
       PromiseInv, Seen

LEMMA PromiseSteps ==
    /\ Seen' \in DbFile \ served /\ served' = served \cup {Seen'}
         => Promise!Next
    /\ Seen # None /\ Seen' = None /\ UNCHANGED served => Promise!Next
    /\ Seen = None /\ Seen' \in served /\ UNCHANGED served => Promise!Next
    /\ UNCHANGED <<Seen, served>> => UNCHANGED Promise!pVars
BY DEF Promise!Next, Promise!Change, Promise!SwitchOff, Promise!SwitchOn,
       Promise!pVars, Seen

\* Every step of the scripts is a step of the promise or none at all.
LEMMA PromiseStep ==
    ASSUME NothingMixes, PromiseAll, PromiseAll', [Next]_rVars
    PROVE  [Promise!Next]_(Promise!pVars)
<1>1. live \in Live
    BY DEF PromiseAll, WholeRestoreInv, RestoreTypeInv, TypeInv, BackupTypeOK,
           StoreTypeOK
<1>2. /\ server # "up" => Seen = None
      /\ server = "up" => Seen = live.db /\ Seen \in served /\ Seen # None
    BY SeenServing
<1>3. /\ server' # "up" => Seen' = None
      /\ server' = "up" => Seen' = live'.db /\ Seen' \in served'
                           /\ Seen' # None
    BY DEF PromiseAll, WholeRestoreInv, OneWhole, WholeInv, WholeLive,
           ServedInv, PromiseInv, Seen
<1>4. CASE /\ UNCHANGED served
           /\ live'.db = live.db \/ server # "up"
    BY <1>2, <1>3, <1>4, PromiseSteps
<1>5. CASE UNCHANGED rVars
    BY <1>4, <1>5 DEF rVars, restoreVars, bVars, machineVars
<1>6. CASE Backups
    BY <1>4, <1>6, BackupsLeave DEF restoreVars
<1>7. CASE Surroundings
    <2>1. CASE /\ UserWork \/ NewInstallation
               /\ served' = served \cup {live'.db}
        <3>1. server' = "up" /\ live'.db.data = nextData
            BY <2>1, WorkLeaves
               DEF UserWork, Work, NewInstallation, Reinstall, PromiseAll,
                   WholeRestoreInv
        <3>2. live'.db \notin served
            BY <3>1 DEF PromiseAll, PromiseInv, WholeRestoreInv,
                        RestoreTypeInv, TypeInv, BackupTypeOK, StoreTypeOK
        <3>3. served' \subseteq DbFile
            BY DEF PromiseAll, WholeRestoreInv, RestoreTypeInv, RestoreTypeOK
        <3> QED
            BY <1>3, <2>1, <3>1, <3>2, <3>3, PromiseSteps
    <2>2. CASE (ServerStopped \/ ServerStarted) /\ UNCHANGED served
        BY <1>1, <1>4, <2>2
           DEF ServerStopped, ServerStarted, AdminStop, AdminStart, Live
    <2> QED
        BY <1>7, <2>1, <2>2 DEF Surroundings
<1>8. CASE Select \/ RunUndo \/ UndoReturned \/ NoUndoScript
    BY <1>4, <1>8 DEF Select, RunUndo, Start, UndoReturned, NoUndoScript,
                      scriptVars, bVars, machineVars
<1>9. ASSUME NEW f \in ExtractSteps,
             ExtractFile(f) \/ ExtractLeftover(f) \/ ExtractFails(f)
      PROVE  [Promise!Next]_(Promise!pVars)
    BY <1>4, <1>9 DEF ExtractFile, ExtractLeftover, ExtractFails, scriptVars,
                      bVars, machineVars
<1>10. CASE Stop \/ Import \/ ClearReg \/ Wait \/ FileFails \/ RemoveExtract
            \/ RestoreReturn \/ DbservExits
    BY <1>4, <1>10
       DEF Stop, Import, ClearReg, Wait, FileFails, RemoveExtract,
           RestoreReturn, DbservExits, scriptVars, restoreVars, bVars,
           machineVars
<1>11. CASE ClearPub \/ MovePub \/ ClearPriv \/ MovePriv \/ ClearDb \/ MoveDb
            \/ Restart
    <2>1. server # "up" /\ UNCHANGED served
        BY <1>11 DEF ClearPub, MovePub, ClearPriv, MovePriv, ClearDb, MoveDb,
                     Restart, scriptVars, AfterStop, FileSteps, PromiseAll,
                     PromiseInv
    <2> QED
        BY <1>4, <2>1
<1>12. CASE RestoreCrash
    BY <1>12 DEF RestoreCrash, NothingMixes
<1> QED
    BY <1>5, <1>6, <1>7, <1>8, <1>9, <1>10, <1>11, <1>12 DEF Next, RestoreStep

LEMMA PromiseInit == Init => Promise!Init /\ PromiseInv
<1> SUFFICES ASSUME Init PROVE Promise!Init /\ PromiseInv
    OBVIOUS
<1>1. WholeLive
    BY WholeInit DEF Init, WholeInv
<1>2. live.db \in DbFile /\ live.db.data = 0
    BY DEF Init, BInit, StoreInit, DbFile
<1> QED
    BY <1>1, <1>2
       DEF Init, BInit, StoreInit, RestoreInit, Promise!Init, PromiseInv,
           AfterStop, FileSteps

\* Whatever backups, rotations, failed runs and restores there are, the server
\* serves one whole state at a time, and after it was off one it has served
\* before: the two scripts implement GssPromise, for any number of cabinets,
\* installations and contents (backupdb.wsf and restoredb.wsf as a whole).
THEOREM ServesOnlyWhatItServed ==
    ASSUME NothingMixes, "stop" \notin Faults
    PROVE  Spec => ServesOnlyWhatWasServed
<1>1. Init => PromiseAll /\ Promise!Init
    BY WholeRestoreInit, PromiseInit DEF PromiseAll
<1>2. PromiseAll /\ [Next]_rVars => PromiseAll'
    BY WholeRestoreNext, PromiseInvNext
       DEF PromiseAll, WholeRestoreInv, NothingMixes
<1>3. PromiseAll /\ PromiseAll' /\ [Next]_rVars
        => [Promise!Next]_(Promise!pVars)
    BY PromiseStep
<1> QED
    BY <1>1, <1>2, <1>3, PTL DEF Spec, ServesOnlyWhatWasServed, Promise!Spec

-----------------------------------------------------------------------------
(* The shortcuts, with restores going on.  A restore's own steps leave the   *)
(* folders, the shortcuts and the run of the backup script alone.            *)

LEMMA LinkBesideRestore ==
    ASSUME TypeInv, LinkInv, DefaultAndUndisturbed, [Next]_rVars
    PROVE  LinkInv'
<1>1. CASE [BNext]_bVars
    BY <1>1, LinkNext
<1>2. CASE UNCHANGED <<folderVars, bpc, bkind>>
    BY <1>2, LinkUntouched DEF folderVars
<1>3. CASE Backups \/ Surroundings \/ UNCHANGED rVars
    BY <1>1, <1>3 DEF Backups, Surroundings, BNext, rVars
<1>4. CASE Select \/ RestoreReturn \/ DbservExits \/ RestoreCrash
    BY <1>2, <1>4
       DEF Select, RestoreReturn, DbservExits, RestoreCrash,
           DefaultAndUndisturbed, bVars, backupVars
<1>5. CASE RunUndo \/ UndoReturned \/ NoUndoScript
    BY <1>1, <1>5 DEF RunUndo, UndoReturned, NoUndoScript, Return, BNext,
                      Kinds, Rotating
<1>6. CASE RestoreStep /\ ~(RunUndo \/ UndoReturned \/ NoUndoScript)
    BY <1>2, <1>6
       DEF RestoreStep, ExtractFile, ExtractLeftover, ExtractFails, Stop,
           Import, ClearReg, ClearPub, MovePub, ClearPriv, MovePriv, Wait,
           ClearDb, MoveDb, FileFails, RemoveExtract, Restart, bVars,
           backupVars
<1> QED
    BY <1>3, <1>4, <1>5, <1>6 DEF Next

\* The shortcuts lead to cabinets that are there while restores and their undo
\* backups run, too (backupdb.wsf:141-145, restoredb.wsf:759-789).
THEOREM ShortcutsResolveBesideRestores ==
    ASSUME DefaultAndUndisturbed
    PROVE  Spec => []ShortcutsResolve
<1> DEFINE Inv == RestoreTypeInv /\ LinkInv
<1>1. Init => Inv
    BY RestoreInitType, LinkInit DEF Init
<1>2. Inv /\ [Next]_rVars => Inv'
    BY RestoreNextType, LinkBesideRestore DEF RestoreTypeInv
<1>3. Inv => ShortcutsResolve
    BY LinkInvResolves DEF RestoreTypeInv
<1> QED
    BY <1>1, <1>2, <1>3, PTL DEF Spec
=============================================================================
