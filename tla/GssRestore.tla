----------------------------- MODULE GssRestore -----------------------------
(***************************************************************************)
(* restoredb.wsf together with backupdb.wsf: the restore script first runs *)
(* the backup script with /undo:Restore, then extracts the chosen cabinet  *)
(* beside the server, stops the server, puts the registry values, the      *)
(* certificates and the database in place and starts the server again.     *)
(***************************************************************************)
EXTENDS GssBackup

CONSTANT Reinstalls     \* TRUE for builds 1533 to 1536 of the server

VARIABLES
    rpc,        \* the step of the restore script, "idle" when it does not run
    rsel,       \* the cabinet file or unpacked directory chosen
    rundo,      \* the date of the undo cabinet taken first, or None
    extract,    \* the files in the program folder's extract directory
    before,     \* observed: what the restore found when it began
    served      \* observed: every database content and key ever served

restoreVars == <<rpc, rsel, rundo, extract, before, served>>
rVars == <<bVars, restoreVars>>

\* An unpacked directory has no date; its database may be out of reach.
Source == [dir : BOOLEAN, newest : BOOLEAN, cab : Cabinet, deep : BOOLEAN]
Extracted == [reg : Keys \cup {Header, None}, pub : Keys \cup {None},
              priv : Keys \cup {None}, db : DbFile \cup {None}]
NothingExtracted == [reg |-> None, pub |-> None, priv |-> None, db |-> None]

\* The server, the next content of its database, and whether no earlier run
\* had left anything in the registry or in the extract directory.
FoundThen == [live : Live, next : Nat, clean : BOOLEAN]

\* A choice that was not made is no choice, a state not observed no state.
ASSUME RestoreAssumption ==
    /\ None \notin Source /\ None \notin FoundThen
    /\ Reinstalls \in BOOLEAN

ExtractSteps == {"reg", "pub", "priv", "db"}
BeforeStop == {"undo", "undoing", "stop"} \cup ExtractSteps
FileSteps == {"import", "clearreg", "clearpub", "movepub", "clearpriv",
              "movepriv", "cleardb", "movedb", "rmdir"}
AfterStop == FileSteps \cup {"wait", "restart"}

\* The script quits with 1, or a runtime error ends it after the stop.
Ended == {"done", "failed", "broken"}

RestoreTypeOK ==
    /\ BackupTypeOK
    /\ rpc \in {"idle"} \cup Ended \cup BeforeStop \cup AfterStop
    /\ rsel \in Source \cup {None}
    /\ rundo \in Nat \cup {None}
    /\ extract \in Extracted
    /\ before \in FoundThen \cup {None}
    /\ served \subseteq DbFile

RestoreInit ==
    /\ rpc = "idle" /\ rsel = None /\ rundo = None /\ before = None
    /\ extract = NothingExtracted
    /\ served = {live.db}

scriptVars == <<rsel, rundo, extract, before, served>>

-----------------------------------------------------------------------------
\* A cabinet is dropped on the script, named, or reached through a shortcut;
\* a shortcut without target makes the script ask for a cabinet.  A directory
\* is a cabinet the operator has unpacked.
Select ==
    /\ rpc = "idle" /\ bpc = "idle" /\ NewDates # {}
    /\ \E c \in cabs, dir \in BOOLEAN, deep \in BOOLEAN :
         /\ deep => dir /\ "tree" \in Faults
         /\ rsel' = [dir |-> dir, cab |-> c, deep |-> deep,
                     newest |-> Newer(c, FilesIn(c.folder)) = {}]
    /\ rpc' = "undo"
    /\ before' = [live |-> live, next |-> nextData,
                  clean |-> registry = None /\ extract = NothingExtracted]
    /\ UNCHANGED <<bVars, rundo, extract, served>>

AfterUndo == IF rsel.dir THEN "stop" ELSE "reg"

\* takeBackup runs backupdb.wsf /undo:Restore and waits for it.
RunUndo ==
    /\ rpc = "undo"
    /\ Start("undo")
    /\ rpc' = "undoing"
    /\ UNCHANGED scriptVars

\* A result other than 0 is put before the operator.
UndoReturned ==
    /\ rpc = "undoing" /\ bpc = "done"
    /\ \/ bres = 0 /\ rpc' = AfterUndo /\ rundo' = clock
       \/ bres # 0 /\ rpc' \in {AfterUndo, "failed"} /\ UNCHANGED rundo
    /\ Gone
    /\ UNCHANGED <<machineVars, folderVars, work, rsel, extract, before, served>>

\* Without the backup script there is a question, or with /quiet not even that.
NoUndoScript ==
    /\ rpc = "undo"
    /\ "noundo" \in Faults
    /\ rpc' \in {AfterUndo, "failed"}
    /\ UNCHANGED <<bVars, scriptVars>>

-----------------------------------------------------------------------------
\* extract: expand.exe is run on the cabinet for one file; the script goes on
\* when the result is 0 and a file of that name is there.
AfterExtract == [reg |-> "pub", pub |-> "priv", priv |-> "db", db |-> "stop"]

\* Variant: the certificates are expanded over the installed ones.
ExtractFile_InPlace(f) ==
    /\ rpc = f
    /\ rsel.cab \in cabs
    /\ extract' = [extract EXCEPT ![f] = rsel.cab.body[f]]
    /\ live' = IF f \in {"pub", "priv"} THEN [live EXCEPT ![f] = rsel.cab.body[f]]
               ELSE live
    /\ rpc' = AfterExtract[f]
    /\ UNCHANGED <<registry, server, installed, nextData, folderVars,
                   backupVars, rsel, rundo, before, served>>

ExtractFile(f) ==
    /\ rpc = f
    /\ rsel.cab \in cabs
    /\ extract' = [extract EXCEPT ![f] = rsel.cab.body[f]]
    /\ rpc' = AfterExtract[f]
    /\ UNCHANGED <<bVars, rsel, rundo, before, served>>

NotExtracted == rsel.cab \notin cabs \/ "extract" \in Faults

\* The result is 0 all the same, and the file that is there is an older one.
ExtractLeftover(f) ==
    /\ rpc = f
    /\ NotExtracted /\ "expand" \in Faults
    /\ extract[f] # None
    /\ rpc' = AfterExtract[f]
    /\ UNCHANGED <<bVars, scriptVars>>

\* Variant: a file that is not there is not noticed.
ExtractFails_Unnoticed(f) ==
    /\ rpc = f
    /\ NotExtracted
    /\ rpc' = AfterExtract[f]
    /\ UNCHANGED <<bVars, scriptVars>>

\* Any of the four, after the others have been extracted or not.
ExtractFails(f) ==
    /\ rpc = f
    /\ NotExtracted
    /\ rpc' = "failed"
    /\ UNCHANGED <<bVars, scriptVars>>

-----------------------------------------------------------------------------
\* The files the script puts in place: those extracted, or those of the
\* directory, where a db\ subfolder is not looked into.
Files ==
    IF ~rsel.dir THEN extract
    ELSE IF rsel.deep THEN [rsel.cab.body EXCEPT !.db = None] ELSE rsel.cab.body

\* Moving takes the file out of the extract directory, copying does not.
Taken(f) == IF rsel.dir THEN extract ELSE [extract EXCEPT ![f] = None]

\* Variant: the server is left running.
Stop_Forgotten ==
    /\ rpc = "stop"
    /\ rpc' = "import"
    /\ UNCHANGED <<bVars, scriptVars>>

\* Variant: the registry values are put in place before the service is
\* uninstalled, which clears them.
Stop_AfterImport ==
    /\ rpc = "stop"
    /\ server' = IF server = "up" THEN "stopping" ELSE server
    /\ installed' = (installed /\ ~Reinstalls)
    /\ registry' = IF Reinstalls THEN None ELSE Files.reg
    /\ rpc' = "clearreg"
    /\ UNCHANGED <<live, nextData, folderVars, backupVars, scriptVars>>

\* The consoles are killed, the server is stopped or, for the builds in
\* question, uninstalled, which clears the registry key.
Stop ==
    /\ rpc = "stop"
    /\ \/ server' = IF server = "up" THEN "stopping" ELSE server
       \/ "stop" \in Faults /\ UNCHANGED server
    /\ installed' = (installed /\ ~Reinstalls)
    /\ registry' = IF Reinstalls THEN None ELSE registry
    /\ rpc' = "import"
    /\ UNCHANGED <<live, nextData, folderVars, backupVars, scriptVars>>

\* Variant: no values are imported.
Import_Forgotten ==
    /\ rpc = "import"
    /\ rpc' = "clearreg"
    /\ UNCHANGED <<bVars, scriptVars>>

\* importHklm: a passwords.reg that is only a header changes nothing.
Import ==
    /\ rpc = "import"
    /\ registry' = IF Files.reg = Header THEN registry ELSE Files.reg
    /\ rpc' = "clearreg"
    /\ UNCHANGED <<live, server, installed, nextData, folderVars, backupVars,
                   scriptVars>>

\* The extracted passwords.reg is deleted; that of a directory stays.
ClearReg ==
    /\ rpc = "clearreg"
    /\ extract' = Taken("reg")
    /\ rpc' = "clearpub"
    /\ UNCHANGED <<bVars, rsel, rundo, before, served>>

\* moveFile and copyFile delete the old pubkey.crt, then put the new one in its
\* place; privkey.crt and the database the same.
ClearPub ==
    /\ rpc = "clearpub"
    /\ live' = [live EXCEPT !.pub = None]
    /\ rpc' = "movepub"
    /\ UNCHANGED <<registry, server, installed, nextData, folderVars,
                   backupVars, scriptVars>>

MovePub ==
    /\ rpc = "movepub"
    /\ live' = [live EXCEPT !.pub = Files.pub]
    /\ extract' = Taken("pub")
    /\ rpc' = "clearpriv"
    /\ UNCHANGED <<registry, server, installed, nextData, folderVars,
                   backupVars, rsel, rundo, before, served>>

ClearPriv ==
    /\ rpc = "clearpriv"
    /\ live' = [live EXCEPT !.priv = None]
    /\ rpc' = "movepriv"
    /\ UNCHANGED <<registry, server, installed, nextData, folderVars,
                   backupVars, scriptVars>>

MovePriv ==
    /\ rpc = "movepriv"
    /\ live' = [live EXCEPT !.priv = Files.priv]
    /\ extract' = Taken("priv")
    /\ rpc' = "wait"
    /\ UNCHANGED <<registry, server, installed, nextData, folderVars,
                   backupVars, rsel, rundo, before, served>>

\* The loop that ends when dbserv.exe no longer runs.
Wait ==
    /\ rpc = "wait"
    /\ server = "down"
    /\ rpc' = "cleardb"
    /\ UNCHANGED <<bVars, scriptVars>>

\* FS.DeleteFile with force: the service holds its file when it runs.
ClearDb ==
    /\ rpc = "cleardb"
    /\ server = "down"
    /\ live' = [live EXCEPT !.db = None]
    /\ rpc' = "movedb"
    /\ UNCHANGED <<registry, server, installed, nextData, folderVars,
                   backupVars, scriptVars>>

MoveDb ==
    /\ rpc = "movedb"
    /\ Files.db # None
    /\ live' = [live EXCEPT !.db = Files.db]
    /\ extract' = Taken("db")
    /\ rpc' = "rmdir"
    /\ UNCHANGED <<registry, server, installed, nextData, folderVars,
                   backupVars, rsel, rundo, before, served>>

\* A file is in use or not there, the disk is full: the runtime error ends the
\* script where it is, with the server stopped and files half replaced.
FileFails ==
    /\ \/ "file" \in Faults /\ rpc \in FileSteps
       \/ rpc = "cleardb" /\ server # "down"
       \/ rpc = "movedb" /\ Files.db = None
    /\ rpc' = "broken"
    /\ UNCHANGED <<bVars, scriptVars>>

\* Variant: the extract directory is removed also when the database could not
\* be moved out of it.
RemoveExtract_Always ==
    /\ rpc \in {"movedb", "rmdir"}
    /\ extract' = NothingExtracted
    /\ rpc' = "restart"
    /\ UNCHANGED <<bVars, rsel, rundo, before, served>>

RemoveExtract ==
    /\ rpc = "rmdir"
    /\ extract' = NothingExtracted
    /\ rpc' = "restart"
    /\ UNCHANGED <<bVars, rsel, rundo, before, served>>

\* The service is installed again if it was uninstalled, and started.
Restart ==
    /\ rpc = "restart"
    /\ server' = "up"
    /\ installed' = TRUE
    /\ live' = [live EXCEPT !.creds = StartedCreds]
    /\ registry' = None
    /\ rpc' = "done"
    /\ UNCHANGED <<nextData, folderVars, backupVars, scriptVars>>

RestoreStep ==
    \/ RunUndo \/ UndoReturned \/ NoUndoScript
    \/ \E f \in ExtractSteps :
         ExtractFile(f) \/ ExtractLeftover(f) \/ ExtractFails(f)
    \/ Stop \/ Import \/ ClearReg \/ ClearPub \/ MovePub \/ ClearPriv \/ MovePriv
    \/ Wait \/ ClearDb \/ MoveDb \/ FileFails \/ RemoveExtract \/ Restart

RestoreGone == rpc' = "idle" /\ rsel' = None /\ rundo' = None /\ before' = None

RestoreReturn ==
    /\ rpc \in Ended
    /\ RestoreGone
    /\ UNCHANGED <<bVars, extract, served>>

\* Both scripts die, a restore while its undo backup runs included.
RestoreCrash ==
    /\ "crash" \in Faults
    /\ rpc # "idle"
    /\ RestoreGone /\ Gone
    /\ server' \in {server, "down"}
    /\ UNCHANGED <<live, registry, installed, nextData, folderVars, work,
                   extract, served>>

\* The database service goes some time after the server.
DbservExits ==
    /\ server = "stopping"
    /\ server' = "down"
    /\ UNCHANGED <<live, registry, installed, nextData, folderVars, backupVars,
                   restoreVars>>

\* Backups the operator starts, never while a restore runs, and the steps of
\* any backup, the undo backup included.
Backups ==
    /\ \/ rpc = "idle" /\ \E kind \in Kinds \ {"undo"} : Start(kind)
       \/ BackupStep
       \/ rpc # "undoing" /\ (Return \/ BackupCrash)
    /\ UNCHANGED restoreVars

\* Nobody sets up the suite while a restore runs.
Surroundings ==
    /\ \/ UserWork /\ served' = served \cup {live'.db}
       \/ rpc = "idle" /\ NewInstallation /\ served' = served \cup {live'.db}
       \/ ServerStopped /\ UNCHANGED served
       \/ /\ rpc = "idle" \/ "start" \in Faults
          /\ ServerStarted /\ UNCHANGED served
    /\ UNCHANGED <<rpc, rsel, rundo, extract, before>>

Init == BInit /\ RestoreInit

Next ==
    \/ Backups \/ Surroundings
    \/ Select \/ RestoreStep \/ RestoreReturn \/ RestoreCrash
    \/ DbservExits

Spec ==
    /\ Init /\ [][Next]_rVars
    /\ WF_rVars(Backups /\ (BackupStep \/ Return))
    /\ WF_rVars(RestoreStep \/ RestoreReturn)
    /\ WF_rVars(DbservExits)

-----------------------------------------------------------------------------
(* Properties. *)

\* A restore that reports success has put in place exactly the state the
\* chosen cabinet or directory holds: its database, with the credentials the
\* database accepts and the certificates that go with them, whatever earlier
\* restores left half done (restoredb.wsf:227-310).  When expand.exe may report
\* what it did not do, as lines 223-225 warn, only if they left nothing in the
\* extract directory.  Who starts the server before the script does may have
\* worked with the new database already.
RestoreDelivers ==
    [][rpc # "done" /\ rpc' = "done" /\ Whole(rsel.cab.body)
       /\ ("expand" \in Faults => rsel.dir \/ before.clean) =>
         /\ WholeLive'
         /\ \/ live'.db = rsel.cab.body.db
            \/ "start" \in Faults /\ live'.db.data >= before.next]_rVars

\* A restore that gives up, at whichever file, leaves the installed server as
\* it found it: it has every file before it stops anything
\* (restoredb.wsf:217-258, 361-364).  Who starts the server meanwhile makes it
\* read what an earlier run left in the registry.
FailedRestoreHarmless ==
    rpc = "failed" /\ ("start" \in Faults => before.clean) =>
        /\ live.creds = before.live.creds
        /\ live.pub = before.live.pub /\ live.priv = before.live.priv
        /\ before.live.db # None =>
             live.db # None /\ live.db.key = before.live.db.key

FoundWhole(l) == /\ l.pub = l.creds /\ l.priv = l.creds
                 /\ l.db # None /\ l.db.key = l.creds

\* From the moment the script trusts its undo cabinet until it has finished,
\* that cabinet is there and holds a whole state of the server that was
\* running, if that was whole: the restore can be undone
\* (restoredb.wsf:759-789).
UndoCabinetThere ==
    rundo # None /\ FoundWhole(before.live) /\ ("start" \in Faults => before.clean)
    => \E c \in cabs : /\ c.date = rundo /\ c.body.db \in served
                       /\ Whole(c.body) /\ c.body.reg = before.live.creds

\* The cabinet the "Latest" shortcuts lead to outlives the undo backup that is
\* taken before it is restored, although that backup rotates the same folder
\* (backupdb.wsf:141-145, restoredb.wsf:170-173, 215).
NewestSelectedSurvives ==
    rpc \in ExtractSteps /\ rsel.newest => rsel.cab \in cabs

\* So does every other cabinet that is dropped on the script
\* (restoredb.wsf:70, 215, 233-238).
SelectedSurvives == rpc \in ExtractSteps => rsel.cab \in cabs

\* However a restore ends, killed or on an error, a database is at hand: it
\* deletes the server's only when it has extracted another, and what it has
\* extracted only when the server has one; a later restore that clears up the
\* extract directory of a broken one included.  Only a restore from a directory
\* deletes first and looks afterwards (restoredb.wsf:290-299, 627-632).
NoDatabaseLost ==
    [][/\ live.db # None /\ live'.db = None => rsel.dir \/ extract.db # None
       /\ extract.db # None /\ extract'.db = None => live'.db # None]_rVars

\* Every restore comes to an end once the operator has answered, although it
\* waits for another script and for dbserv.exe (restoredb.wsf:284-289, 759-789).
RestoreEnds == rpc # "idle" ~> rpc = "idle"

\* Seen through what it serves, the whole is GssPromise.
Mixture == [data |-> -1, key |-> live.creds]
Promise == INSTANCE GssPromise WITH
    States <- DbFile,
    Off <- None,
    serving <- IF server # "up" THEN None
               ELSE IF WholeLive THEN live.db ELSE Mixture,
    known <- served
ServesOnlyWhatWasServed == Promise!Spec
=============================================================================
