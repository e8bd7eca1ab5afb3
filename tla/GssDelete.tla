----------------------------- MODULE GssDelete ------------------------------
(***************************************************************************)
(* delclients.wsf and delfolders.wsf: deleting clients, or empty folders,  *)
(* from the console database in one transaction, while console users go on *)
(* working.  The images of a client are files outside the database; they   *)
(* are deleted inside the transaction and do not come back with a rollback.*)
(*                                                                         *)
(* The database is the committed one; the open transaction is the rows it  *)
(* has deleted (del) and the task rows it has sent to the Default folder   *)
(* (moved).  A row of views is a folder or a shortcut to a client, a row   *)
(* of uses refers to a view, a row of owned refers to a client.            *)
(***************************************************************************)
EXTENDS Integers, FiniteSets, FiniteSetsExt

CONSTANTS
    Clients,    \* rows of the Machine table
    None,       \* no client (a folder), no parent, no undo cabinet
    InitialDb,  \* the database before any run
    Batch,      \* how many identifiers keysToSet puts in one statement
    FirstId,    \* the first identifier that is free in it
    DbFaults,   \* what can happen to a run, see AllDbFaults
    MaxId       \* bound: the identifiers console users can give out

\* "sql"  a query, a statement or a call of the server raises an error
\* "file" an image file cannot be deleted
\* "kill" the script host is killed, or the machine reboots
AllDbFaults == {"sql", "file", "kill"}

Default == 1    \* the Default folder's row in MachineView

UseKinds == {"task", "decommission", "custom", "report"}
OwnedKinds == {"image", "config", "inventory"}
View == [id : Nat, client : Clients \cup {None}, parent : Nat \cup {None}]
Use == [id : Nat, kind : UseKinds, view : Nat]
Owned == [id : Nat, kind : OwnedKinds, client : Clients]
Db == [clients : SUBSET Clients, views : SUBSET View,
       uses : SUBSET Use, owned : SUBSET Owned]

Nothing == [clients |-> {}, views |-> {}, uses |-> {}, owned |-> {}]
Ids(rows) == {r.id : r \in rows}
AllIds(d) == Ids(d.views) \cup Ids(d.uses) \cup Ids(d.owned)

\* The rows of a database that refer to something that is not there.
Dangling(d) ==
    Ids({v \in d.views : \/ v.client # None /\ v.client \notin d.clients
                         \/ v.parent # None /\ v.parent \notin Ids(d.views)})
    \cup Ids({u \in d.uses : u.view \notin Ids(d.views)})
    \cup Ids({o \in d.owned : o.client \notin d.clients})

\* An identifier names one row of its table, the Default folder is there, and
\* only folders have something in them.
ASSUME DeleteAssumption ==
    /\ None \notin Clients /\ None \notin Nat
    /\ InitialDb \in Db /\ Dangling(InitialDb) = {}
    /\ \E v \in InitialDb.views : v.id = Default /\ v.client = None
    /\ \A v, w \in InitialDb.views : /\ v.id = w.id => v = w
                                     /\ v.parent = w.id => w.client = None
    /\ \A u, w \in InitialDb.uses : u.id = w.id => u = w
    /\ \A o, p \in InitialDb.owned : o.id = p.id => o = p
    /\ FirstId \in Nat /\ \A i \in AllIds(InitialDb) : i < FirstId
    /\ \A u \in InitialDb.uses : u.kind = "custom" => u.view # Default
    /\ Batch \in Nat \ {0}
    /\ DbFaults \subseteq AllDbFaults
    /\ MaxId \in Nat

VARIABLES
    db,         \* the committed tables
    del, moved, \* what the open transaction has done
    files,      \* the image files, by the id of their row
    dpc,        \* the step the running script is at, or "idle"
    script,     \* "clients" or "folders"
    wanted,     \* the clients or folders whose name matches the pattern
    found,      \* those the script found and counts in its last message
    todo,       \* its dictionaries: clients, shortcuts and configs left
    batch,      \* the identifiers of the statement under way
    cursor,     \* the image rows clean_Backups has still to visit
    undo,       \* observed: the content of this run's undo cabinet, or None
    late,       \* observed: identifiers given out while a run was under way
    nextId

tables == <<db, files>>
run == <<script, wanted, found, todo, batch, cursor, undo>>
transaction == <<del, moved>>
observed == <<late, nextId>>
dVars == <<tables, transaction, dpc, run, observed>>

\* The tables as the transaction sees them, and as its commit leaves them.
Seen == [clients |-> db.clients \ del.clients,
         views   |-> db.views \ del.views,
         uses    |-> {IF u.id \in moved THEN [u EXCEPT !.view = Default] ELSE u
                        : u \in db.uses \ del.uses},
         owned   |-> db.owned \ del.owned]

NoTodo == [clients |-> {}, shortcuts |-> {}, configs |-> {}]

DInit ==
    /\ db = InitialDb
    /\ del = Nothing /\ moved = {}
    /\ files = Ids({o \in InitialDb.owned : o.kind = "image"})
    /\ dpc = "idle"
    /\ script = "clients"
    /\ wanted = {} /\ found = {} /\ batch = {} /\ cursor = {}
    /\ todo = NoTodo
    /\ undo = None
    /\ late = {}
    /\ nextId = FirstId

-----------------------------------------------------------------------------
(* The parts the two scripts share. *)

\* A run ends; what its transaction did and did not commit is rolled back
\* when the script host closes the connection.
End == /\ dpc' = "idle"
       /\ del' = Nothing /\ moved' = {}
       /\ todo' = NoTodo /\ found' = {} /\ batch' = {} /\ cursor' = {}
       /\ UNCHANGED <<script, wanted, undo>>

\* keysToSet takes Batch identifiers out of a dictionary, or those left.
KeysToSet(left) ==
    {what \in SUBSET left :
        Cardinality(what) = Min({Batch, Cardinality(left)})}

\* Variants: the dictionary loses them all, or none.
Rest_None(left, what) == {}
Rest_All(left, what) == left

Rest(left, what) == left \ what

\* delete from the table of uses, for the views of the batch.
DeleteUses(kinds) ==
    del' = [del EXCEPT !.uses = @ \cup
               {u \in db.uses : u.kind \in kinds /\ u.view \in batch}]

CleanReports ==
    /\ dpc = "reports"
    /\ DeleteUses({"report"})
    /\ dpc' = "customs"
    /\ UNCHANGED <<tables, moved, run, observed>>

\* Variant: the custom configurations are not deleted first.
CleanCustoms_Skipped ==
    /\ dpc = "customs"
    /\ dpc' = "tasks"
    /\ UNCHANGED <<tables, transaction, run, observed>>

CleanCustoms ==
    /\ dpc = "customs"
    /\ DeleteUses({"custom"})
    /\ dpc' = "tasks"
    /\ UNCHANGED <<tables, moved, run, observed>>

AfterTasks ==
    IF script = "folders" THEN "folders"
    ELSE IF todo.shortcuts # {} THEN "shortcuts"
    ELSE IF todo.configs # {} THEN "configs" ELSE "inventory"

\* Tasks and the rest of their operations stay, in the Default folder.
CleanTasks ==
    /\ dpc = "tasks"
    /\ moved' = moved \cup Ids({u \in db.uses \ del.uses : u.view \in batch
                                     /\ u.kind # "report"})
    /\ dpc' = AfterTasks
    /\ UNCHANGED <<tables, del, run, observed>>

Commit ==
    /\ dpc = "commit"
    /\ db' = Seen
    /\ del' = Nothing /\ moved' = {}
    /\ dpc' = "refresh"
    /\ UNCHANGED <<files, run, observed>>

\* server.RefreshDatabase, and the script quits.
Refresh ==
    /\ dpc = "refresh"
    /\ End
    /\ UNCHANGED <<tables, observed>>

\* A query, a statement or the call of the server raises an error, and the
\* script ends there; or it is killed, wherever it is.
RunFails ==
    /\ \/ /\ "sql" \in DbFaults
          /\ dpc \in {"find", "lists", "reports", "customs", "tasks", "configs",
                      "inventory", "open", "machines", "decommission",
                      "folders", "commit", "refresh"}
       \/ "kill" \in DbFaults /\ dpc # "idle"
    /\ End
    /\ UNCHANGED <<tables, observed>>

-----------------------------------------------------------------------------
(* delclients.wsf *)

StartClients ==
    /\ dpc = "idle"
    /\ script' = "clients"
    /\ wanted' \in SUBSET Clients
    /\ undo' = None
    /\ dpc' = "backup"
    /\ UNCHANGED <<tables, transaction, found, todo, batch, cursor, observed>>

\* Variant: a cabinet made long before is taken for this run's.
UndoMade_Old ==
    /\ dpc = "backup"
    /\ undo' = InitialDb
    /\ dpc' = "find"
    /\ UNCHANGED <<tables, transaction, script, wanted, found, todo, batch,
                   cursor, observed>>

\* backupdb.wsf /undo:ClientDelete wrote a cabinet of the tables as committed.
UndoMade ==
    /\ dpc = "backup"
    /\ undo' = db
    /\ dpc' = "find"
    /\ UNCHANGED <<tables, transaction, script, wanted, found, todo, batch,
                   cursor, observed>>

\* /nobackup, or the backup failed or its script is missing, and the operator
\* or /quiet lets the run go on; or it ends here.
UndoNotMade ==
    /\ dpc = "backup"
    /\ \/ dpc' = "find"
          /\ UNCHANGED <<tables, transaction, run, observed>>
       \/ End /\ UNCHANGED <<tables, observed>>

\* filterMachines: the clients with a shortcut whose name matches.
FilterMachines ==
    {c \in wanted : c \in db.clients /\ \E v \in db.views : v.client = c}

FindMachines ==
    /\ dpc = "find" /\ script = "clients"
    /\ IF FilterMachines = {}
       THEN End
       ELSE /\ found' = FilterMachines
            /\ todo' = [NoTodo EXCEPT !.clients = FilterMachines]
            /\ dpc' = "lists"
            /\ UNCHANGED <<transaction, script, wanted, batch, cursor, undo>>
    /\ UNCHANGED <<tables, observed>>

\* findShortcuts and findConfigs
FindShortcuts ==
    /\ dpc = "lists"
    /\ todo' = [todo EXCEPT
           !.shortcuts = Ids({v \in db.views : v.client \in todo.clients}),
           !.configs = Ids({o \in db.owned : /\ o.kind = "config"
                                             /\ o.client \in todo.clients})]
    /\ dpc' = "shortcuts"
    /\ UNCHANGED <<tables, transaction, script, wanted, found, batch, cursor,
                   undo, observed>>

NextShortcuts ==
    /\ dpc = "shortcuts"
    /\ batch' \in KeysToSet(todo.shortcuts)
    /\ todo' = [todo EXCEPT !.shortcuts = Rest(@, batch')]
    /\ dpc' = "reports"
    /\ UNCHANGED <<tables, transaction, script, wanted, found, cursor, undo,
                   observed>>

CleanConfigs ==
    /\ dpc = "configs"
    /\ batch' \in KeysToSet(todo.configs)
    /\ todo' = [todo EXCEPT !.configs = Rest(@, batch')]
    /\ del' = [del EXCEPT !.owned = @ \cup {o \in db.owned : o.id \in batch'}]
    /\ dpc' = IF todo'.configs # {} THEN "configs" ELSE "inventory"
    /\ UNCHANGED <<tables, moved, script, wanted, found, cursor, undo, observed>>

\* One client after the other; the dictionary keeps them for the next loop.
CleanInventory ==
    /\ dpc = "inventory"
    /\ del' = [del EXCEPT !.owned = @ \cup
                  {o \in db.owned : o.kind = "inventory" /\ o.client \in todo.clients}]
    /\ dpc' = "open"
    /\ UNCHANGED <<tables, moved, run, observed>>

\* Variant: every image row is visited, not only those of the batch.
OpenImages_All ==
    /\ dpc = "open"
    /\ batch' \in KeysToSet(todo.clients)
    /\ todo' = [todo EXCEPT !.clients = Rest(@, batch')]
    /\ cursor' = {o \in db.owned : o.kind = "image"}
    /\ dpc' = "machines"
    /\ UNCHANGED <<tables, transaction, script, wanted, found, undo, observed>>

\* clean_Backups opens its query on the next batch of clients.
OpenImages ==
    /\ dpc = "open"
    /\ batch' \in KeysToSet(todo.clients)
    /\ todo' = [todo EXCEPT !.clients = Rest(@, batch')]
    /\ cursor' = {o \in db.owned : o.kind = "image" /\ o.client \in batch'}
    /\ dpc' = "machines"
    /\ UNCHANGED <<tables, transaction, script, wanted, found, undo, observed>>

\* FS.DeleteFile, unless the file is not there or in use; then record.Delete,
\* which the record set, opened as it is by default to be read only, refuses.
\* Both errors end the run, so the visit of the first image is the last step.
CleanImage ==
    /\ dpc = "machines"
    /\ \E o \in cursor :
         \/ files' = files \ {o.id}
         \/ /\ o.id \notin files \/ "file" \in DbFaults
            /\ UNCHANGED files
    /\ End
    /\ UNCHANGED <<db, observed>>

\* Only when none of the batch has an image.
CleanMachines ==
    /\ dpc = "machines" /\ cursor = {}
    /\ del' = [del EXCEPT !.views = @ \cup {v \in db.views : v.client \in batch},
                          !.clients = @ \cup batch]
    /\ dpc' = IF todo.clients # {} THEN "open" ELSE "commit"
    /\ UNCHANGED <<tables, moved, run, observed>>

-----------------------------------------------------------------------------
(* delfolders.wsf *)

StartFolders ==
    /\ dpc = "idle"
    /\ script' = "folders"
    /\ wanted' \in SUBSET Ids({v \in db.views : v.client = None})
    /\ undo' = None
    /\ dpc' = "find"
    /\ UNCHANGED <<tables, transaction, found, todo, batch, cursor, observed>>

\* Variant: folders with something in them are found as well.
FilterFolders_Any ==
    {v.id : v \in {w \in db.views : /\ w.id \in wanted
                                    /\ w.client = None /\ w.id > Default}}

\* filterFolders: matching folders that are nobody's parent.
FilterFolders ==
    {v.id : v \in {w \in db.views : /\ w.id \in wanted
                                    /\ w.client = None /\ w.id > Default
                                    /\ \A c \in db.views : c.parent # w.id}}

FindFolders ==
    /\ dpc = "find" /\ script = "folders"
    /\ IF FilterFolders = {}
       THEN End
       ELSE /\ found' = FilterFolders
            /\ batch' = FilterFolders
            /\ dpc' = "decommission"
            /\ UNCHANGED <<transaction, script, wanted, todo, cursor, undo>>
    /\ UNCHANGED <<tables, observed>>

\* The invisible decommission tasks go, whatever folder they refer to.
CleanDecommission ==
    /\ dpc = "decommission"
    /\ del' = [del EXCEPT !.uses = @ \cup {u \in db.uses : u.kind = "decommission"}]
    /\ dpc' = "reports"
    /\ UNCHANGED <<tables, moved, run, observed>>

CleanFolders ==
    /\ dpc = "folders"
    /\ del' = [del EXCEPT !.views = @ \cup {v \in db.views : v.id \in batch}]
    /\ dpc' = "commit"
    /\ UNCHANGED <<tables, moved, run, observed>>

-----------------------------------------------------------------------------
(* Console users.  Rows that the transaction has deleted are out of reach. *)

NewId == /\ nextId <= MaxId
         /\ nextId' = nextId + 1
         /\ late' = IF dpc = "idle" THEN late ELSE late \cup {nextId}

\* A shortcut to a client is put into a folder.
AddShortcut ==
    /\ \E c \in db.clients \ del.clients, v \in db.views \ del.views :
         /\ v.client = None
         /\ db' = [db EXCEPT !.views = @ \cup
                      {[id |-> nextId, client |-> c, parent |-> v.id]}]
    /\ NewId
    /\ UNCHANGED <<files, transaction, dpc, run>>

\* A task, a client's own configuration for one, or a report.
AddUse ==
    /\ \E k \in UseKinds, v \in db.views \ del.views :
         /\ k = "custom" => v.client # None
         /\ db' = [db EXCEPT !.uses = @ \cup
                      {[id |-> nextId, kind |-> k, view |-> v.id]}]
    /\ NewId
    /\ UNCHANGED <<files, transaction, dpc, run>>

\* A backup task takes an image of a client.
AddImage ==
    /\ \E c \in db.clients \ del.clients :
         db' = [db EXCEPT !.owned = @ \cup
                   {[id |-> nextId, kind |-> "image", client |-> c]}]
    /\ files' = files \cup {nextId}
    /\ NewId
    /\ UNCHANGED <<transaction, dpc, run>>

-----------------------------------------------------------------------------
Console == AddShortcut \/ AddUse \/ AddImage

RunStep ==
    \/ UndoMade \/ UndoNotMade \/ FindMachines \/ FindShortcuts \/ NextShortcuts
    \/ CleanReports \/ CleanCustoms \/ CleanTasks \/ CleanConfigs
    \/ CleanInventory \/ OpenImages \/ CleanImage
    \/ CleanMachines \/ FindFolders \/ CleanDecommission \/ CleanFolders
    \/ Commit \/ Refresh \/ RunFails

DNext == StartClients \/ StartFolders \/ RunStep \/ Console

\* A script that was started goes on: its statements return.
DSpec == DInit /\ [][DNext]_dVars /\ WF_dVars(RunStep)

-----------------------------------------------------------------------------
(* Properties. *)

\* What a run commits refers to nothing that is not there: no task, report,
\* shortcut, configuration or image of a deleted client stays behind, and no
\* folder goes with a shortcut in it.  The exceptions are rows that console
\* users added while a run was under way, which the scripts do not look for
\* again after their lists are made.
NothingDangles == Dangling(db) \subseteq late

\* The configuration of one client for a task never becomes the one of the
\* whole Default folder, unless it was added while a run was under way.
CustomConfigsStay ==
    \A u \in db.uses : u.kind = "custom" /\ u.view = Default => u.id \in late

\* When delclients reports its clients cleaned they are gone, all of them
\* however many batches they took; and none had an image, but for one taken
\* while the run was under way (delclients.wsf:258-276).
CleanedAreGone ==
    dpc = "refresh" /\ script = "clients" =>
        /\ found \cap db.clients = {}
        /\ \A o \in db.owned : o.client \in found => o.id \in late

\* What delclients commits can be put back from its own undo cabinet, when one
\* was made: every row it deletes was there or was added since.
UndoHoldsDeleted ==
    dpc = "commit" /\ undo # None =>
        /\ del.clients \subseteq undo.clients
        /\ AllIds(del) \subseteq AllIds(undo) \cup late

\* Nobody else's data is touched: clients, their shortcuts and their image
\* files are lost only when their name matches, and tasks are never lost, they
\* keep their folder or client or go to the Default folder.
OthersUntouched ==
    [][/\ db.clients \ db'.clients \subseteq wanted
       /\ \A v \in db.views \ db'.views :
            IF v.client = None THEN v.id \in wanted ELSE v.client \in wanted
       /\ \A i \in files \ files' :
            \E o \in db.owned : o.id = i /\ o.client \in wanted
       /\ \A u \in db.uses : u.kind = "task" =>
            \E w \in db'.uses : w.id = u.id /\ w.view \in {u.view, Default}]_tables

\* Every run ends: its loops run until keysToSet has emptied a dictionary
\* (delclients.wsf:239-263, 330-352).
RunEnds == dpc # "idle" ~> dpc = "idle"

\* The row of an image goes together with the file it names
\* (delclients.wsf:60-62, 485-504).
ImagesAreWhole ==
    dpc = "idle" => files = Ids({o \in db.owned : o.kind = "image"})
=============================================================================
