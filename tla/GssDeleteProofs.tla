-------------------------- MODULE GssDeleteProofs ---------------------------
(***************************************************************************)
(* Proofs about GssDelete, for any database, any number of clients and of  *)
(* runs, any batch size and whatever fails: nobody else's data is touched, *)
(* what is deleted is in the undo cabinet, and nothing is left behind that *)
(* refers to it.                                                           *)
(***************************************************************************)
EXTENDS GssDelete, TLAPS

-----------------------------------------------------------------------------
(* The invariant. *)

Todo == [clients : SUBSET Clients, shortcuts : SUBSET Nat,
         configs : SUBSET Nat]

\* What the tables, the transaction and the run's variables are made of.
TablesOK ==
    /\ db \in Db /\ del \in Db
    /\ todo \in Todo
    /\ script \in {"clients", "folders"}
    /\ nextId \in Nat

\* Two rows of views never have one identifier, and the next one is free.
IdsUnique ==
    /\ \A v, w \in db.views : v.id = w.id => v = w
    /\ \A v \in db.views : v.id < nextId

\* The transaction deletes, and its cursor visits, rows that are there.
DeletesRows ==
    /\ del.clients \subseteq db.clients /\ del.views \subseteq db.views
    /\ del.uses \subseteq db.uses /\ del.owned \subseteq db.owned
    /\ cursor \subseteq db.owned

\* Which of the two scripts takes a step.
ClientSteps == {"backup", "lists", "shortcuts", "configs", "inventory", "open",
                "machines"}
FolderSteps == {"decommission", "folders"}
SharedSteps == {"reports", "customs", "tasks"}

StepsOfScript ==
    /\ dpc \in ClientSteps => script = "clients"
    /\ dpc \in FolderSteps => script = "folders"

\* Everything the run works on and has deleted matches its pattern.
Matches(v) == IF v.client = None THEN v.id \in wanted ELSE v.client \in wanted

WorkMatches ==
    /\ todo.clients \subseteq wanted \cap db.clients
    /\ dpc = "machines" => batch \subseteq wanted \cap db.clients
    /\ script = "folders" /\ dpc \in FolderSteps \cup SharedSteps =>
         \A i \in batch : \E v \in db.views : v.id = i /\ v.client = None
                                                     /\ i \in wanted
    /\ \A o \in cursor : o.client \in wanted

DeletedMatches ==
    /\ del.clients \subseteq wanted
    /\ \A v \in del.views : Matches(v)
    /\ \A u \in del.uses : u.kind # "task"

\* Between two runs there is no work, and none with clients in a folder run or
\* at the end of a client run.
IdleClean ==
    /\ dpc = "idle" => del = Nothing /\ todo = NoTodo /\ cursor = {}
    /\ dpc = "commit" \/ script = "folders" =>
           todo.clients = {} /\ cursor = {}

\* The undo cabinet holds all but what console users have added since.
UndoHolds ==
    undo # None /\ dpc \notin {"idle", "refresh"} =>
        /\ db.clients \subseteq undo.clients
        /\ AllIds(db) \subseteq AllIds(undo) \cup late

DeleteInv ==
    /\ TablesOK /\ IdsUnique /\ DeletesRows /\ StepsOfScript /\ WorkMatches
    /\ DeletedMatches /\ IdleClean /\ UndoHolds

-----------------------------------------------------------------------------
(* Lemmas. *)

LEMMA KeysAreLeft ==
    ASSUME NEW left, NEW what \in KeysToSet(left) PROVE what \subseteq left
BY DEF KeysToSet

LEMMA NothingType == Nothing \in Db /\ NoTodo \in Todo
BY DEF Nothing, NoTodo, Db, Todo

\* Rows are deleted only among those the tables have.
LEMMA MoreIds ==
    ASSUME NEW c, NEW d, c.views \subseteq d.views, c.uses \subseteq d.uses,
           c.owned \subseteq d.owned
    PROVE  AllIds(c) \subseteq AllIds(d)
BY DEF AllIds, Ids

LEMMA InitDelete == DInit => DeleteInv
<1> SUFFICES ASSUME DInit PROVE DeleteInv
  OBVIOUS
<1> USE DEF DInit
<1>1. TablesOK
  BY DeleteAssumption, NothingType DEF TablesOK
<1>2. IdsUnique
  BY DeleteAssumption DEF IdsUnique, AllIds, Ids
<1>3. DeletesRows /\ WorkMatches /\ DeletedMatches
  BY DEF DeletesRows, WorkMatches, DeletedMatches, Nothing, NoTodo
<1>4. StepsOfScript /\ IdleClean /\ UndoHolds
  BY DEF StepsOfScript, ClientSteps, FolderSteps, IdleClean, UndoHolds
<1> QED BY <1>1, <1>2, <1>3, <1>4 DEF DeleteInv

\* A run that ends leaves the tables as they are.
LEMMA EndInv ==
    ASSUME DeleteInv, End, UNCHANGED <<db, observed>>
    PROVE  DeleteInv'
<1> USE DEF End, observed
<1>1. TablesOK' /\ IdsUnique'
  BY NothingType DEF DeleteInv, TablesOK, IdsUnique
<1>2. DeletesRows' /\ WorkMatches' /\ DeletedMatches'
  BY DEF DeletesRows, WorkMatches, DeletedMatches, Nothing, NoTodo, FolderSteps,
         SharedSteps
<1>3. StepsOfScript' /\ IdleClean' /\ UndoHolds'
  BY DEF StepsOfScript, ClientSteps, FolderSteps, IdleClean, UndoHolds, NoTodo
<1> QED BY <1>1, <1>2, <1>3 DEF DeleteInv

-----------------------------------------------------------------------------
(* The parts the two scripts share. *)

LEMMA DeleteUsesInv ==
    ASSUME DeleteInv, NEW kinds \in SUBSET (UseKinds \ {"task"}),
           DeleteUses(kinds), dpc \in FolderSteps \cup SharedSteps,
           dpc' \in SharedSteps, UNCHANGED <<tables, run, observed>>
    PROVE  DeleteInv'
<1> USE DEF tables, run, observed
<1> DEFINE rows == {u \in db.uses : u.kind \in kinds /\ u.view \in batch}
<1>1. del' = [del EXCEPT !.uses = @ \cup rows]
  BY DEF DeleteUses
<1>2. TablesOK'
  BY <1>1 DEF DeleteInv, TablesOK, Db
<1>3. /\ del'.clients = del.clients /\ del'.views = del.views
      /\ del'.owned = del.owned /\ del'.uses = del.uses \cup rows
  BY <1>1 DEF DeleteInv, TablesOK, Db
<1>4. IdsUnique' /\ DeletesRows' /\ DeletedMatches'
  BY <1>3 DEF DeleteInv, IdsUnique, DeletesRows, DeletedMatches, Matches
<1>5. WorkMatches' /\ StepsOfScript' /\ IdleClean' /\ UndoHolds'
  BY DEF DeleteInv, WorkMatches, StepsOfScript, IdleClean, UndoHolds,
         ClientSteps, FolderSteps, SharedSteps
<1> QED BY <1>2, <1>4, <1>5 DEF DeleteInv

LEMMA CleanUsesInv ==
    ASSUME DeleteInv, CleanReports \/ CleanCustoms PROVE DeleteInv'
<1>1. {"report"} \in SUBSET (UseKinds \ {"task"})
      /\ {"custom"} \in SUBSET (UseKinds \ {"task"})
  BY DEF UseKinds
<1>2. CASE CleanReports
  BY <1>1, <1>2, DeleteUsesInv DEF CleanReports, FolderSteps, SharedSteps
<1>3. CASE CleanCustoms
  BY <1>1, <1>3, DeleteUsesInv DEF CleanCustoms, FolderSteps, SharedSteps
<1> QED BY <1>2, <1>3

LEMMA CleanTasksInv == ASSUME DeleteInv, CleanTasks PROVE DeleteInv'
<1> USE DEF CleanTasks, tables, run, observed
<1>1. TablesOK' /\ IdsUnique' /\ DeletesRows' /\ DeletedMatches'
  BY DEF DeleteInv, TablesOK, IdsUnique, DeletesRows, DeletedMatches, Matches
<1>2. /\ dpc' \in {"folders", "shortcuts", "configs", "inventory"}
      /\ dpc' = "folders" => script = "folders"
      /\ dpc' # "folders" => script # "folders"
  BY DEF AfterTasks
<1>3. WorkMatches'
  BY <1>2 DEF DeleteInv, WorkMatches, FolderSteps, SharedSteps
<1>4. StepsOfScript'
  <2>1. script \in {"clients", "folders"}
    BY DEF DeleteInv, TablesOK
  <2> QED BY <1>2, <2>1 DEF StepsOfScript, ClientSteps, FolderSteps
<1>5. IdleClean' /\ UndoHolds'
  BY <1>2 DEF DeleteInv, IdleClean, UndoHolds
<1> QED BY <1>1, <1>3, <1>4, <1>5 DEF DeleteInv

\* What the transaction leaves is a database again.
LEMMA SeenType ==
    ASSUME TablesOK
    PROVE  /\ Seen \in Db
           /\ Seen.clients = db.clients \ del.clients
           /\ Seen.views = db.views \ del.views
<1>1. \A u \in db.uses : [u EXCEPT !.view = Default] \in Use
  BY DEF TablesOK, Db, Use, Default
<1>2. {IF u.id \in moved THEN [u EXCEPT !.view = Default] ELSE u
         : u \in db.uses \ del.uses} \subseteq Use
  BY <1>1 DEF TablesOK, Db
<1> QED BY <1>2 DEF TablesOK, Db, Seen

LEMMA CommitInv == ASSUME DeleteInv, Commit PROVE DeleteInv'
<1> USE DEF Commit, run, observed
<1>1. /\ db' \in Db /\ db'.clients = db.clients \ del.clients
      /\ db'.views = db.views \ del.views
  BY SeenType DEF DeleteInv
<1>2. TablesOK'
  BY <1>1, NothingType DEF DeleteInv, TablesOK
<1>3. IdsUnique'
  BY <1>1 DEF DeleteInv, IdsUnique
<1>4. todo.clients = {} /\ cursor = {}
  BY DEF DeleteInv, IdleClean
<1>5. DeletesRows' /\ DeletedMatches'
  BY <1>4 DEF DeletesRows, DeletedMatches, Nothing
<1>6. WorkMatches' /\ StepsOfScript' /\ IdleClean' /\ UndoHolds'
  BY <1>4 DEF WorkMatches, StepsOfScript, IdleClean, UndoHolds,
         ClientSteps, FolderSteps, SharedSteps
<1> QED BY <1>2, <1>3, <1>5, <1>6 DEF DeleteInv

LEMMA RunEndsInv ==
    ASSUME DeleteInv, Refresh \/ RunFails \/ CleanImage
    PROVE  DeleteInv'
BY EndInv DEF Refresh, RunFails, CleanImage, tables

-----------------------------------------------------------------------------
(* delclients.wsf *)

LEMMA StartClientsInv == ASSUME DeleteInv, StartClients PROVE DeleteInv'
<1> USE DEF StartClients, tables, transaction, observed
<1>1. del = Nothing /\ todo = NoTodo /\ cursor = {}
  BY DEF DeleteInv, IdleClean
<1>2. TablesOK' /\ IdsUnique' /\ DeletesRows'
  BY DEF DeleteInv, TablesOK, IdsUnique, DeletesRows
<1>3. WorkMatches' /\ DeletedMatches'
  BY <1>1 DEF WorkMatches, DeletedMatches, Nothing, NoTodo
<1>4. StepsOfScript' /\ IdleClean' /\ UndoHolds'
  BY <1>1 DEF StepsOfScript, ClientSteps, FolderSteps, IdleClean, UndoHolds
<1> QED BY <1>2, <1>3, <1>4 DEF DeleteInv

LEMMA UndoMadeInv == ASSUME DeleteInv, UndoMade PROVE DeleteInv'
<1> USE DEF UndoMade, tables, transaction, observed
<1>1. TablesOK' /\ IdsUnique' /\ DeletesRows' /\ DeletedMatches'
  BY DEF DeleteInv, TablesOK, IdsUnique, DeletesRows, DeletedMatches, Matches
<1>2. WorkMatches' /\ StepsOfScript' /\ IdleClean' /\ UndoHolds'
  BY DEF DeleteInv, WorkMatches, StepsOfScript, IdleClean, UndoHolds,
         ClientSteps, FolderSteps, SharedSteps
<1> QED BY <1>1, <1>2 DEF DeleteInv

LEMMA UndoNotMadeInv == ASSUME DeleteInv, UndoNotMade PROVE DeleteInv'
<1>1. CASE dpc' = "find" /\ UNCHANGED <<tables, transaction, run, observed>>
  <2> USE <1>1 DEF UndoNotMade, tables, transaction, run, observed
  <2>1. TablesOK' /\ IdsUnique' /\ DeletesRows' /\ DeletedMatches'
    BY DEF DeleteInv, TablesOK, IdsUnique, DeletesRows, DeletedMatches, Matches
  <2>2. WorkMatches' /\ StepsOfScript' /\ IdleClean' /\ UndoHolds'
    BY DEF DeleteInv, WorkMatches, StepsOfScript, IdleClean, UndoHolds,
           ClientSteps, FolderSteps, SharedSteps
  <2> QED BY <2>1, <2>2 DEF DeleteInv
<1>2. CASE End /\ UNCHANGED <<tables, observed>>
  BY <1>2, EndInv DEF tables
<1> QED BY <1>1, <1>2 DEF UndoNotMade

LEMMA FindMachinesInv == ASSUME DeleteInv, FindMachines PROVE DeleteInv'
<1>1. CASE FilterMachines = {}
  BY <1>1, EndInv DEF FindMachines, tables
<1>2. CASE FilterMachines # {}
  <2> USE <1>2 DEF FindMachines, tables, transaction, observed
  <2>1. FilterMachines \subseteq wanted \cap db.clients
    BY DEF FilterMachines
  <2>2. db.clients \subseteq Clients
    BY DEF DeleteInv, TablesOK, Db
  <2>3. todo' \in Todo /\ todo'.clients = FilterMachines
    BY <2>1, <2>2 DEF NoTodo, Todo
  <2>4. TablesOK' /\ IdsUnique' /\ DeletesRows' /\ DeletedMatches'
    BY <2>3 DEF DeleteInv, TablesOK, IdsUnique, DeletesRows, DeletedMatches,
                Matches
  <2>5. WorkMatches' /\ StepsOfScript' /\ IdleClean' /\ UndoHolds'
    BY <2>1, <2>3 DEF DeleteInv, WorkMatches, StepsOfScript, IdleClean,
           UndoHolds, ClientSteps, FolderSteps, SharedSteps
  <2> QED BY <2>4, <2>5 DEF DeleteInv
<1> QED BY <1>1, <1>2

\* A step that only takes work out of the run's dictionaries, or puts
\* shortcuts and configurations in.
LEMMA ListsInv ==
    ASSUME DeleteInv, FindShortcuts \/ NextShortcuts PROVE DeleteInv'
<1> USE DEF FindShortcuts, NextShortcuts, tables, transaction, observed
<1>1. todo' \in Todo /\ todo'.clients = todo.clients
  <2>1. CASE FindShortcuts
    <3> DEFINE shortcuts == Ids({v \in db.views : v.client \in todo.clients})
               configs == Ids({o \in db.owned : /\ o.kind = "config"
                                                /\ o.client \in todo.clients})
    <3>1. shortcuts \in SUBSET Nat /\ configs \in SUBSET Nat /\ todo \in Todo
      BY DEF DeleteInv, TablesOK, Db, View, Owned, Ids
    <3>2. todo' = [todo EXCEPT !.shortcuts = shortcuts, !.configs = configs]
      BY <2>1 DEF FindShortcuts
    <3> HIDE DEF shortcuts, configs
    <3> QED BY <3>1, <3>2 DEF Todo
  <2>2. CASE NextShortcuts
    BY <2>2 DEF DeleteInv, TablesOK, Todo, Rest
  <2> QED BY <2>1, <2>2
<1>2. dpc \in ClientSteps /\ script = "clients" /\ dpc' \in {"shortcuts", "reports"}
  BY DEF DeleteInv, StepsOfScript, ClientSteps
<1>3. TablesOK' /\ IdsUnique' /\ DeletesRows' /\ DeletedMatches'
  BY <1>1 DEF DeleteInv, TablesOK, IdsUnique, DeletesRows, DeletedMatches,
              Matches
<1>4. WorkMatches' /\ StepsOfScript' /\ IdleClean' /\ UndoHolds'
  BY <1>1, <1>2 DEF DeleteInv, WorkMatches, StepsOfScript, IdleClean,
         UndoHolds, ClientSteps, FolderSteps, SharedSteps
<1> QED BY <1>3, <1>4 DEF DeleteInv

LEMMA CleanConfigsInv == ASSUME DeleteInv, CleanConfigs PROVE DeleteInv'
<1> USE DEF CleanConfigs, tables, observed
<1> DEFINE rows == {o \in db.owned : o.id \in batch'}
<1>1. todo' \in Todo /\ todo'.clients = todo.clients
  BY DEF DeleteInv, TablesOK, Todo, Rest
<1>2. /\ del' \in Db /\ del'.clients = del.clients /\ del'.views = del.views
      /\ del'.uses = del.uses /\ del'.owned = del.owned \cup rows
  BY DEF DeleteInv, TablesOK, Db
<1>3. dpc' \in {"configs", "inventory"} /\ script = "clients"
  BY DEF DeleteInv, StepsOfScript, ClientSteps
<1>4. TablesOK' /\ IdsUnique'
  BY <1>1, <1>2 DEF DeleteInv, TablesOK, IdsUnique
<1>5. DeletesRows' /\ DeletedMatches'
  BY <1>2 DEF DeleteInv, DeletesRows, DeletedMatches, Matches
<1>6. WorkMatches' /\ StepsOfScript' /\ IdleClean' /\ UndoHolds'
  BY <1>1, <1>3 DEF DeleteInv, WorkMatches, StepsOfScript, IdleClean,
         UndoHolds, ClientSteps, FolderSteps, SharedSteps
<1> QED BY <1>4, <1>5, <1>6 DEF DeleteInv

LEMMA CleanInventoryInv == ASSUME DeleteInv, CleanInventory PROVE DeleteInv'
<1> USE DEF CleanInventory, tables, run, observed
<1> DEFINE rows == {o \in db.owned : /\ o.kind = "inventory"
                                     /\ o.client \in todo.clients}
<1>1. /\ del' \in Db /\ del'.clients = del.clients /\ del'.views = del.views
      /\ del'.uses = del.uses /\ del'.owned = del.owned \cup rows
  BY DEF DeleteInv, TablesOK, Db
<1>2. TablesOK' /\ IdsUnique'
  BY <1>1 DEF DeleteInv, TablesOK, IdsUnique
<1>3. DeletesRows' /\ DeletedMatches'
  BY <1>1 DEF DeleteInv, DeletesRows, DeletedMatches, Matches
<1>4. WorkMatches' /\ StepsOfScript' /\ IdleClean' /\ UndoHolds'
  BY DEF DeleteInv, WorkMatches, StepsOfScript, IdleClean,
         UndoHolds, ClientSteps, FolderSteps, SharedSteps
<1> QED BY <1>2, <1>3, <1>4 DEF DeleteInv

LEMMA OpenImagesInv == ASSUME DeleteInv, OpenImages PROVE DeleteInv'
<1> USE DEF OpenImages, tables, transaction, observed
<1>1. batch' \subseteq todo.clients
  BY KeysAreLeft
<1>2. todo' \in Todo /\ todo'.clients \subseteq todo.clients
  BY DEF DeleteInv, TablesOK, Todo, Rest
<1>3. script = "clients"
  BY DEF DeleteInv, StepsOfScript, ClientSteps
<1>4. cursor' \subseteq db.owned /\ \A o \in cursor' : o.client \in wanted
  BY <1>1 DEF DeleteInv, WorkMatches
<1>5. TablesOK' /\ IdsUnique'
  BY <1>2 DEF DeleteInv, TablesOK, IdsUnique
<1>6. DeletesRows' /\ DeletedMatches'
  BY <1>4 DEF DeleteInv, DeletesRows, DeletedMatches, Matches
<1>7. WorkMatches'
  BY <1>1, <1>2, <1>3, <1>4 DEF DeleteInv, WorkMatches, FolderSteps, SharedSteps
<1>8. StepsOfScript' /\ IdleClean' /\ UndoHolds'
  BY <1>3 DEF DeleteInv, StepsOfScript, IdleClean, UndoHolds, ClientSteps,
              FolderSteps
<1> QED BY <1>5, <1>6, <1>7, <1>8 DEF DeleteInv

LEMMA CleanMachinesInv == ASSUME DeleteInv, CleanMachines PROVE DeleteInv'
<1> USE DEF CleanMachines, tables, run, observed
<1> DEFINE rows == {v \in db.views : v.client \in batch}
<1>1. batch \subseteq wanted \cap db.clients /\ db.clients \subseteq Clients
      /\ script = "clients"
  BY DEF DeleteInv, WorkMatches, TablesOK, Db, StepsOfScript, ClientSteps
<1>2. /\ del' \in Db /\ del'.clients = del.clients \cup batch
      /\ del'.views = del.views \cup rows
      /\ del'.uses = del.uses /\ del'.owned = del.owned
  <2>1. del' = [del EXCEPT !.views = @ \cup rows, !.clients = @ \cup batch]
    OBVIOUS
  <2>2. rows \subseteq View /\ batch \subseteq Clients
    BY <1>1 DEF DeleteInv, TablesOK, Db
  <2>3. del \in Db
    BY DEF DeleteInv, TablesOK
  <2> HIDE DEF rows, CleanMachines
  <2> QED BY <2>1, <2>2, <2>3 DEF Db
<1>3. \A v \in rows : Matches(v)
  BY <1>1, DeleteAssumption DEF Matches
<1>4. TablesOK' /\ IdsUnique'
  BY <1>2 DEF DeleteInv, TablesOK, IdsUnique
<1>5. DeletesRows' /\ DeletedMatches'
  BY <1>1, <1>2, <1>3 DEF DeleteInv, DeletesRows, DeletedMatches, Matches
<1>6. WorkMatches' /\ StepsOfScript'
  BY <1>1 DEF DeleteInv, WorkMatches, StepsOfScript, ClientSteps, FolderSteps,
              SharedSteps
<1>7. IdleClean' /\ UndoHolds'
  BY <1>1 DEF DeleteInv, IdleClean, UndoHolds
<1> QED BY <1>4, <1>5, <1>6, <1>7 DEF DeleteInv

-----------------------------------------------------------------------------
(* delfolders.wsf *)

LEMMA StartFoldersInv == ASSUME DeleteInv, StartFolders PROVE DeleteInv'
<1> USE DEF StartFolders, tables, transaction, observed
<1>1. del = Nothing /\ todo = NoTodo /\ cursor = {}
  BY DEF DeleteInv, IdleClean
<1>2. TablesOK' /\ IdsUnique' /\ DeletesRows'
  BY DEF DeleteInv, TablesOK, IdsUnique, DeletesRows
<1>3. WorkMatches' /\ DeletedMatches'
  BY <1>1 DEF WorkMatches, DeletedMatches, Nothing, NoTodo, FolderSteps,
              SharedSteps
<1>4. StepsOfScript' /\ IdleClean' /\ UndoHolds'
  BY <1>1 DEF StepsOfScript, ClientSteps, FolderSteps, IdleClean, UndoHolds,
              NoTodo
<1> QED BY <1>2, <1>3, <1>4 DEF DeleteInv

LEMMA FindFoldersInv == ASSUME DeleteInv, FindFolders PROVE DeleteInv'
<1>1. CASE FilterFolders = {}
  BY <1>1, EndInv DEF FindFolders, tables
<1>2. CASE FilterFolders # {}
  <2> USE <1>2 DEF FindFolders, tables, transaction, observed
  <2>1. \A i \in FilterFolders : \E v \in db.views :
            v.id = i /\ v.client = None /\ i \in wanted
    BY DEF FilterFolders
  <2>2. TablesOK' /\ IdsUnique' /\ DeletesRows' /\ DeletedMatches'
    BY DEF DeleteInv, TablesOK, IdsUnique, DeletesRows, DeletedMatches,
           Matches
  <2>3. WorkMatches' /\ StepsOfScript' /\ IdleClean' /\ UndoHolds'
    BY <2>1 DEF DeleteInv, WorkMatches, StepsOfScript, IdleClean,
           UndoHolds, ClientSteps, FolderSteps, SharedSteps
  <2> QED BY <2>2, <2>3 DEF DeleteInv
<1> QED BY <1>1, <1>2

LEMMA CleanDecommissionInv ==
    ASSUME DeleteInv, CleanDecommission PROVE DeleteInv'
<1> USE DEF CleanDecommission, tables, run, observed
<1> DEFINE rows == {u \in db.uses : u.kind = "decommission"}
<1>1. /\ del' \in Db /\ del'.clients = del.clients /\ del'.views = del.views
      /\ del'.uses = del.uses \cup rows /\ del'.owned = del.owned
  BY DEF DeleteInv, TablesOK, Db
<1>2. TablesOK' /\ IdsUnique'
  BY <1>1 DEF DeleteInv, TablesOK, IdsUnique
<1>3. DeletesRows' /\ DeletedMatches'
  BY <1>1 DEF DeleteInv, DeletesRows, DeletedMatches, Matches
<1>4. WorkMatches' /\ StepsOfScript' /\ IdleClean' /\ UndoHolds'
  BY DEF DeleteInv, WorkMatches, StepsOfScript, IdleClean,
         UndoHolds, ClientSteps, FolderSteps, SharedSteps
<1> QED BY <1>2, <1>3, <1>4 DEF DeleteInv

LEMMA CleanFoldersInv == ASSUME DeleteInv, CleanFolders PROVE DeleteInv'
<1> USE DEF CleanFolders, tables, run, observed
<1> DEFINE rows == {v \in db.views : v.id \in batch}
<1>1. script = "folders"
  BY DEF DeleteInv, StepsOfScript, FolderSteps
<1>2. \A v \in rows : v.client = None /\ v.id \in wanted
  <2> SUFFICES ASSUME NEW v \in rows PROVE v.client = None /\ v.id \in wanted
    OBVIOUS
  <2>1. PICK w \in db.views : w.id = v.id /\ w.client = None /\ v.id \in wanted
    BY <1>1 DEF DeleteInv, WorkMatches, FolderSteps
  <2>2. v = w
    BY <2>1 DEF DeleteInv, IdsUnique
  <2> QED BY <2>1, <2>2
<1>3. /\ del' \in Db /\ del'.clients = del.clients /\ del'.owned = del.owned
      /\ del'.uses = del.uses /\ del'.views = del.views \cup rows
  BY DEF DeleteInv, TablesOK, Db
<1>4. TablesOK' /\ IdsUnique'
  BY <1>3 DEF DeleteInv, TablesOK, IdsUnique
<1>5. DeletesRows' /\ DeletedMatches'
  BY <1>2, <1>3 DEF DeleteInv, DeletesRows, DeletedMatches, Matches
<1>6. WorkMatches' /\ StepsOfScript' /\ IdleClean' /\ UndoHolds'
  BY <1>1 DEF DeleteInv, WorkMatches, StepsOfScript, IdleClean,
         UndoHolds, ClientSteps, FolderSteps, SharedSteps
<1> QED BY <1>4, <1>5, <1>6 DEF DeleteInv

-----------------------------------------------------------------------------
(* Console users. *)

\* A row more, with a fresh identifier, disturbs nothing.
LEMMA AddedRowInv ==
    ASSUME DeleteInv, NewId, UNCHANGED <<transaction, dpc, run>>,
           db' \in Db, db'.clients = db.clients,
           db.views \subseteq db'.views, db.uses \subseteq db'.uses,
           db.owned \subseteq db'.owned,
           \A v \in db'.views \ db.views : v.id = nextId,
           \A v, w \in db'.views \ db.views : v = w,
           AllIds(db') \subseteq AllIds(db) \cup {nextId}
    PROVE  DeleteInv'
<1> USE DEF transaction, run, NewId
<1>1. TablesOK'
  BY DEF DeleteInv, TablesOK
<1>2. IdsUnique'
  <2>1. \A v \in db.views : v.id \in Nat /\ v.id < nextId /\ nextId \in Nat
    BY DEF DeleteInv, TablesOK, IdsUnique, Db, View
  <2>2. \A v \in db'.views : v.id < nextId + 1
    BY <2>1 DEF DeleteInv, TablesOK
  <2>3. ASSUME NEW v \in db'.views, NEW w \in db'.views, v.id = w.id
        PROVE  v = w
    <3>1. CASE v \in db.views /\ w \in db.views
      BY <2>3, <3>1 DEF DeleteInv, IdsUnique
    <3>2. CASE v \notin db.views /\ w \notin db.views
      BY <3>2
    <3>3. CASE v \in db.views /\ w \notin db.views
      BY <2>1, <2>3, <3>3
    <3>4. CASE v \notin db.views /\ w \in db.views
      BY <2>1, <2>3, <3>4
    <3> QED BY <3>1, <3>2, <3>3, <3>4
  <2> QED BY <2>2, <2>3 DEF IdsUnique
<1>3. DeletesRows' /\ DeletedMatches'
  BY DEF DeleteInv, DeletesRows, DeletedMatches, Matches
<1>4. WorkMatches' /\ StepsOfScript' /\ IdleClean'
  BY DEF DeleteInv, WorkMatches, StepsOfScript, IdleClean
<1>5. UndoHolds'
  <2> SUFFICES ASSUME undo # None, dpc \notin {"idle", "refresh"}
               PROVE  /\ db'.clients \subseteq undo.clients
                      /\ AllIds(db') \subseteq AllIds(undo) \cup late'
    BY DEF UndoHolds
  <2>1. /\ db.clients \subseteq undo.clients
        /\ AllIds(db) \subseteq AllIds(undo) \cup late
    BY DEF DeleteInv, UndoHolds
  <2>2. late' = late \cup {nextId}
    OBVIOUS
  <2> QED BY <2>1, <2>2
<1> QED BY <1>1, <1>2, <1>3, <1>4, <1>5 DEF DeleteInv

LEMMA ConsoleInv == ASSUME DeleteInv, Console PROVE DeleteInv'
<1>1. db \in Db /\ nextId \in Nat
  BY DEF DeleteInv, TablesOK
<1>2. CASE AddShortcut
  <2>1. PICK c \in db.clients \ del.clients, v \in db.views \ del.views :
            db' = [db EXCEPT !.views = @ \cup
                      {[id |-> nextId, client |-> c, parent |-> v.id]}]
    BY <1>2 DEF AddShortcut
  <2> DEFINE row == [id |-> nextId, client |-> c, parent |-> v.id]
  <2>2. row \in View /\ row.id = nextId
    BY <1>1 DEF Db, View
  <2> HIDE DEF row
  <2>3. /\ db' \in Db /\ db'.clients = db.clients /\ db'.uses = db.uses
        /\ db'.owned = db.owned /\ db'.views = db.views \cup {row}
    BY <1>1, <2>1, <2>2 DEF Db, row
  <2>4. AllIds(db') \subseteq AllIds(db) \cup {nextId}
    BY <2>2, <2>3 DEF AllIds, Ids
  <2> QED BY <1>2, <2>2, <2>3, <2>4, AddedRowInv DEF AddShortcut
<1>3. CASE AddUse
  <2>1. PICK k \in UseKinds, v \in db.views \ del.views :
            db' = [db EXCEPT !.uses = @ \cup
                      {[id |-> nextId, kind |-> k, view |-> v.id]}]
    BY <1>3 DEF AddUse
  <2> DEFINE row == [id |-> nextId, kind |-> k, view |-> v.id]
  <2>2. row \in Use /\ row.id = nextId
    BY <1>1 DEF Db, View, Use
  <2> HIDE DEF row
  <2>3. /\ db' \in Db /\ db'.clients = db.clients /\ db'.views = db.views
        /\ db'.owned = db.owned /\ db'.uses = db.uses \cup {row}
    BY <1>1, <2>1, <2>2 DEF Db, row
  <2>4. AllIds(db') \subseteq AllIds(db) \cup {nextId}
    BY <2>2, <2>3 DEF AllIds, Ids
  <2> QED BY <1>3, <2>3, <2>4, AddedRowInv DEF AddUse
<1>4. CASE AddImage
  <2>1. PICK c \in db.clients \ del.clients :
            db' = [db EXCEPT !.owned = @ \cup
                      {[id |-> nextId, kind |-> "image", client |-> c]}]
    BY <1>4 DEF AddImage
  <2> DEFINE row == [id |-> nextId, kind |-> "image", client |-> c]
  <2>2. row \in Owned /\ row.id = nextId
    BY <1>1 DEF Db, Owned, OwnedKinds
  <2> HIDE DEF row
  <2>3. /\ db' \in Db /\ db'.clients = db.clients /\ db'.views = db.views
        /\ db'.uses = db.uses /\ db'.owned = db.owned \cup {row}
    BY <1>1, <2>1, <2>2 DEF Db, row
  <2>4. AllIds(db') \subseteq AllIds(db) \cup {nextId}
    BY <2>2, <2>3 DEF AllIds, Ids
  <2> QED BY <1>4, <2>3, <2>4, AddedRowInv DEF AddImage
<1> QED BY <1>2, <1>3, <1>4 DEF Console

-----------------------------------------------------------------------------
LEMMA StepInv == DeleteInv /\ [DNext]_dVars => DeleteInv'
<1> SUFFICES ASSUME DeleteInv, [DNext]_dVars PROVE DeleteInv'
  OBVIOUS
<1>1. CASE RunStep
  BY <1>1, UndoMadeInv, UndoNotMadeInv, FindMachinesInv, ListsInv, CleanUsesInv,
     CleanTasksInv, CleanConfigsInv, CleanInventoryInv, OpenImagesInv,
     CleanMachinesInv, FindFoldersInv,
     CleanDecommissionInv, CleanFoldersInv, CommitInv, RunEndsInv DEF RunStep
<1>2. CASE StartClients \/ StartFolders
  BY <1>2, StartClientsInv, StartFoldersInv
<1>3. CASE Console
  BY <1>3, ConsoleInv
<1>4. CASE UNCHANGED dVars
  <2> USE <1>4 DEF dVars, tables, transaction, run, observed
  <2>1. TablesOK' /\ IdsUnique' /\ DeletesRows' /\ DeletedMatches'
    BY DEF DeleteInv, TablesOK, IdsUnique, DeletesRows, DeletedMatches, Matches
  <2>2. WorkMatches' /\ StepsOfScript' /\ IdleClean' /\ UndoHolds'
    BY DEF DeleteInv, WorkMatches, StepsOfScript, IdleClean, UndoHolds
  <2> QED BY <2>1, <2>2 DEF DeleteInv
<1> QED BY <1>1, <1>2, <1>3, <1>4 DEF DNext

LEMMA DeleteAlways == DSpec => []DeleteInv
<1>1. DInit => DeleteInv
  BY InitDelete
<1>2. DeleteInv /\ [DNext]_dVars => DeleteInv'
  BY StepInv
<1> QED BY <1>1, <1>2, PTL DEF DSpec

-----------------------------------------------------------------------------
\* Every row delclients commits to delete is in its own undo cabinet, if one was
\* made, or was added after it (delclients.wsf:181), for any
\* database, any batch size, and whatever console users add.
THEOREM UndoAlwaysHoldsDeleted == DSpec => []UndoHoldsDeleted
<1>1. DeleteInv => UndoHoldsDeleted
  <2> SUFFICES ASSUME DeleteInv, dpc = "commit", undo # None
               PROVE  /\ del.clients \subseteq undo.clients
                      /\ AllIds(del) \subseteq AllIds(undo) \cup late
    BY DEF UndoHoldsDeleted
  <2>1. /\ db.clients \subseteq undo.clients
        /\ AllIds(db) \subseteq AllIds(undo) \cup late
    BY DEF DeleteInv, UndoHolds
  <2>2. del.clients \subseteq db.clients /\ AllIds(del) \subseteq AllIds(db)
    BY MoreIds DEF DeleteInv, DeletesRows
  <2> QED BY <2>1, <2>2
<1> QED BY <1>1, DeleteAlways, PTL

\* What a step may take from the database and the files.
TouchesOnlyWanted ==
    /\ db.clients \ db'.clients \subseteq wanted
    /\ \A v \in db.views \ db'.views :
         IF v.client = None THEN v.id \in wanted ELSE v.client \in wanted
    /\ \A i \in files \ files' :
         \E o \in db.owned : o.id = i /\ o.client \in wanted
    /\ \A u \in db.uses : u.kind = "task" =>
         \E w \in db'.uses : w.id = u.id /\ w.view \in {u.view, Default}

LEMMA TablesKept ==
    ASSUME db.clients \subseteq db'.clients, db.views \subseteq db'.views,
           db.uses \subseteq db'.uses, files \subseteq files'
    PROVE  TouchesOnlyWanted
BY DEF TouchesOnlyWanted

LEMMA FileTouched ==
    ASSUME DeleteInv, CleanImage
    PROVE  TouchesOnlyWanted
<1>1. PICK o \in cursor : files' = files \/ files' = files \ {o.id}
  BY DEF CleanImage
<1>2. o \in db.owned /\ o.client \in wanted
  BY DEF DeleteInv, DeletesRows, WorkMatches
<1>3. db' = db
  BY DEF CleanImage
<1> QED BY <1>1, <1>2, <1>3 DEF TouchesOnlyWanted

LEMMA CommitTouches == ASSUME DeleteInv, Commit PROVE TouchesOnlyWanted
<1>1. /\ db'.clients = db.clients \ del.clients
      /\ db'.views = db.views \ del.views /\ files' = files
  BY SeenType DEF Commit, DeleteInv
<1>2. ASSUME NEW u \in db.uses, u.kind = "task"
      PROVE  \E w \in db'.uses : w.id = u.id /\ w.view \in {u.view, Default}
  <2> DEFINE w == IF u.id \in moved THEN [u EXCEPT !.view = Default] ELSE u
  <2>1. u \notin del.uses /\ u \in Use
    BY <1>2 DEF DeleteInv, DeletedMatches, TablesOK, Db
  <2>2. w \in db'.uses
    BY <2>1 DEF Commit, Seen
  <2>3. w.id = u.id /\ w.view \in {u.view, Default}
    BY <2>1 DEF Use
  <2> QED BY <2>2, <2>3
<1>3. /\ del.clients \subseteq wanted
      /\ \A v \in del.views : Matches(v)
  BY DEF DeleteInv, DeletedMatches
<1> QED BY <1>1, <1>2, <1>3 DEF TouchesOnlyWanted, Matches

LEMMA ConsoleKeeps == ASSUME DeleteInv, Console PROVE TouchesOnlyWanted
<1>1. db \in Db
  BY DEF DeleteInv, TablesOK
<1>2. /\ db.clients \subseteq db'.clients /\ db.views \subseteq db'.views
      /\ db.uses \subseteq db'.uses /\ files \subseteq files'
  BY <1>1 DEF Console, AddShortcut, AddUse, AddImage, Db
<1> QED BY <1>2, TablesKept

\* Only Commit writes the tables, and only the image loop the files.
LEMMA OthersKeep ==
    ASSUME DeleteInv, RunStep, ~ (CleanImage \/ Commit)
    PROVE  TouchesOnlyWanted
<1>1. db' = db /\ files' = files
  BY DEF RunStep, UndoMade, UndoNotMade, FindMachines, FindShortcuts,
         NextShortcuts, CleanReports, CleanCustoms, CleanTasks, CleanConfigs,
         CleanInventory, OpenImages, CleanMachines, FindFolders,
         CleanDecommission, CleanFolders, Refresh, RunFails, tables
<1> QED BY <1>1, TablesKept

\* For any database, any number of clients and whatever fails, a run takes away
\* only clients, shortcuts, folders and image files that match its pattern, and
\* no task (delclients.wsf, clean_*; delfolders.wsf, clean_Folders).
THEOREM OthersNeverTouched == DSpec => OthersUntouched
<1>1. DeleteInv /\ [DNext]_dVars => [TouchesOnlyWanted]_tables
  <2> SUFFICES ASSUME DeleteInv, [DNext]_dVars PROVE [TouchesOnlyWanted]_tables
    OBVIOUS
  <2>1. CASE RunStep
    BY <2>1, FileTouched, CommitTouches, OthersKeep
  <2>2. CASE StartClients \/ StartFolders
    BY <2>2 DEF StartClients, StartFolders
  <2>3. CASE Console
    BY <2>3, ConsoleKeeps
  <2>4. CASE UNCHANGED dVars
    BY <2>4 DEF dVars
  <2> QED BY <2>1, <2>2, <2>3, <2>4 DEF DNext
<1> QED BY <1>1, DeleteAlways, PTL DEF DSpec, OthersUntouched, TouchesOnlyWanted

-----------------------------------------------------------------------------
(* What a run leaves behind: the invariant of the cleaning steps. *)

\* The steps of a client run once its lists are made, those after its last
\* batch of shortcuts, and those after its inventory.
ImageSteps == {"open", "machines", "commit"}
OwnedSteps == {"configs", "inventory"} \cup ImageSteps
ListSteps == {"shortcuts"} \cup SharedSteps \cup OwnedSteps

\* An identifier names one row of its table, and new ones are greater.
RowsNamed ==
    /\ \A u, w \in db.uses : u.id = w.id => u = w
    /\ \A o, p \in db.owned : o.id = p.id => o = p
    /\ \A i \in AllIds(db) : i < nextId

\* The Default folder is there, and only folders have something in them.
FoldersKept ==
    /\ \E v \in db.views : v.id = Default /\ v.client = None
    /\ \A v, w \in db.views :
         v.parent = w.id => w.client = None \/ v.id \in late

\* A run starts with an empty transaction and ends with empty dictionaries.
CleanStart ==
    /\ dpc \in {"idle", "backup", "find"} => del = Nothing /\ moved = {}
    /\ script = "folders" \/ dpc \in ImageSteps \cup {"inventory"} =>
         todo.configs = {}
    /\ script = "clients" /\ dpc \in OwnedSteps => todo.shortcuts = {}

\* The clients found are those deleted and those still to do.
FoundClients ==
    /\ script = "clients" /\ dpc \in {"lists"} \cup ListSteps =>
         /\ del.clients \subseteq found /\ todo.clients \subseteq found
         /\ found \subseteq del.clients \cup todo.clients
                            \cup IF dpc = "machines" THEN batch ELSE {}
         /\ dpc \notin ImageSteps => todo.clients = found
         /\ dpc = "machines" => batch \subseteq found
    /\ script = "folders" => del.clients = {}
    /\ script = "clients" /\ dpc = "refresh" => found \cap db.clients = {}

\* A deleted client has no shortcut left, only shortcuts go with it, and the
\* folders found had nothing in them.
ViewsDone ==
    /\ \A v \in db.views : v.client \in del.clients => v \in del.views
    /\ \A v \in del.views : IF script = "clients" THEN v.client \in found
                            ELSE v.id \in found
    /\ script = "folders"
       /\ dpc \in FolderSteps \cup SharedSteps \cup {"commit"} =>
         /\ batch = found /\ Default \notin found
         /\ \A v \in db.views : v.parent \in found => v.id \in late

\* A row that refers to a view was deleted, sent to the Default folder, or
\* added too late for the run to see it.
Handled(u) == u \in del.uses \/ u.id \in moved \/ u.id \in late

UsesDone ==
    /\ script = "clients" /\ dpc \in ListSteps =>
         \A u \in db.uses, v \in db.views :
             u.view = v.id /\ v.client \in found =>
                 \/ Handled(u)
                 \/ v.id \in todo.shortcuts
                 \/ dpc \in SharedSteps /\ v.id \in batch
    /\ script = "folders" /\ dpc \in {"folders", "commit"} =>
         \A u \in db.uses : u.view \in found => Handled(u)

\* Reports and custom configurations go before what is left is moved.
KindsDone ==
    \A u \in db.uses :
        /\ dpc \in {"customs", "tasks"} /\ u.kind = "report" /\ u.view \in batch
             => u \in del.uses \/ u.id \in late
        /\ dpc = "tasks" /\ u.kind = "custom" /\ u.view \in batch
             => u \in del.uses \/ u.id \in late
        /\ u.kind = "custom" /\ u.id \in moved => u \in del.uses \/ u.id \in late

\* The same for what belongs to a client, one kind after the other.
OwnedDone ==
    /\ script = "clients" /\ dpc \in ListSteps =>
         \A o \in db.owned : o.kind = "config" /\ o.client \in found =>
             o \in del.owned \/ o.id \in late \/ o.id \in todo.configs
    /\ script = "clients" /\ dpc \in ImageSteps =>
         \A o \in db.owned : o.kind = "inventory" /\ o.client \in found =>
             o \in del.owned \/ o.id \in late
    /\ \A o \in db.owned : o.kind = "image" =>
         /\ o.client \in del.clients => o \in del.owned \/ o.id \in late
         /\ dpc = "machines" /\ o.client \in batch =>
              o \in del.owned \/ o.id \in late \/ o \in cursor
    /\ \A i \in todo.configs :
         \E o \in db.owned : o.id = i /\ o.kind = "config"

\* Every row but those added during a run refers to something that is there.
RefersToRows ==
    /\ \A v \in db.views : v.id \in late \/
         /\ v.client = None \/ v.client \in db.clients
         /\ v.parent = None \/ v.parent \in Ids(db.views)
    /\ \A u \in db.uses : u.id \in late \/ u.view \in Ids(db.views)
    /\ \A o \in db.owned : o.id \in late \/ o.client \in db.clients

\* What holds of the tables in every state, and of the work of a run.
TablesGood ==
    RowsNamed /\ FoldersKept /\ RefersToRows /\ CustomConfigsStay

WorkDone ==
    /\ CleanStart /\ FoundClients /\ ViewsDone /\ UsesDone /\ KindsDone
    /\ OwnedDone

CleanInv == TablesGood /\ WorkDone

\* That no row but a late one dangles, row by row.
LEMMA RowByRow == NothingDangles <=> RefersToRows
<1> DEFINE lostViews == {v \in db.views :
                           \/ v.client # None /\ v.client \notin db.clients
                           \/ v.parent # None /\ v.parent \notin Ids(db.views)}
           lostUses == {u \in db.uses : u.view \notin Ids(db.views)}
           lostOwned == {o \in db.owned : o.client \notin db.clients}
<1>1. NothingDangles <=> /\ Ids(lostViews) \subseteq late
                         /\ Ids(lostUses) \subseteq late
                         /\ Ids(lostOwned) \subseteq late
  BY DEF NothingDangles, Dangling
<1>2. Ids(lostViews) \subseteq late <=> \A v \in lostViews : v.id \in late
  BY DEF Ids
<1>3. Ids(lostUses) \subseteq late <=> \A u \in lostUses : u.id \in late
  BY DEF Ids
<1>4. Ids(lostOwned) \subseteq late <=> \A o \in lostOwned : o.id \in late
  BY DEF Ids
<1> QED BY <1>1, <1>2, <1>3, <1>4 DEF RefersToRows

LEMMA InitClean == DInit => CleanInv
<1> SUFFICES ASSUME DInit PROVE CleanInv
  OBVIOUS
<1> USE DeleteAssumption DEF DInit
<1>1. RowsNamed /\ FoldersKept
  BY DEF RowsNamed, FoldersKept
<1>2. RefersToRows
  BY RowByRow DEF NothingDangles
<1>3. CustomConfigsStay
  BY DEF CustomConfigsStay
<1>4. CleanStart /\ FoundClients /\ ViewsDone /\ UsesDone /\ KindsDone
  BY DEF CleanStart, FoundClients, ViewsDone, UsesDone, KindsDone, Nothing,
         NoTodo, ListSteps, OwnedSteps, ImageSteps, SharedSteps, FolderSteps
<1>5. OwnedDone
  BY DEF OwnedDone, Nothing, NoTodo, ListSteps, OwnedSteps,
         ImageSteps, SharedSteps
<1> QED BY <1>1, <1>2, <1>3, <1>4, <1>5 DEF CleanInv, TablesGood, WorkDone

LEMMA TablesStay ==
    ASSUME TablesGood, UNCHANGED <<db, observed>> PROVE TablesGood'
BY DEF TablesGood, RowsNamed, FoldersKept, RefersToRows, CustomConfigsStay,
       observed

LEMMA EndClean ==
    ASSUME DeleteInv, CleanInv, End, UNCHANGED <<db, observed>>
    PROVE  CleanInv'
<1> USE DEF End, observed
<1>1. TablesGood'
  BY TablesStay DEF CleanInv
<1>2. CleanStart' /\ FoundClients' /\ ViewsDone' /\ UsesDone' /\ KindsDone'
  BY DEF CleanStart, FoundClients, ViewsDone, UsesDone, KindsDone, Nothing,
         NoTodo, ListSteps, OwnedSteps, ImageSteps, SharedSteps, FolderSteps
<1>3. OwnedDone'
  BY DEF CleanInv, WorkDone, OwnedDone, Nothing, NoTodo,
         ListSteps, OwnedSteps, ImageSteps, SharedSteps
<1> QED BY <1>1, <1>2, <1>3 DEF CleanInv, WorkDone

LEMMA RunEndsClean ==
    ASSUME DeleteInv, CleanInv, Refresh \/ RunFails \/ CleanImage
    PROVE  CleanInv'
<1>1. End /\ UNCHANGED <<db, observed>>
  BY DEF Refresh, RunFails, CleanImage, tables, observed
<1> QED BY <1>1, EndClean

LEMMA StartClean ==
    ASSUME DeleteInv, CleanInv, StartClients \/ StartFolders
    PROVE  CleanInv'
<1> USE DEF StartClients, StartFolders, tables, transaction, observed
<1>1. TablesGood'
  BY TablesStay DEF CleanInv
<1>2. del = Nothing /\ todo = NoTodo /\ cursor = {} /\ moved = {}
  BY DEF DeleteInv, IdleClean, CleanInv, WorkDone, CleanStart
<1>3. CleanStart' /\ FoundClients' /\ ViewsDone' /\ UsesDone' /\ KindsDone'
  BY <1>2 DEF CleanStart, FoundClients, ViewsDone, UsesDone, KindsDone,
         Nothing, NoTodo, ListSteps, OwnedSteps, ImageSteps, SharedSteps,
         FolderSteps
<1>4. OwnedDone'
  BY <1>2 DEF CleanInv, WorkDone, OwnedDone, Nothing, NoTodo,
         ListSteps, OwnedSteps, ImageSteps, SharedSteps
<1> QED BY <1>1, <1>3, <1>4 DEF CleanInv, WorkDone

LEMMA UndoClean ==
    ASSUME DeleteInv, CleanInv, UndoMade \/ UndoNotMade
    PROVE  CleanInv'
<1>1. CASE End /\ UNCHANGED <<tables, observed>>
  BY <1>1, EndClean DEF tables
<1>2. CASE /\ dpc = "backup" /\ dpc' = "find"
           /\ UNCHANGED <<tables, transaction, script, wanted, found, todo,
                          batch, cursor, observed>>
  <2> USE <1>2 DEF tables, transaction, observed
  <2>1. TablesGood'
    BY TablesStay DEF CleanInv
  <2>2. del = Nothing /\ moved = {} /\ script = "clients"
    BY DEF CleanInv, WorkDone, CleanStart, DeleteInv, StepsOfScript,
           ClientSteps
  <2>3. CleanStart' /\ FoundClients' /\ ViewsDone' /\ UsesDone' /\ KindsDone'
    BY <2>2 DEF CleanStart, FoundClients, ViewsDone, UsesDone, KindsDone,
           Nothing, ListSteps, OwnedSteps, ImageSteps, SharedSteps,
           FolderSteps
  <2>4. OwnedDone'
    BY <2>2 DEF CleanInv, WorkDone, OwnedDone, Nothing,
           ListSteps, OwnedSteps, ImageSteps, SharedSteps
  <2> QED BY <2>1, <2>3, <2>4 DEF CleanInv, WorkDone
<1> QED BY <1>1, <1>2 DEF UndoMade, UndoNotMade, run

-----------------------------------------------------------------------------
(* The steps of delclients. *)

LEMMA FindMachinesClean ==
    ASSUME DeleteInv, CleanInv, FindMachines PROVE CleanInv'
<1>1. CASE FilterMachines = {}
  BY <1>1, EndClean DEF FindMachines, tables
<1>2. CASE FilterMachines # {}
  <2> USE <1>2 DEF FindMachines, tables, transaction, observed
  <2>1. TablesGood'
    BY TablesStay DEF CleanInv
  <2>2. /\ del = Nothing /\ moved = {}
        /\ todo'.clients = found' /\ todo'.configs = {}
    BY DEF CleanInv, WorkDone, CleanStart, NoTodo
  <2>3. CleanStart' /\ FoundClients' /\ ViewsDone' /\ UsesDone' /\ KindsDone'
    BY <2>2 DEF CleanStart, FoundClients, ViewsDone, UsesDone, KindsDone,
           Nothing, ListSteps, OwnedSteps, ImageSteps, SharedSteps,
           FolderSteps
  <2>4. OwnedDone'
    BY <2>2 DEF CleanInv, WorkDone, OwnedDone, Nothing,
           ListSteps, OwnedSteps, ImageSteps, SharedSteps
  <2> QED BY <2>1, <2>3, <2>4 DEF CleanInv, WorkDone
<1> QED BY <1>1, <1>2

LEMMA FindShortcutsClean ==
    ASSUME DeleteInv, CleanInv, FindShortcuts PROVE CleanInv'
<1> USE DEF FindShortcuts, tables, transaction, observed
<1>1. TablesGood'
  BY TablesStay DEF CleanInv
<1>2. script = "clients" /\ todo.clients = found /\ todo \in Todo
  BY DEF DeleteInv, TablesOK, StepsOfScript, ClientSteps, CleanInv, WorkDone,
         FoundClients, ImageSteps
<1>3. /\ todo'.clients = found
      /\ todo'.shortcuts = Ids({v \in db.views : v.client \in found})
      /\ todo'.configs = Ids({o \in db.owned : /\ o.kind = "config"
                                               /\ o.client \in found})
  BY <1>2 DEF Todo
<1>4. CleanStart' /\ FoundClients' /\ ViewsDone'
  BY <1>2, <1>3 DEF CleanInv, WorkDone, CleanStart, FoundClients, ViewsDone,
         ListSteps, OwnedSteps, ImageSteps, SharedSteps, FolderSteps
<1>5. UsesDone'
  BY <1>2, <1>3 DEF UsesDone, Ids
<1>6. KindsDone'
  BY DEF CleanInv, WorkDone, KindsDone
<1>7. OwnedDone'
  BY <1>2, <1>3 DEF CleanInv, WorkDone, OwnedDone, Ids,
         ListSteps, OwnedSteps, ImageSteps, SharedSteps
<1> QED BY <1>1, <1>4, <1>5, <1>6, <1>7 DEF CleanInv, WorkDone

LEMMA NextShortcutsClean ==
    ASSUME DeleteInv, CleanInv, NextShortcuts PROVE CleanInv'
<1> USE DEF NextShortcuts, tables, transaction, observed
<1>1. TablesGood'
  BY TablesStay DEF CleanInv
<1>2. script = "clients" /\ todo \in Todo
  BY DEF DeleteInv, TablesOK, StepsOfScript, ClientSteps
<1>3. /\ todo'.clients = todo.clients /\ todo'.configs = todo.configs
      /\ todo'.shortcuts = todo.shortcuts \ batch'
  BY <1>2 DEF Todo, Rest
<1>4. CleanStart' /\ FoundClients' /\ ViewsDone'
  BY <1>2, <1>3 DEF CleanInv, WorkDone, CleanStart, FoundClients, ViewsDone,
         ListSteps, OwnedSteps, ImageSteps, SharedSteps, FolderSteps
<1>5. UsesDone'
  BY <1>2, <1>3 DEF CleanInv, WorkDone, UsesDone, Handled, ListSteps,
         SharedSteps
<1>6. KindsDone'
  BY DEF CleanInv, WorkDone, KindsDone
<1>7. OwnedDone'
  BY <1>2, <1>3 DEF CleanInv, WorkDone, OwnedDone,
         ListSteps, OwnedSteps, ImageSteps, SharedSteps
<1> QED BY <1>1, <1>4, <1>5, <1>6, <1>7 DEF CleanInv, WorkDone

\* The three deletions from the tables that refer to views.
LEMMA UsesDeletedClean ==
    ASSUME DeleteInv, CleanInv, CleanReports \/ CleanCustoms
    PROVE  CleanInv'
<1> USE DEF CleanReports, CleanCustoms, tables, run, observed
<1>1. TablesGood'
  BY TablesStay DEF CleanInv
<1>2. PICK kinds : /\ kinds = IF dpc = "reports" THEN {"report"} ELSE {"custom"}
                   /\ DeleteUses(kinds)
  OBVIOUS
<1>3. /\ del'.clients = del.clients /\ del'.views = del.views
      /\ del'.owned = del.owned
      /\ del'.uses = del.uses \cup
            {u \in db.uses : u.kind \in kinds /\ u.view \in batch}
  BY <1>2 DEF DeleteUses, DeleteInv, TablesOK, Db
<1>4. CleanStart' /\ FoundClients' /\ ViewsDone'
  BY <1>3 DEF CleanInv, WorkDone, CleanStart, FoundClients, ViewsDone,
         ListSteps, OwnedSteps, ImageSteps, SharedSteps, FolderSteps
<1>5. UsesDone'
  BY <1>3 DEF CleanInv, WorkDone, UsesDone, Handled, ListSteps, SharedSteps
<1>6. KindsDone'
  BY <1>2, <1>3 DEF CleanInv, WorkDone, KindsDone
<1>7. OwnedDone'
  BY <1>3 DEF CleanInv, WorkDone, OwnedDone,
         ListSteps, OwnedSteps, ImageSteps, SharedSteps
<1> QED BY <1>1, <1>4, <1>5, <1>6, <1>7 DEF CleanInv, WorkDone

LEMMA TasksClean == ASSUME DeleteInv, CleanInv, CleanTasks PROVE CleanInv'
<1> USE DEF CleanTasks, tables, run, observed
<1> DEFINE rest == {u \in db.uses \ del.uses : u.view \in batch
                                               /\ u.kind # "report"}
<1>1. TablesGood'
  BY TablesStay DEF CleanInv
<1>2. /\ dpc' \in {"folders", "shortcuts", "configs", "inventory"}
      /\ dpc' = "folders" <=> script = "folders"
      /\ dpc' \in {"configs", "inventory"} => todo.shortcuts = {}
      /\ dpc' = "inventory" => todo.configs = {}
  BY DEF AfterTasks
<1>3. script \in {"clients", "folders"}
  BY DEF DeleteInv, TablesOK
<1>4. \A u \in db.uses : u.view \in batch =>
        u \in del.uses \/ u.id \in moved' \/ u.id \in late
  <2> SUFFICES ASSUME NEW u \in db.uses, u.view \in batch, u \notin del.uses,
                      u.id \notin late
               PROVE  u.id \in Ids(rest)
    OBVIOUS
  <2>1. u.kind # "report"
    BY DEF CleanInv, WorkDone, KindsDone
  <2> QED BY <2>1 DEF Ids
<1>5. CleanStart' /\ FoundClients' /\ ViewsDone'
  BY <1>2, <1>3 DEF CleanInv, WorkDone, CleanStart, FoundClients, ViewsDone,
         ListSteps, OwnedSteps, ImageSteps, SharedSteps, FolderSteps
<1>6. UsesDone'
  <2>1. script = "clients" => \A u \in db.uses, v \in db.views :
            u.view = v.id /\ v.client \in found =>
              Handled(u)' \/ v.id \in todo.shortcuts
    BY <1>4 DEF CleanInv, WorkDone, UsesDone, Handled, ListSteps, SharedSteps
  <2>2. script = "folders" => batch = found
    BY DEF CleanInv, WorkDone, ViewsDone, SharedSteps
  <2>3. script = "folders" => \A u \in db.uses : u.view \in found => Handled(u)'
    BY <1>4, <2>2 DEF Handled
  <2> QED BY <2>1, <2>3 DEF UsesDone, Handled
<1>7. KindsDone'
  <2>1. ASSUME NEW u \in db.uses, u.kind = "custom", u.id \in moved'
        PROVE  u \in del.uses \/ u.id \in late
    <3>1. CASE u.id \in moved
      BY <2>1, <3>1 DEF CleanInv, WorkDone, KindsDone
    <3>2. CASE u.id \in Ids(rest)
      <4>1. PICK w \in rest : w.id = u.id
        BY <3>2 DEF Ids
      <4>2. w = u
        BY <4>1 DEF CleanInv, TablesGood, RowsNamed
      <4> QED BY <2>1, <4>1, <4>2 DEF CleanInv, WorkDone, KindsDone
    <3> QED BY <2>1, <3>1, <3>2
  <2>2. /\ dpc' \notin {"customs", "tasks"}
        /\ db' = db /\ del' = del /\ late' = late
    BY <1>2
  <2> HIDE DEF CleanTasks
  <2> QED BY <2>1, <2>2 DEF KindsDone
<1>8. OwnedDone'
  BY <1>2, <1>3 DEF CleanInv, WorkDone, OwnedDone,
         ListSteps, OwnedSteps, ImageSteps, SharedSteps
<1> QED BY <1>1, <1>5, <1>6, <1>7, <1>8 DEF CleanInv, WorkDone

LEMMA ConfigsClean == ASSUME DeleteInv, CleanInv, CleanConfigs PROVE CleanInv'
<1> USE DEF CleanConfigs, tables, observed
<1> DEFINE rows == {o \in db.owned : o.id \in batch'}
<1>1. TablesGood'
  BY TablesStay DEF CleanInv
<1>2. batch' \subseteq todo.configs
  BY KeysAreLeft
<1>3. /\ todo'.clients = todo.clients /\ todo'.shortcuts = todo.shortcuts
      /\ todo'.configs = todo.configs \ batch'
  BY DEF DeleteInv, TablesOK, Todo, Rest
<1>4. /\ del'.clients = del.clients /\ del'.views = del.views
      /\ del'.uses = del.uses /\ del'.owned = del.owned \cup rows
  BY DEF DeleteInv, TablesOK, Db
<1>5. script = "clients" /\ dpc' \in {"configs", "inventory"}
      /\ (dpc' = "inventory" => todo'.configs = {})
  BY DEF DeleteInv, StepsOfScript, ClientSteps
<1>6. \A o \in rows : o.kind = "config"
  <2> SUFFICES ASSUME NEW o \in rows PROVE o.kind = "config"
    OBVIOUS
  <2>1. PICK c \in db.owned : c.id = o.id /\ c.kind = "config"
    BY <1>2 DEF CleanInv, WorkDone, OwnedDone
  <2> QED BY <2>1 DEF CleanInv, TablesGood, RowsNamed
<1>7. CleanStart' /\ FoundClients' /\ ViewsDone'
  BY <1>3, <1>4, <1>5 DEF CleanInv, WorkDone, CleanStart, FoundClients,
         ViewsDone, ListSteps, OwnedSteps, ImageSteps, SharedSteps, FolderSteps
<1>8. UsesDone' /\ KindsDone'
  BY <1>3, <1>4, <1>5 DEF CleanInv, WorkDone, UsesDone, KindsDone, Handled,
         ListSteps, OwnedSteps, ImageSteps, SharedSteps
<1>9. OwnedDone'
  BY <1>3, <1>4, <1>5, <1>6 DEF CleanInv, WorkDone, OwnedDone, ListSteps,
         OwnedSteps, ImageSteps, SharedSteps
<1> QED BY <1>1, <1>7, <1>8, <1>9 DEF CleanInv, WorkDone

LEMMA InventoryClean ==
    ASSUME DeleteInv, CleanInv, CleanInventory PROVE CleanInv'
<1> USE DEF CleanInventory, tables, run, observed
<1> DEFINE rows == {o \in db.owned : /\ o.kind = "inventory"
                                     /\ o.client \in todo.clients}
<1>1. TablesGood'
  BY TablesStay DEF CleanInv
<1>2. script = "clients" /\ todo.clients = found /\ todo.configs = {}
  BY DEF DeleteInv, StepsOfScript, ClientSteps, CleanInv, WorkDone,
         FoundClients, CleanStart, ListSteps, OwnedSteps, ImageSteps
<1>3. /\ del'.clients = del.clients /\ del'.views = del.views
      /\ del'.uses = del.uses /\ del'.owned = del.owned \cup rows
  BY DEF DeleteInv, TablesOK, Db
<1>4. CleanStart' /\ FoundClients' /\ ViewsDone'
  BY <1>2, <1>3 DEF CleanInv, WorkDone, CleanStart, FoundClients,
         ViewsDone, ListSteps, OwnedSteps, ImageSteps, SharedSteps, FolderSteps
<1>5. UsesDone' /\ KindsDone'
  BY <1>2, <1>3 DEF CleanInv, WorkDone, UsesDone, KindsDone, Handled,
         ListSteps, OwnedSteps, ImageSteps, SharedSteps
<1>6. OwnedDone'
  BY <1>2, <1>3 DEF CleanInv, WorkDone, OwnedDone, ListSteps,
         OwnedSteps, ImageSteps, SharedSteps
<1> QED BY <1>1, <1>4, <1>5, <1>6 DEF CleanInv, WorkDone

LEMMA OpenImagesClean ==
    ASSUME DeleteInv, CleanInv, OpenImages PROVE CleanInv'
<1> USE DEF OpenImages, tables, transaction, observed
<1>1. TablesGood'
  BY TablesStay DEF CleanInv
<1>2. batch' \subseteq todo.clients /\ script = "clients"
  BY KeysAreLeft DEF DeleteInv, StepsOfScript, ClientSteps
<1>3. /\ todo'.clients = todo.clients \ batch'
      /\ todo'.shortcuts = todo.shortcuts /\ todo'.configs = todo.configs
  BY DEF DeleteInv, TablesOK, Todo, Rest
<1>4. /\ del.clients \subseteq found
      /\ found \subseteq del.clients \cup todo.clients
      /\ todo.configs = {} /\ todo.shortcuts = {}
  BY <1>2 DEF CleanInv, WorkDone, FoundClients, CleanStart, ListSteps,
              OwnedSteps, ImageSteps
<1>5. batch' \subseteq found
  <2>1. todo.clients \subseteq found
    BY <1>2 DEF CleanInv, WorkDone, FoundClients, ListSteps, OwnedSteps,
                ImageSteps
  <2> QED BY <1>2, <2>1
<1>6. CleanStart' /\ FoundClients' /\ ViewsDone'
  BY <1>2, <1>3, <1>4, <1>5 DEF CleanInv, WorkDone, CleanStart, FoundClients,
         ViewsDone, ListSteps, OwnedSteps, ImageSteps, SharedSteps, FolderSteps
<1>7. UsesDone' /\ KindsDone'
  BY <1>2, <1>3 DEF CleanInv, WorkDone, UsesDone, KindsDone, Handled,
         ListSteps, OwnedSteps, ImageSteps, SharedSteps
<1>8. OwnedDone'
  BY <1>2, <1>3, <1>4 DEF CleanInv, WorkDone, OwnedDone, ListSteps,
         OwnedSteps, ImageSteps, SharedSteps
<1> QED BY <1>1, <1>6, <1>7, <1>8 DEF CleanInv, WorkDone

LEMMA MachinesClean == ASSUME DeleteInv, CleanInv, CleanMachines PROVE CleanInv'
<1> USE DEF CleanMachines, tables, run, observed
<1> DEFINE rows == {v \in db.views : v.client \in batch}
<1>1. TablesGood'
  BY TablesStay DEF CleanInv
<1>2. script = "clients" /\ batch \subseteq found
  BY DEF DeleteInv, StepsOfScript, ClientSteps, CleanInv, WorkDone,
         FoundClients, ListSteps, OwnedSteps, ImageSteps
<1>3. /\ del'.clients = del.clients \cup batch
      /\ del'.views = del.views \cup rows
      /\ del'.uses = del.uses /\ del'.owned = del.owned
  <2>1. del' = [del EXCEPT !.views = @ \cup rows, !.clients = @ \cup batch]
    OBVIOUS
  <2>2. del \in Db
    BY DEF DeleteInv, TablesOK
  <2> HIDE DEF rows, CleanMachines
  <2> QED BY <2>1, <2>2 DEF Db
<1>4. /\ dpc' \in {"open", "commit"} /\ dpc' = "commit" => todo.clients = {}
  OBVIOUS
<1>5. CleanStart'
  BY <1>2, <1>4 DEF CleanInv, WorkDone, CleanStart, OwnedSteps, ImageSteps
<1>6. FoundClients'
  BY <1>2, <1>3, <1>4 DEF CleanInv, WorkDone, FoundClients, ListSteps,
         OwnedSteps, ImageSteps
<1>7. ViewsDone'
  BY <1>2, <1>3 DEF CleanInv, WorkDone, ViewsDone
<1>8. UsesDone' /\ KindsDone'
  BY <1>2, <1>3, <1>4 DEF CleanInv, WorkDone, UsesDone, KindsDone, Handled,
         ListSteps, OwnedSteps, ImageSteps, SharedSteps
<1>9. OwnedDone'
  BY <1>2, <1>3, <1>4 DEF CleanInv, WorkDone, OwnedDone, ListSteps,
         OwnedSteps, ImageSteps, SharedSteps
<1> QED BY <1>1, <1>5, <1>6, <1>7, <1>8, <1>9 DEF CleanInv, WorkDone

-----------------------------------------------------------------------------
(* The steps of delfolders. *)

LEMMA FindFoldersClean ==
    ASSUME DeleteInv, CleanInv, FindFolders PROVE CleanInv'
<1>1. CASE FilterFolders = {}
  BY <1>1, EndClean DEF FindFolders, tables
<1>2. CASE FilterFolders # {}
  <2> USE <1>2 DEF FindFolders, tables, transaction, observed
  <2>1. TablesGood'
    BY TablesStay DEF CleanInv
  <2>2. del = Nothing /\ moved = {} /\ todo.configs = {}
    BY DEF CleanInv, WorkDone, CleanStart
  <2>3. \A i \in FilterFolders :
            i > Default /\ \A v \in db.views : v.parent # i
    BY DEF FilterFolders
  <2>4. Default \notin FilterFolders
    BY <2>3 DEF Default
  <2>5. CleanStart' /\ FoundClients' /\ ViewsDone' /\ UsesDone' /\ KindsDone'
    BY <2>2, <2>3, <2>4 DEF CleanStart, FoundClients, ViewsDone, UsesDone,
           KindsDone, Nothing, ListSteps, OwnedSteps, ImageSteps, SharedSteps,
           FolderSteps
  <2>6. OwnedDone'
    BY <2>2 DEF CleanInv, WorkDone, OwnedDone, Nothing,
           ListSteps, OwnedSteps, ImageSteps, SharedSteps
  <2> QED BY <2>1, <2>5, <2>6 DEF CleanInv, WorkDone
<1> QED BY <1>1, <1>2

LEMMA DecommissionClean ==
    ASSUME DeleteInv, CleanInv, CleanDecommission PROVE CleanInv'
<1> USE DEF CleanDecommission, tables, run, observed
<1>1. TablesGood'
  BY TablesStay DEF CleanInv
<1>2. script = "folders"
  BY DEF DeleteInv, StepsOfScript, FolderSteps
<1>3. /\ del'.clients = del.clients /\ del'.views = del.views
      /\ del.uses \subseteq del'.uses /\ del'.owned = del.owned
  BY DEF DeleteInv, TablesOK, Db
<1>4. CleanStart' /\ FoundClients' /\ ViewsDone'
  BY <1>2, <1>3 DEF CleanInv, WorkDone, CleanStart, FoundClients,
         ViewsDone, ListSteps, OwnedSteps, ImageSteps, SharedSteps, FolderSteps
<1>5. UsesDone' /\ KindsDone'
  BY <1>2, <1>3 DEF CleanInv, WorkDone, UsesDone, KindsDone, Handled
<1>6. OwnedDone'
  BY <1>2, <1>3 DEF CleanInv, WorkDone, OwnedDone
<1> QED BY <1>1, <1>4, <1>5, <1>6 DEF CleanInv, WorkDone

LEMMA FoldersClean == ASSUME DeleteInv, CleanInv, CleanFolders PROVE CleanInv'
<1> USE DEF CleanFolders, tables, run, observed
<1>1. TablesGood'
  BY TablesStay DEF CleanInv
<1>2. script = "folders" /\ batch = found
  BY DEF DeleteInv, StepsOfScript, FolderSteps, CleanInv, WorkDone, ViewsDone
<1>3. /\ del'.clients = del.clients /\ del'.owned = del.owned
      /\ del'.views = del.views \cup {v \in db.views : v.id \in batch}
      /\ del'.uses = del.uses
  BY DEF DeleteInv, TablesOK, Db
<1>4. CleanStart' /\ FoundClients'
  BY <1>2, <1>3 DEF CleanInv, WorkDone, CleanStart, FoundClients, ImageSteps
<1>5. ViewsDone'
  BY <1>2, <1>3 DEF CleanInv, WorkDone, ViewsDone, FolderSteps
<1>6. UsesDone' /\ KindsDone'
  BY <1>2, <1>3 DEF CleanInv, WorkDone, UsesDone, KindsDone, Handled
<1>7. OwnedDone'
  BY <1>2, <1>3 DEF CleanInv, WorkDone, OwnedDone
<1> QED BY <1>1, <1>4, <1>5, <1>6, <1>7 DEF CleanInv, WorkDone

-----------------------------------------------------------------------------
(* The commit. *)

\* What the tables hold once the transaction is committed.
LEMMA CommittedRows ==
    ASSUME DeleteInv
    PROVE  /\ Seen.clients = db.clients \ del.clients
           /\ Seen.views = db.views \ del.views
           /\ Seen.owned = db.owned \ del.owned
           /\ \A x \in Seen.uses : \E u \in db.uses \ del.uses :
                /\ x.id = u.id /\ x.kind = u.kind
                /\ x.view = (IF u.id \in moved THEN Default ELSE u.view)
                /\ x = IF u.id \in moved THEN [u EXCEPT !.view = Default] ELSE u
BY DEF DeleteInv, TablesOK, Db, Use, Seen

\* No identifier is lost or made, so a row keeps its own.
LEMMA CommitNames ==
    ASSUME DeleteInv, CleanInv, Commit PROVE RowsNamed'
<1> USE DEF Commit, observed
<1>1. /\ db'.views \subseteq db.views /\ db'.owned \subseteq db.owned
      /\ \A x \in db'.uses : \E u \in db.uses :
           /\ x.id = u.id
           /\ x = IF u.id \in moved THEN [u EXCEPT !.view = Default] ELSE u
  BY CommittedRows
<1>2. \A x, y \in db'.uses : x.id = y.id => x = y
  <2> SUFFICES ASSUME NEW x \in db'.uses, NEW y \in db'.uses, x.id = y.id
               PROVE  x = y
    OBVIOUS
  <2>1. PICK u \in db.uses :
            /\ x.id = u.id
            /\ x = IF u.id \in moved THEN [u EXCEPT !.view = Default] ELSE u
    BY <1>1
  <2>2. PICK w \in db.uses :
            /\ y.id = w.id
            /\ y = IF w.id \in moved THEN [w EXCEPT !.view = Default] ELSE w
    BY <1>1
  <2>3. u = w
    BY <2>1, <2>2 DEF CleanInv, TablesGood, RowsNamed
  <2> QED BY <2>1, <2>2, <2>3
<1>3. AllIds(db') \subseteq AllIds(db)
  <2>1. Ids(db'.views) \subseteq Ids(db.views)
    BY <1>1 DEF Ids
  <2>2. Ids(db'.owned) \subseteq Ids(db.owned)
    BY <1>1 DEF Ids
  <2>3. Ids(db'.uses) \subseteq Ids(db.uses)
    BY <1>1 DEF Ids
  <2> QED BY <2>1, <2>2, <2>3 DEF AllIds
<1>4. \A o, p \in db'.owned : o.id = p.id => o = p
  BY <1>1 DEF CleanInv, TablesGood, RowsNamed
<1>5. \A i \in AllIds(db') : i < nextId'
  BY <1>3 DEF CleanInv, TablesGood, RowsNamed
<1> QED BY <1>2, <1>4, <1>5 DEF RowsNamed

\* Which of the views a run deletes: the shortcuts of the clients found, or the
\* folders found.
LEMMA DeletedViews ==
    ASSUME DeleteInv, CleanInv, Commit
    PROVE  \A v \in del.views :
              /\ v \in db.views
              /\ IF script = "clients" THEN v.client \in found /\ v.client # None
                 ELSE v.id \in found
<1> SUFFICES ASSUME NEW v \in del.views
             PROVE  /\ v \in db.views
                    /\ IF script = "clients"
                       THEN v.client \in found /\ v.client # None
                       ELSE v.id \in found
  OBVIOUS
<1>1. v \in db.views
  BY DEF DeleteInv, DeletesRows
<1>2. IF script = "clients" THEN v.client \in found ELSE v.id \in found
  BY DEF CleanInv, WorkDone, ViewsDone
<1>3. script = "clients" => v.client # None
  <2>1. script = "clients" => found \subseteq del.clients \cup todo.clients
    BY DEF Commit, CleanInv, WorkDone, FoundClients, ListSteps, OwnedSteps,
           ImageSteps
  <2>2. del.clients \subseteq Clients /\ todo.clients \subseteq Clients
    BY DEF DeleteInv, TablesOK, Db, Todo
  <2> QED BY <1>2, <2>1, <2>2, DeleteAssumption
<1> QED BY <1>1, <1>2, <1>3

LEMMA CommitFolders ==
    ASSUME DeleteInv, CleanInv, Commit PROVE FoldersKept'
<1> USE DEF Commit, observed
<1>1. db'.views = db.views \ del.views
  BY CommittedRows
<1>2. PICK v \in db.views : v.id = Default /\ v.client = None
  BY DEF CleanInv, TablesGood, FoldersKept
<1>3. v \notin del.views
  <2>1. script # "clients" => Default \notin found
    BY DEF CleanInv, WorkDone, ViewsDone, DeleteInv, TablesOK
  <2> QED BY <1>2, <2>1, DeletedViews
<1>4. \A x, w \in db'.views :
        x.parent = w.id => w.client = None \/ x.id \in late'
  BY <1>1 DEF CleanInv, TablesGood, FoldersKept
<1> QED BY <1>1, <1>2, <1>3, <1>4 DEF FoldersKept

\* A view that a row which was there refers to is not deleted.
LEMMA CommitRefers ==
    ASSUME DeleteInv, CleanInv, Commit PROVE RefersToRows'
<1> USE DEF Commit, observed
<1>1. /\ db'.clients = db.clients \ del.clients
      /\ db'.views = db.views \ del.views
      /\ db'.owned = db.owned \ del.owned
  BY CommittedRows
<1>2. Default \in Ids(db'.views)
  BY CommitFolders DEF FoldersKept, Ids
<1>3. script \in {"clients", "folders"}
  BY DEF DeleteInv, TablesOK
<1>4. script = "clients" => /\ todo.clients = {} /\ todo.shortcuts = {}
                            /\ todo.configs = {} /\ del.clients = found
  BY DEF DeleteInv, IdleClean, CleanInv, WorkDone, CleanStart, FoundClients,
         ListSteps, OwnedSteps, ImageSteps
<1>5. ASSUME NEW v \in db'.views, v.id \notin late
      PROVE  /\ v.client = None \/ v.client \in db'.clients
             /\ v.parent = None \/ v.parent \in Ids(db'.views)
  <2>1. v \in db.views /\ v \notin del.views
    BY <1>1
  <2>2. v.client = None \/ v.client \in db'.clients
    BY <1>1, <1>5, <2>1 DEF CleanInv, TablesGood, RefersToRows, WorkDone,
                            ViewsDone
  <2>3. ASSUME v.parent # None PROVE v.parent \in Ids(db'.views)
    <3>1. PICK w \in db.views : w.id = v.parent
      BY <1>5, <2>1, <2>3 DEF CleanInv, TablesGood, RefersToRows, Ids
    <3>2. w.client = None
      BY <1>5, <2>1, <3>1 DEF CleanInv, TablesGood, FoldersKept
    <3>3. script = "folders" => v.parent \notin found
      BY <1>5, <2>1 DEF CleanInv, WorkDone, ViewsDone
    <3>4. w \notin del.views
      BY <1>3, <3>1, <3>2, <3>3, DeletedViews
    <3> QED BY <1>1, <3>1, <3>4 DEF Ids
  <2> QED BY <2>2, <2>3
<1>6. ASSUME NEW x \in db'.uses, x.id \notin late
      PROVE  x.view \in Ids(db'.views)
  <2>1. PICK u \in db.uses \ del.uses :
            x.id = u.id /\ x.view = IF u.id \in moved THEN Default ELSE u.view
    BY <1>6, CommittedRows
  <2>2. CASE u.id \in moved
    BY <1>2, <2>1, <2>2
  <2>3. CASE u.id \notin moved
    <3>1. ~ Handled(u) /\ x.view = u.view
      BY <1>6, <2>1, <2>3 DEF Handled
    <3>2. PICK v \in db.views : v.id = u.view
      BY <1>6, <2>1 DEF CleanInv, TablesGood, RefersToRows, Ids
    <3>3. script = "clients" => v.client \notin found
      BY <1>4, <3>1, <3>2 DEF CleanInv, WorkDone, UsesDone, ListSteps,
         OwnedSteps, ImageSteps, SharedSteps
    <3>4. script = "folders" => v.id \notin found
      BY <3>1, <3>2 DEF CleanInv, WorkDone, UsesDone
    <3>5. v \notin del.views
      BY <1>3, <3>3, <3>4, DeletedViews
    <3> QED BY <1>1, <3>1, <3>2, <3>5 DEF Ids
  <2> QED BY <2>2, <2>3
<1>7. ASSUME NEW o \in db'.owned, o.id \notin late
      PROVE  o.client \in db'.clients
  <2>1. o \in db.owned /\ o \notin del.owned /\ o.client \in db.clients
    BY <1>1, <1>7 DEF CleanInv, TablesGood, RefersToRows
  <2>2. o.kind \in {"image", "config", "inventory"}
    BY <2>1 DEF DeleteInv, TablesOK, Db, Owned, OwnedKinds
  <2>3. script = "folders" => del.clients = {}
    BY DEF CleanInv, WorkDone, FoundClients
  <2>4. o.client \notin del.clients
    BY <1>3, <1>4, <1>7, <2>1, <2>2, <2>3 DEF CleanInv, WorkDone, OwnedDone,
       ListSteps, OwnedSteps, ImageSteps
  <2> QED BY <1>1, <2>1, <2>4
<1> QED BY <1>5, <1>6, <1>7 DEF RefersToRows

LEMMA CommitCustoms ==
    ASSUME DeleteInv, CleanInv, Commit PROVE CustomConfigsStay'
<1> USE DEF Commit, observed
<1> SUFFICES ASSUME NEW x \in db'.uses, x.kind = "custom", x.view = Default
             PROVE  x.id \in late
  BY DEF CustomConfigsStay
<1>1. PICK u \in db.uses \ del.uses :
          /\ x.id = u.id /\ x.kind = u.kind
          /\ x.view = IF u.id \in moved THEN Default ELSE u.view
  BY CommittedRows
<1>2. CASE u.id \in moved
  BY <1>1, <1>2 DEF CleanInv, WorkDone, KindsDone
<1>3. CASE u.id \notin moved
  BY <1>1, <1>3 DEF CleanInv, TablesGood, CustomConfigsStay
<1> QED BY <1>2, <1>3

LEMMA CommitClean == ASSUME DeleteInv, CleanInv, Commit PROVE CleanInv'
<1> USE DEF Commit, run, observed
<1>1. TablesGood'
  BY CommitNames, CommitFolders, CommitRefers, CommitCustoms DEF TablesGood
<1>2. /\ db'.clients = db.clients \ del.clients
      /\ db'.views = db.views \ del.views
      /\ db'.owned = db.owned \ del.owned
  BY CommittedRows
<1>3. script \in {"clients", "folders"} /\ todo.configs = {}
  BY DEF DeleteInv, TablesOK, CleanInv, WorkDone, CleanStart, ImageSteps
<1>4. script = "clients" => todo.clients = {} /\ found \subseteq del.clients
  BY DEF DeleteInv, IdleClean, CleanInv, WorkDone, FoundClients,
         ListSteps, OwnedSteps, ImageSteps
<1>5. CleanStart' /\ FoundClients' /\ ViewsDone' /\ UsesDone' /\ KindsDone'
  BY <1>2, <1>3, <1>4 DEF CleanStart, FoundClients, ViewsDone, UsesDone,
         KindsDone, Nothing, ListSteps, OwnedSteps, ImageSteps, SharedSteps,
         FolderSteps
<1>6. OwnedDone'
  BY <1>3 DEF OwnedDone, Nothing, ListSteps, OwnedSteps, ImageSteps, SharedSteps
<1> QED BY <1>1, <1>5, <1>6 DEF CleanInv, WorkDone

-----------------------------------------------------------------------------
(* Console users. *)

\* What console users add while the transaction is open is late.
LEMMA AddedIsLate ==
    ASSUME DeleteInv, CleanInv, NewId
    PROVE  /\ nextId \in Nat /\ late \subseteq late'
           /\ nextId \in late' \/ (dpc = "idle" /\ del = Nothing /\ moved = {})
           /\ \A r \in db.views \cup db.uses \cup db.owned :
                r.id < nextId /\ r.id # nextId
<1>1. nextId \in Nat /\ db \in Db
  BY DEF DeleteInv, TablesOK
<1>2. \A r \in db.views \cup db.uses \cup db.owned : r.id \in Nat
  BY <1>1 DEF Db, View, Use, Owned
<1>3. \A r \in db.views \cup db.uses \cup db.owned : r.id \in AllIds(db)
  BY DEF AllIds, Ids
<1>4. \A r \in db.views \cup db.uses \cup db.owned : r.id < nextId
  BY <1>3 DEF CleanInv, TablesGood, RowsNamed
<1>5. \A r \in db.views \cup db.uses \cup db.owned : r.id # nextId
  BY <1>1, <1>2, <1>4
<1>6. nextId \in late' \/ (dpc = "idle" /\ del = Nothing /\ moved = {})
  BY DEF NewId, CleanInv, WorkDone, CleanStart
<1> QED BY <1>1, <1>4, <1>5, <1>6 DEF NewId

\* The identifiers stay in order when a row is added.
LEMMA AddedNames ==
    ASSUME DeleteInv, CleanInv, NewId,
           AllIds(db') \subseteq AllIds(db) \cup {nextId},
           \A u, w \in db'.uses : u.id = w.id => u = w,
           \A o, p \in db'.owned : o.id = p.id => o = p
    PROVE  RowsNamed'
<1>1. AllIds(db) \subseteq Nat /\ nextId \in Nat
  BY DEF DeleteInv, TablesOK, Db, View, Use, Owned, AllIds, Ids
<1>2. \A i \in AllIds(db) : i < nextId
  BY DEF CleanInv, TablesGood, RowsNamed
<1>3. \A i \in AllIds(db') : i < nextId'
  BY <1>1, <1>2 DEF NewId
<1> QED BY <1>3 DEF RowsNamed

\* Work that is under way goes on as before, if what is added is late.
LEMMA ShortcutAddedClean ==
    ASSUME DeleteInv, CleanInv, AddShortcut PROVE CleanInv'
<1> USE DEF AddShortcut, transaction, run
<1>1. PICK c \in db.clients \ del.clients, w \in db.views \ del.views :
          /\ w.client = None
          /\ db' = [db EXCEPT !.views = @ \cup
                      {[id |-> nextId, client |-> c, parent |-> w.id]}]
  OBVIOUS
<1> DEFINE row == [id |-> nextId, client |-> c, parent |-> w.id]
<1>2. row.id = nextId /\ row.client = c /\ row.parent = w.id
  OBVIOUS
<1> HIDE DEF row
<1>3. /\ db'.clients = db.clients /\ db'.uses = db.uses
      /\ db'.owned = db.owned /\ db'.views = db.views \cup {row}
  BY <1>1 DEF row, DeleteInv, TablesOK, Db
<1>4. /\ nextId \in Nat /\ late \subseteq late'
      /\ nextId \in late' \/ (dpc = "idle" /\ del = Nothing /\ moved = {})
      /\ \A v \in db.views : v.id # nextId
      /\ \A u \in db.uses : u.id # nextId
  BY AddedIsLate
<1> HIDE DEF AddShortcut
<1>5. RowsNamed'
  <2>1. AllIds(db') \subseteq AllIds(db) \cup {nextId}
    BY <1>2, <1>3 DEF AllIds, Ids
  <2> QED BY <1>3, <2>1, AddedNames DEF AddShortcut, CleanInv, TablesGood,
             RowsNamed
<1>6. FoldersKept'
  <2>1. \E v \in db'.views : v.id = Default /\ v.client = None
    BY <1>3 DEF CleanInv, TablesGood, FoldersKept
  <2>2. ASSUME NEW v \in db'.views, NEW x \in db'.views, v.parent = x.id,
               v.id \notin late'
        PROVE  x.client = None
    <3>1. CASE v \in db.views /\ x \in db.views
      BY <1>4, <2>2, <3>1 DEF CleanInv, TablesGood, FoldersKept
    <3>2. CASE v \in db.views /\ x = row
      <4>1. v.id \notin late
        BY <1>4, <2>2
      <4>2. v.parent = None \/ v.parent \in Ids(db.views)
        BY <3>2, <4>1 DEF CleanInv, TablesGood, RefersToRows
      <4> QED BY <1>2, <1>4, <2>2, <3>2, <4>2, DeleteAssumption DEF Ids
    <3>3. CASE v = row
      <4>1. x \in db.views
        BY <1>1, <1>2, <1>3, <1>4, <2>2, <3>3
      <4>2. x = w
        BY <1>1, <1>2, <2>2, <3>3, <4>1 DEF DeleteInv, IdsUnique
      <4> QED BY <1>1, <4>2
    <3> QED BY <1>3, <3>1, <3>2, <3>3
  <2> QED BY <2>1, <2>2 DEF FoldersKept
<1>7. RefersToRows'
  <2>1. Ids(db.views) \subseteq Ids(db'.views) /\ w.id \in Ids(db'.views)
    BY <1>1, <1>3 DEF Ids
  <2> QED BY <1>1, <1>2, <1>3, <1>4, <2>1 DEF CleanInv, TablesGood, RefersToRows
<1>8. CustomConfigsStay'
  BY <1>3, <1>4 DEF CleanInv, TablesGood, CustomConfigsStay
<1> USE DEF AddShortcut
<1>9. CleanStart' /\ FoundClients'
  BY <1>3 DEF CleanInv, WorkDone, CleanStart, FoundClients
<1>10. ViewsDone'
  <2>1. row.client \notin del.clients
    BY <1>1, <1>2
  <2>2. script = "folders"
        /\ dpc \in FolderSteps \cup SharedSteps \cup {"commit"} =>
          row.id \in late'
    BY <1>2, <1>4 DEF FolderSteps, SharedSteps
  <2> HIDE DEF AddShortcut
  <2>3. UNCHANGED <<del, script, dpc, found, batch>>
    BY DEF AddShortcut
  <2> QED BY <1>3, <1>4, <2>1, <2>2, <2>3 DEF CleanInv, WorkDone, ViewsDone
<1>11. UsesDone'
  <2>1. ASSUME NEW u \in db.uses, u.view = nextId PROVE u.id \in late'
    BY <1>4, <2>1 DEF CleanInv, TablesGood, RefersToRows, Ids
  <2>2. UNCHANGED <<transaction, script, dpc, found, batch, todo>>
    OBVIOUS
  <2> HIDE DEF AddShortcut
  <2>3. \A u : Handled(u) => Handled(u)'
    BY <1>4, <2>2 DEF Handled
  <2> QED BY <1>2, <1>3, <2>1, <2>2, <2>3 DEF CleanInv, WorkDone, UsesDone,
             Handled
<1>12. KindsDone'
  BY <1>3, <1>4 DEF CleanInv, WorkDone, KindsDone
<1>13. OwnedDone'
  BY <1>3, <1>4 DEF CleanInv, WorkDone, OwnedDone
<1> QED BY <1>5, <1>6, <1>7, <1>8, <1>9, <1>10, <1>11, <1>12, <1>13
        DEF CleanInv, TablesGood, WorkDone

LEMMA UseAddedClean == ASSUME DeleteInv, CleanInv, AddUse PROVE CleanInv'
<1> USE DEF AddUse, transaction, run
<1>1. PICK k \in UseKinds, w \in db.views \ del.views :
          /\ k = "custom" => w.client # None
          /\ db' = [db EXCEPT !.uses = @ \cup
                      {[id |-> nextId, kind |-> k, view |-> w.id]}]
  OBVIOUS
<1> DEFINE row == [id |-> nextId, kind |-> k, view |-> w.id]
<1>2. row.id = nextId /\ row.kind = k /\ row.view = w.id
  OBVIOUS
<1> HIDE DEF row
<1>3. /\ db'.clients = db.clients /\ db'.views = db.views
      /\ db'.owned = db.owned /\ db'.uses = db.uses \cup {row}
  BY <1>1 DEF row, DeleteInv, TablesOK, Db
<1>4. /\ nextId \in Nat /\ late \subseteq late'
      /\ nextId \in late' \/ (dpc = "idle" /\ del = Nothing /\ moved = {})
      /\ \A u \in db.uses : u.id # nextId
  BY AddedIsLate
<1>5. UNCHANGED <<transaction, dpc, run, files>>
  OBVIOUS
<1> HIDE DEF AddUse
<1>6. RowsNamed'
  <2>1. AllIds(db') \subseteq AllIds(db) \cup {nextId}
    BY <1>2, <1>3 DEF AllIds, Ids
  <2>2. \A u, x \in db'.uses : u.id = x.id => u = x
    BY <1>2, <1>3, <1>4 DEF CleanInv, TablesGood, RowsNamed
  <2> QED BY <1>3, <2>1, <2>2, AddedNames DEF AddUse, CleanInv, TablesGood,
             RowsNamed
<1>7. FoldersKept'
  BY <1>3, <1>4 DEF CleanInv, TablesGood, FoldersKept
<1>8. RefersToRows'
  <2>1. w.id \in Ids(db.views)
    BY <1>1 DEF Ids
  <2> QED BY <1>2, <1>3, <1>4, <2>1 DEF CleanInv, TablesGood, RefersToRows
<1>9. CustomConfigsStay'
  <2>1. k = "custom" => w.id # Default
    BY <1>1 DEF CleanInv, TablesGood, FoldersKept, DeleteInv, IdsUnique
  <2> QED BY <1>2, <1>3, <1>4, <2>1 DEF CleanInv, TablesGood, CustomConfigsStay
<1>10. CleanStart' /\ FoundClients' /\ ViewsDone'
  BY <1>3, <1>4, <1>5 DEF CleanInv, WorkDone, CleanStart, FoundClients,
         ViewsDone
<1>11. UsesDone'
  <2>1. \A u : Handled(u) => Handled(u)'
    BY <1>4, <1>5 DEF Handled
  <2>2. dpc # "idle" => row.id \in late'
    BY <1>2, <1>4
  <2>3. dpc \in ListSteps \cup {"folders", "commit"} => dpc # "idle"
    BY DEF ListSteps, OwnedSteps, ImageSteps, SharedSteps
  <2>4. ASSUME NEW u \in db'.uses, u \notin db.uses, dpc # "idle"
        PROVE  Handled(u)'
    BY <1>3, <2>2, <2>4 DEF Handled
  <2> QED BY <1>3, <1>5, <2>1, <2>3, <2>4 DEF CleanInv, WorkDone, UsesDone
<1>12. KindsDone'
  BY <1>2, <1>3, <1>4, <1>5 DEF CleanInv, WorkDone, KindsDone
<1>13. OwnedDone'
  BY <1>3, <1>4, <1>5 DEF CleanInv, WorkDone, OwnedDone
<1> QED BY <1>6, <1>7, <1>8, <1>9, <1>10, <1>11, <1>12, <1>13
        DEF CleanInv, TablesGood, WorkDone

LEMMA ImageAddedClean == ASSUME DeleteInv, CleanInv, AddImage PROVE CleanInv'
<1> USE DEF AddImage, transaction, run
<1>1. PICK c \in db.clients \ del.clients :
          db' = [db EXCEPT !.owned = @ \cup
                    {[id |-> nextId, kind |-> "image", client |-> c]}]
  OBVIOUS
<1> DEFINE row == [id |-> nextId, kind |-> "image", client |-> c]
<1>2. row.id = nextId /\ row.kind = "image" /\ row.client = c
  OBVIOUS
<1> HIDE DEF row
<1>3. /\ db'.clients = db.clients /\ db'.views = db.views
      /\ db'.uses = db.uses /\ db'.owned = db.owned \cup {row}
  BY <1>1 DEF row, DeleteInv, TablesOK, Db
<1>4. /\ nextId \in Nat /\ late \subseteq late'
      /\ nextId \in late' \/ (dpc = "idle" /\ del = Nothing /\ moved = {})
      /\ \A o \in db.owned : o.id # nextId
  BY AddedIsLate
<1>5. UNCHANGED <<transaction, dpc, run>> /\ files' = files \cup {nextId}
  OBVIOUS
<1> HIDE DEF AddImage
<1>6. RowsNamed'
  <2>1. AllIds(db') \subseteq AllIds(db) \cup {nextId}
    BY <1>2, <1>3 DEF AllIds, Ids
  <2>2. \A o, p \in db'.owned : o.id = p.id => o = p
    BY <1>2, <1>3, <1>4 DEF CleanInv, TablesGood, RowsNamed
  <2> QED BY <1>3, <2>1, <2>2, AddedNames DEF AddImage, CleanInv, TablesGood,
             RowsNamed
<1>7. FoldersKept' /\ CustomConfigsStay'
  BY <1>3, <1>4 DEF CleanInv, TablesGood, FoldersKept, CustomConfigsStay
<1>8. RefersToRows'
  BY <1>1, <1>2, <1>3, <1>4 DEF CleanInv, TablesGood, RefersToRows
<1>9. CleanStart' /\ FoundClients' /\ ViewsDone'
  BY <1>3, <1>4, <1>5 DEF CleanInv, WorkDone, CleanStart, FoundClients,
         ViewsDone
<1>10. UsesDone' /\ KindsDone'
  <2>1. \A u : Handled(u) => Handled(u)'
    BY <1>4, <1>5 DEF Handled
  <2>2. UsesDone'
    BY <1>3, <1>5, <2>1 DEF CleanInv, WorkDone, UsesDone
  <2>3. KindsDone'
    BY <1>3, <1>4, <1>5 DEF CleanInv, WorkDone, KindsDone
  <2> QED BY <2>2, <2>3
<1>11. OwnedDone'
  <2>1. row.client \notin del.clients
    BY <1>1, <1>2
  <2>2. dpc = "machines" => row.id \in late'
    BY <1>2, <1>4
  <2> QED BY <1>2, <1>3, <1>4, <1>5, <2>1, <2>2 DEF CleanInv, WorkDone,
             OwnedDone
<1> QED BY <1>6, <1>7, <1>8, <1>9, <1>10, <1>11
        DEF CleanInv, TablesGood, WorkDone

-----------------------------------------------------------------------------
LEMMA StepClean == DeleteInv /\ CleanInv /\ [DNext]_dVars => CleanInv'
<1> SUFFICES ASSUME DeleteInv, CleanInv, [DNext]_dVars PROVE CleanInv'
  OBVIOUS
<1>1. CASE RunStep
  BY <1>1, UndoClean, FindMachinesClean, FindShortcutsClean, NextShortcutsClean,
     UsesDeletedClean, TasksClean, ConfigsClean, InventoryClean,
     OpenImagesClean, MachinesClean, FindFoldersClean,
     DecommissionClean, FoldersClean, CommitClean, RunEndsClean DEF RunStep
<1>2. CASE StartClients \/ StartFolders
  BY <1>2, StartClean
<1>3. CASE Console
  BY <1>3, ShortcutAddedClean, UseAddedClean, ImageAddedClean DEF Console
<1>4. CASE UNCHANGED dVars
  <2> USE <1>4 DEF dVars, tables, transaction, run, observed
  <2>1. TablesGood'
    BY TablesStay DEF CleanInv
  <2>2. CleanStart' /\ FoundClients' /\ ViewsDone'
    BY DEF CleanInv, WorkDone, CleanStart, FoundClients, ViewsDone
  <2>3. UsesDone' /\ KindsDone'
    BY DEF CleanInv, WorkDone, UsesDone, KindsDone, Handled
  <2>4. OwnedDone'
    BY DEF CleanInv, WorkDone, OwnedDone
  <2> QED BY <2>1, <2>2, <2>3, <2>4 DEF CleanInv, WorkDone
<1> QED BY <1>1, <1>2, <1>3, <1>4 DEF DNext

LEMMA CleanAlways == DSpec => []CleanInv
<1>1. DInit => CleanInv
  BY InitClean
<1>2. DeleteInv /\ CleanInv /\ [DNext]_dVars => CleanInv'
  BY StepClean
<1> QED BY <1>1, <1>2, DeleteAlways, PTL DEF DSpec

\* For any database, any batch size and whatever fails, what the two scripts
\* commit leaves no row behind that refers to something they deleted, in the
\* order in which they delete (delclients.wsf:239-270, delfolders.wsf:131-135);
\* only rows that console users add during a run can be left so.
THEOREM NothingEverDangles == DSpec => []NothingDangles
<1>1. CleanInv => NothingDangles
  BY RowByRow DEF CleanInv, TablesGood
<1> QED BY <1>1, CleanAlways, PTL

\* A client's own configuration for a task is deleted before the rest of its
\* task rows are sent to the Default folder (delclients.wsf, clean_Customs and
\* clean_Tasks), so it never becomes the configuration of that whole folder.
THEOREM CustomConfigsAlwaysStay == DSpec => []CustomConfigsStay
<1>1. CleanInv => CustomConfigsStay
  BY DEF CleanInv, TablesGood
<1> QED BY <1>1, CleanAlways, PTL

\* However many batches it takes, a client run that reaches its end has deleted
\* every client it found, and no configuration, inventory or image is left of
\* them but what was added meanwhile (delclients.wsf:258-276).
THEOREM CleanedAreAlwaysGone == DSpec => []CleanedAreGone
<1>1. CleanInv => CleanedAreGone
  BY DEF CleanInv, TablesGood, RefersToRows, WorkDone, FoundClients,
         CleanedAreGone
<1> QED BY <1>1, CleanAlways, PTL

=============================================================================
