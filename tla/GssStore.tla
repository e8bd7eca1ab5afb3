------------------------------ MODULE GssStore ------------------------------
(***************************************************************************)
(* The state that the Ghost Solution Suite scripts share: the installed    *)
(* server with its database, credentials and certificates, the registry    *)
(* key through which credentials travel, and the folders of backup         *)
(* cabinets with the shortcuts kept in them.                               *)
(*                                                                         *)
(* A key stands for one installation's credentials and certificates: the   *)
(* password the database accepts, the password the server holds, and the   *)
(* two .crt files belong together when they carry the same key.  A data    *)
(* number stands for one content of the database.                          *)
(***************************************************************************)
EXTENDS Integers, FiniteSets

CONSTANTS
    Keys,           \* the installations whose credentials can meet
    None,           \* a file, key or shortcut that is not there
    KeepCount,      \* KeepCount[kind]: /keep or the ...KeepCount registry value
    SharedFolder,   \* TRUE when the BackupFolder registry value is set
    Faults,         \* what the environment may do, see AllFaults
    MaxData,        \* bound: the contents the database goes through
    MaxDate         \* bound: the cabinets ever built

\* "crash"    a script is killed or the machine reboots between two steps
\* "dbbackup" dbbackup.exe writes nothing
\* "makecab"  makecab.exe fails
\* "readonly" the database copy dbbackup.exe writes can be read-only
\* "clock"    a cabinet can get a date older than cabinets already there
\* "restart"  the server can be started while exported credentials are in the
\*            registry, between two commands of the backup script
\* "named"    the operator also makes /name: cabinets in the backup folder
\* "expand"   expand.exe returns 0 although it extracted nothing
\* "extract"  expand.exe cannot extract a file: a damaged cabinet, a full disk
\* "file"     a file cannot be opened, deleted, moved or copied by the restore
\*            script after it has stopped the server
\* "start"    the server can be started while a restore runs
\* "stop"     ngserver -stop does not stop the server
\* "tree"     an unpacked backup can keep its database in a db\ subfolder
\* "noscript" the restore script is not there beside the backup script
\* "noundo"   the backup script may be missing beside the restore script
AllFaults == {"crash", "dbbackup", "makecab", "readonly", "clock", "restart",
              "named", "expand", "extract", "file", "start", "stop", "tree",
              "noscript", "noundo"}

\* A run that rotates its folder, and the run with /name: that does not.
Rotating == {"backup", "undo"}
Kinds == Rotating \cup {"named"}

DbFile == [data : Nat, key : Keys]

\* What a cabinet holds: passwords.reg, the certificates, the database.
\* passwords.reg is only a header when the registry key was gone.
Header == "header"
Body == [reg : Keys \cup {Header}, pub : Keys, priv : Keys, db : DbFile]
Cabinet == [folder : {"backup", "undo"}, date : Nat, body : Body]

ASSUME StoreAssumption ==
    /\ None # Header /\ Header \notin Keys
    /\ None \notin Keys /\ None \notin DbFile /\ None \notin Nat
    /\ KeepCount \in [Rotating -> Int]
    /\ SharedFolder \in BOOLEAN
    /\ Faults \subseteq AllFaults
    /\ MaxData \in Nat /\ MaxDate \in Nat

VARIABLES
    live,       \* the installed server: creds, pub, priv and db
    registry,   \* the key under HKLM\...\NGServer, or None
    server,     \* "up", "stopping" (dbserv.exe still runs) or "down"
    installed,  \* whether the server's service is installed
    nextData,   \* the next content the database will have
    cabs,       \* the cabinets in all folders
    link,       \* the two shortcuts each rotating kind maintains
    clock       \* the date of the last cabinet built

machineVars == <<live, registry, server, installed, nextData>>
folderVars == <<cabs, link, clock>>

Live == [creds : Keys, pub : Keys \cup {None}, priv : Keys \cup {None},
         db : DbFile \cup {None}]
Shortcuts == [open : Nat \cup {None}, restore : Nat \cup {None}]

StoreTypeOK ==
    /\ live \in Live
    /\ registry \in Keys \cup {None}
    /\ server \in {"up", "stopping", "down"}
    /\ installed \in BOOLEAN
    /\ nextData \in Nat
    /\ cabs \subseteq Cabinet
    /\ link \in [Rotating -> Shortcuts]
    /\ clock \in Nat

StoreInit ==
    /\ \E k \in Keys : live = [creds |-> k, pub |-> k, priv |-> k,
                               db |-> [data |-> 0, key |-> k]]
    /\ registry = None
    /\ server = "up"
    /\ installed = TRUE
    /\ nextData = 1
    /\ cabs = {}
    /\ link = [k \in Rotating |-> [open |-> None, restore |-> None]]
    /\ clock = 0

-----------------------------------------------------------------------------
(* Folders and their rotation. *)

\* /undo writes into GSSUndo<X> and everything else into GSSBackup, unless
\* the BackupFolder registry value sends both to one folder.
FolderOf(kind) ==
    IF kind = "undo" /\ ~SharedFolder THEN "undo" ELSE "backup"

FilesIn(f) == {c \in cabs : c.folder = f}
Newer(c, S) == {d \in S : d.date > c.date}

\* Variants: one file too many stays; the oldest stay.
KeepFiles_OffByOne(S, count) == {c \in S : Cardinality(Newer(c, S)) <= count}
KeepFiles_Oldest(S, count) ==
    {c \in S : Cardinality({d \in S : d.date < c.date}) < count}

\* keepFiles: with the files sorted by date, newest first, the first count
\* stay.  Two cabinets of one folder never carry the same date here.
KeepFiles(S, count) == {c \in S : Cardinality(Newer(c, S)) < count}

\* Variant: no floor.
EffectiveKeep_NoFloor(kind) == KeepCount[kind]

\* "two is the absolute minimum for safety"
EffectiveKeep(kind) == IF KeepCount[kind] < 2 THEN 2 ELSE KeepCount[kind]

-----------------------------------------------------------------------------
(* The server, as far as the scripts depend on it. *)

WholeLive == /\ live.pub = live.creds
             /\ live.priv = live.creds
             /\ live.db # None
             /\ live.db.key = live.creds

Whole(b) == b.pub = b.reg /\ b.priv = b.reg /\ b.db.key = b.reg

\* Starting the server makes it read the credentials left in the registry
\* and remove them from there.
StartedCreds == IF registry = None THEN live.creds ELSE registry

\* Console users change the database.
Work ==
    /\ server = "up"
    /\ WholeLive
    /\ nextData <= MaxData
    /\ live' = [live EXCEPT !.db = [@ EXCEPT !.data = nextData]]
    /\ nextData' = nextData + 1
    /\ UNCHANGED <<registry, server, installed>>

\* The suite is set up again, as on a replacement machine: new credentials,
\* new certificates, a new database; the cabinets stay.
Reinstall ==
    /\ nextData <= MaxData
    /\ \E k \in Keys \ {live.creds} :
         live' = [creds |-> k, pub |-> k, priv |-> k,
                  db |-> [data |-> nextData, key |-> k]]
    /\ registry' = None
    /\ server' = "up"
    /\ installed' = TRUE
    /\ nextData' = nextData + 1

\* The service is stopped or started by an administrator or a reboot.
AdminStop ==
    /\ server = "up"
    /\ server' = "down"
    /\ UNCHANGED <<live, registry, installed, nextData>>

AdminStart ==
    /\ server = "down" /\ installed
    /\ live.db # None
    /\ server' = "up"
    /\ live' = [live EXCEPT !.creds = StartedCreds]
    /\ registry' = None
    /\ UNCHANGED <<installed, nextData>>
=============================================================================
