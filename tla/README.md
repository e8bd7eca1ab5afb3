# A verification project for EspoScripts

EspoScripts is a technician's collection of Windows scripts. Most files are short
menus around single commands; a few programs keep state, run beside others and can
lose data. This project models those in TLA+, checks the models with TLC and
proves their main properties with TLAPS. Two parts of the repository qualify:

- the scripts for a Ghost Solution Suite (GSS) server in `# Imaging and Asset
  Tagging/gss-scripts_2009-08/`: they move the only copy of a production database,
  delete from it while others work, and call each other;
- in the copy of scapy that `WOL PXE Project` carries and its wake-on-lan tools call, the
  few files in which processes, threads and hosts really run at the same time: `sendrecv.py`,
  `automaton.py` and `layers/tftp.py`. They are third-party code, but the
  only concurrent and the only network protocol code that the repository runs, and the
  Python files with state to get wrong; the rest of scapy and all of impacket are
  packet formats and constants, and are not modelled.

Contents: [inventory](#1-inventory), [modules](#2-the-modules),
[how state and actions correspond to the code](#3-correspondence-to-the-code),
[runs](#4-runs), [proofs](#5-proofs), [findings](#6-findings),
[what is left out](#7-what-is-left-out), [plan](#8-plan).

## 1. Inventory

Paths are below the repository root. *GSS* is `# Imaging and Asset Tagging/gss-scripts_2009-08`.

### GSS database backup — `GSS/backupdb.wsf` (modelled)
- **State:** the folders of cabinets (`GSSBackup`, and `GSSUndo<X>` for
  `/undo:<X>`, or one folder when the `BackupFolder` registry value is set); the
  shortcuts "Open Latest ..." and "Restore/Undo Latest ..."; the working folder `cab_build`;
  the registry key through which `ngserver -export` hands out the credentials.
- **Operations:** export credentials, write `passwords.reg`, copy or dump the
  database, pack with `makecab`, clean up, rotate (`keepFiles`), rewrite shortcuts.
- **Interactions:** run by hand, or by `restoredb`, `delclients` and `delfolders`
  as a child process whose exit code they read.
- **Hard:** a run may die or fail anywhere and leave `cab_build` behind; several
  kinds of run rotate one folder; the server is up or down.
- **Correct when:** every cabinet is one consistent and current state; rotation
  neither overfills a folder nor deletes what a shortcut or a person still needs.

### GSS database restore — `GSS/restoredb.wsf` (modelled)
- **State:** the installed server (credentials, `pubkey.crt`, `privkey.crt`,
  database file, service), the registry key, the `extract` directory.
- **Operations:** undo backup, four extractions, stop or uninstall the server,
  import the registry values, replace three files, wait for `dbserv.exe`, restart.
- **Interactions:** starts `backupdb.wsf /undo:Restore` and waits; the server reads
  and deletes the registry key when it starts; the database service stops later
  than the server.
- **Hard:** the undo backup rotates the folder the restore reads from; users work
  until the server stops; a crash half way leaves a mixture of two states.
- **Correct when:** success means exactly the chosen state, giving up means nothing
  changed, an error after the stop leaves a database at hand, the undo cabinet is really there, and no mixture is ever served.

### GSS client and folder deletion — `GSS/delclients.wsf`, `GSS/delfolders.wsf` (modelled)
- **State:** a database transaction and, for clients, image files outside the database.
- **Operations:** undo backup; collect identifiers; delete the rows that refer to them
  in batches of at most 128, then the files, clients and folders; commit; tell the server.
- **Interactions:** the console's users change the same tables; `delclients` starts `backupdb.wsf`.
- **Hard:** files cannot be rolled back; lists are made once and used later.
- **Correct when:** nothing that is committed refers to what is gone, nobody else's
  data goes, what goes is in the undo cabinet, an image's row and its file go together, and a run ends.

### GSS client list and configuration names — `GSS/clientname.wsf`, `GSS/confignames.wsf` (planned)
- **State:** a parent relation of folders; a map from configuration to name.
- **Operations:** walk the tree and repair orphaned views; make names unique in a transaction.
- **Correct when:** every client is listed once; names are unique after the run.

### GSS log monitor — `GSS/tail.wsf` (modelled)
- **State:** the text and length of the last reading, and the display.
- **Hard:** another program appends to, rewrites, deletes or locks the file between any two steps.
- **Correct when:** the display is one reading, starts anew only for a reason, and catches up.

### GSS account scripts — `GSS/account.wsf`, `GSS/setaccount.wsf`, `GSS/password.wsf` (first one planned)
- `account.wsf` makes a directory account in several writes without undo. The
  other two set or show one value.

### Send and receive — `scapy/sendrecv.py` (partly modelled)
- **State:** `sndrcv` keeps, per hash, the stimuli that may still be answered, the lists
  it returns, a count, the rounds left and the time of each sending.
- **Operations:** fork a child that sends; receive, match and drop replies; time out; retry.
- **Hard:** child and parent run at once; replies are lost, repeated, late or ambiguous; Ctrl-C comes anywhere.
- **Correct when:** the two lists share the stimuli out, also when Ctrl-C comes while one is matched, what is reported as answered was sent,
  the number of rounds is what `retry` says, and with a timeout it returns.

### Automaton engine — `scapy/automaton.py` (partly modelled)
- **State:** the control thread, the pipes `cmdin` and `cmdout`, the lock `started`, the
  automaton's state with its breakpoint and single-step flags.
- **Interactions:** the caller's thread sends commands and verdicts and waits for replies.
- **Hard:** one pipe carries commands and verdicts; a thread can be stopped and restarted at any point.
- **Correct when:** one control thread runs at a time, replies are this thread's, no intercepted
  packet leaves that its caller was not shown or did not accept, and calls return.

### TFTP automata — `scapy/layers/tftp.py` (modelled)
- Two clients and two servers. **Hard:** packets are lost, repeated and reordered, requests are
  taken up twice, block numbers are 16 bits wide.
- **Correct when:** the receiver has the file's pieces in order and says so only when
  it has all; a sender that ends can rely on it; what fits ends.

### Pipe engine — `scapy/pipetool.py` (planned)
- A thread that carries messages between sources, drains and sinks, with `start`, `stop` and `wait_and_stop`.

### ImageCaster — `WOL PXE Project/WOL-PXE/imagecaster.bat`, `macextract.bat` (planned)
- A loop over switches that collects addresses in temporary files and wakes the
  machines behind them. Correct when every switch is visited once and each machine is woken.

### Spreadsheet import pipeline — `# Windows Interaction/Excel convert to CSV with filename/*.bat` (planned)
- Stages that hand over files and are started again by hand after an interruption.
  Correct when every row arrives once.

### Answer file fixer — `# Windows Interaction/Answer File Fixer/Answer-file-fix.bat` (planned)
- In-place replacement of a server name followed by a copy, once per server.
  Correct when each folder names its own server.

### Not to be modelled
- **Machine setup scripts** (`# Windows Interaction/rename-pc-etc-admin.bat`, ...):
  one operator, a few commands; the only state is a temporary file.
- **Sysprep configuration** (`ConfigMe.vbs`) and **user creation form**
  (`ANUC.ps1`): third-party programs, one pass over WMI or a form over directory cmdlets.
- **Printer, network and Windows settings scripts:** menus around single commands.
- **Other vendored code** (impacket, the rest of scapy, wol-e, printer kit, curl, ...): most of the
  1203 files and nearly all of the Python; formats and constants, without state over time.

## 2. The modules

| module | what it is |
|---|---|
| `GssStore` | the state all GSS backup scripts share: installed server, registry key, cabinet folders, shortcuts; rotation (`KeepFiles`); what users and administrators do |
| `GssBackup` | extends it with one run of `backupdb.wsf`, one action per command; its properties |
| `GssRestore` | extends both with `restoredb.wsf`, which runs `GssBackup`'s steps as its child; its properties |
| `GssPromise` | abstract: one whole state is served at a time, and after it was off only a state that was served before |
| `GssDelete` | `delclients.wsf` and `delfolders.wsf` over one transaction, beside console users; its properties |
| `LogMonitor` | `tail.wsf` and the owner of the file; its properties |
| `SendRecv` | `sndrcv`: parent, child, pipe and network; its properties |
| `Automaton` | control threads, pipes, lock and caller of `automaton.py`; its properties |
| `Tftp` | the four automata of `tftp.py`, each against a peer; its properties |
| `Transfer` | abstract: pieces of one source's file arrive in order, and completion is called at the last |
| `GssBackupProofs`, `GssRestoreProofs`, `GssDeleteProofs`, `LogMonitorProofs`, `SendRecvProofs`, `AutomatonProofs`, `TftpProofs` | theorems about the specification of the module they are named for, with their proofs |
| `MC...` | small instances for TLC |

`GssRestore` implements `GssPromise`: `serving` is the database content and key
when the server is up and its credentials, certificates and database belong
together, a state outside `known` when they do not, and `Off` when the server is
not up. The run `gss_restore` checks `ServesOnlyWhatWasServed` (`Promise!Spec`).

`Tftp` implements `Transfer`: `got` is what the receiving side has, `complete` whether it
calls the file complete (`END`, or the peer's last block). The run `tftp` checks `TransferDelivers`.

## 3. Correspondence to the code

**Data.** A *key* stands for one installation's credentials and certificates:
the password the database accepts, the password the server holds and the two
`.crt` files belong together when they carry the same key. A *data* number stands
for one content of the database. A cabinet is `[folder, date, body]`, its body
what `makecab` packs. File names, messages, dialogs and the lines of `.reg` files
are left out; `Header` is a `passwords.reg` that holds no values because the registry key was gone.

**Server.** `server` is `"up"`, `"stopping"` (the server is gone, `dbserv.exe` is
not) or `"down"`. Starting it makes it take the credentials in the registry and
delete the key (`AdminStart`, `Restart`).

**backupdb.wsf.** `Start` (switches, folders), `Export`, `Dump` (`exportHklm` and
`writeReg`), `DeleteOld`, `Database` (copy when the server is down, else
`dbbackup`), `Makecab`/`MakecabFails`, `Cleanup`, `Keep` (`keepFiles`), `LinkOpen`,
`LinkRestore`, `Return` (`WScript.Quit`). Steps are as coarse as the code allows
for a crash in between to show: `work`, the contents of `cab_build`, survives
each of them.

**restoredb.wsf.** `Select`, `RunUndo`, `UndoReturned`, `NoUndoScript`
(`takeBackup`), `ExtractFile`, `ExtractLeftover`, `ExtractFails` (`extract`), `Stop`,
`Import` (`importHklm`), `ClearReg`, `ClearPub`, `MovePub`, `ClearPriv`, `MovePriv`, `ClearDb`, `MoveDb`
(`moveFile` and `copyFile`, which delete first), `Wait`, `RemoveExtract`, `FileFails`,
`Restart`. `ExtractFails` can come at each of the four files. A restore ends in one of three ways: `"done"`; `"failed"`, which is
`WScript.Quit(1)` before the stop; and `"broken"`, a runtime error at any file operation after the stop. `FileFails` is always
possible where the service has the database open or the source is missing, elsewhere with the fault `file`. `Reinstalls` selects the server builds (1533 to 1536) for which the
script uninstalls the service, which clears the registry key, instead of stopping it.

**Faults.** The set `Faults` says what the environment may do:

| fault | meaning |
|---|---|
| `crash` | a script is killed between two steps; the server may be down afterwards |
| `dbbackup`, `makecab` | the program fails |
| `readonly` | the database copy may be read-only, as the code's own comment expects |
| `clock` | dates of new cabinets need not grow |
| `restart` | somebody starts the server while exported credentials are in the registry |
| `named` | the operator also makes `/name:` cabinets |
| `extract` | `expand.exe` does not extract a file from a cabinet that is there |
| `expand`, `stop` | `expand.exe` or `ngserver -stop` reports success without having done anything |
| `file` | a file operation after the stop fails (a file in use, a full disk) |
| `start` | somebody starts the server while a restore runs |
| `tree` | an unpacked backup may keep the database in a `db` subfolder |
| `noscript` | the restore script is not there beside the backup script |
| `noundo` | the backup script is not there beside the restore script |

No run sets `clock` or `restart`; the theorems of section 5 cover them where they say so. A new installation never comes
while a restore runs, and users never add to a database while its service is stopped.

**delclients.wsf, delfolders.wsf.** `db` is what is committed, `del` and `moved` what the open
transaction has done to it; `Seen` is the database as the transaction sees it. One
row type stands for the tables that are cleaned alike: `views` (folders and shortcuts),
`uses` (tasks, decommission tasks, custom configurations, reports, by `kind`), `owned` (images,
configurations, inventory). `todo` holds the dictionaries, and `KeysToSet` takes a batch out of
one, whichever keys it is. Failures: `sql`, a statement, a query or the call of `server.RefreshDatabase` raises an error; `file`, a file cannot
be deleted; `kill`, the script is killed anywhere, also between the commit and `RefreshDatabase`. Console users (`AddShortcut`, `AddUse`, `AddImage`) write between any two
statements, except to rows the transaction has deleted; they neither delete nor move any. `query()` opens its recordset with ADO's
default lock, which is read only, so `record.Delete` cannot succeed: `CleanImage`, when it has deleted the file, always ends the run.

**tail.wsf.** `Open`, `AtEnd` and `ReadAll` are the three calls between which the owner may write;
text is a sequence of symbols and `Restarting` the line the script writes when it starts anew.

**sendrecv.py.** `Fork`, `Top`, `Receive`/`HearOnly`/`SelectTimesOut` (one `select` with what follows),
`Collect` (reading the pipe, or its end, and waiting for the child), `Decide` (what is left, and `retry`). A reply is
`[of, n]`; `Passes` says which stimuli it may be taken to answer (`answers`), and of those it is compared with the ones of its
hash (`Rivals`). The lists in `hsent` start in the caller's order and only lose elements, so `hsent` is the set of what they hold, and
the first one that fits is the `Earliest`; `Listings` puts them one after the other again. `stime` holds whose
sending a time really is of. `ChildFails` is an exception in `pks.send`, after which the times of what was sent are still written;
`ChildDies` a child that writes none, so that the parent takes the `EOFError` branch. Ctrl-C comes while the parent waits (`Interrupt`),
between any two statements of a matching, from `ans.append` to the count (`InterruptAnswer`), and
outside the `try` (`InterruptElsewhere`). Decoding, printing and the BSD branch are left out.

**automaton.py.** `at` is where each control thread is. `Acquire`/`SetupFails` take the lock; `Acquire` sets the automaton up anew
but leaves `bp` (`breakpointed`) as the last thread left it, as the code does; replies carry their thread and its state. `Command` is
the loop of `_do_control`; `Break`, `Run`, `Intercept`, `Verdict`, `UnknownVerdict`, `ListenCommand`,
`ListenEvent`, `Finish` are `_do_iter` with `send`. The automaton is a chain of states of which some send and
some wait. The caller's calls are `CallRun` (`run`, `next`), `CallVerdict`, `CallRunbg`, `CtrlC`, `CallStop`
(`stop`, `restart`); `RunReturns`, `Stopped` and `Start` are their second halves. `Settings` says what a caller does:

| setting | meaning |
|---|---|
| `next`, `runbg`, `stop`, `ctrl-c` | it single-steps, runs in the background, stops for good, interrupts a `run()` |
| `loop` | it gives verdicts with `wait=False` and then calls `run()`, as the tests do |
| `hasty` | it calls `restart()` before the thread it has just started holds the lock |
| `nosocket` | the thread cannot open its sockets |

**tftp.py.** `role` chooses the automaton. A file is `size` pieces, the last one short; piece
numbers are exact, block numbers in packets are reduced modulo `MaxBlock + 1`. Packets are a set: each
may stay after it was received (duplicate), be overtaken or be lost. The peers (`Peer...`, `ServerStarts`)
are RFC 1350 and 2347 hosts, external to the code. `flags` are the cases listed in the module; a request without
options ends either server with an exception, as in the code.

**Observers.** `bseen`, `before` and `served` (GSS backup and restore), `undo` and `late` (deletion), `appended`
(monitor), `sent`, `round`, `fruitless`, `cut` and `slipped` (sndrcv), `accepted` and `delivered` (automaton) are not in the code: they
record what properties compare with (`before` also whether a restore found anything left by another, `slipped` the stimuli whose matching was
cut in two, `accepted` the very packets the caller was shown and accepted). No guard of the program's own steps depends on them; the hosts of
`SendRecv` answer only what `sent` says was sent.

**Fairness.**
- GSS scripts: weak fairness on the steps of a running script (`RunStep`, backup and restore
  steps). A process that was started goes on, the programs it waits for return, and an operator who
  is asked answers. Weak fairness on `DbservExits`: a stopped database service exits. None on
  users, administrators, new runs, crashes or failures. The wait loop for `dbserv.exe` makes `RestoreEnds` depend on the
  second assumption, and on `ngserver -stop` working.
- Monitor: weak fairness on its own steps, none on the owner.
- `SendRecv`: weak fairness on child, parent and `Tick`: both processes are scheduled and time passes. None
  on replies or Ctrl-C.
- `Automaton`: weak fairness on each control thread and on calls under way; strong fairness on `ListenEvent`: what
  a state waits for comes, even if commands come in between. None on what the caller calls.
- `Tftp`: weak fairness on timeouts, strong fairness on receiving: the network may lose packets, but of one sent
  again and again some copy arrives (fair loss). That is what the automata's retransmission relies on.

**Bounds.** `MaxData` bounds how often the GSS database content changes, `MaxDate` how many
cabinets are built, `MaxId` the rows console users add, `MaxChanges` and `MaxLen` what the monitored file goes through,
`MaxReplies` the packets that reach `sndrcv`, `MaxMishaps` its Ctrl-Cs, failing and dying children, `MaxSessions` the control threads, `Sizes` the
files. `MaxBlock` is the packet field's width. In `Automaton` the guards `Len(cmdin) < 2` bound commands
that a caller sends without waiting. They stop surroundings and callers, never a step of the program under way.

**Deadlock** is checked for `gss_delete` and `gss_delete_images`. The others set `CHECK_DEADLOCK FALSE`, because they do come to rest: the GSS scripts when
the bounds are used up, `sndrcv` and the transfers when they have returned, an automaton that was stopped for good, a
monitor that has shown everything or was stopped by an error. That none gets stuck before is what their liveness properties say.

## 4. Runs

| run | instance | what it shows |
|---|---|---|
| `gss_backup` | one shared folder, keep counts 1 and 3; crashes, failing dbbackup and makecab, named cabinets; 2 keys, 5 cabinets | cabinets are whole and current, a finished run's shortcuts lead to its cabinet, rotation keeps at most the count and never takes the two newest |
| `gss_restore` | separate folders, keep counts below the floor, the builds that are uninstalled; failing dbbackup and extraction of any file, unpacked trees, no undo backup; 2 keys, 3 cabinets | a restore that reports success delivers exactly the chosen state, shortcuts resolve, `GssPromise` is implemented, everything ends |
| `gss_restore_crash` | shared folder, the other builds; crashes anywhere, every extraction and file operation failing, `expand.exe` and `-stop` that do nothing, a server started during the restore; 2 keys, 3 cabinets | a restore that gives up changes nothing; no step loses the last database; the undo cabinet is there; a restore after crashed and broken ones still delivers the chosen state; the newest cabinet survives the undo backup |
| `gss_delete` | 3 clients (one with an image), 7 views, 4 uses, 4 owned rows, batches of one, a row added by a console user anywhere, every failure, killed anywhere | what is committed dangles only where rows were added meanwhile; nobody else's data is lost; undo cabinets hold what goes; clients found are gone; runs end |
| `log_monitor` | texts of up to 3 symbols of 2, 2 rewrites or deletions | the display is one reading, starts anew for a reason and catches up |
| `send_recv` | 3 stimuli, two with one hash and ambiguous replies, one answered twice; retry 1 and -1; with and without timeout, multi, chainCC; one mishap: Ctrl-C anywhere, a child that fails or dies | the lists are a partition but for what a Ctrl-C cut in two; counts, rounds and times are right; `sndrcv` returns |
| `automaton` | 4 states that send, wait, break and intercept, two with breakpoints; 3 control threads; four kinds of caller | one control thread, current replies, only accepted packets leave, understood verdicts, calls return |
| `tftp` | four automata, files of 1 to 4 pieces, block numbers to 3, two server processes | `Transfer` is implemented, senders know, transfers end |
| `gss_backup_readonly`, `gss_restore_selected`, `gss_delete_images`, `automaton_loop` | one fault or caller each, none at all for the deletion | the findings of section 6 |

**Why the bounds are enough.** *GSS backup and restore:* the floor on keep counts is two, so a third cabinet
starts rotation and a fourth (three plus one with `MCKeepMixed`) makes rotation by the
larger count visible; five give a run with the small count something left by the
large one. Two keys are what it takes to mix two installations. One change of content
(`MaxData` = 1) separates a stale database from a current one; a reinstallation also counts as one. Three cabinets are one to restore, one
for the undo backup and one that a crashed run leaves between them; with a floor of two the third starts rotation. The two keys are
interchangeable: runs without liveness properties use that symmetry.
*Deletion:* `Batch` = 1 turns each list of two into two batches, the last one full; every kind of row is there
for one of the clients, rows of one kind for two of them, and only the third has an image, at which its run ends; `MaxId` leaves one late row, and one can dangle.
*Monitor:* two symbols and two changes allow a truncation followed by the same and by another beginning.
*sndrcv:* two stimuli that can be confused and one that cannot; two replies to one of them; retry -1 and 1 leave room for a fruitful
round and a fruitless one; one mishap at a time, the theorems allow any number. *Automaton:* the second thread can meet leftovers of the first, and the third of a
restart after a restart. *TFTP:* sizes 1 to 3 fit the block numbers and 4 does not; two processes take up a repeated request.

## 5. Proofs

Every invariant that a passing run checks, every action property and both refinements are also theorems, for all values of the
constants. TLC finds the mistakes in small instances; the theorems say that nothing depends on how small they are: the
number of cabinets, installations, rows, stimuli, packets, sessions or file pieces, or the bounds of section 3.

**Assumptions.** Each module names what it takes for granted about its constants, and TLC evaluates it in every run:
`StoreAssumption` and `RestoreAssumption` (the values for "none" are no keys, files or cabinets; `Faults` names
known faults), `DeleteAssumption` (the database at the beginning is well formed: rows of one table have identifiers of their own,
there is a Default folder, nothing dangles, no custom configuration is in the Default folder, parents are folders;
`Batch > 0`), `MonitorAssumption`, `SendRecvAssumption` (at least one stimulus, no two the same object, each answered by the replies to it),
`AutomatonAssumption`, `TftpAssumption` (hosts have different addresses, files are not empty of pieces). Theorems that need a
fault switched off say so in their statement. What they then exclude is always a case in which the statement is false, as a
run or the second list of section 6 shows, unless noted.

### `GssBackupProofs`, about `BSpec`

- **`BackupTypes`** (`BackupTypeOK`), all faults. The type says more
  than types: a cabinet never lacks its certificates or its database, because
  `MakecabFails` is the only way on when a file is missing. It is inductive together
  with `Dumped`: between `Dump` and `Cleanup` the working folder has a `passwords.reg`.
- **`WholeCabinets`** (`CabinetsWhole`), when copies are never read-only and the
  server is not started in the middle of an export. The invariant `WholeInv` adds to the
  type what each step of the run has achieved: the server's own parts belong together,
  `passwords.reg` is of this installation from `Dump` on, no copy is left in `cab_build`
  after `DeleteOld` (none is ever read-only), and the copy there at `Makecab` is of the same installation.
  So what crashed runs leave behind does no harm.
  The assumption on read-only copies is needed: without it `gss_backup_readonly` is the counterexample.
- **`ShortcutsAlwaysResolve`** (`ShortcutsResolve`), for two folders, no crash, a
  clock that is not set back, no named cabinets and both scripts present. The invariant
  `LinkInv` says that dates are unique and none is later than `clock` (`UniqueDates`,
  `NoneLater`); that no cabinet of a folder is newer than the one its second shortcut leads to, except
  the one the run under way has just built (`OthersKnown`, `RestoreResolves`, `FreshThere`); and
  that the first shortcut leads to the same one or to the new one (`OpenLikeRestore`). So at
  most one cabinet is newer than the one the shortcuts lead to when the folder is rotated, and a floor of two keeps it.
  For a shared folder the statement is false: three undo runs rotate away the cabinet that the backup shortcuts lead to.
- **`NewestTwoAlwaysSurvive`** (`NewestTwoSurvive`), for every configuration and
  fault, dates that go back included: from `EffectiveKeep >= 2` and the finiteness of `cabs`.
- **`FoldersStayBounded`** (`FolderBounded`), for every configuration and fault. What the sort keeps are the first
  `K` of the cabinets with the fewest newer ones; that these are at most `K` is an argument about ranks: the number of newer
  cabinets tells cabinets of one folder apart, so it maps what is kept into `0..K-1` without a collision. That needs
  dates to be different, which `DatesInv` gives even when the clock goes back.
- **`CabinetsAreCurrent`** (`CabinetsCurrent`), unless copies can be read-only: a copy in `cab_build` at `Makecab` was made in this
  run (`CurrentInv`), whatever crashed runs left there.
- **`FinishedRunsAreLatest`** (`FinishedRunIsLatest`), with growing dates and both scripts present, shared folders, crashes and failures
  included: `LatestInv` follows the fresh cabinet from `Makecab` through the rotation, which keeps it because nothing is newer.

### `GssRestoreProofs`, about `Spec` of `GssRestore`

- **`RestoreTypes`** (`RestoreTypeOK`), all faults, with `OneAtATime` (the undo backup runs exactly while the restore waits for it) and
  `Chosen`.
- **`FailedRestoresAreHarmless`** (`FailedRestoreHarmless`), all faults: a restore gives up only before it stops the server, at whichever
  file it cannot extract, when all is as it found it (`HarmlessInv`). If somebody may start the server meanwhile, only where no earlier run has left
  values in the registry, which a start makes the server take: the property says so.
- **`NoDatabaseIsLost`** (`NoDatabaseLost`), all faults: from the stop until `MoveDb` the extracted database is there, and when the
  extract directory is removed the server has one (`DatabaseInv`, with `NeedsDb` for the first of these steps). A restore from a directory deletes before it looks and is excepted, as the property says.
- **`NewestSelectedAlwaysSurvives`** (`NewestSelectedSurvives`), all faults: if the chosen cabinet was the newest of its folder, the undo
  backup adds one newer one at most (`NewestInv`) and its rotation keeps two.
- **`RestoresDeliver`** (`RestoreDelivers`), all faults: `DeliveryInv` says which extracted files are the chosen ones at which step (`Extraction`),
  which are in place (`Placed`), that nothing is touched before the stop and that from then on the server stays down unless somebody
  starts it. It survives crashed and broken restores because each restore extracts all four files again. When `expand.exe` may report success
  for nothing that is not so: the property then only speaks of restores that found the extract directory empty, or do not use it.
- **`UndoCabinetAlwaysThere`** (`UndoCabinetThere`), where nothing mixes installations (`NothingMixes`: no crash, `file`, `tree`, `start`, `expand`,
  `readonly`, `restart`) and the clock is not set back. The run `gss_restore_crash` checks it with `crash`, `expand`, `file`
  and `start` on: that the theorem excludes these is for the sake of its invariant, which is about all cabinets.
- **`ServesOnlyWhatItServed`** (`ServesOnlyWhatWasServed`, the refinement of `GssPromise`), where nothing mixes and the server stops when told. `OneWhole` carries
  `WholeInv` through the swap, where the server's parts are of two installations for some steps; `ServedInv` says that each database there
  is has been served; `PromiseInv` that while the server is up `known` has the live one, that it is not up during the swap, and
  that the next content is new. Then each action is matched with `Change`, `SwitchOff`, `SwitchOn` or a stutter.
- **`ShortcutsResolveBesideRestores`** (`ShortcutsResolve`), as for backups alone.

### `GssDeleteProofs`, about `DSpec`: any database, batch size, number of runs, clients and added rows, all failures

- **`UndoAlwaysHoldsDeleted`** (`UndoHoldsDeleted`) and **`OthersNeverTouched`** (`OthersUntouched`). Neither is inductive:
  `DeleteInv` adds that what the run's dictionaries, batch and cursor hold matches the pattern (`WorkMatches`), that the transaction only
  has such rows and no task (`DeletedMatches`), all of them still in the tables (`DeletesRows`), that identifiers of views are unique and the next one free
  (`IdsUnique`; `clean_Folders` deletes by identifier, so a shortcut with a folder's identifier would go with it), which script can be at which step
  (`StepsOfScript`), that nothing is left between runs (`IdleClean`), and that until the commit the tables have grown by late rows only
  since the undo cabinet was made (`UndoHolds`). Each action has its lemma; only `Commit` and the image loop then need an argument of their own.
- **`NothingEverDangles`** (`NothingDangles`), **`CustomConfigsAlwaysStay`** (`CustomConfigsStay`) and **`CleanedAreAlwaysGone`** (`CleanedAreGone`). A commit
  leaves nothing dangling because of the order of the steps, so `CleanInv` says for each step what has been done by then, apart from late rows:
  every view, use and owned row of the clients found is in the transaction, or still in a dictionary or the batch (`ViewsDone`, `UsesDone`, `KindsDone`, `OwnedDone`),
  the uses of a kind before its views, custom configurations before the tasks are moved; a client goes only when it has no image but a late one, because the run ends at any other
  (the image clause of `OwnedDone`). Folders found empty stay
  without old rows (`FoldersKept`).

### `LogMonitorProofs`, about `MSpec`

- **`DisplayIsAlwaysReading`** (`DisplayIsReading`) and **`RestartsAreForChanges`** (`RestartsForChange`). `MonitorInv`: the display since its last restart is
  the text remembered, and while the owner has only appended since then, that text is the beginning of the file, so the next reading continues it.

### `SendRecvProofs`, about `SRSpec`: any stimuli, hashes, replies, `retry`, interrupts and failing children

- **`StimuliArePartitioned`** (`Partition`): the lists hold what is not answered (with `multi` all of it, with the flags), and the count goes with
  them, but for the stimuli whose matching a Ctrl-C cut in two (`slipped`): such a stimulus can be in both lists, and the count is then
  not claimed (`AnsInv`). Replies carry numbers that no used one has (`Numbered`).
- **`AnsweredWereSent`** (`AnsweredWasSent`). A reply counts for the first rival, not for the stimulus it is of, so this is an argument by counting:
  rivals go out in their order (`SentInOrder`, `Ordered`) and are answered in their order (`FirstAnswered`); each answer used up one reply, and without
  second replies these came from as many rivals that were sent; two beginnings of one list of which the answered one is no
  longer than the sent one. It needs rivals to be alike (`Alike`, part of the property).
- **`AlwaysGivesUpInTime`** (`GivesUpInTime`): `RetryInv` ties `retry` to the rounds, or to the fruitless ones since the last success.
- **`TimesAlwaysRight`** (`SentTimesRight`): until an emission is cut short or a child dies the child's list has no gaps (`NoGaps`), so positions fit. Afterwards
  the statement is false, on either account.

### `AutomatonProofs`, about `ASpec`: any automaton (states that send, wait, break or intercept) and number of threads

- **`OneThreadAtATime`**: at most one control thread runs, with every caller and fault. The invariant is that a running thread holds the lock (`LockHeld`).
- **`OneControlHolds`** (`OneControl`): and none runs from the return of `stop()` until `start()`, if no caller is `hasty`. `Patient` adds that all threads
  before the last are dead, the later ones not there yet, and that the last one has started before it is stopped. With a `hasty` caller it is false: `stop()` does not
  wait for a thread that has not taken the lock yet.
- **`AnswersAlwaysCurrent`** (`AnswersAreCurrent`), no `hasty` caller: all that is in `cmdout` is from the last thread.
- **`VerdictsAlwaysUnderstood`** (`VerdictsUnderstood`), no `hasty` caller: caller and thread take turns (`TurnInv`: one command or one reply is under way, and it
  is a verdict or an interception exactly when the thread waits for a verdict).
- **`OnlyAcceptedEverLeave`** (`OnlyAcceptedLeave`), no `hasty` caller, one that does not wait for replies included: `AskedInv` says that while the thread waits for a
  verdict at most one thing tells of its packet: the interception in `cmdout`, the caller's knowledge of it, or one verdict in `cmdin`, which
  if it accepts is for this very packet; and that at all other steps before the thread ends there is nothing of the kind.

### `TftpProofs`, about `FSpec`: any file size, field width, number of servers, loss, repetition and reordering

- **`TransfersAreInStep`** (`InStep`): the argument of stop and wait, for each of the four automata, scapy sending or receiving. The block the sender
  is at, and each piece of DATA under way, is one ahead of what the receiver has at most (`Has`). It follows from `FInv`: what the receiver has is the start of one
  source's file (`StartOf`), each DATA is a piece that was sent under its own number
  and each ACK acknowledges a piece that was received. Numbers are compared after reduction modulo `MaxBlock + 1`, and
  the invariant shows that no block past the width is ever taken or acknowledged, so an equal number is an equal piece.
- **`SendersKnow`** (`SenderKnows`) and **`TransfersDeliver`** (`TransferDelivers`, the refinement of `Transfer`) from `FInv`: each step delivers the next piece or
  changes nothing that `Transfer` sees. As in the run, a file that `TFTP_WRQ_server` spoils and a client that has lost the OACK are not covered.

**Only model-checked.** Liveness (`BackupEnds`, `RestoreEnds`, `RunEnds`, `CatchesUp`, `SndrcvReturns`, `CallsReturn`, `TransferEnds`): the prover
has no rules for fairness and `ENABLED`. The four findings of section 6 are counterexamples and need no proof. What the theorems say of `keepFiles`, of batches and of
lists is about sets and ranks; that the scripts' loops compute those sets is in the translation, not proved.

## 6. Findings

Each is a run that ends in a counterexample to what the repository says; lines are quoted in `PROJECT.json`.

1. `gss_backup_readonly`: a read-only database copy left by a failed run is not
   deleted (no force flag, errors ignored), stops `dbbackup` from being run, and is
   packed with credentials it does not belong to.
2. `gss_restore_selected`: the undo backup deletes the cabinet chosen for the
   restore, before it is extracted.
3. `gss_delete_images`: with no failure from outside, `delclients` deletes the image file of a deleted client and then fails at
   `record.Delete`, because the recordset is read only. The transaction is rolled back: the row stays and names a file that is
   gone, and each further try fails at deleting that file. So a client that has an image is never deleted.
4. `automaton_loop`: the loop around `run()` in scapy's tests, which accepts packets with `wait=False`, can have its next
   RUN taken for the verdict on the next packet, and ends with an AutomatonError.

What the models also show, where no doc or test of the repository says otherwise:

- With `BackupFolder` set, undo runs rotate away the cabinet that the backup shortcuts lead to.
- Files of a crashed restore in the `extract` directory pass for those of the chosen
  cabinet when `expand.exe` returns 0 without extracting.
- For an unpacked directory whose database is in `db` the restore deletes the installed database and then finds no source.
- What users do between the undo backup and the stop of the server is in no cabinet.
- A deletion whose script is killed after the commit, or whose call of `RefreshDatabase` fails, is in the database without the server having
  been told; no later run makes up for it unless it deletes something itself.
- An error at a file operation after the stop ends a restore with the server stopped and its files of two states. A later whole restore repairs it;
  starting the server before that serves the mixture.
- A row that a console user adds while a deletion runs can be left without its client or folder.
- The monitor stops with an error when the file is truncated between `AtEndOfStream` and `ReadAll`, and does not notice a
  file that was rewritten with the old beginning and made at least as long (`DisplayIsReading` holds all the same).
- `sndrcv` without a timeout, or with 0, waits for ever for the last answer; after Ctrl-C in the middle of an emission
  sending times go to the wrong packets, and those of a child that dies are missing; a Ctrl-C in the middle of a matching can leave a stimulus in both lists, and it
  is then sent again, or the count wrong; a host that answers twice can have a stimulus of the same hash count as answered that was never sent, and so can
  replies that pass from one stimulus to another but not back (a third one is answered early; `Alike` excludes this).
- `restart()` right after `start()` can leave two threads on one pair of pipes (one runs after the other); an exception in the
  control thread's set-up leaves `run()` waiting.
- TFTP: a file of a multiple of the block size ends with an empty block that the WRQ server cannot load or pads; the RRQ server
  never repeats its OACK, so a client with a small block size that has lost it takes the first block for the whole file; it never gives up a client that
  has left; both servers end with an exception on a request without options; transfers of more than 65535 blocks do not end.

## 7. What is left out

- `/diags`, which only adds files to the cabinet; elevation; help texts; servers older than
  the `-export` switch; `/path:` to other folders than the two.
- Parsing of `.reg` lines: only whose key the file carries, or none.
- Two files of a folder with the same date (the sort would not decide between them).
- Two GSS scripts started by hand at the same time: neither takes a lock, and both
  would write the same `cab_build`. The models run one at a time, with the child of a restore.
- In `GssDelete` the undo backup is one step with its two outcomes (its inside is `GssBackup`); console users add rows, they neither delete nor move
  any (a shortcut moved into a folder found empty is not covered). What the server does when `RefreshDatabase` tells it is not modelled, so
  there is no property about its being told.
- The loops of `keepFiles` and `keysToSet`, character by character and index by index: a folder and a dictionary are sets, and what the
  loops compute from them is in the translation. `dbbackup` makes its file whole or not at all.
- `sndrcvflood`, `sniff`, `send` loops and `bridge_and_sniff`, which keep nothing between packets; the automaton's ioevents and graph.
- `TFTP_RRQ_server` with two clients at once, whose ACKs it would confuse: `Tftp` has one.

**Not modelled.** The Python files of the repository, the ones a coverage measure counts, are almost all of them the vendored packet formats and
constant tables of scapy and impacket (`gsm_um.py`, `hresult_errors.py`, `nt_errors.py`, `smb.py`, ...). They declare layouts; they have no states, no
steps and nothing to interleave, so a model would only repeat them. The share of Python lines in the map stays small for that reason. The
modelled scripts are `.wsf` files.

## 8. Plan

Done, in this order: `GssStore`, `GssBackup`, its proofs, `GssPromise`, `GssRestore`, `GssDelete`,
`SendRecv`, `Automaton`, `Transfer` and `Tftp`, `LogMonitor`, `AutomatonProofs`, `GssDeleteProofs`, `GssRestoreProofs`,
`TftpProofs`, `LogMonitorProofs`, `SendRecvProofs`.

To come, the most important first:

1. Which hypotheses of the theorems can go: `ServesOnlyWhatItServed` says nothing after a crash or error within the swap, where
   a weaker promise (nothing else is served once a later restore has succeeded) could be stated; `UndoCabinetAlwaysThere` with crashes and other clocks.
2. `PipeEngine` (`pipetool.py`): start and stop against the engine's thread.
3. `ConfigNames` and `ClientTree` as pure operators over small maps and parent relations,
   compared with reference definitions; `ImageCaster` with its loop and temporary files.
4. `Account`, `SheetPipeline` and `AnswerFiles`, with interruptions between stages.
5. Two GSS scripts at once, if the shared `cab_build` can be kept small enough.
