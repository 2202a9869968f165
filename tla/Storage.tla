------------------------------ MODULE Storage ------------------------------
(***************************************************************************)
(* The output volume, the database file, and the backup and restore of     *)
(* both: an export is published by a rename after the verdict of its run   *)
(* was committed, a backup copies the database and then the files, and a   *)
(* restore replaces the database file by file operations that a crash can  *)
(* separate.  Nothing in the repository calls createBackup and             *)
(* restoreBackup yet; their hooks are supplied by the caller, who is       *)
(* assumed to stop the worker before the copy and to stop the server       *)
(* before the replacement.                                                 *)
(***************************************************************************)
EXTENDS Naturals, Sequences, FiniteSets

CONSTANTS
  Runs,          \* scan run ids
  Payloads,      \* canonical export documents
  Destinations,  \* backup directories
  Pids,          \* process ids a restore may run under
  None,
  MaxCrashes     \* bound on the deaths of a process

\* Run ids are UUIDs.
ASSUME RunsAssumption == Runs \cap {"", ".", ".."} = {}
ASSUME PayloadAssumption == Payloads \cap {"open", "export_failed", "torn"} = {}
ASSUME CrashAssumption == MaxCrashes \in Nat

VARIABLES
  main,     \* what the file at dbPath and its log hold together, None without the file
  log,      \* the -wal and -shm beside it: None, "own", or left by an "other" file
  volume,   \* path -> content of the file in the output volume
  backup,   \* destination -> what has been written there
  server,   \* is it up, does its worker take operations
  worker,   \* the run whose verdict is committed and whose export is not
  copying,  \* createBackup in progress
  restore,  \* restoreBackup in progress
  left,     \* pid -> temporary database file of a restore
  crashes,  \* deaths so far
  cut,      \* history: runs whose export a death or an overwritten backup has lost
  held      \* history: is this a restored database nobody has resumed the work of, or one
            \*          whose restore was cut off before it paused the work

dbVars == <<main, log>>
procVars == <<server, worker, copying, restore, crashes>>
history == <<cut, held>>
vars == <<dbVars, volume, backup, procVars, left, history>>

Verdicts == Payloads \cup {"open", "export_failed"}
Database == [verdict : [Runs -> Verdicts], sessions : BOOLEAN, paused : BOOLEAN]
Export == [run : Runs, bytes : Payloads, staged : BOOLEAN]
Empty == [verdict |-> [r \in Runs |-> "open"], sessions |-> FALSE, paused |-> FALSE]

-----------------------------------------------------------------------------
(* Keys are paths below the volume's root, split at the slashes. *)
Base(r) == <<"exports", r, "base.json">>
Temporary(r) == <<"exports", r, "base.json.tmp">>
Paths == {Base(r) : r \in Runs} \cup {Temporary(r) : r \in Runs}
Content == Payloads \cup {"torn", None}
Files == [Paths -> Content]
NoFiles == [p \in Paths |-> None]
Present(files) == {p \in Paths : files[p] # None}

\* None is no value of what it stands in for.
ASSUME NoneAssumption == None \notin Payloads \cup {"torn", "own", "other"} \cup Database \cup Export \cup Files

ValidStorageKey(key) == key # <<>> /\ \A i \in 1..Len(key) : key[i] \notin {"", ".", ".."}
ValidExportKey(key) ==
  ValidStorageKey(key) /\ Len(key) = 3 /\ key[1] = "exports" /\ key[3] = "base.json"
RunOf(key) == key[2]

\* A reader accepts canonical documents only; a torn file is listed as unavailable.
Canonical(content) == content \in Payloads
ListedExports == {p \in Present(volume) : ValidExportKey(p)}
ReadableExports == {p \in ListedExports : Canonical(volume[p])}

Backup == [db : Database \cup {None}, files : Files, manifest : Files \cup {None}, reused : BOOLEAN]
Idle == [at |-> "idle"]

Init ==
  /\ main = [Empty EXCEPT !.sessions = TRUE]
  /\ log = "own"
  /\ volume = NoFiles
  /\ backup = [d \in Destinations |-> [db |-> None, files |-> NoFiles, manifest |-> None, reused |-> FALSE]]
  /\ server = [up |-> TRUE, working |-> TRUE]
  /\ worker = None
  /\ copying = Idle
  /\ restore = Idle
  /\ left = [p \in Pids |-> None]
  /\ crashes = 0
  /\ cut = {}
  /\ held = "no"

-----------------------------------------------------------------------------
(* The worker ends a run: verdict, temporary file, rename.                 *)
FinishRun(r) ==
  /\ server.up /\ server.working /\ ~main.paused
  /\ worker = None
  /\ main.verdict[r] = "open"
  /\ \E p \in Payloads :
       /\ main' = [main EXCEPT !.verdict[r] = p]
       /\ worker' = [run |-> r, bytes |-> p, staged |-> FALSE]
  /\ UNCHANGED <<log, volume, backup, server, copying, restore, left, crashes, history>>

\* Mutant: a file that exists is replaced.
ConflictIgnored(r, bytes) == FALSE
Conflict(r, bytes) == volume[Base(r)] \notin {None, bytes}

\* No file yet: the bytes go to a temporary file beside the target.
StageExport ==
  /\ worker # None
  /\ ~worker.staged
  /\ ~Conflict(worker.run, worker.bytes)
  /\ volume[Base(worker.run)] # worker.bytes
  /\ volume' = [volume EXCEPT ![Temporary(worker.run)] = worker.bytes]
  /\ worker' = [worker EXCEPT !.staged = TRUE]
  /\ UNCHANGED <<dbVars, backup, server, copying, restore, left, crashes, history>>

PublishExport ==
  /\ worker # None
  /\ worker.staged
  /\ volume' = [volume EXCEPT ![Base(worker.run)] = worker.bytes, ![Temporary(worker.run)] = None]
  /\ worker' = None
  /\ UNCHANGED <<dbVars, backup, server, copying, restore, left, crashes, history>>

\* The same bytes are there already, as after a restore that went back before this run's end.
ExportPresent ==
  /\ worker # None
  /\ ~worker.staged
  /\ volume[Base(worker.run)] = worker.bytes
  /\ worker' = None
  /\ UNCHANGED <<dbVars, volume, backup, server, copying, restore, left, crashes, history>>

\* Mutant: a failed write leaves the verdict as it was.
ExportFailsSilently ==
  /\ worker # None
  /\ worker' = None
  /\ UNCHANGED <<dbVars, volume, backup, server, copying, restore, left, crashes, history>>
\* The write is refused or fails; the temporary file is removed.
ExportFails ==
  /\ worker # None
  /\ main' = [main EXCEPT !.verdict[worker.run] = "export_failed"]
  /\ volume' = IF worker.staged THEN [volume EXCEPT ![Temporary(worker.run)] = None] ELSE volume
  /\ worker' = None
  /\ UNCHANGED <<log, backup, server, copying, restore, left, crashes, history>>

-----------------------------------------------------------------------------
(* createBackup.                                                           *)
\* Mutant: the worker is not waited for.
QuiescentAtOnce == TRUE
Quiescent == worker = None

\* The hooks have stopped the worker and waited for what it was doing.
BeginBackup(d) ==
  /\ server.up
  /\ copying = Idle /\ restore = Idle
  /\ Quiescent
  /\ server' = [server EXCEPT !.working = FALSE]
  /\ copying' = [at |-> "database", to |-> d]
  /\ backup' = [backup EXCEPT ![d].reused = @ \/ backup[d].db # None]
  /\ UNCHANGED <<dbVars, volume, worker, restore, left, crashes, history>>

CopyDatabase ==
  /\ copying.at = "database"
  /\ backup' = [backup EXCEPT ![copying.to].db = main]
  /\ copying' = [at |-> "files", to |-> copying.to, listed |-> volume, rest |-> Present(volume)]
  /\ UNCHANGED <<dbVars, volume, server, worker, restore, left, crashes, history>>

\* Files are copied with the flag wx: an older backup's file ends the call.
CopyFile ==
  /\ copying.at = "files"
  /\ \E p \in copying.rest :
       IF backup[copying.to].files[p] # None
       THEN copying' = Idle /\ UNCHANGED backup
       ELSE /\ backup' = [backup EXCEPT ![copying.to].files[p] = copying.listed[p]]
            /\ copying' = [copying EXCEPT !.rest = @ \ {p}]
  /\ UNCHANGED <<dbVars, volume, server, worker, restore, left, crashes, history>>

WriteManifest ==
  /\ copying.at = "files"
  /\ copying.rest = {}
  /\ backup' = IF backup[copying.to].manifest = None
               THEN [backup EXCEPT ![copying.to].manifest = copying.listed] ELSE backup
  /\ copying' = Idle
  /\ UNCHANGED <<dbVars, volume, server, worker, restore, left, crashes, history>>

-----------------------------------------------------------------------------
(* restoreBackup, statement by statement.                                  *)
Verified(d) ==
  /\ backup[d].manifest # None
  /\ backup[d].db # None
  /\ \A p \in Present(backup[d].manifest) : backup[d].files[p] = backup[d].manifest[p]

\* The backup is verified before anything is touched; then the hook stops the
\* server, whose last connection takes its log with it.
BeginRestore(d, p) ==
  /\ copying = Idle /\ restore = Idle
  /\ worker = None
  /\ Verified(d)
  /\ server' = [up |-> FALSE, working |-> FALSE]
  /\ log' = IF server.up THEN None ELSE log
  /\ restore' = [at |-> "temporary", from |-> d, pid |-> p]
  /\ UNCHANGED <<main, volume, backup, worker, copying, left, crashes, history>>

\* Also with the flag wx: what a restore of the same pid has left ends the call.
WriteTemporary ==
  /\ restore.at = "temporary"
  /\ IF left[restore.pid] # None
     THEN restore' = Idle /\ UNCHANGED left
     ELSE /\ left' = [left EXCEPT ![restore.pid] = backup[restore.from].db]
          /\ restore' = [restore EXCEPT !.at = "remove"]
  /\ UNCHANGED <<dbVars, volume, backup, server, worker, copying, crashes, history>>

RemoveDatabase ==
  /\ restore.at = "remove"
  /\ main' = None
  /\ log' = IF log = None THEN None ELSE "other"
  /\ restore' = [restore EXCEPT !.at = "removeLog"]
  /\ held' = "no"
  /\ UNCHANGED <<volume, backup, server, worker, copying, left, crashes, cut>>

\* Mutant: only the shared memory file is removed.
LogRemovedKept == log
LogRemoved == None

RemoveLog ==
  /\ restore.at = "removeLog"
  /\ log' = LogRemoved
  /\ restore' = [restore EXCEPT !.at = "rename"]
  /\ UNCHANGED <<main, volume, backup, server, worker, copying, left, crashes, history>>

RenameTemporary ==
  /\ restore.at = "rename"
  /\ main' = left[restore.pid]
  /\ left' = [left EXCEPT ![restore.pid] = None]
  /\ restore' = [restore EXCEPT !.at = "open"]
  /\ held' = "held"
  /\ cut' = IF backup[restore.from].reused THEN Runs ELSE cut
  /\ UNCHANGED <<log, volume, backup, server, worker, copying, crashes>>

\* Opening a file beside a log replays the log, whoever wrote it.
LogOpened == IF main # None /\ log = "other" THEN "other" ELSE "own"

OpenRestored ==
  /\ restore.at = "open"
  /\ log' = LogOpened
  /\ restore' = [restore EXCEPT !.at = "revoke"]
  /\ UNCHANGED <<main, volume, backup, server, worker, copying, left, crashes, history>>

RevokeSessions ==
  /\ restore.at = "revoke"
  /\ main' = [main EXCEPT !.sessions = FALSE]
  /\ restore' = [restore EXCEPT !.at = "pause"]
  /\ UNCHANGED <<log, volume, backup, server, worker, copying, left, crashes, history>>

\* Mutant: the control row of the backup is kept.
PausedAsBefore(db) == db
Paused(db) == [db EXCEPT !.paused = TRUE]

PauseWork ==
  /\ restore.at = "pause"
  /\ main' = Paused(main)
  /\ restore' = [restore EXCEPT !.at = "close"]
  /\ UNCHANGED <<log, volume, backup, server, worker, copying, left, crashes, history>>

CloseRestored ==
  /\ restore.at = "close"
  /\ log' = None
  /\ restore' = [at |-> "files", from |-> restore.from, rest |-> Present(backup[restore.from].manifest)]
  /\ UNCHANGED <<main, volume, backup, server, worker, copying, left, crashes, history>>

\* Files are put back over what is there; files the backup does not know stay.
PutBack ==
  /\ restore.at = "files"
  /\ \E p \in restore.rest :
       /\ volume' = [volume EXCEPT ![p] = backup[restore.from].files[p]]
       /\ restore' = [restore EXCEPT !.rest = @ \ {p}]
  /\ UNCHANGED <<dbVars, backup, server, worker, copying, left, crashes, history>>

EndRestore ==
  /\ restore.at = "files"
  /\ restore.rest = {}
  /\ restore' = Idle
  /\ UNCHANGED <<dbVars, volume, backup, server, worker, copying, left, crashes, history>>

-----------------------------------------------------------------------------
(* The process and its user.                                               *)
\* A database that is not there is created and migrated; SQLite drops the log of an absent file.
Start ==
  /\ ~server.up
  /\ restore = Idle
  /\ main' = IF main = None THEN Empty ELSE main
  /\ log' = LogOpened
  /\ server' = [up |-> TRUE, working |-> TRUE]
  /\ UNCHANGED <<volume, backup, worker, copying, restore, left, crashes, history>>

Login ==
  /\ server.up
  /\ main' = [main EXCEPT !.sessions = TRUE]
  /\ UNCHANGED <<log, volume, backup, procVars, left, history>>

SetWorkPaused ==
  /\ server.up
  /\ main' = [main EXCEPT !.paused = FALSE]
  /\ held' = "no"
  /\ UNCHANGED <<log, volume, backup, procVars, left, cut>>

\* The runs whose export is lost when everything stops now.
InHand ==
  (IF worker # None THEN {worker.run} ELSE {}) \cup
  (IF restore.at \in {"open", "revoke", "pause", "close"} THEN Runs
   ELSE IF restore.at = "files" THEN {RunOf(p) : p \in restore.rest} ELSE {})

\* The server or the tool that restores dies; the file being put back is torn.
Crash ==
  /\ crashes < MaxCrashes
  /\ server.up \/ restore # Idle
  /\ volume' \in {volume} \cup
       (IF restore.at = "files" THEN {[volume EXCEPT ![p] = "torn"] : p \in restore.rest} ELSE {})
  /\ cut' = cut \cup InHand
  /\ server' = [up |-> FALSE, working |-> FALSE]
  /\ worker' = None
  /\ copying' = Idle
  /\ restore' = Idle
  /\ crashes' = crashes + 1
  /\ held' = IF held = "held" /\ restore.at \in {"open", "revoke", "pause"} THEN "cut" ELSE held
  /\ UNCHANGED <<dbVars, backup, left>>

\* An orderly stop waits for the worker and closes the last connection.
Stop ==
  /\ server.up
  /\ worker = None
  /\ copying = Idle /\ restore = Idle
  /\ server' = [up |-> FALSE, working |-> FALSE]
  /\ log' = None
  /\ UNCHANGED <<main, volume, backup, worker, copying, restore, left, crashes, history>>

\* The volumes are lost, or the backup is taken to fresh ones.
LoseVolumes ==
  /\ ~server.up
  /\ restore = Idle
  /\ main # None
  /\ main' = None /\ log' = None
  /\ volume' = NoFiles
  /\ left' = [p \in Pids |-> None]
  /\ held' = "no"
  /\ UNCHANGED <<backup, procVars, cut>>

-----------------------------------------------------------------------------
WorkerStep == StageExport \/ PublishExport \/ ExportPresent \/ ExportFails
BackupStep == CopyDatabase \/ CopyFile \/ WriteManifest
RestoreStep ==
  \/ WriteTemporary \/ RemoveDatabase \/ RemoveLog \/ RenameTemporary
  \/ OpenRestored \/ RevokeSessions \/ PauseWork \/ CloseRestored
  \/ PutBack \/ EndRestore

Next ==
  \/ \E r \in Runs : FinishRun(r)
  \/ WorkerStep
  \/ \E d \in Destinations : BeginBackup(d)
  \/ BackupStep
  \/ \E d \in Destinations, p \in Pids : BeginRestore(d, p)
  \/ RestoreStep
  \/ Start \/ Login \/ SetWorkPaused \/ Stop \/ Crash \/ LoseVolumes

Spec == Init /\ [][Next]_vars

-----------------------------------------------------------------------------
TypeOK ==
  /\ main \in Database \cup {None}
  /\ log \in {None, "own", "other"}
  /\ volume \in Files
  /\ backup \in [Destinations -> Backup]
  /\ server \in [up : BOOLEAN, working : BOOLEAN]
  /\ worker \in Export \cup {None}
  /\ left \in [Pids -> Database \cup {None}]
  /\ crashes \in 0..MaxCrashes
  /\ cut \subseteq Runs
  /\ held \in {"no", "held", "cut"}

\* SQLite replays whatever log lies beside the file it opens, so the log of the
\* database that was there before must be gone by then, wherever a restore was
\* cut off and whoever opens the file next (restoreBackup, startRuntime).
NoForeignLog == server.up \/ restore.at \in {"revoke", "pause", "close"} => log = "own"

\* A backup with a manifest holds, for every run its database calls finished,
\* the export that run published: neither a verdict without its file nor a file
\* of another outcome.  Excepted are runs whose export a death lost before, and
\* a destination that was used twice: its manifest is the older one's while its
\* database is the newer one's (createBackup).
BackupHoldsExports ==
  \A d \in Destinations : backup[d].manifest # None /\ ~backup[d].reused =>
    \A r \in Runs \ cut : backup[d].db.verdict[r] \in Payloads =>
      backup[d].files[Base(r)] = backup[d].db.verdict[r]

\* Between restores, a finished run offers a readable export that tells its own
\* verdict, also when the database was taken back to before the file on the
\* volume was published (discover, atomicWriteArtifact, readExportArtifact).
LiveHoldsExports ==
  restore = Idle /\ main # None =>
    \A r \in Runs \ cut :
      main.verdict[r] \in Payloads /\ ~(worker # None /\ worker.run = r) =>
        Base(r) \in ReadableExports /\ volume[Base(r)] = main.verdict[r]

\* While the server runs, an export that could be read keeps its bytes
\* (atomicWriteArtifact: existing files are never overwritten).
PublishedNeverChanges ==
  [][server.up => \A p \in ReadableExports : volume'[p] = volume[p]]_vars

\* A restored database lets no session in and its worker take no run before the
\* user resumes the work, unless the restore died between putting the file in
\* place and pausing it (restoreBackup, claimOperation).
RestoredWaits ==
  [][/\ held' = "held" => worker' = None
     /\ held' = "held" /\ restore.at \notin {"idle", "temporary", "remove"} /\ restore' = Idle =>
          ~main'.sessions]_vars

\* The worker takes no run of a restored database before the user resumes the work, wherever the
\* restore ended (backup rules of the deployment document).  The code does not hold it: it puts the
\* file in place before it pauses the work, and a restart in between finds the work running.
RestoredBeginsPaused == held # "no" => worker = None

\* A backup that the check of restoreBackup accepts gives back the export of every run its database
\* calls finished.  The code does not hold it for a destination that is used twice: the database is
\* overwritten, and the files and the manifest of the older backup stay.
AcceptedBackupIsWhole ==
  copying = Idle =>
    \A d \in Destinations : Verified(d) =>
      \A r \in Runs \ cut : backup[d].db.verdict[r] \in Payloads =>
        backup[d].manifest[Base(r)] = backup[d].db.verdict[r]
=============================================================================
