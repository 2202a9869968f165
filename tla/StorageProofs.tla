---------------------------- MODULE StorageProofs ----------------------------
(***************************************************************************)
(* Proofs about the exports, the backups and the restores, for any number  *)
(* of runs, documents, destinations and process ids, and wherever the      *)
(* server or the tool that restores dies.                                  *)
(***************************************************************************)
EXTENDS Storage, TLAPS

-----------------------------------------------------------------------------
(***************************************************************************)
(* Keys.  Nothing else about the form of a path is used below.             *)
(***************************************************************************)
LEMMA Keys ==
  ASSUME NEW r \in Runs, NEW q \in Runs
  PROVE  /\ Base(r) \in Paths /\ Temporary(r) \in Paths
         /\ Base(r) # Temporary(q)
         /\ Base(r) = Base(q) => r = q
         /\ RunOf(Base(r)) = r
         /\ ValidExportKey(Base(r)) /\ ~ValidExportKey(Temporary(r))
<1>1. Base(r) \in Paths /\ Temporary(r) \in Paths
  BY DEF Paths
<1>2. Base(r) # Temporary(q) /\ (Base(r) = Base(q) => r = q) /\ RunOf(Base(r)) = r
  BY DEF Base, Temporary, RunOf
<1>3. ValidExportKey(Base(r))
  <2>1. r \notin {"", ".", ".."}
    BY RunsAssumption
  <2>2. /\ Len(Base(r)) = 3 /\ Base(r) # <<>>
        /\ Base(r)[1] = "exports" /\ Base(r)[2] = r /\ Base(r)[3] = "base.json"
    BY DEF Base
  <2>3. "exports" \notin {"", ".", ".."} /\ "base.json" \notin {"", ".", ".."}
    OBVIOUS
  <2>4. \A i \in 1..3 : i = 1 \/ i = 2 \/ i = 3
    OBVIOUS
  <2>5. \A i \in 1..3 : Base(r)[i] \notin {"", ".", ".."}
    BY <2>1, <2>2, <2>3, <2>4
  <2>. QED  BY <2>2, <2>5 DEF ValidExportKey, ValidStorageKey
<1>4. ~ValidExportKey(Temporary(r))
  BY DEF ValidExportKey, Temporary
<1>. QED  BY <1>1, <1>2, <1>3, <1>4

LEMMA ReadableIsBase ==
  ASSUME TypeOK
  PROVE  /\ \A p \in ReadableExports : \E r \in Runs : p = Base(r) /\ volume[p] \in Payloads
         /\ \A r \in Runs : volume[Base(r)] \in Payloads => Base(r) \in ReadableExports
<1>1. ASSUME NEW p \in ReadableExports
      PROVE  \E r \in Runs : p = Base(r) /\ volume[p] \in Payloads
  <2>1. p \in Paths /\ ValidExportKey(p) /\ volume[p] \in Payloads
    BY DEF ReadableExports, ListedExports, Present, Canonical
  <2>. QED  BY <2>1, Keys DEF Paths
<1>2. ASSUME NEW r \in Runs, volume[Base(r)] \in Payloads
      PROVE  Base(r) \in ReadableExports
  BY <1>2, Keys, NoneAssumption DEF ReadableExports, ListedExports, Present, Canonical
<1>. QED  BY <1>1, <1>2

-----------------------------------------------------------------------------
(***************************************************************************)
(* Types, those of the procedures in progress included.                    *)
(***************************************************************************)
Opened == {"open", "revoke", "pause", "close"}

CopyingDatabase == [at : {"database"}, to : Destinations]
CopyingFiles == [at : {"files"}, to : Destinations, listed : Files, rest : SUBSET Paths]
Replacing == [at : {"temporary", "remove", "removeLog", "rename"} \cup Opened,
              from : Destinations, pid : Pids]
PuttingBack == [at : {"files"}, from : Destinations, rest : SUBSET Paths]

Typed ==
  /\ TypeOK
  /\ copying = Idle \/ copying \in CopyingDatabase \/ copying \in CopyingFiles
  /\ restore = Idle \/ restore \in Replacing \/ restore \in PuttingBack

\* The step a procedure is at tells what is known of it.
LEMMA Procedures ==
  ASSUME Typed
  PROVE  /\ copying.at = "idle" <=> copying = Idle
         /\ copying.at = "database" <=> copying \in CopyingDatabase
         /\ copying.at = "files" <=> copying \in CopyingFiles
         /\ restore.at = "idle" <=> restore = Idle
         /\ restore.at = "files" <=> restore \in PuttingBack
         /\ restore.at \notin {"idle", "files"} <=> restore \in Replacing
         /\ copying # Idle => copying.to \in Destinations
         /\ restore # Idle => restore.from \in Destinations
<1>1. Idle.at = "idle"
  BY DEF Idle
<1>2. /\ \A x \in CopyingDatabase : x.at = "database" /\ x.to \in Destinations
      /\ \A x \in CopyingFiles : x.at = "files" /\ x.to \in Destinations
  BY DEF CopyingDatabase, CopyingFiles
<1>3. /\ \A x \in Replacing : x.at \notin {"idle", "files"} /\ x.from \in Destinations
      /\ \A x \in PuttingBack : x.at = "files" /\ x.from \in Destinations
  BY DEF Replacing, PuttingBack, Opened
<1>. QED  BY <1>1, <1>2, <1>3 DEF Typed

LEMMA InitTyped == Init => Typed
<1> SUFFICES ASSUME Init PROVE Typed
  OBVIOUS
<1>1. Empty \in Database /\ [Empty EXCEPT !.sessions = TRUE] \in Database
  BY DEF Empty, Database, Verdicts
<1>2. NoFiles \in Files
  BY DEF NoFiles, Files, Content
<1>3. backup \in [Destinations -> Backup]
  <2>1. [db |-> None, files |-> NoFiles, manifest |-> None, reused |-> FALSE] \in Backup
    BY <1>2 DEF Backup
  <2>. QED  BY <2>1 DEF Init
<1>4. server \in [up : BOOLEAN, working : BOOLEAN] /\ held \in {"no", "held", "cut"}
  BY DEF Init
<1>5. crashes \in 0..MaxCrashes
  BY CrashAssumption DEF Init
<1>. QED  BY <1>1, <1>2, <1>3, <1>4, <1>5 DEF Init, Typed, TypeOK

\* What is written into a backup keeps it a backup.
LEMMA BackupTyped ==
  ASSUME TypeOK, NEW d \in Destinations
  PROVE  /\ backup[d] \in Backup /\ backup[d].db \in Database \cup {None}
         /\ backup[d].files \in Files /\ backup[d].manifest \in Files \cup {None}
         /\ backup[d].reused \in BOOLEAN
         /\ \A b \in BOOLEAN : [backup EXCEPT ![d].reused = b] \in [Destinations -> Backup]
         /\ \A db \in Database \cup {None} :
              [backup EXCEPT ![d].db = db] \in [Destinations -> Backup]
         /\ \A m \in Files : [backup EXCEPT ![d].manifest = m] \in [Destinations -> Backup]
         /\ \A p \in Paths, x \in Content :
              [backup EXCEPT ![d].files[p] = x] \in [Destinations -> Backup]
<1>1. backup[d] \in Backup /\ backup \in [Destinations -> Backup]
  BY DEF TypeOK
<1>2. /\ backup[d].db \in Database \cup {None} /\ backup[d].files \in Files
      /\ backup[d].manifest \in Files \cup {None} /\ backup[d].reused \in BOOLEAN
  BY <1>1 DEF Backup
<1>3. ASSUME NEW b \in BOOLEAN
      PROVE  [backup EXCEPT ![d].reused = b] \in [Destinations -> Backup]
  BY <1>1 DEF Backup
<1>4. ASSUME NEW db \in Database \cup {None}
      PROVE  [backup EXCEPT ![d].db = db] \in [Destinations -> Backup]
  BY <1>1 DEF Backup
<1>5. ASSUME NEW m \in Files
      PROVE  [backup EXCEPT ![d].manifest = m] \in [Destinations -> Backup]
  BY <1>1 DEF Backup
<1>6. ASSUME NEW p \in Paths, NEW x \in Content
      PROVE  [backup EXCEPT ![d].files[p] = x] \in [Destinations -> Backup]
  <2>1. [backup[d].files EXCEPT ![p] = x] \in Files
    BY <1>2 DEF Files
  <2>. QED  BY <1>1, <2>1 DEF Backup
<1>. QED  BY <1>1, <1>2, <1>3, <1>4, <1>5, <1>6

LEMMA DatabaseTyped ==
  ASSUME TypeOK, main # None
  PROVE  /\ main \in Database
         /\ \A b \in BOOLEAN : /\ [main EXCEPT !.sessions = b] \in Database
                               /\ [main EXCEPT !.paused = b] \in Database
         /\ \A r \in Runs, v \in Verdicts : [main EXCEPT !.verdict[r] = v] \in Database
<1>1. main \in Database
  BY DEF TypeOK
<1>2. ASSUME NEW r \in Runs, NEW v \in Verdicts
      PROVE  [main EXCEPT !.verdict[r] = v] \in Database
  <2>1. [main.verdict EXCEPT ![r] = v] \in [Runs -> Verdicts]
    BY <1>1 DEF Database
  <2>. QED  BY <1>1, <2>1 DEF Database
<1>3. ASSUME NEW b \in BOOLEAN
      PROVE  /\ [main EXCEPT !.sessions = b] \in Database
             /\ [main EXCEPT !.paused = b] \in Database
  BY <1>1 DEF Database
<1>. QED  BY <1>1, <1>2, <1>3

-----------------------------------------------------------------------------
(***************************************************************************)
(* The inductive invariant.                                                *)
(***************************************************************************)
Placed == Opened \cup {"files"}

\* Who runs beside whom: a backup copies with the worker at rest, a restore with
\* the server down, and the worker holds a run of the database that is open.
Processes ==
  /\ copying # Idle => server.up /\ ~server.working /\ restore = Idle /\ worker = None
  /\ restore # Idle => ~server.up /\ worker = None
  /\ server.up => main # None
  /\ worker # None =>
       /\ server.up
       /\ main.verdict[worker.run] = worker.bytes
       /\ worker.staged => ~Conflict(worker.run, worker.bytes)

\* A log of another file lies where there is no file, and is gone before there is one.
LogBelongs ==
  /\ server.up \/ restore.at \in {"revoke", "pause", "close"} => log = "own"
  /\ log = "other" => main = None
  /\ restore.at \in {"removeLog", "rename"} => main = None
  /\ restore.at = "rename" => log = None

\* What has been put in place so far is the backup the restore reads.
RestoreReads ==
  /\ restore # Idle =>
       backup[restore.from].db # None /\ backup[restore.from].manifest # None
  /\ restore.at \in {"remove", "removeLog", "rename"} =>
       left[restore.pid] = backup[restore.from].db
  /\ restore.at \in Placed =>
       /\ main # None
       /\ main.verdict = backup[restore.from].db.verdict
       /\ backup[restore.from].reused => cut = Runs

\* The files tell the verdicts of the runs whose export no death has lost.
Tells(files, db) ==
  \A r \in Runs \ cut : db.verdict[r] \in Payloads => files[Base(r)] = db.verdict[r]

CopyingTo(d) == copying.at = "files" /\ copying.to = d

\* A backup of a destination used once, from its first file to its manifest.
BackupOf(d) ==
  /\ backup[d].db = None => backup[d].files = NoFiles /\ backup[d].manifest = None
  /\ CopyingTo(d) => backup[d].db # None
  /\ ~backup[d].reused =>
       /\ copying.at = "database" /\ copying.to = d => backup[d].db = None
       /\ CopyingTo(d) =>
            /\ backup[d].manifest = None
            /\ Tells(copying.listed, backup[d].db)
            /\ \A p \in Paths \ copying.rest : backup[d].files[p] = copying.listed[p]
       /\ backup[d].manifest # None =>
            Tells(backup[d].manifest, backup[d].db) /\ Tells(backup[d].files, backup[d].db)

BackupsTell == \A d \in Destinations : BackupOf(d)

\* The volume tells the verdicts of the live database, but for the run in hand
\* and for the files a restore has yet to put back.
Awaited(r) ==
  \/ worker # None /\ worker.run = r
  \/ restore.at = "files" /\ Base(r) \in restore.rest

VolumeTells ==
  restore.at \in {"idle", "temporary", "remove", "files"} /\ main # None =>
    \A r \in Runs \ cut :
      main.verdict[r] \in Payloads /\ ~Awaited(r) => volume[Base(r)] = main.verdict[r]

\* What a restore has put in place is closed to sessions and work.
WorkHeld ==
  /\ restore.at \in {"pause", "close", "files"} => ~main.sessions
  /\ held = "held" =>
       /\ main # None /\ worker = None
       /\ restore.at \notin {"open", "revoke", "pause"} => main.paused

Inv ==
  /\ Typed /\ Processes /\ LogBelongs /\ RestoreReads
  /\ BackupsTell /\ VolumeTells /\ WorkHeld

-----------------------------------------------------------------------------
(***************************************************************************)
(* Types are kept.                                                         *)
(***************************************************************************)
LEMMA VolumeTyped ==
  ASSUME TypeOK
  PROVE  /\ \A p \in Paths, x \in Content : [volume EXCEPT ![p] = x] \in Files
         /\ \A p, q \in Paths, x, y \in Content : [volume EXCEPT ![p] = x, ![q] = y] \in Files
         /\ Present(volume) \in SUBSET Paths
         /\ None \in Content /\ Payloads \subseteq Content /\ "torn" \in Content
BY DEF TypeOK, Files, Content, Present

LEMMA NextTyped == ASSUME Inv, Next PROVE Typed'
<1>1. Typed /\ TypeOK
  BY DEF Inv, Typed
<1>2. ASSUME NEW r \in Runs, FinishRun(r) PROVE Typed'
  <2>1. main # None
    BY <1>2 DEF FinishRun, Inv, Processes
  <2>2. PICK p \in Payloads : /\ main' = [main EXCEPT !.verdict[r] = p]
                              /\ worker' = [run |-> r, bytes |-> p, staged |-> FALSE]
    BY <1>2 DEF FinishRun
  <2>3. main' \in Database
    BY <2>1, <2>2, <1>1, DatabaseTyped DEF Verdicts
  <2>4. worker' \in Export
    BY <2>2 DEF Export
  <2>. QED  BY <1>1, <1>2, <2>3, <2>4 DEF FinishRun, Typed, TypeOK, history
<1>3. CASE StageExport
  <2>1. worker \in Export /\ worker.run \in Runs /\ worker.bytes \in Payloads
    BY <1>1, <1>3 DEF StageExport, TypeOK, Export
  <2>2. volume' \in Files
    BY <1>1, <1>3, <2>1, VolumeTyped, Keys DEF StageExport
  <2>3. worker' \in Export
    BY <1>3, <2>1 DEF StageExport, Export
  <2>. QED  BY <1>1, <1>3, <2>2, <2>3 DEF StageExport, Typed, TypeOK, dbVars, history
<1>4. CASE PublishExport
  <2>1. worker \in Export /\ worker.run \in Runs /\ worker.bytes \in Payloads
    BY <1>1, <1>4 DEF PublishExport, TypeOK, Export
  <2>2. volume' \in Files
    BY <1>1, <1>4, <2>1, VolumeTyped, Keys DEF PublishExport
  <2>. QED  BY <1>1, <1>4, <2>2 DEF PublishExport, Typed, TypeOK, dbVars, history
<1>5. CASE ExportPresent
  BY <1>1, <1>5 DEF ExportPresent, Typed, TypeOK, dbVars, history
<1>6. CASE ExportFails
  <2>1. worker \in Export /\ worker.run \in Runs /\ main # None
    BY <1>1, <1>6 DEF ExportFails, TypeOK, Export, Inv, Processes
  <2>2. volume' \in Files
    BY <1>1, <1>6, <2>1, VolumeTyped, Keys DEF ExportFails, TypeOK
  <2>3. main' \in Database
    BY <1>1, <1>6, <2>1, DatabaseTyped DEF ExportFails, Verdicts
  <2>. QED  BY <1>1, <1>6, <2>2, <2>3 DEF ExportFails, Typed, TypeOK, history
<1>7. ASSUME NEW d \in Destinations, BeginBackup(d) PROVE Typed'
  <2>1. backup' \in [Destinations -> Backup]
    <3>1. (backup[d].reused \/ backup[d].db # None) \in BOOLEAN
      BY <1>1, BackupTyped
    <3>. QED  BY <1>1, <1>7, <3>1, BackupTyped DEF BeginBackup
  <2>2. copying' \in CopyingDatabase
    BY <1>7 DEF BeginBackup, CopyingDatabase
  <2>3. server' \in [up : BOOLEAN, working : BOOLEAN]
    BY <1>1, <1>7 DEF BeginBackup, TypeOK
  <2>. QED  BY <1>1, <1>7, <2>1, <2>2, <2>3 DEF BeginBackup, Typed, TypeOK, dbVars, history
<1>8. CASE CopyDatabase
  <2>1. copying \in CopyingDatabase /\ copying.to \in Destinations
    BY <1>1, <1>8, Procedures DEF CopyDatabase, CopyingDatabase
  <2>2. backup' \in [Destinations -> Backup]
    BY <1>1, <1>8, <2>1, BackupTyped DEF CopyDatabase, TypeOK
  <2>3. copying' \in CopyingFiles
    BY <1>1, <1>8, <2>1, VolumeTyped DEF CopyDatabase, CopyingFiles, TypeOK
  <2>. QED  BY <1>1, <1>8, <2>2, <2>3 DEF CopyDatabase, Typed, TypeOK, dbVars, history
<1>9. CASE CopyFile
  <2>1. /\ copying \in CopyingFiles /\ copying.to \in Destinations
        /\ copying.listed \in Files /\ copying.rest \subseteq Paths
    BY <1>1, <1>9, Procedures DEF CopyFile, CopyingFiles
  <2>2. PICK p \in copying.rest :
          IF backup[copying.to].files[p] # None
          THEN copying' = Idle /\ UNCHANGED backup
          ELSE /\ backup' = [backup EXCEPT ![copying.to].files[p] = copying.listed[p]]
               /\ copying' = [copying EXCEPT !.rest = @ \ {p}]
    BY <1>9 DEF CopyFile
  <2>3. p \in Paths /\ copying.listed[p] \in Content
    BY <2>1 DEF Files
  <2>4. backup' \in [Destinations -> Backup]
    BY <1>1, <2>1, <2>2, <2>3, BackupTyped DEF TypeOK
  <2>5. copying' = Idle \/ copying' \in CopyingFiles
    BY <2>1, <2>2 DEF CopyingFiles
  <2>. QED  BY <1>1, <1>9, <2>4, <2>5 DEF CopyFile, Typed, TypeOK, dbVars, history
<1>10. CASE WriteManifest
  <2>1. copying \in CopyingFiles /\ copying.to \in Destinations /\ copying.listed \in Files
    BY <1>1, <1>10, Procedures DEF WriteManifest, CopyingFiles
  <2>2. backup' \in [Destinations -> Backup]
    BY <1>1, <1>10, <2>1, BackupTyped DEF WriteManifest, TypeOK
  <2>. QED  BY <1>1, <1>10, <2>2 DEF WriteManifest, Typed, TypeOK, dbVars, history
<1>11. ASSUME NEW d \in Destinations, NEW p \in Pids, BeginRestore(d, p) PROVE Typed'
  <2>1. restore' \in Replacing
    BY <1>11 DEF BeginRestore, Replacing
  <2>2. log' \in {None, "own", "other"} /\ server' \in [up : BOOLEAN, working : BOOLEAN]
    BY <1>1, <1>11 DEF BeginRestore, TypeOK
  <2>. QED  BY <1>1, <1>11, <2>1, <2>2 DEF BeginRestore, Typed, TypeOK, history
<1>12. CASE WriteTemporary
  <2>1. restore \in Replacing /\ restore.from \in Destinations /\ restore.pid \in Pids
    BY <1>1, <1>12, Procedures DEF WriteTemporary, Replacing
  <2>2. left' \in [Pids -> Database \cup {None}]
    BY <1>1, <1>12, <2>1, BackupTyped DEF WriteTemporary, TypeOK
  <2>3. restore' = Idle \/ restore' \in Replacing
    BY <1>12, <2>1 DEF WriteTemporary, Replacing
  <2>. QED  BY <1>1, <1>12, <2>2, <2>3 DEF WriteTemporary, Typed, TypeOK, dbVars, history
<1>13. CASE RemoveDatabase
  <2>1. restore' \in Replacing
    BY <1>1, <1>13, Procedures DEF RemoveDatabase, Replacing
  <2>. QED  BY <1>1, <1>13, <2>1 DEF RemoveDatabase, Typed, TypeOK
<1>14. CASE RemoveLog
  <2>1. restore' \in Replacing
    BY <1>1, <1>14, Procedures DEF RemoveLog, Replacing
  <2>. QED  BY <1>1, <1>14, <2>1 DEF RemoveLog, LogRemoved, Typed, TypeOK, history
<1>15. CASE RenameTemporary
  <2>1. restore \in Replacing /\ restore.pid \in Pids
    BY <1>1, <1>15, Procedures DEF RenameTemporary, Replacing
  <2>2. restore' \in Replacing
    BY <1>15, <2>1 DEF RenameTemporary, Replacing, Opened
  <2>3. main' \in Database \cup {None} /\ left' \in [Pids -> Database \cup {None}]
    BY <1>1, <1>15, <2>1 DEF RenameTemporary, TypeOK
  <2>. QED  BY <1>1, <1>15, <2>2, <2>3 DEF RenameTemporary, Typed, TypeOK
<1>16. CASE OpenRestored
  <2>1. restore' \in Replacing
    BY <1>1, <1>16, Procedures DEF OpenRestored, Replacing, Opened
  <2>. QED  BY <1>1, <1>16, <2>1 DEF OpenRestored, LogOpened, Typed, TypeOK, history
<1>17. CASE RevokeSessions
  <2>1. restore' \in Replacing
    BY <1>1, <1>17, Procedures DEF RevokeSessions, Replacing, Opened
  <2>2. main' \in Database
    BY <1>1, <1>17, DatabaseTyped DEF RevokeSessions, Inv, RestoreReads, Placed, Opened
  <2>. QED  BY <1>1, <1>17, <2>1, <2>2 DEF RevokeSessions, Typed, TypeOK, history
<1>18. CASE PauseWork
  <2>1. restore' \in Replacing
    BY <1>1, <1>18, Procedures DEF PauseWork, Replacing, Opened
  <2>2. main' \in Database
    BY <1>1, <1>18, DatabaseTyped DEF PauseWork, Paused, Inv, RestoreReads, Placed, Opened
  <2>. QED  BY <1>1, <1>18, <2>1, <2>2 DEF PauseWork, Typed, TypeOK, history
<1>19. CASE CloseRestored
  <2>1. restore.from \in Destinations
    BY <1>1, <1>19, Procedures DEF CloseRestored, Idle
  <2>2. Present(backup[restore.from].manifest) \subseteq Paths
    BY DEF Present
  <2>3. restore' \in PuttingBack
    BY <1>19, <2>1, <2>2 DEF CloseRestored, PuttingBack
  <2>. QED  BY <1>1, <1>19, <2>3 DEF CloseRestored, Typed, TypeOK, history
<1>20. CASE PutBack
  <2>1. restore \in PuttingBack /\ restore.from \in Destinations /\ restore.rest \subseteq Paths
    BY <1>1, <1>20, Procedures DEF PutBack, PuttingBack
  <2>2. PICK p \in restore.rest :
          /\ volume' = [volume EXCEPT ![p] = backup[restore.from].files[p]]
          /\ restore' = [restore EXCEPT !.rest = @ \ {p}]
    BY <1>20 DEF PutBack
  <2>3. backup[restore.from].files[p] \in Content
    BY <1>1, <2>1, BackupTyped DEF Files
  <2>4. volume' \in Files
    BY <1>1, <2>1, <2>2, <2>3, VolumeTyped
  <2>5. restore' \in PuttingBack
    BY <2>1, <2>2 DEF PuttingBack
  <2>. QED  BY <1>1, <1>20, <2>4, <2>5 DEF PutBack, Typed, TypeOK, dbVars, history
<1>21. CASE EndRestore
  BY <1>1, <1>21 DEF EndRestore, Typed, TypeOK, dbVars, history
<1>22. CASE Start
  <2>1. Empty \in Database
    BY DEF Empty, Database, Verdicts
  <2>2. server' \in [up : BOOLEAN, working : BOOLEAN]
    BY <1>22 DEF Start
  <2>. QED  BY <1>1, <1>22, <2>1, <2>2 DEF Start, LogOpened, Typed, TypeOK, history
<1>23. CASE Login
  <2>1. main' \in Database
    BY <1>1, <1>23, DatabaseTyped DEF Login, Inv, Processes
  <2>. QED  BY <1>1, <1>23, <2>1 DEF Login, Typed, TypeOK, procVars, history
<1>24. CASE SetWorkPaused
  <2>1. main' \in Database
    BY <1>1, <1>24, DatabaseTyped DEF SetWorkPaused, Inv, Processes
  <2>. QED  BY <1>1, <1>24, <2>1 DEF SetWorkPaused, Typed, TypeOK, procVars
<1>25. CASE Stop
  <2>1. server' \in [up : BOOLEAN, working : BOOLEAN]
    BY <1>25 DEF Stop
  <2>. QED  BY <1>1, <1>25, <2>1 DEF Stop, Typed, TypeOK, history
<1>26. CASE Crash
  <2>1. volume' \in Files
    <3>1. restore.at = "files" => restore.rest \subseteq Paths
      BY <1>1, Procedures DEF PuttingBack
    <3>. QED  BY <1>1, <1>26, <3>1, VolumeTyped DEF Crash, TypeOK
  <2>2. InHand \subseteq Runs
    <3>1. worker # None => worker.run \in Runs
      BY <1>1 DEF TypeOK, Export
    <3>2. restore.at = "files" => \A p \in restore.rest : RunOf(p) \in Runs
      <4>1. \A p \in Paths : RunOf(p) \in Runs
        BY DEF Paths, Base, Temporary, RunOf
      <4>. QED  BY <1>1, <4>1, Procedures DEF PuttingBack
    <3>. QED  BY <3>1, <3>2 DEF InHand
  <2>3. crashes' \in 0..MaxCrashes
    BY <1>1, <1>26, CrashAssumption DEF Crash, TypeOK
  <2>4. server' \in [up : BOOLEAN, working : BOOLEAN]
    BY <1>26 DEF Crash
  <2>5. held' \in {"no", "held", "cut"}
    BY <1>1, <1>26 DEF Crash, TypeOK
  <2>. QED  BY <1>1, <1>26, <2>1, <2>2, <2>3, <2>4, <2>5 DEF Crash, Typed, TypeOK, dbVars
<1>27. CASE LoseVolumes
  <2>1. NoFiles \in Files
    BY DEF NoFiles, Files, Content
  <2>. QED  BY <1>1, <1>27, <2>1 DEF LoseVolumes, Typed, TypeOK, procVars
<1>. QED
  BY <1>2, <1>3, <1>4, <1>5, <1>6, <1>7, <1>8, <1>9, <1>10, <1>11, <1>12, <1>13, <1>14, <1>15,
     <1>16, <1>17, <1>18, <1>19, <1>20, <1>21, <1>22, <1>23, <1>24, <1>25, <1>26, <1>27
     DEF Next, WorkerStep, BackupStep, RestoreStep

-----------------------------------------------------------------------------
(***************************************************************************)
(* Who runs beside whom.                                                   *)
(***************************************************************************)
LEMMA NextProcesses == ASSUME Inv, Next PROVE Processes'
<1>1. /\ TypeOK /\ Typed /\ Processes /\ Idle.at = "idle"
      /\ worker # None => /\ worker \in Export /\ worker.run \in Runs /\ worker.bytes \in Payloads
                          /\ worker.staged \in BOOLEAN
  BY DEF Inv, Typed, TypeOK, Idle, Export
<1>2. ASSUME NEW r \in Runs, FinishRun(r) PROVE Processes'
  <2>1. PICK p \in Payloads : /\ main' = [main EXCEPT !.verdict[r] = p]
                              /\ worker' = [run |-> r, bytes |-> p, staged |-> FALSE]
    BY <1>2 DEF FinishRun
  <2>2. main \in Database /\ main' # None /\ main'.verdict[r] = p
    BY <1>1, <1>2, <2>1, DatabaseTyped, NoneAssumption DEF FinishRun, Processes, Database, Verdicts
  <2>3. worker'.run = r /\ worker'.bytes = p /\ worker'.staged = FALSE
    BY <2>1
  <2>. QED  BY <1>1, <1>2, <2>2, <2>3 DEF FinishRun, Processes
<1>3. CASE StageExport
  <2>1. /\ worker'.run = worker.run /\ worker'.bytes = worker.bytes
        /\ ~Conflict(worker.run, worker.bytes)
    BY <1>1, <1>3 DEF StageExport, Export
  <2>2. volume'[Base(worker.run)] = volume[Base(worker.run)]
    BY <1>1, <1>3, Keys DEF StageExport, TypeOK, Files
  <2>3. ~Conflict(worker.run, worker.bytes)'
    BY <2>1, <2>2 DEF Conflict
  <2>. QED  BY <1>1, <1>3, <2>1, <2>3 DEF StageExport, Processes, dbVars
<1>4. CASE PublishExport \/ ExportPresent
  BY <1>1, <1>4 DEF PublishExport, ExportPresent, Processes, dbVars
<1>5. CASE ExportFails
  <2>1. main' # None
    BY <1>1, <1>5, DatabaseTyped, NoneAssumption DEF ExportFails, Processes, Verdicts
  <2>. QED  BY <1>1, <1>5, <2>1 DEF ExportFails, Processes
<1>6. ASSUME NEW d \in Destinations, BeginBackup(d) PROVE Processes'
  BY <1>1, <1>6 DEF BeginBackup, Quiescent, Processes, dbVars, TypeOK
<1>7. CASE BackupStep
  <2>1. copying.at # "idle" /\ UNCHANGED <<dbVars, volume, server, worker, restore>>
    BY <1>7 DEF BackupStep, CopyDatabase, CopyFile, WriteManifest
  <2>. QED  BY <1>1, <2>1 DEF Processes, dbVars
<1>8. ASSUME NEW d \in Destinations, NEW p \in Pids, BeginRestore(d, p) PROVE Processes'
  BY <1>1, <1>8 DEF BeginRestore, Processes
<1>9. CASE RestoreStep
  <2>1. restore.at # "idle" /\ UNCHANGED <<server, worker, copying>>
    BY <1>9 DEF RestoreStep, WriteTemporary, RemoveDatabase, RemoveLog, RenameTemporary,
       OpenRestored, RevokeSessions, PauseWork, CloseRestored, PutBack, EndRestore
  <2>. QED  BY <1>1, <2>1 DEF Processes
<1>10. CASE Start
  <2>1. Empty \in Database
    BY DEF Empty, Database, Verdicts
  <2>2. Empty # None
    BY <2>1, NoneAssumption
  <2>. QED  BY <1>1, <1>10, <2>2 DEF Start, Processes
<1>11. CASE Login \/ SetWorkPaused
  <2>1. main # None
    BY <1>1, <1>11 DEF Login, SetWorkPaused, Processes
  <2>2. main' # None /\ main'.verdict = main.verdict
    BY <1>1, <1>11, <2>1, DatabaseTyped, NoneAssumption DEF Login, SetWorkPaused, Database
  <2>3. UNCHANGED <<volume, server, worker, copying, restore>>
    BY <1>11 DEF Login, SetWorkPaused, procVars
  <2>. QED  BY <1>1, <2>2, <2>3 DEF Processes, Conflict
<1>12. CASE Stop
  BY <1>1, <1>12 DEF Stop, Processes
<1>13. CASE Crash
  BY <1>13 DEF Crash, Processes
<1>14. CASE LoseVolumes
  BY <1>1, <1>14 DEF LoseVolumes, Processes, procVars
<1>. QED
  BY <1>2, <1>3, <1>4, <1>5, <1>6, <1>7, <1>8, <1>9, <1>10, <1>11, <1>12, <1>13, <1>14
     DEF Next, WorkerStep

-----------------------------------------------------------------------------
(***************************************************************************)
(* No log of another file.                                                 *)
(***************************************************************************)
LEMMA NextLogBelongs == ASSUME Inv, Next PROVE LogBelongs'
<1>1. TypeOK /\ Typed /\ Processes /\ LogBelongs /\ RestoreReads /\ Idle.at = "idle"
  BY DEF Inv, Typed, Idle
<1>2. log \in {None, "own", "other"} /\ None \notin {"own", "other"}
  BY <1>1, NoneAssumption DEF TypeOK
<1>3. ASSUME \/ \E r \in Runs : FinishRun(r)
             \/ WorkerStep
             \/ \E d \in Destinations : BeginBackup(d)
             \/ BackupStep
             \/ Login
             \/ SetWorkPaused
      PROVE  LogBelongs'
  <2>1. log' = log /\ restore' = restore /\ server'.up = server.up
    BY <1>1, <1>3 DEF FinishRun, WorkerStep, StageExport, PublishExport, ExportPresent, ExportFails,
       BeginBackup, BackupStep, CopyDatabase, CopyFile, WriteManifest, Login, SetWorkPaused,
       dbVars, procVars, TypeOK
  <2>2. server.up \/ main' = main
    BY <1>1, <1>3 DEF FinishRun, WorkerStep, StageExport, PublishExport, ExportPresent, ExportFails,
       BeginBackup, BackupStep, CopyDatabase, CopyFile, WriteManifest, Login, SetWorkPaused,
       dbVars, Processes
  <2>3. server.up => log = "own" /\ restore = Idle
    BY <1>1 DEF LogBelongs, Processes
  <2>. QED  BY <1>1, <1>2, <2>1, <2>2, <2>3 DEF LogBelongs
<1>4. ASSUME NEW d \in Destinations, NEW p \in Pids, BeginRestore(d, p) PROVE LogBelongs'
  BY <1>1, <1>2, <1>4 DEF BeginRestore, LogBelongs
<1>5. CASE WriteTemporary
  <2>1. restore'.at \in {"idle", "remove"} /\ UNCHANGED <<main, log, server>>
    BY <1>1, <1>5, Procedures DEF WriteTemporary, dbVars, Replacing
  <2>. QED  BY <1>1, <2>1 DEF LogBelongs
<1>6. CASE RemoveDatabase
  <2>1. restore'.at = "removeLog" /\ ~server'.up
    BY <1>1, <1>6, Procedures DEF RemoveDatabase, Replacing, Processes
  <2>. QED  BY <1>6, <2>1 DEF RemoveDatabase, LogBelongs
<1>7. CASE RemoveLog
  <2>1. restore'.at = "rename" /\ ~server'.up
    BY <1>1, <1>7, Procedures DEF RemoveLog, Replacing, Processes
  <2>. QED  BY <1>1, <1>2, <1>7, <2>1 DEF RemoveLog, LogRemoved, LogBelongs
<1>8. CASE RenameTemporary
  <2>1. restore'.at = "open" /\ ~server'.up /\ log' = None
    BY <1>1, <1>8, Procedures DEF RenameTemporary, Replacing, Processes, LogBelongs
  <2>. QED  BY <1>2, <2>1 DEF LogBelongs
<1>9. CASE OpenRestored
  <2>1. restore'.at = "revoke" /\ ~server'.up
    BY <1>1, <1>9, Procedures DEF OpenRestored, Replacing, Processes
  <2>2. log' = "own"
    BY <1>1, <1>9 DEF OpenRestored, LogOpened, LogBelongs
  <2>. QED  BY <2>1, <2>2 DEF LogBelongs
<1>10. CASE RevokeSessions
  <2>1. restore'.at = "pause" /\ ~server'.up
    BY <1>1, <1>10, Procedures DEF RevokeSessions, Replacing, Processes
  <2>. QED  BY <1>1, <1>10, <2>1 DEF RevokeSessions, LogBelongs
<1>11. CASE PauseWork
  <2>1. restore'.at = "close" /\ ~server'.up
    BY <1>1, <1>11, Procedures DEF PauseWork, Replacing, Processes
  <2>. QED  BY <1>1, <1>11, <2>1 DEF PauseWork, LogBelongs
<1>12. CASE CloseRestored
  BY <1>1, <1>2, <1>12 DEF CloseRestored, Processes, LogBelongs
<1>13. CASE PutBack \/ EndRestore
  <2>1. restore'.at \in {"files", "idle"} /\ UNCHANGED <<main, log, server>>
    BY <1>1, <1>13, Procedures DEF PutBack, EndRestore, dbVars, PuttingBack
  <2>. QED  BY <1>1, <2>1 DEF LogBelongs
<1>14. CASE Start
  <2>1. log' = "own"
    BY <1>1, <1>14 DEF Start, LogOpened, LogBelongs
  <2>. QED  BY <1>1, <1>14, <2>1 DEF Start, LogBelongs
<1>15. CASE Stop
  BY <1>1, <1>2, <1>15 DEF Stop, LogBelongs
<1>16. CASE Crash
  BY <1>1, <1>16 DEF Crash, LogBelongs, dbVars
<1>17. CASE LoseVolumes
  BY <1>1, <1>2, <1>17 DEF LoseVolumes, LogBelongs, procVars
<1>. QED
  BY <1>3, <1>4, <1>5, <1>6, <1>7, <1>8, <1>9, <1>10, <1>11, <1>12, <1>13, <1>14, <1>15, <1>16,
     <1>17 DEF Next, RestoreStep

-----------------------------------------------------------------------------
(***************************************************************************)
(* What a restore reads, and what it has put in place.                     *)
(***************************************************************************)
LEMMA NextRestoreReads == ASSUME Inv, Next PROVE RestoreReads'
<1>1. TypeOK /\ Typed /\ Processes /\ LogBelongs /\ RestoreReads /\ Idle.at = "idle"
  BY DEF Inv, Typed, Idle
<1>2. ASSUME restore' = Idle PROVE RestoreReads'
  BY <1>1, <1>2 DEF RestoreReads, Placed, Opened
<1>3. ASSUME \/ \E r \in Runs : FinishRun(r)
             \/ WorkerStep
             \/ \E d \in Destinations : BeginBackup(d)
             \/ BackupStep
             \/ Start \/ Login \/ SetWorkPaused \/ Stop \/ Crash \/ LoseVolumes
      PROVE  RestoreReads'
  <2>1. restore' = Idle
    BY <1>1, <1>3 DEF FinishRun, WorkerStep, StageExport, PublishExport, ExportPresent, ExportFails,
       BeginBackup, BackupStep, CopyDatabase, CopyFile, WriteManifest, Start, Login,
       SetWorkPaused, Stop, Crash, LoseVolumes, procVars, Processes
  <2>. QED  BY <1>2, <2>1
<1>4. ASSUME NEW d \in Destinations, NEW p \in Pids, BeginRestore(d, p) PROVE RestoreReads'
  <2>1. restore'.at = "temporary" /\ restore'.from = d
    BY <1>4 DEF BeginRestore
  <2>2. backup' = backup /\ backup[d].db # None /\ backup[d].manifest # None
    BY <1>4 DEF BeginRestore, Verified
  <2>. QED  BY <2>1, <2>2 DEF RestoreReads, Placed, Opened
<1>5. CASE WriteTemporary
  <2>1. /\ restore \in Replacing /\ restore.pid \in Pids /\ backup' = backup
        /\ restore # Idle
    BY <1>1, <1>5, Procedures DEF WriteTemporary, Replacing
  <2>2. CASE restore' = Idle
    BY <1>2, <2>2
  <2>3. CASE restore' # Idle
    <3>1. /\ restore'.at = "remove" /\ restore'.from = restore.from /\ restore'.pid = restore.pid
          /\ left' = [left EXCEPT ![restore.pid] = backup[restore.from].db]
      BY <1>5, <2>1, <2>3 DEF WriteTemporary, Replacing
    <3>2. left'[restore.pid] = backup[restore.from].db
      BY <1>1, <2>1, <3>1 DEF TypeOK
    <3>. QED  BY <1>1, <2>1, <3>1, <3>2 DEF RestoreReads, Placed, Opened
  <2>. QED  BY <2>2, <2>3
<1>6. CASE RemoveDatabase \/ RemoveLog
  <2>1. /\ restore'.at \in {"removeLog", "rename"} /\ restore'.from = restore.from
        /\ restore'.pid = restore.pid /\ restore # Idle
        /\ restore.at \in {"remove", "removeLog"}
    BY <1>1, <1>6, Procedures DEF RemoveDatabase, RemoveLog, Replacing
  <2>2. backup' = backup /\ left' = left
    BY <1>6 DEF RemoveDatabase, RemoveLog
  <2>. QED  BY <1>1, <2>1, <2>2 DEF RestoreReads, Placed, Opened
<1>7. CASE RenameTemporary
  <2>1. restore'.at = "open" /\ restore'.from = restore.from /\ restore # Idle
    BY <1>1, <1>7, Procedures DEF RenameTemporary, Replacing
  <2>2. main' = backup[restore.from].db /\ main' # None /\ backup' = backup
    BY <1>1, <1>7, <2>1 DEF RenameTemporary, RestoreReads
  <2>3. backup[restore.from].reused => cut' = Runs
    BY <1>7 DEF RenameTemporary
  <2>. QED  BY <1>1, <2>1, <2>2, <2>3 DEF RestoreReads, Placed, Opened
<1>8. CASE OpenRestored \/ RevokeSessions \/ PauseWork \/ CloseRestored \/ PutBack
  <2>1. /\ restore.at \in Placed /\ restore # Idle
        /\ restore'.at \in Placed /\ restore'.from = restore.from
    BY <1>1, <1>8, Procedures DEF OpenRestored, RevokeSessions, PauseWork, CloseRestored, PutBack,
       Placed, Opened, Replacing, PuttingBack
  <2>2. main # None /\ main \in Database
    BY <1>1, <2>1, DatabaseTyped DEF RestoreReads
  <2>3. main' # None /\ main'.verdict = main.verdict
    <3>1. CASE RevokeSessions
      BY <1>1, <2>2, <3>1, DatabaseTyped, NoneAssumption DEF RevokeSessions, Database
    <3>2. CASE PauseWork
      BY <1>1, <2>2, <3>2, DatabaseTyped, NoneAssumption DEF PauseWork, Paused, Database
    <3>3. CASE OpenRestored \/ CloseRestored \/ PutBack
      BY <2>2, <3>3 DEF OpenRestored, CloseRestored, PutBack, dbVars
    <3>. QED  BY <1>8, <3>1, <3>2, <3>3
  <2>4. backup' = backup /\ cut' = cut
    BY <1>8 DEF OpenRestored, RevokeSessions, PauseWork, CloseRestored, PutBack, history
  <2>. QED  BY <1>1, <2>1, <2>2, <2>3, <2>4 DEF RestoreReads, Placed, Opened
<1>9. CASE EndRestore
  BY <1>2, <1>9 DEF EndRestore
<1>. QED
  BY <1>3, <1>4, <1>5, <1>6, <1>7, <1>8, <1>9 DEF Next, RestoreStep

-----------------------------------------------------------------------------
(***************************************************************************)
(* A backup tells the verdicts of the database it copied.                  *)
(***************************************************************************)
LEMMA BackupKept ==
  ASSUME NEW d \in Destinations, BackupOf(d), backup'[d] = backup[d],
         copying' = copying \/ (~CopyingTo(d)' /\ ~(copying'.at = "database" /\ copying'.to = d)),
         cut \subseteq cut'
  PROVE  BackupOf(d)'
<1>1. CASE copying' = copying
  BY <1>1 DEF BackupOf, CopyingTo, Tells
<1>2. CASE ~CopyingTo(d)' /\ ~(copying'.at = "database" /\ copying'.to = d)
  BY <1>2 DEF BackupOf, Tells
<1>. QED  BY <1>1, <1>2

LEMMA NextBackupsTell == ASSUME Inv, Next PROVE BackupsTell'
<1>1. TypeOK /\ Typed /\ Processes /\ BackupsTell /\ VolumeTells /\ Idle.at = "idle"
  BY DEF Inv, Typed, Idle
<1>2. SUFFICES ASSUME NEW d \in Destinations PROVE BackupOf(d)'
  BY DEF BackupsTell
<1>3. BackupOf(d) /\ backup[d] \in Backup
  BY <1>1 DEF BackupsTell, TypeOK
<1>4. cut \subseteq cut'
  BY <1>1 DEF Next, FinishRun, WorkerStep, StageExport, PublishExport, ExportPresent, ExportFails,
     BeginBackup, BackupStep, CopyDatabase, CopyFile, WriteManifest, BeginRestore, RestoreStep,
     WriteTemporary, RemoveDatabase, RemoveLog, RenameTemporary, OpenRestored, RevokeSessions,
     PauseWork, CloseRestored, PutBack, EndRestore, Start, Login, SetWorkPaused, Stop, Crash,
     LoseVolumes, history, TypeOK
<1>5. ASSUME \/ \E r \in Runs : FinishRun(r)
             \/ WorkerStep
             \/ \E t \in Destinations, p \in Pids : BeginRestore(t, p)
             \/ RestoreStep
             \/ Start \/ Login \/ SetWorkPaused \/ Stop \/ Crash \/ LoseVolumes
      PROVE  BackupOf(d)'
  <2>1. backup' = backup /\ (copying' = copying \/ copying' = Idle)
    BY <1>5 DEF FinishRun, WorkerStep, StageExport, PublishExport, ExportPresent, ExportFails,
       BeginRestore, RestoreStep, WriteTemporary, RemoveDatabase, RemoveLog, RenameTemporary,
       OpenRestored, RevokeSessions, PauseWork, CloseRestored, PutBack, EndRestore, Start, Login,
       SetWorkPaused, Stop, Crash, LoseVolumes, procVars
  <2>2. copying' = copying \/ (~CopyingTo(d)' /\ ~(copying'.at = "database" /\ copying'.to = d))
    BY <1>1, <2>1 DEF CopyingTo
  <2>3. backup'[d] = backup[d]
    BY <2>1
  <2>. QED  BY <1>3, <1>4, <2>2, <2>3, BackupKept
<1>6. ASSUME NEW t \in Destinations, BeginBackup(t) PROVE BackupOf(d)'
  <2>1. copying'.at = "database" /\ copying'.to = t
    BY <1>6 DEF BeginBackup
  <2>2. CASE d # t
    <3>1. backup'[d] = backup[d]
      BY <1>1, <1>6, <2>2 DEF BeginBackup, TypeOK
    <3>. QED  BY <1>3, <1>4, <2>1, <2>2, <3>1, BackupKept DEF CopyingTo
  <2>3. CASE d = t
    <3>1. /\ backup'[d].db = backup[d].db /\ backup'[d].files = backup[d].files
          /\ backup'[d].manifest = backup[d].manifest
          /\ backup'[d].reused = (backup[d].reused \/ backup[d].db # None)
      BY <1>1, <1>3, <1>6, <2>3 DEF BeginBackup, TypeOK, Backup
    <3>. QED  BY <1>3, <2>1, <3>1 DEF BackupOf, CopyingTo
  <2>. QED  BY <2>2, <2>3
<1>7. CASE CopyDatabase
  <2>1. copying.to \in Destinations /\ copying # Idle /\ copying.at = "database"
    BY <1>1, <1>7, Procedures DEF CopyDatabase
  <2>2. /\ copying'.at = "files" /\ copying'.to = copying.to
        /\ copying'.listed = volume /\ copying'.rest = Present(volume)
    BY <1>7 DEF CopyDatabase
  <2>3. CASE d # copying.to
    <3>1. backup'[d] = backup[d]
      BY <1>1, <1>7, <2>3 DEF CopyDatabase, TypeOK
    <3>. QED  BY <1>3, <1>4, <2>2, <2>3, <3>1, BackupKept DEF CopyingTo
  <2>4. CASE d = copying.to
    <3>1. /\ backup'[d].db = main /\ backup'[d].files = backup[d].files
          /\ backup'[d].manifest = backup[d].manifest /\ backup'[d].reused = backup[d].reused
      BY <1>1, <1>3, <1>7, <2>4 DEF CopyDatabase, TypeOK, Backup
    <3>2. main # None /\ worker = None /\ restore = Idle
      BY <1>1, <2>1 DEF Processes
    <3>3. ASSUME ~backup[d].reused
          PROVE  /\ backup[d].manifest = None
                 /\ \A p \in Paths : backup[d].files[p] = None
      BY <1>3, <2>1, <2>4, <3>3 DEF BackupOf, NoFiles
    <3>4. Tells(volume, main)
      BY <1>1, <3>2 DEF VolumeTells, Tells, Awaited
    <3>5. \A p \in Paths \ Present(volume) : volume[p] = None
      BY DEF Present
    <3>6. cut' = cut
      BY <1>7 DEF CopyDatabase, history
    <3>7. Tells(copying.listed, backup[d].db)'
      BY <2>2, <3>1, <3>4, <3>6 DEF Tells
    <3>. QED  BY <2>2, <3>1, <3>2, <3>3, <3>5, <3>7 DEF BackupOf, CopyingTo
  <2>. QED  BY <2>3, <2>4
<1>8. CASE CopyFile
  <2>1. /\ copying \in CopyingFiles /\ copying.at = "files" /\ copying.to \in Destinations
        /\ copying.rest \subseteq Paths
    BY <1>1, <1>8, Procedures DEF CopyFile, CopyingFiles
  <2>2. PICK p \in copying.rest :
          IF backup[copying.to].files[p] # None
          THEN copying' = Idle /\ UNCHANGED backup
          ELSE /\ backup' = [backup EXCEPT ![copying.to].files[p] = copying.listed[p]]
               /\ copying' = [copying EXCEPT !.rest = @ \ {p}]
    BY <1>8 DEF CopyFile
  <2>3. CASE copying' = Idle /\ UNCHANGED backup
    BY <1>1, <1>3, <1>4, <2>3, BackupKept DEF CopyingTo
  <2>4. CASE /\ backup' = [backup EXCEPT ![copying.to].files[p] = copying.listed[p]]
             /\ copying' = [copying EXCEPT !.rest = @ \ {p}]
    <3>1. /\ copying'.at = "files" /\ copying'.to = copying.to
          /\ copying'.listed = copying.listed /\ copying'.rest = copying.rest \ {p}
      BY <2>1, <2>4 DEF CopyingFiles
    <3>2. CASE d # copying.to
      <4>1. backup'[d] = backup[d]
        BY <1>1, <2>1, <2>4, <3>2 DEF TypeOK
      <4>. QED  BY <1>3, <1>4, <3>1, <3>2, <4>1, BackupKept DEF CopyingTo
    <3>3. CASE d = copying.to
      <4>1. /\ backup'[d].db = backup[d].db /\ backup'[d].manifest = backup[d].manifest
            /\ backup'[d].reused = backup[d].reused
            /\ backup'[d].files = [backup[d].files EXCEPT ![p] = copying.listed[p]]
        BY <1>1, <1>3, <2>4, <3>3 DEF TypeOK, Backup
      <4>2. \A q \in Paths : /\ q # p => backup'[d].files[q] = backup[d].files[q]
                             /\ q = p => backup'[d].files[q] = copying.listed[q]
        BY <1>3, <2>1, <4>1 DEF Backup, Files
      <4>3. backup[d].db # None
        BY <1>3, <2>1, <3>3 DEF BackupOf, CopyingTo
      <4>4. ASSUME ~backup[d].reused
            PROVE  /\ backup[d].manifest = None
                   /\ Tells(copying.listed, backup[d].db)
                   /\ \A q \in Paths \ copying.rest : backup[d].files[q] = copying.listed[q]
        BY <1>3, <2>1, <3>3, <4>4 DEF BackupOf, CopyingTo
      <4>5. cut' = cut
        BY <1>8 DEF CopyFile, history
      <4>6. ASSUME ~backup[d].reused PROVE Tells(copying.listed, backup[d].db)'
        BY <3>1, <4>1, <4>4, <4>5, <4>6 DEF Tells
      <4>7. ASSUME ~backup[d].reused, NEW q \in Paths \ copying'.rest
            PROVE  backup'[d].files[q] = copying'.listed[q]
        BY <3>1, <4>2, <4>4, <4>7
      <4>. QED  BY <3>1, <4>1, <4>3, <4>4, <4>6, <4>7 DEF BackupOf, CopyingTo
    <3>. QED  BY <3>2, <3>3
  <2>. QED  BY <2>2, <2>3, <2>4
<1>9. CASE WriteManifest
  <2>1. copying.at = "files" /\ copying.to \in Destinations /\ copying' = Idle /\ copying.rest = {}
    BY <1>1, <1>9, Procedures DEF WriteManifest, CopyingFiles
  <2>2. CASE d # copying.to \/ backup[d].manifest # None
    <3>1. backup'[d] = backup[d]
      BY <1>1, <1>9, <2>1, <2>2 DEF WriteManifest, TypeOK
    <3>. QED  BY <1>1, <1>3, <1>4, <2>1, <3>1, BackupKept DEF CopyingTo
  <2>3. CASE d = copying.to /\ backup[d].manifest = None
    <3>1. /\ backup'[d].db = backup[d].db /\ backup'[d].manifest = copying.listed
          /\ backup'[d].reused = backup[d].reused /\ backup'[d].files = backup[d].files
      BY <1>1, <1>3, <1>9, <2>3 DEF WriteManifest, TypeOK, Backup
    <3>2. backup[d].db # None
      BY <1>3, <2>1, <2>3 DEF BackupOf, CopyingTo
    <3>3. ASSUME ~backup[d].reused
          PROVE  /\ Tells(copying.listed, backup[d].db)
                 /\ \A q \in Paths : backup[d].files[q] = copying.listed[q]
      BY <1>3, <2>1, <2>3, <3>3 DEF BackupOf, CopyingTo
    <3>4. cut' = cut
      BY <1>9 DEF WriteManifest, history
    <3>5. ASSUME ~backup[d].reused
          PROVE  /\ Tells(backup[d].manifest, backup[d].db)'
                 /\ Tells(backup[d].files, backup[d].db)'
      BY <3>1, <3>3, <3>4, <3>5, Keys DEF Tells
    <3>. QED  BY <1>1, <2>1, <3>1, <3>2, <3>5 DEF BackupOf, CopyingTo
  <2>. QED  BY <2>2, <2>3
<1>. QED
  BY <1>5, <1>6, <1>7, <1>8, <1>9 DEF Next, BackupStep

-----------------------------------------------------------------------------
(***************************************************************************)
(* The volume tells the verdicts of the live database.                     *)
(***************************************************************************)
LEMMA NextVolumeTells == ASSUME Inv, Next PROVE VolumeTells'
<1>1. /\ TypeOK /\ Typed /\ Processes /\ LogBelongs /\ RestoreReads /\ BackupsTell /\ VolumeTells
      /\ Idle.at = "idle"
      /\ worker # None => /\ worker \in Export /\ worker.run \in Runs /\ worker.bytes \in Payloads
                          /\ worker.staged \in BOOLEAN
  BY DEF Inv, Typed, TypeOK, Idle, Export
<1>2. restore # Idle => worker = None /\ ~server.up /\ copying = Idle
  BY <1>1 DEF Processes
<1>3. volume \in Files /\ \A r, q \in Runs : /\ Base(r) \in Paths /\ Temporary(r) \in Paths
                                             /\ Base(r) # Temporary(q) /\ RunOf(Base(r)) = r
                                             /\ Base(r) = Base(q) => r = q
  BY <1>1, Keys DEF TypeOK
<1>4. ASSUME NEW r \in Runs, FinishRun(r) PROVE VolumeTells'
  <2>1. PICK p \in Payloads : /\ main' = [main EXCEPT !.verdict[r] = p]
                              /\ worker' = [run |-> r, bytes |-> p, staged |-> FALSE]
    BY <1>4 DEF FinishRun
  <2>2. main # None /\ worker = None /\ UNCHANGED <<volume, restore, cut>> /\ restore = Idle
    BY <1>1, <1>4 DEF FinishRun, Processes, history
  <2>3. main \in Database
    BY <1>1, <2>2, DatabaseTyped
  <2>4. \A q \in Runs : q # r => main'.verdict[q] = main.verdict[q]
    BY <2>1, <2>3 DEF Database
  <2>5. worker' # None /\ worker'.run = r
    <3>1. worker' \in Export
      BY <2>1 DEF Export
    <3>. QED  BY <2>1, <3>1, NoneAssumption
  <2>6. Awaited(r)'
    BY <2>5 DEF Awaited
  <2>. QED  BY <1>1, <2>2, <2>4, <2>6 DEF VolumeTells, Awaited
<1>5. CASE WorkerStep
  <2>1. worker # None /\ main # None /\ restore = Idle /\ main \in Database
    BY <1>1, <1>5, DatabaseTyped DEF WorkerStep, StageExport, PublishExport, ExportPresent,
       ExportFails, Processes
  <2>2. /\ worker.run \in Runs /\ worker.bytes \in Payloads
        /\ main.verdict[worker.run] = worker.bytes
    BY <1>1, <2>1 DEF Processes
  <2>3. restore' = restore /\ cut' = cut
    BY <1>5 DEF WorkerStep, StageExport, PublishExport, ExportPresent, ExportFails, history
  <2>4. \A q \in Runs \ cut : main.verdict[q] \in Payloads /\ q # worker.run =>
          volume[Base(q)] = main.verdict[q]
    BY <1>1, <2>1 DEF VolumeTells, Awaited
  <2>5. CASE StageExport
    <3>1. worker'.run = worker.run /\ worker' # None
      <4>1. worker' \in Export
        BY <1>1, <2>1, <2>5 DEF StageExport, Export
      <4>. QED  BY <1>1, <2>1, <2>5, <4>1, NoneAssumption DEF StageExport, Export
    <3>2. \A q \in Runs : volume'[Base(q)] = volume[Base(q)]
      BY <1>3, <2>2, <2>5 DEF StageExport, Files
    <3>3. main' = main
      BY <2>5 DEF StageExport, dbVars
    <3>. QED  BY <2>1, <2>3, <2>4, <3>1, <3>2, <3>3 DEF VolumeTells, Awaited
  <2>6. CASE PublishExport
    <3>1. \A q \in Runs : /\ q # worker.run => volume'[Base(q)] = volume[Base(q)]
                          /\ q = worker.run => volume'[Base(q)] = worker.bytes
      BY <1>3, <2>2, <2>6 DEF PublishExport, Files
    <3>2. main' = main
      BY <2>6 DEF PublishExport, dbVars
    <3>. QED  BY <2>1, <2>2, <2>3, <2>4, <3>1, <3>2 DEF VolumeTells, Awaited
  <2>7. CASE ExportPresent
    <3>1. volume[Base(worker.run)] = worker.bytes /\ main' = main /\ volume' = volume
      BY <2>7 DEF ExportPresent, dbVars
    <3>. QED  BY <2>1, <2>2, <2>3, <2>4, <3>1 DEF VolumeTells, Awaited
  <2>8. CASE ExportFails
    <3>1. \A q \in Runs : volume'[Base(q)] = volume[Base(q)]
      BY <1>3, <2>2, <2>8 DEF ExportFails, Files
    <3>2. \A q \in Runs : /\ q # worker.run => main'.verdict[q] = main.verdict[q]
                          /\ q = worker.run => main'.verdict[q] = "export_failed"
      BY <2>1, <2>2, <2>8 DEF ExportFails, Database
    <3>3. "export_failed" \notin Payloads
      BY PayloadAssumption
    <3>. QED  BY <2>1, <2>3, <2>4, <3>1, <3>2, <3>3 DEF VolumeTells, Awaited
  <2>. QED  BY <1>5, <2>5, <2>6, <2>7, <2>8 DEF WorkerStep
<1>6. ASSUME \/ \E d \in Destinations : BeginBackup(d)
             \/ BackupStep \/ Stop
      PROVE  VolumeTells'
  <2>1. UNCHANGED <<main, volume, worker, restore, cut>>
    BY <1>6 DEF BeginBackup, BackupStep, CopyDatabase, CopyFile, WriteManifest, Stop, dbVars, history
  <2>. QED  BY <1>1, <2>1 DEF VolumeTells, Awaited
<1>7. ASSUME NEW d \in Destinations, NEW p \in Pids, BeginRestore(d, p) PROVE VolumeTells'
  <2>1. /\ UNCHANGED <<main, volume, worker, cut>> /\ worker = None
        /\ restore.at = "idle" /\ restore'.at = "temporary"
    BY <1>1, <1>7 DEF BeginRestore, history
  <2>. QED  BY <1>1, <2>1 DEF VolumeTells, Awaited
<1>8. CASE WriteTemporary \/ EndRestore
  <2>1. UNCHANGED <<main, volume, worker, cut>> /\ restore'.at \in {"idle", "remove"}
    BY <1>1, <1>8, Procedures DEF WriteTemporary, EndRestore, dbVars, history, Replacing
  <2>2. \/ restore.at = "temporary"
        \/ restore.at = "files" /\ restore.rest = {}
    BY <1>8 DEF WriteTemporary, EndRestore
  <2>. QED  BY <1>1, <2>1, <2>2 DEF VolumeTells, Awaited
<1>9. CASE RemoveDatabase \/ RemoveLog \/ RenameTemporary \/ OpenRestored \/ RevokeSessions \/ PauseWork
  <2>1. restore'.at \in {"removeLog", "rename", "open", "revoke", "pause", "close"}
    BY <1>1, <1>9, Procedures DEF RemoveDatabase, RemoveLog, RenameTemporary, OpenRestored,
       RevokeSessions, PauseWork, Replacing
  <2>. QED  BY <2>1 DEF VolumeTells
<1>10. CASE CloseRestored
  <2>1. /\ restore.at = "close" /\ restore # Idle /\ restore.from \in Destinations
        /\ restore'.at = "files" /\ restore'.rest = Present(backup[restore.from].manifest)
        /\ UNCHANGED <<main, volume, cut>>
    BY <1>1, <1>10, Procedures DEF CloseRestored, history
  <2>2. /\ main.verdict = backup[restore.from].db.verdict
        /\ backup[restore.from].reused => cut = Runs
        /\ backup[restore.from].manifest # None
    BY <1>1, <2>1 DEF RestoreReads, Placed, Opened
  <2>3. ~backup[restore.from].reused => Tells(backup[restore.from].manifest, backup[restore.from].db)
    BY <1>1, <2>1, <2>2 DEF BackupsTell, BackupOf
  <2>4. ASSUME NEW r \in Runs \ cut, main.verdict[r] \in Payloads
        PROVE  Base(r) \in Present(backup[restore.from].manifest)
    <3>1. backup[restore.from].manifest[Base(r)] \in Payloads
      BY <2>2, <2>3, <2>4 DEF Tells
    <3>. QED  BY <1>3, <3>1, NoneAssumption DEF Present
  <2>. QED  BY <2>1, <2>4 DEF VolumeTells, Awaited
<1>11. CASE PutBack
  <2>1. /\ restore.at = "files" /\ restore \in PuttingBack /\ restore # Idle
        /\ restore.from \in Destinations /\ restore.rest \subseteq Paths
        /\ UNCHANGED <<main, worker, cut>>
    BY <1>1, <1>11, Procedures DEF PutBack, PuttingBack, dbVars, history
  <2>2. PICK p \in restore.rest :
          /\ volume' = [volume EXCEPT ![p] = backup[restore.from].files[p]]
          /\ restore' = [restore EXCEPT !.rest = @ \ {p}]
    BY <1>11 DEF PutBack
  <2>3. restore'.at = "files" /\ restore'.rest = restore.rest \ {p}
    BY <2>1, <2>2 DEF PuttingBack
  <2>4. /\ main # None /\ main.verdict = backup[restore.from].db.verdict
        /\ backup[restore.from].reused => cut = Runs
        /\ backup[restore.from].manifest # None
    BY <1>1, <2>1 DEF RestoreReads, Placed, Opened
  <2>5. ~backup[restore.from].reused => Tells(backup[restore.from].files, backup[restore.from].db)
    BY <1>1, <2>1, <2>4 DEF BackupsTell, BackupOf
  <2>6. ASSUME NEW r \in Runs \ cut, main.verdict[r] \in Payloads, Base(r) \notin restore'.rest
        PROVE  volume'[Base(r)] = main.verdict[r]
    <3>1. CASE Base(r) = p
      <4>1. volume'[Base(r)] = backup[restore.from].files[Base(r)]
        BY <1>3, <2>2, <3>1 DEF Files
      <4>. QED  BY <2>4, <2>5, <2>6, <4>1 DEF Tells
    <3>2. CASE Base(r) # p
      <4>1. volume'[Base(r)] = volume[Base(r)]
        BY <1>3, <2>2, <3>2 DEF Files
      <4>2. ~Awaited(r)
        BY <1>2, <2>1, <2>3, <2>6, <3>2 DEF Awaited
      <4>. QED  BY <1>1, <2>1, <2>4, <2>6, <4>1, <4>2 DEF VolumeTells
    <3>. QED  BY <3>1, <3>2
  <2>. QED  BY <2>1, <2>3, <2>6 DEF VolumeTells, Awaited
<1>12. CASE Start
  <2>1. /\ UNCHANGED <<volume, worker, restore, cut>>
        /\ main' = IF main = None THEN Empty ELSE main
    BY <1>12 DEF Start, history
  <2>2. \A r \in Runs : Empty.verdict[r] \notin Payloads
    BY PayloadAssumption DEF Empty
  <2>. QED  BY <1>1, <2>1, <2>2 DEF VolumeTells, Awaited
<1>13. CASE Login \/ SetWorkPaused
  <2>1. main # None /\ main \in Database
    BY <1>1, <1>13, DatabaseTyped DEF Login, SetWorkPaused, Processes
  <2>2. main'.verdict = main.verdict /\ UNCHANGED <<volume, worker, restore, cut>>
    BY <1>13, <2>1 DEF Login, SetWorkPaused, Database, procVars, history
  <2>. QED  BY <1>1, <2>1, <2>2 DEF VolumeTells, Awaited
<1>14. CASE Crash
  <2>1. restore' = Idle /\ worker' = None /\ main' = main /\ cut' = cut \cup InHand
    BY <1>14 DEF Crash, dbVars
  <2>2. ASSUME NEW r \in Runs \ cut', main' # None, main'.verdict[r] \in Payloads
        PROVE  volume'[Base(r)] = main'.verdict[r]
    <3>1. r \in Runs \ cut /\ r \notin InHand
      BY <2>1, <2>2
    <3>2. ~(worker # None /\ worker.run = r)
      BY <3>1 DEF InHand
    <3>3. restore.at \notin Opened
      BY <3>1 DEF InHand, Opened
    <3>4. restore.at \notin {"removeLog", "rename"}
      BY <1>1, <2>1, <2>2 DEF LogBelongs
    <3>5. restore.at \in {"idle", "temporary", "remove", "files"}
      BY <1>1, <3>3, <3>4, Procedures DEF Replacing, Opened
    <3>6. restore.at = "files" => Base(r) \notin restore.rest
      <4>1. restore.at = "files" => r \notin {RunOf(p) : p \in restore.rest}
        BY <3>1 DEF InHand
      <4>. QED  BY <1>3, <4>1
    <3>7. volume[Base(r)] = main.verdict[r]
      BY <1>1, <2>1, <2>2, <3>1, <3>2, <3>5, <3>6 DEF VolumeTells, Awaited
    <3>8. \/ volume' = volume
          \/ restore.at = "files" /\ \E p \in restore.rest : volume' = [volume EXCEPT ![p] = "torn"]
      BY <1>14 DEF Crash
    <3>9. volume'[Base(r)] = volume[Base(r)]
      BY <1>3, <3>6, <3>8 DEF Files
    <3>. QED  BY <2>1, <3>7, <3>9
  <2>. QED  BY <1>1, <2>1, <2>2 DEF VolumeTells
<1>15. CASE LoseVolumes
  BY <1>15 DEF LoseVolumes, VolumeTells
<1>. QED
  BY <1>4, <1>5, <1>6, <1>7, <1>8, <1>9, <1>10, <1>11, <1>12, <1>13, <1>14, <1>15
     DEF Next, RestoreStep

-----------------------------------------------------------------------------
(***************************************************************************)
(* What a restore has put in place is closed to sessions and work.         *)
(***************************************************************************)
LEMMA NextWorkHeld == ASSUME Inv, Next PROVE WorkHeld'
<1>1. /\ TypeOK /\ Typed /\ Processes /\ LogBelongs /\ RestoreReads /\ WorkHeld
      /\ Idle.at = "idle" /\ held \in {"no", "held", "cut"}
  BY DEF Inv, Typed, TypeOK, Idle
<1>2. restore # Idle => worker = None /\ ~server.up
  BY <1>1 DEF Processes
<1>3. ASSUME NEW r \in Runs, FinishRun(r) PROVE WorkHeld'
  <2>1. restore = Idle /\ ~main.paused /\ held' = held /\ restore' = restore
    BY <1>2, <1>3 DEF FinishRun, history
  <2>2. held # "held"
    BY <1>1, <2>1 DEF WorkHeld
  <2>. QED  BY <1>1, <2>1, <2>2 DEF WorkHeld
<1>4. CASE WorkerStep
  <2>1. worker # None /\ restore = Idle /\ restore' = restore /\ held' = held
    BY <1>2, <1>4 DEF WorkerStep, StageExport, PublishExport, ExportPresent, ExportFails, history
  <2>2. held # "held"
    BY <1>1, <2>1 DEF WorkHeld
  <2>. QED  BY <1>1, <2>1, <2>2 DEF WorkHeld
<1>5. ASSUME \/ \E d \in Destinations : BeginBackup(d)
             \/ BackupStep \/ Stop
      PROVE  WorkHeld'
  <2>1. UNCHANGED <<main, worker, restore, held>>
    BY <1>5 DEF BeginBackup, BackupStep, CopyDatabase, CopyFile, WriteManifest, Stop, dbVars, history
  <2>. QED  BY <1>1, <2>1 DEF WorkHeld
<1>6. ASSUME NEW d \in Destinations, NEW p \in Pids, BeginRestore(d, p) PROVE WorkHeld'
  <2>1. /\ UNCHANGED <<main, worker, held>>
        /\ restore.at = "idle" /\ restore'.at = "temporary"
    BY <1>1, <1>6 DEF BeginRestore, history
  <2>. QED  BY <1>1, <2>1 DEF WorkHeld
<1>7. CASE WriteTemporary \/ EndRestore
  <2>1. UNCHANGED <<main, worker, held>> /\ restore'.at \in {"idle", "remove"}
    BY <1>1, <1>7, Procedures DEF WriteTemporary, EndRestore, dbVars, history, Replacing
  <2>2. restore.at \in {"temporary", "files"}
    BY <1>7 DEF WriteTemporary, EndRestore
  <2>. QED  BY <1>1, <2>1, <2>2 DEF WorkHeld
<1>8. CASE RemoveDatabase \/ RemoveLog
  <2>1. restore'.at \in {"removeLog", "rename"}
    BY <1>1, <1>8, Procedures DEF RemoveDatabase, RemoveLog, Replacing
  <2>2. held' # "held"
    <3>1. RemoveLog => main = None /\ held' = held
      BY <1>1 DEF RemoveLog, LogBelongs, history
    <3>. QED  BY <1>1, <1>8, <3>1 DEF RemoveDatabase, WorkHeld
  <2>. QED  BY <2>1, <2>2 DEF WorkHeld
<1>9. CASE RenameTemporary
  <2>1. restore'.at = "open" /\ restore # Idle
    BY <1>1, <1>9, Procedures DEF RenameTemporary, Replacing
  <2>2. main' # None /\ worker' = None
    BY <1>1, <1>2, <1>9, <2>1 DEF RenameTemporary, RestoreReads
  <2>. QED  BY <2>1, <2>2 DEF WorkHeld
<1>10. CASE OpenRestored
  <2>1. restore'.at = "revoke" /\ restore.at = "open"
    BY <1>1, <1>10, Procedures DEF OpenRestored, Replacing
  <2>2. UNCHANGED <<main, worker, held>>
    BY <1>10 DEF OpenRestored, history
  <2>. QED  BY <1>1, <2>1, <2>2 DEF WorkHeld
<1>11. CASE RevokeSessions
  <2>1. restore'.at = "pause" /\ restore.at = "revoke"
    BY <1>1, <1>11, Procedures DEF RevokeSessions, Replacing
  <2>2. main # None /\ main \in Database
    BY <1>1, <2>1, DatabaseTyped DEF RestoreReads, Placed, Opened
  <2>3. main' # None /\ ~main'.sessions
    BY <1>1, <1>11, <2>2, DatabaseTyped, NoneAssumption DEF RevokeSessions, Database
  <2>4. UNCHANGED <<worker, held>>
    BY <1>11 DEF RevokeSessions, history
  <2>. QED  BY <1>1, <2>1, <2>3, <2>4 DEF WorkHeld
<1>12. CASE PauseWork
  <2>1. restore'.at = "close" /\ restore.at = "pause"
    BY <1>1, <1>12, Procedures DEF PauseWork, Replacing
  <2>2. main # None /\ main \in Database
    BY <1>1, <2>1, DatabaseTyped DEF RestoreReads, Placed, Opened
  <2>3. main' # None /\ main'.sessions = main.sessions /\ main'.paused
    BY <1>1, <1>12, <2>2, DatabaseTyped, NoneAssumption DEF PauseWork, Paused, Database
  <2>4. UNCHANGED <<worker, held>>
    BY <1>12 DEF PauseWork, history
  <2>. QED  BY <1>1, <2>1, <2>3, <2>4 DEF WorkHeld
<1>13. CASE CloseRestored \/ PutBack
  <2>1. restore'.at = "files" /\ restore.at \in {"close", "files"}
    BY <1>1, <1>13, Procedures DEF CloseRestored, PutBack, PuttingBack
  <2>2. UNCHANGED <<main, worker, held>>
    BY <1>13 DEF CloseRestored, PutBack, dbVars, history
  <2>. QED  BY <1>1, <2>1, <2>2 DEF WorkHeld
<1>14. CASE Start
  <2>1. restore = Idle /\ UNCHANGED <<worker, restore, held>> /\ (main # None => main' = main)
    BY <1>14 DEF Start, history
  <2>. QED  BY <1>1, <2>1 DEF WorkHeld
<1>15. CASE Login
  <2>1. restore = Idle /\ main # None /\ main \in Database
    BY <1>1, <1>2, <1>15, DatabaseTyped DEF Login, Processes
  <2>2. main' # None /\ main'.paused = main.paused /\ UNCHANGED <<worker, restore, held>>
    BY <1>1, <1>15, <2>1, DatabaseTyped, NoneAssumption DEF Login, Database, procVars, history
  <2>. QED  BY <1>1, <2>1, <2>2 DEF WorkHeld
<1>16. CASE SetWorkPaused
  <2>1. restore' = Idle /\ held' # "held"
    BY <1>2, <1>16 DEF SetWorkPaused, procVars
  <2>. QED  BY <1>1, <2>1 DEF WorkHeld
<1>17. CASE Crash
  <2>1. /\ main' = main /\ worker' = None /\ restore' = Idle
        /\ held' = "held" => held = "held" /\ restore.at \notin {"open", "revoke", "pause"}
    BY <1>17 DEF Crash, dbVars
  <2>. QED  BY <1>1, <2>1 DEF WorkHeld
<1>18. CASE LoseVolumes
  <2>1. restore' = Idle /\ held' # "held"
    BY <1>18 DEF LoseVolumes, procVars
  <2>. QED  BY <1>1, <2>1 DEF WorkHeld
<1>. QED
  BY <1>3, <1>4, <1>5, <1>6, <1>7, <1>8, <1>9, <1>10, <1>11, <1>12, <1>13, <1>14, <1>15, <1>16,
     <1>17, <1>18 DEF Next, RestoreStep

-----------------------------------------------------------------------------
(***************************************************************************)
(* The invariant, and what it says.                                        *)
(***************************************************************************)
LEMMA InitInv == Init => Inv
<1> SUFFICES ASSUME Init PROVE Inv
  OBVIOUS
<1>1. Typed /\ Idle.at = "idle"
  BY InitTyped DEF Idle
<1>2. /\ main \in Database /\ main # None
      /\ \A r \in Runs : main.verdict[r] \notin Payloads
  <2>1. main = [Empty EXCEPT !.sessions = TRUE]
    BY DEF Init
  <2>2. main \in Database
    BY <2>1 DEF Empty, Database, Verdicts
  <2>3. \A r \in Runs : main.verdict[r] = "open"
    BY <2>1 DEF Empty
  <2>. QED  BY <2>2, <2>3, NoneAssumption, PayloadAssumption
<1>3. Processes
  BY <1>2 DEF Init, Processes
<1>4. LogBelongs
  BY <1>1, NoneAssumption DEF Init, LogBelongs
<1>5. RestoreReads
  BY <1>1 DEF Init, RestoreReads, Placed, Opened
<1>6. BackupsTell
  BY <1>1 DEF Init, BackupsTell, BackupOf, CopyingTo
<1>7. VolumeTells
  BY <1>2 DEF VolumeTells
<1>8. WorkHeld
  BY <1>1 DEF Init, WorkHeld
<1>. QED  BY <1>1, <1>3, <1>4, <1>5, <1>6, <1>7, <1>8 DEF Inv

LEMMA StepInv == Inv /\ [Next]_vars => Inv'
<1>1. Inv /\ Next => Inv'
  BY NextTyped, NextProcesses, NextLogBelongs, NextRestoreReads, NextBackupsTell, NextVolumeTells,
     NextWorkHeld DEF Inv
<1>2. Inv /\ UNCHANGED vars => Inv'
  BY DEF Inv, Typed, TypeOK, Processes, Conflict, LogBelongs, RestoreReads, BackupsTell, BackupOf,
     CopyingTo, Tells, VolumeTells, Awaited, WorkHeld, vars, dbVars, procVars, history
<1>. QED  BY <1>1, <1>2

LEMMA InvAlways == Spec => []Inv
BY InitInv, StepInv, PTL DEF Spec

\* Every file, database, backup and procedure in progress has its type.
THEOREM TypeCorrect == Spec => []TypeOK
<1>1. Inv => TypeOK
  BY DEF Inv, Typed
<1>. QED  BY <1>1, InvAlways, PTL

\* Whoever has the database file open reads its own log or none: nothing a
\* restore removed is replayed into the file it put in place (restoreBackup,
\* startRuntime).
THEOREM OwnLogOnly == Spec => []NoForeignLog
<1>1. Inv => NoForeignLog
  BY DEF Inv, LogBelongs, NoForeignLog
<1>. QED  BY <1>1, InvAlways, PTL

\* A backup with a manifest holds the exports of the runs its database calls
\* finished, however the copy was interleaved with the worker and cut off
\* (createBackup).
THEOREM BackupIsWhole == Spec => []BackupHoldsExports
<1>1. ASSUME Inv, NEW d \in Destinations, backup[d].manifest # None, ~backup[d].reused,
             NEW r \in Runs \ cut, backup[d].db.verdict[r] \in Payloads
      PROVE  backup[d].files[Base(r)] = backup[d].db.verdict[r]
  BY <1>1 DEF Inv, BackupsTell, BackupOf, Tells
<1>2. Inv => BackupHoldsExports
  BY <1>1 DEF BackupHoldsExports
<1>. QED  BY <1>2, InvAlways, PTL

\* Between restores a finished run offers a readable export that tells its own
\* verdict (discover, atomicWriteArtifact, readExportArtifact).
THEOREM FinishedIsReadable == Spec => []LiveHoldsExports
<1>1. ASSUME Inv, restore = Idle, main # None, NEW r \in Runs \ cut,
             main.verdict[r] \in Payloads, ~(worker # None /\ worker.run = r)
      PROVE  Base(r) \in ReadableExports /\ volume[Base(r)] = main.verdict[r]
  <2>1. restore.at = "idle" /\ TypeOK
    BY <1>1 DEF Idle, Inv, Typed
  <2>2. volume[Base(r)] = main.verdict[r]
    BY <1>1, <2>1 DEF Inv, VolumeTells, Awaited
  <2>. QED  BY <1>1, <2>1, <2>2, ReadableIsBase
<1>2. Inv => LiveHoldsExports
  BY <1>1 DEF LiveHoldsExports
<1>. QED  BY <1>2, InvAlways, PTL

\* While the server runs, an export that could be read keeps its bytes
\* (atomicWriteArtifact).
THEOREM PublishedIsFinal == Spec => PublishedNeverChanges
<1>1. ASSUME Inv, Next, server.up, NEW p \in ReadableExports
      PROVE  volume'[p] = volume[p]
  <2>1. TypeOK /\ Processes /\ restore = Idle /\ restore.at = "idle"
    BY <1>1 DEF Inv, Typed, Processes, Idle
  <2>2. PICK r \in Runs : p = Base(r) /\ volume[p] \in Payloads
    BY <2>1, ReadableIsBase
  <2>3. /\ p \in Paths /\ volume \in Files
        /\ worker # None => /\ worker.run \in Runs
                            /\ Temporary(worker.run) # p
                            /\ Base(worker.run) \in Paths /\ Temporary(worker.run) \in Paths
    BY <2>1, <2>2, Keys DEF TypeOK, Export
  <2>4. CASE StageExport \/ ExportFails
    BY <2>3, <2>4 DEF StageExport, ExportFails, Files
  <2>5. CASE PublishExport
    <3>1. volume[Base(worker.run)] \in {None, worker.bytes}
      BY <2>1, <2>5 DEF PublishExport, Processes, Conflict
    <3>2. Base(worker.run) = p => worker.bytes = volume[p]
      BY <2>2, <3>1, NoneAssumption
    <3>. QED  BY <2>3, <2>5, <3>2 DEF PublishExport, Files
  <2>6. CASE ~(StageExport \/ ExportFails \/ PublishExport)
    <3>1. volume' = volume
      BY <1>1, <2>1, <2>6 DEF Next, FinishRun, WorkerStep, ExportPresent, BeginBackup, BackupStep,
         CopyDatabase, CopyFile, WriteManifest, BeginRestore, RestoreStep, WriteTemporary,
         RemoveDatabase, RemoveLog, RenameTemporary, OpenRestored, RevokeSessions, PauseWork,
         CloseRestored, PutBack, EndRestore, Start, Login, SetWorkPaused, Stop, Crash, LoseVolumes
    <3>. QED  BY <3>1
  <2>. QED  BY <2>4, <2>5, <2>6
<1>2. Inv /\ [Next]_vars => [server.up => \A p \in ReadableExports : volume'[p] = volume[p]]_vars
  BY <1>1
<1>. QED  BY <1>2, InvAlways, PTL DEF Spec, PublishedNeverChanges

\* A restored database lets no session in and its worker take no run before the
\* user resumes the work, unless the restore died between putting the file in
\* place and pausing it (restoreBackup, claimOperation).
THEOREM RestoredIsHeld == Spec => RestoredWaits
<1>. DEFINE Waits == /\ held' = "held" => worker' = None
                     /\ held' = "held" /\ restore.at \notin {"idle", "temporary", "remove"} /\ restore' = Idle =>
                          ~main'.sessions
<1>1. ASSUME Inv, Inv', Next PROVE Waits
  <2>1. held' = "held" => worker' = None
    BY <1>1 DEF Inv, WorkHeld
  <2>2. ASSUME held' = "held", restore.at \notin {"idle", "temporary", "remove"}, restore' = Idle
        PROVE  ~main'.sessions
    <3>1. TypeOK /\ Typed /\ Processes /\ LogBelongs /\ WorkHeld /\ Idle.at = "idle"
      BY <1>1 DEF Inv, Typed, Idle
    <3>2. restore # Idle /\ worker = None /\ ~server.up /\ copying = Idle
      BY <2>2, <3>1 DEF Processes
    <3>3. Crash \/ EndRestore
      <4>1. ~WriteTemporary
        BY <2>2 DEF WriteTemporary
      <4>2. ~RemoveDatabase /\ ~RemoveLog /\ ~RenameTemporary
        BY <2>2, <3>1, Procedures DEF RemoveDatabase, RemoveLog, RenameTemporary, Replacing
      <4>3. ~OpenRestored /\ ~RevokeSessions /\ ~PauseWork /\ ~CloseRestored /\ ~PutBack
        BY <2>2, <3>1, Procedures DEF OpenRestored, RevokeSessions, PauseWork, CloseRestored,
           PutBack, Replacing, PuttingBack
      <4>. QED
        BY <1>1, <2>2, <3>1, <3>2, <4>1, <4>2, <4>3 DEF Next, FinishRun, WorkerStep, StageExport,
           PublishExport, ExportPresent, ExportFails, BeginBackup, BackupStep, CopyDatabase,
           CopyFile, WriteManifest, BeginRestore, RestoreStep, Start, Login, SetWorkPaused, Stop,
           LoseVolumes
    <3>4. CASE EndRestore
      BY <3>1, <3>4 DEF EndRestore, WorkHeld, dbVars
    <3>5. CASE Crash
      <4>1. held = "held" /\ restore.at \notin {"open", "revoke", "pause"} /\ main' = main
        BY <2>2, <3>5 DEF Crash, dbVars
      <4>2. restore.at \notin {"removeLog", "rename"}
        BY <3>1, <4>1 DEF LogBelongs, WorkHeld
      <4>3. restore.at \in {"close", "files"}
        BY <2>2, <3>1, <4>1, <4>2, Procedures DEF Replacing, Opened
      <4>. QED  BY <3>1, <4>1, <4>3 DEF WorkHeld
    <3>. QED  BY <3>3, <3>4, <3>5
  <2>. QED  BY <2>1, <2>2
<1>2. Inv /\ Inv' /\ [Next]_vars => [Waits]_vars
  BY <1>1
<1>. QED  BY <1>2, InvAlways, PTL DEF Spec, RestoredWaits
=============================================================================
