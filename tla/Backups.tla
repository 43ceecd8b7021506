-------------------------------- MODULE Backups --------------------------------
(***************************************************************************)
(* The snapshots of the database and the restore of one: the worker's      *)
(* scheduler (backup.ts), the panel's create, delete and restore           *)
(* (settings/actions.ts), and how the two processes get from the replaced  *)
(* database file to the restored one (db/index.ts, worker/index.ts).       *)
(*                                                                         *)
(* A database is an inode: a process that has opened one keeps it when     *)
(* another is renamed over its path.  The table of the snapshots is in the *)
(* database itself, so a restore brings back an older table.  Definitions  *)
(* with an underscore are mutants of the ones they precede.                *)
(***************************************************************************)
EXTENDS Integers, FiniteSets

CONSTANTS
  NULL,
  Retention,     \* backup_retention
  MaxFiles,      \* bound: snapshot files ever begun
  MaxRestores,   \* bound: databases renamed over the path
  MaxActs,       \* bound: what the owner does in the panel
  MaxFaults      \* bound: crashes and failing calls

ASSUME BackupAssumption ==
  /\ Retention \in Nat \ {0} /\ MaxFiles \in Nat /\ MaxRestores \in Nat
  /\ MaxActs \in Nat /\ MaxFaults \in Nat /\ NULL \notin Nat

VARIABLES
  live,      \* the inode the path leads to
  data,      \* what is in each inode
  wal,       \* the inode whose log lies beside the path, or NULL
  damaged,   \* a process opened the path with another inode's log beside it
  marker,    \* .db-replaced
  conn,      \* the inode each process has open, or NULL
  disk,      \* the backups directory
  made,      \* snapshot files begun so far
  create, deleting, restore,   \* the panel's actions, each at one await
  tick,      \* where the worker's tick is
  snap,      \* the file it is copying to
  acts, faults

panelVars == <<create, deleting, restore>>
workVars  == <<tick, snap>>
vars == <<live, data, wal, damaged, marker, conn, disk, made, panelVars, workVars, acts, faults>>

-----------------------------------------------------------------------------
Processes == {"web", "worker"}
Inodes    == 1..(MaxRestores + 1)
Files     == 1..MaxFiles
Kinds     == {"manual", "auto"}
Rows      == [id : 1..(2 * MaxFiles), kind : Kinds, file : Files, status : {"done", "failed"}]

\* last_backup_at is older than the interval; last_backup_attempt_at is less
\* than an hour old and newer.  A copy cut short is not whole.
Content   == [rows : SUBSET Rows, seq : 0..(2 * MaxFiles), due : BOOLEAN, cooling : BOOLEAN, whole : BOOLEAN]
Empty     == [rows |-> {}, seq |-> 0, due |-> TRUE, cooling |-> FALSE, whole |-> TRUE]
CutShort  == [Empty EXCEPT !.whole = FALSE]

\* NULL is what a file that is not there holds.
ASSUME AbsentAssumption == NULL \notin Content

NoCreate  == [at |-> "idle", file |-> NULL, from |-> NULL, stale |-> {}]
NoRestore == [at |-> "idle", file |-> NULL, image |-> NULL]

TypeOK ==
  /\ live \in Inodes /\ wal \in Inodes \cup {NULL}
  /\ data \in [Inodes -> Content]
  /\ damaged \in BOOLEAN /\ marker \in BOOLEAN
  /\ conn \in [Processes -> Inodes \cup {NULL}]
  /\ disk \in [Files -> Content \cup {NULL}]
  /\ made \in 0..MaxFiles
  /\ create \in [at : {"idle", "copying", "copied", "pruning", "unlinking"}, file : Files \cup {NULL},
                 from : Inodes \cup {NULL}, stale : SUBSET Rows]
  /\ deleting \in Files \cup {NULL}
  /\ restore \in [at : {"idle", "read", "check", "rename", "removeLog", "close", "mark"},
                  file : Files \cup {NULL}, image : Content \cup {NULL}]
  /\ restore.at \notin {"idle", "read"} => restore.image # NULL
  /\ tick \in {"dead", "idle", "opening", "stages", "copying", "copied", "marking", "pruning"}
  /\ snap \in Files \cup {NULL}
  /\ acts \in 0..MaxActs /\ faults \in 0..MaxFaults

Init ==
  /\ live = 1 /\ data = [i \in Inodes |-> Empty] /\ wal = 1 /\ damaged = FALSE /\ marker = FALSE
  /\ conn = [p \in Processes |-> 1]
  /\ disk = [f \in Files |-> NULL] /\ made = 0
  /\ create = NoCreate /\ deleting = NULL /\ restore = NoRestore
  /\ tick = "idle" /\ snap = NULL
  /\ acts = 0 /\ faults = 0

-----------------------------------------------------------------------------
ByOwner == acts < MaxActs /\ acts' = acts + 1 /\ UNCHANGED faults
Fault   == faults < MaxFaults /\ faults' = faults + 1 /\ UNCHANGED acts
Quietly == UNCHANGED <<acts, faults>>
Path    == <<live, wal, damaged, marker>>

Of(p)   == data[conn[p]]
Connected(p) == conn[p] # NULL
Put(p, content) == data' = [data EXCEPT ![conn[p]] = content]

WithRow(content, kind, f, status) ==
  [content EXCEPT !.seq = @ + 1,
                  !.rows = @ \cup {[id |-> content.seq + 1, kind |-> kind, file |-> f, status |-> status]}]
WithoutId(content, i) == [content EXCEPT !.rows = {r \in @ : r.id # i}]

\* The rows of a kind beyond the newest, failed attempts counted in.
Surplus(content, kind) ==
  LET all == {r \in content.rows : r.kind = kind} IN
  {r \in all : Cardinality({s \in all : s.id > r.id}) >= Retention}

\* Opening the path reads the log that lies beside it, or starts one.
Open(p) ==
  /\ conn' = [conn EXCEPT ![p] = live]
  /\ damaged' = (damaged \/ wal \notin {NULL, live})
  /\ wal' = live

Unlink(f) == disk' = [disk EXCEPT ![f] = NULL]

-----------------------------------------------------------------------------
(* The panel.  A request opens the database when nobody has.               *)

WebOpens ==
  /\ ~Connected("web") /\ Open("web") /\ Quietly
  /\ UNCHANGED <<live, data, marker, disk, made, panelVars, workVars>>

BeginCreate ==
  /\ create.at = "idle" /\ Connected("web") /\ made < MaxFiles /\ ByOwner
  /\ made' = made + 1 /\ disk' = [disk EXCEPT ![made + 1] = CutShort]
  /\ create' = [at |-> "copying", file |-> made + 1, from |-> conn["web"], stale |-> {}]
  /\ UNCHANGED <<Path, data, conn, deleting, restore, workVars>>

\* The copy is of the connection it began with, and dies with it: the file
\* stays as it is.
CopyCreated ==
  /\ create.at = "copying"
  /\ \/ /\ conn["web"] = create.from /\ Quietly
        /\ disk' = [disk EXCEPT ![create.file] = data[create.from]]
        /\ create' = [create EXCEPT !.at = "copied"]
     \/ /\ IF conn["web"] = create.from THEN Fault ELSE Quietly
        /\ create' = NoCreate /\ UNCHANGED disk
  /\ UNCHANGED <<Path, data, conn, made, deleting, restore, workVars>>

\* The row goes to the database that is open by now.
RecordCreated ==
  /\ create.at = "copied" /\ Connected("web") /\ Quietly
  /\ LET content == WithRow(Of("web"), "manual", create.file, "done") IN
       /\ Put("web", content)
       /\ create' = [create EXCEPT !.at = "pruning", !.stale = Surplus(content, "manual")]
  /\ UNCHANGED <<Path, conn, disk, made, deleting, restore, workVars>>

\* A row is deleted by its id and its file unlinked after that.
PruneCreated ==
  /\ create.at = "pruning" /\ Connected("web") /\ Quietly
  /\ IF create.stale = {}
     THEN create' = NoCreate /\ UNCHANGED data
     ELSE \E r \in create.stale :
            /\ Put("web", WithoutId(Of("web"), r.id))
            /\ create' = [create EXCEPT !.at = "unlinking", !.file = r.file, !.stale = @ \ {r}]
  /\ UNCHANGED <<Path, conn, disk, made, deleting, restore, workVars>>

UnlinkCreated ==
  /\ create.at = "unlinking" /\ Quietly
  /\ Unlink(create.file) /\ create' = [create EXCEPT !.at = "pruning"]
  /\ UNCHANGED <<Path, data, conn, made, deleting, restore, workVars>>

DeleteBackup ==
  /\ deleting = NULL /\ Connected("web") /\ ByOwner
  /\ \E r \in Of("web").rows :
       Put("web", WithoutId(Of("web"), r.id)) /\ deleting' = r.file
  /\ UNCHANGED <<Path, conn, disk, made, create, restore, workVars>>

UnlinkDeleted ==
  /\ deleting # NULL /\ Unlink(deleting) /\ deleting' = NULL /\ Quietly
  /\ UNCHANGED <<Path, data, conn, made, create, restore, workVars>>

-----------------------------------------------------------------------------
(* The restore.                                                            *)

Following_KeepLog(step) ==
  CASE step = "check" -> "rename" [] step = "rename" -> "close" [] step = "close" -> "mark"
Following(step) ==
  CASE step = "check" -> "rename" [] step = "rename" -> "removeLog" [] step = "removeLog" -> "close"
    [] step = "close" -> "mark"
OnTo(step) == restore' = [restore EXCEPT !.at = Following(step)]

BeginRestore ==
  /\ restore.at = "idle" /\ Connected("web") /\ live <= MaxRestores /\ ByOwner
  /\ \E r \in Of("web").rows : restore' = [NoRestore EXCEPT !.at = "read", !.file = r.file]
  /\ UNCHANGED <<Path, data, conn, disk, made, create, deleting, workVars>>

Loaded(f) ==
  IF disk[f] = NULL THEN NoRestore ELSE [restore EXCEPT !.at = "check", !.image = disk[f]]

ReadBackup ==
  /\ restore.at = "read" /\ Quietly
  /\ restore' = Loaded(restore.file)
  /\ UNCHANGED <<Path, data, conn, disk, made, create, deleting, workVars>>

\* The header and, on a copy beside the database, an integrity check.
Passes_Any(image) == TRUE
Passes(image) == image.whole

CheckBackup ==
  /\ restore.at = "check" /\ Quietly
  /\ IF Passes(restore.image) THEN OnTo("check") ELSE restore' = NoRestore
  /\ UNCHANGED <<Path, data, conn, disk, made, create, deleting, workVars>>

\* By now the marks in the snapshot may be older than the interval and the
\* hour.
Swap ==
  /\ restore.at = "rename" /\ Quietly
  /\ live' = live + 1
  /\ \E d \in {restore.image.due, TRUE}, c \in {restore.image.cooling, FALSE} :
       data' = [data EXCEPT ![live + 1] = [restore.image EXCEPT !.due = d, !.cooling = c]]
  /\ OnTo("rename")
  /\ UNCHANGED <<wal, damaged, marker, conn, disk, made, create, deleting, workVars>>

RemoveLog ==
  /\ restore.at = "removeLog" /\ Quietly
  /\ wal' = NULL /\ OnTo("removeLog")
  /\ UNCHANGED <<live, data, damaged, marker, conn, disk, made, create, deleting, workVars>>

CloseDb ==
  /\ restore.at = "close" /\ Quietly
  /\ conn' = [conn EXCEPT !["web"] = NULL] /\ OnTo("close")
  /\ UNCHANGED <<Path, data, disk, made, create, deleting, workVars>>

\* A marker that cannot be written is let go.
WriteMarker ==
  /\ restore.at = "mark"
  /\ \/ marker' = TRUE /\ Quietly
     \/ UNCHANGED marker /\ Fault
  /\ restore' = NoRestore
  /\ UNCHANGED <<live, data, wal, damaged, conn, disk, made, create, deleting, workVars>>

\* The rename fails, and the restore with it.
SwapFails ==
  /\ restore.at = "rename" /\ Fault /\ restore' = NoRestore
  /\ UNCHANGED <<Path, data, conn, disk, made, create, deleting, workVars>>

WebCrash ==
  /\ panelVars # <<NoCreate, NULL, NoRestore>> /\ Fault
  /\ create' = NoCreate /\ deleting' = NULL /\ restore' = NoRestore
  /\ conn' = [conn EXCEPT !["web"] = NULL]
  /\ UNCHANGED <<Path, data, disk, made, workVars>>

-----------------------------------------------------------------------------
(* The worker's tick: the reopening at its start and the stage of the      *)
(* snapshots.                                                              *)

\* The marker is taken away and the connection closed before the path is
\* opened.
Heal_OpenFirst(step) ==
  CASE step = "begin" -> Open("worker") /\ UNCHANGED marker
    [] step = "open"  -> marker' = FALSE /\ UNCHANGED <<conn, wal, damaged>>
Heal(step) ==
  CASE step = "begin" -> marker' = FALSE /\ conn' = [conn EXCEPT !["worker"] = NULL] /\ UNCHANGED <<wal, damaged>>
    [] step = "open"  -> Open("worker") /\ UNCHANGED marker

BeginTick ==
  /\ tick = "idle" /\ Quietly
  /\ IF marker
     THEN Heal("begin") /\ tick' = "opening"
     ELSE tick' = "stages" /\ UNCHANGED <<marker, conn, wal, damaged>>
  /\ UNCHANGED <<live, data, disk, made, panelVars, snap>>

Reopen ==
  /\ tick = "opening" /\ Heal("open") /\ tick' = "stages" /\ Quietly
  /\ UNCHANGED <<live, data, disk, made, panelVars, snap>>

ReopenThrows ==
  /\ tick = "opening" /\ Fault /\ tick' = "idle"
  /\ UNCHANGED <<Path, data, conn, disk, made, panelVars, snap>>

\* Without a connection every stage throws.
Wanted == Connected("worker") /\ Of("worker").due /\ ~Of("worker").cooling

SkipStage ==
  /\ tick = "stages" /\ (~Wanted \/ made = MaxFiles) /\ tick' = "idle" /\ Quietly
  /\ UNCHANGED <<Path, data, conn, disk, made, panelVars, snap>>

BeginSnapshot ==
  /\ tick = "stages" /\ Wanted /\ made < MaxFiles /\ Quietly
  /\ made' = made + 1 /\ snap' = made + 1
  /\ disk' = [disk EXCEPT ![made + 1] = CutShort]
  /\ tick' = "copying"
  /\ UNCHANGED <<Path, data, conn, panelVars>>

CopySnapshot ==
  /\ tick = "copying" /\ Quietly
  /\ disk' = [disk EXCEPT ![snap] = Of("worker")] /\ tick' = "copied"
  /\ UNCHANGED <<Path, data, conn, made, panelVars, snap>>

\* A failed attempt is recorded and waits for an hour; its file is unlinked
\* if that can be done.
AfterFailure_Made(content) == [content EXCEPT !.due = FALSE]
AfterFailure(content) == [content EXCEPT !.cooling = TRUE]

CopyFails ==
  /\ tick = "copying" /\ Fault
  /\ Unlink(snap) \/ UNCHANGED disk
  /\ Put("worker", AfterFailure(WithRow(Of("worker"), "auto", snap, "failed")))
  /\ tick' = "pruning" /\ snap' = NULL
  /\ UNCHANGED <<Path, conn, made, panelVars>>

RecordSnapshot ==
  /\ tick = "copied" /\ Quietly
  /\ Put("worker", WithRow(Of("worker"), "auto", snap, "done"))
  /\ tick' = "marking" /\ snap' = NULL
  /\ UNCHANGED <<Path, conn, disk, made, panelVars>>

\* The row cannot be written: the file goes with it.
RecordFails ==
  /\ tick = "copied" /\ Fault
  /\ Unlink(snap) /\ Put("worker", AfterFailure(Of("worker")))
  /\ tick' = "pruning" /\ snap' = NULL
  /\ UNCHANGED <<Path, conn, made, panelVars>>

MarkSnapshot ==
  /\ tick = "marking"
  /\ \/ Put("worker", [Of("worker") EXCEPT !.due = FALSE, !.cooling = FALSE]) /\ Quietly
     \/ UNCHANGED data /\ Fault
  /\ tick' = "pruning"
  /\ UNCHANGED <<Path, conn, disk, made, panelVars, snap>>

\* At most once an hour, both kinds: the row first, then the file.
Prunable == UNION {Surplus(Of("worker"), k) : k \in Kinds}

PruneSnapshot ==
  /\ tick = "pruning" /\ Quietly
  /\ \E r \in Prunable : Put("worker", WithoutId(Of("worker"), r.id)) /\ Unlink(r.file)
  /\ UNCHANGED <<Path, conn, made, panelVars, workVars>>

EndTick ==
  /\ tick = "pruning" /\ tick' = "idle" /\ Quietly
  /\ UNCHANGED <<Path, data, conn, disk, made, panelVars, snap>>

WorkerCrash ==
  /\ tick # "dead" /\ Fault
  /\ tick' = "dead" /\ snap' = NULL /\ conn' = [conn EXCEPT !["worker"] = NULL]
  /\ UNCHANGED <<Path, data, disk, made, panelVars>>

Halfway(r) == Put("worker", WithoutId(Of("worker"), r.id)) /\ UNCHANGED disk

CrashInPrune ==
  /\ tick = "pruning" /\ Fault
  /\ \E r \in Prunable : Halfway(r)
  /\ tick' = "dead" /\ conn' = [conn EXCEPT !["worker"] = NULL]
  /\ UNCHANGED <<Path, made, panelVars, snap>>

WorkerStarts ==
  /\ tick = "dead" /\ Open("worker") /\ tick' = "idle" /\ Quietly
  /\ UNCHANGED <<live, data, marker, disk, made, panelVars, snap>>

-----------------------------------------------------------------------------
IntervalPasses ==
  /\ ~data[live].due /\ Quietly
  /\ data' = [i \in Inodes |-> [data[i] EXCEPT !.due = TRUE]]
  /\ UNCHANGED <<Path, conn, disk, made, panelVars, workVars>>

HourPasses ==
  /\ \E i \in Inodes : data[i].cooling /\ Quietly
  /\ data' = [i \in Inodes |-> [data[i] EXCEPT !.cooling = FALSE]]
  /\ UNCHANGED <<Path, conn, disk, made, panelVars, workVars>>

CreateStep  == BeginCreate \/ CopyCreated \/ RecordCreated \/ PruneCreated \/ UnlinkCreated
RestoreStep == ReadBackup \/ CheckBackup \/ Swap \/ RemoveLog \/ CloseDb \/ WriteMarker
TickStep ==
  \/ BeginTick \/ Reopen \/ SkipStage \/ BeginSnapshot \/ CopySnapshot \/ RecordSnapshot
  \/ MarkSnapshot \/ PruneSnapshot \/ EndTick
WorkerFails == ReopenThrows \/ CopyFails \/ RecordFails \/ WorkerCrash \/ CrashInPrune

Next ==
  \/ WebOpens \/ CreateStep \/ DeleteBackup \/ UnlinkDeleted
  \/ BeginRestore \/ RestoreStep \/ SwapFails \/ WebCrash
  \/ TickStep \/ WorkerFails \/ WorkerStarts
  \/ IntervalPasses \/ HourPasses

Spec == Init /\ [][Next]_vars

\* The worker ticks, is started again when it has died, and hours pass.
FairSpec == Spec /\ WF_vars(TickStep) /\ WF_vars(WorkerStarts) /\ WF_vars(HourPasses)

-----------------------------------------------------------------------------
(* Properties.                                                             *)

\* The path always leads to a whole database, also when the process dies
\* during a restore or the snapshot was cut short
\* (settings/actions.ts:419-463).
LiveIsWhole == data[live].whole

\* Whenever no restore is under way the panel has the database open that the
\* path leads to, or none (settings/actions.ts:477-485).
ServesLive == restore.at = "idle" => conn["web"] \in {NULL, live}

\* The restored database is opened with the log of the replaced one beside it
\* only between the rename and the removal of that log, by a worker that
\* starts or reopens, or by the first to open it after the panel died there
\* (settings/actions.ts:463-472).
PanelDied == faults > 0 /\ restore.at = "idle" /\ ~Connected("web")
OnlyWindowDamages ==
  [][~damaged /\ damaged' => restore.at = "removeLog" \/ PanelDied]_vars

\* Until a first restore every snapshot the panel lists is on the disk and
\* whole, whoever prunes, deletes or dies (backup.ts:99-148, 204-213).
ListedExists ==
  live = 1 => \A r \in data[1].rows : r.status = "done" => disk[r.file] # NULL /\ disk[r.file].whole

\* What is on the disk: a whole database under the path, and every snapshot
\* the panel lists.
DiskInvariant == TypeOK /\ LiveIsWhole /\ ListedExists

\* A restore ends with the panel on the restored database, undamaged but for
\* the one window.
RestoreSafe == []ServesLive /\ OnlyWindowDamages

\* Once the marker lies there the worker opens the restored database, unless
\* opening it throws (worker/index.ts:86-109).
MarkerHeals == marker ~> conn["worker"] = live \/ (tick = "idle" /\ ~Connected("worker"))

\* A snapshot that is due is made, also after failed attempts
\* (backup.ts:33-43, 92-118), by a worker that has the live database.
DueSnapshotMade ==
  <>[](conn["worker"] = live \/ tick = "dead") =>
    \A f \in 0..MaxFiles - 1 :
      data[live].due /\ tick = "idle" /\ made = f ~>
        \/ made = MaxFiles \/ restore.at = "rename"
        \/ \E r \in data[live].rows : r.kind = "auto" /\ r.status = "done" /\ r.file > f
=============================================================================
