---------------------------- MODULE Backups_proofs ----------------------------
(***************************************************************************)
(* Theorems about Backups for any number of files, restores, acts and      *)
(* faults: the path always leads to a whole database, a restore ends with  *)
(* the panel on it, and until then every snapshot the panel lists is there *)
(* and whole.                                                              *)
(***************************************************************************)
EXTENDS Backups, TLAPS

-----------------------------------------------------------------------------
(* Types, without the bounds on row numbers.                               *)

Entries  == [id : Int, kind : Kinds, file : Files, status : {"done", "failed"}]
Contents == [rows : SUBSET Entries, seq : Int, due : BOOLEAN, cooling : BOOLEAN, whole : BOOLEAN]

Places == {"idle", "read", "check", "rename", "removeLog", "close", "mark"}

DataShape ==
  /\ data \in [Inodes -> Contents]
  /\ disk \in [Files -> Contents \cup {NULL}]
  /\ conn \in [Processes -> Inodes \cup {NULL}]
  /\ live \in Inodes /\ made \in 0..MaxFiles /\ faults \in Nat

\* What a request or the worker holds between two steps.
HandShape ==
  /\ create.file \in Files \cup {NULL}
  /\ create.at \in {"copying", "copied", "unlinking"} => create.file \in Files
  /\ create.at = "copying" => create.from \in Inodes
  /\ create.stale \subseteq Entries
  /\ create \in [at : {"idle", "copying", "copied", "pruning", "unlinking"}, file : Files \cup {NULL},
                 from : Inodes \cup {NULL}, stale : SUBSET Entries]
  /\ deleting \in Files \cup {NULL}
  /\ tick \in {"copying", "copied"} => snap \in Files
  /\ tick \in {"copying", "copied", "marking", "pruning"} => conn["worker"] # NULL

\* A restore that has passed its check holds a whole image, and there is an
\* inode left for it.
RestoreShape ==
  /\ restore \in [at : Places, file : Files \cup {NULL}, image : Contents \cup {NULL}]
  /\ restore.at = "read" => restore.file \in Files
  /\ restore.at \in {"check", "rename"} => restore.image \in Contents
  /\ restore.at = "rename" => restore.image.whole
  /\ restore.at \in {"read", "check", "rename"} => live <= MaxRestores

\* The panel is on the live database but between the rename and the closing
\* of its connection.
PanelServes == restore.at \notin {"removeLog", "close"} => conn["web"] \in {NULL, live}

\* The log beside the path is that of the database it leads to.
LogFits == wal \in {NULL, live} \/ restore.at = "removeLog" \/ PanelDied

Safe == DataShape /\ HandShape /\ RestoreShape /\ LiveIsWhole /\ PanelServes /\ LogFits

LEMMA SafeInit == Init => Safe
<1> SUFFICES ASSUME Init PROVE Safe
  OBVIOUS
<1> USE BackupAssumption DEF Init
<1>1. Empty \in Contents /\ Empty.whole
  BY DEF Empty, Contents
<1>2. 1 \in Inodes
  BY DEF Inodes
<1>3. DataShape
  BY <1>1, <1>2 DEF DataShape, Processes
<1>4. HandShape /\ RestoreShape /\ PanelServes /\ LogFits
  BY DEF HandShape, RestoreShape, PanelServes, LogFits, NoCreate, NoRestore, Places, Processes
<1>5. LiveIsWhole
  BY <1>1, <1>2 DEF LiveIsWhole
<1> QED  BY <1>3, <1>4, <1>5 DEF Safe

-----------------------------------------------------------------------------
(* What is written to a database leaves it whole.                          *)

\* The same kind of content, and as whole as before.
Keeps(new, old) == new \in Contents /\ (new.whole <=> old.whole)

LEMMA RowsKeep ==
  ASSUME NEW c \in Contents, NEW k \in Kinds, NEW f \in Files, NEW s \in {"done", "failed"}
  PROVE  Keeps(WithRow(c, k, f, s), c)
<1>1. [id |-> c.seq + 1, kind |-> k, file |-> f, status |-> s] \in Entries
  BY DEF Contents, Entries
<1> DEFINE row == [id |-> c.seq + 1, kind |-> k, file |-> f, status |-> s]
<1>2. c.seq + 1 \in Int /\ c.rows \cup {row} \in SUBSET Entries
  BY <1>1 DEF Contents
<1> HIDE DEF row
<1>3. Keeps([c EXCEPT !.seq = c.seq + 1, !.rows = c.rows \cup {row}], c)
  BY <1>2 DEF Keeps, Contents
<1> QED  BY <1>3 DEF WithRow, row

LEMMA ForgetKeeps ==
  ASSUME NEW c \in Contents, NEW i PROVE Keeps(WithoutId(c, i), c)
<1>1. {r \in c.rows : r.id # i} \in SUBSET Entries
  BY DEF Contents
<1>2. Keeps([c EXCEPT !.rows = {r \in c.rows : r.id # i}], c)
  BY <1>1 DEF Keeps, Contents
<1> QED  BY <1>2 DEF WithoutId

LEMMA MarksKeep ==
  ASSUME NEW c \in Contents, NEW d \in BOOLEAN, NEW e \in BOOLEAN
  PROVE  /\ Keeps([c EXCEPT !.due = d], c) /\ Keeps([c EXCEPT !.cooling = e], c)
         /\ Keeps([c EXCEPT !.due = d, !.cooling = e], c) /\ Keeps(AfterFailure(c), c)
  BY DEF Keeps, AfterFailure, Contents

LEMMA SurplusShape ==
  ASSUME NEW c \in Contents, NEW k PROVE Surplus(c, k) \subseteq Entries
  BY DEF Surplus, Contents

LEMMA CutIsContent == CutShort \in Contents
<1>1. Empty \in Contents
  BY DEF Empty, Contents
<1> QED  BY <1>1 DEF CutShort, Contents

\* A write through a connection.
LEMMA PutKeeps ==
  ASSUME DataShape, LiveIsWhole, NEW p \in Processes, Connected(p),
         NEW new, Keeps(new, Of(p)), Put(p, new), live' = live
  PROVE  data' \in [Inodes -> Contents] /\ LiveIsWhole'
<1>1. conn[p] \in Inodes
  BY DEF DataShape, Connected
<1> QED  BY <1>1 DEF DataShape, LiveIsWhole, Put, Of, Keeps

-----------------------------------------------------------------------------
(* The panel.                                                              *)

\* The requests that leave path, connections and the restore alone.
LEMMA SafeFrame ==
  ASSUME Safe, UNCHANGED <<Path, conn, restore>>, faults' \in Nat, faults' >= faults,
         data' \in [Inodes -> Contents], LiveIsWhole',
         disk' \in [Files -> Contents \cup {NULL}], made' \in 0..MaxFiles, HandShape'
  PROVE  Safe'
  BY DEF Safe, DataShape, RestoreShape, PanelServes, LogFits, PanelDied, Connected, Path

LEMMA Tally == ASSUME DataShape, Quietly \/ ByOwner \/ Fault PROVE faults' \in Nat /\ faults' >= faults
  BY DEF DataShape, Quietly, ByOwner, Fault

LEMMA DiskKeeps ==
  ASSUME DataShape, NEW f, NEW c \in Contents \cup {NULL},
         disk' = [disk EXCEPT ![f] = c] \/ Unlink(f) \/ UNCHANGED disk
  PROVE  disk' \in [Files -> Contents \cup {NULL}]
  BY DEF DataShape, Unlink

LEMMA CreateSafe == ASSUME Safe, CreateStep PROVE Safe'
<1> USE BackupAssumption DEF Safe
<1>0. CutShort \in Contents
  BY CutIsContent
<1>1. CASE BeginCreate
  <2>1. made + 1 \in Files /\ made + 1 \in 0..MaxFiles /\ conn["web"] \in Inodes
    BY <1>1 DEF BeginCreate, DataShape, Files, Connected, Processes
  <2>2. HandShape'
    BY <1>1, <2>1 DEF BeginCreate, HandShape, workVars
  <2>3. UNCHANGED <<Path, conn, restore>> /\ data' = data /\ LiveIsWhole'
    BY <1>1 DEF BeginCreate, LiveIsWhole, Path
  <2>4. disk' \in [Files -> Contents \cup {NULL}]
    BY <1>0, <1>1, DiskKeeps DEF BeginCreate
  <2> QED
    BY <1>1, <2>1, <2>2, <2>3, <2>4, Tally, SafeFrame DEF BeginCreate, DataShape
<1>2. CASE CopyCreated
  <2>1. create.at = "copying" /\ create.file \in Files /\ create.from \in Inodes
    BY <1>2 DEF CopyCreated, HandShape
  <2>2. UNCHANGED <<Path, conn, restore, made>> /\ data' = data /\ LiveIsWhole' /\ (Quietly \/ Fault)
    BY <1>2 DEF CopyCreated, LiveIsWhole, Path
  <2>3. data[create.from] \in Contents
    BY <2>1 DEF DataShape
  <2>4. disk' \in [Files -> Contents \cup {NULL}]
    BY <1>2, <2>3, DiskKeeps DEF CopyCreated
  <2>5. HandShape'
    BY <1>2, <2>1 DEF CopyCreated, HandShape, NoCreate, workVars
  <2> QED  BY <2>2, <2>4, <2>5, Tally, SafeFrame DEF DataShape
<1>3. CASE RecordCreated
  <2>1. create.at = "copied" /\ create.file \in Files /\ Connected("web") /\ Of("web") \in Contents
    BY <1>3 DEF RecordCreated, HandShape, DataShape, Connected, Of, Processes
  <2> DEFINE content == WithRow(Of("web"), "manual", create.file, "done")
  <2>2. Keeps(content, Of("web"))
    BY <2>1, RowsKeep DEF Kinds
  <2>3. Put("web", content) /\ create' = [create EXCEPT !.at = "pruning", !.stale = Surplus(content, "manual")]
    BY <1>3 DEF RecordCreated
  <2>4. Surplus(content, "manual") \subseteq Entries
    BY <2>2, SurplusShape DEF Keeps
  <2> HIDE DEF content
  <2>5. UNCHANGED <<Path, conn, restore, made, disk>> /\ Quietly
    BY <1>3 DEF RecordCreated
  <2>6. data' \in [Inodes -> Contents] /\ LiveIsWhole'
    BY <2>1, <2>2, <2>3, <2>5, PutKeeps DEF Processes, Path
  <2>7. HandShape'
    BY <1>3, <2>3, <2>4 DEF RecordCreated, HandShape, workVars
  <2> QED  BY <2>5, <2>6, <2>7, Tally, SafeFrame DEF DataShape
<1>4. CASE PruneCreated
  <2>1. UNCHANGED <<Path, conn, restore, made, disk>> /\ Quietly
    BY <1>4 DEF PruneCreated
  <2>2. CASE create.stale = {}
    <3>1. data' = data /\ LiveIsWhole' /\ HandShape'
      BY <1>4, <2>2 DEF PruneCreated, LiveIsWhole, HandShape, NoCreate, workVars, Path
    <3> QED  BY <2>1, <3>1, Tally, SafeFrame DEF DataShape
  <2>3. CASE create.stale # {}
    <3>1. PICK r \in create.stale :
            /\ Put("web", WithoutId(Of("web"), r.id))
            /\ create' = [create EXCEPT !.at = "unlinking", !.file = r.file, !.stale = @ \ {r}]
      BY <1>4, <2>3 DEF PruneCreated
    <3>2. Connected("web") /\ Of("web") \in Contents
      BY <1>4 DEF PruneCreated, DataShape, Connected, Of, Processes
    <3>3. Keeps(WithoutId(Of("web"), r.id), Of("web"))
      BY <3>2, ForgetKeeps
    <3>4. data' \in [Inodes -> Contents] /\ LiveIsWhole'
      BY <2>1, <3>1, <3>2, <3>3, PutKeeps DEF Processes, Path
    <3>5. r.file \in Files /\ create.stale \ {r} \subseteq Entries
      BY DEF HandShape, Entries
    <3>6. HandShape'
      BY <1>4, <3>1, <3>5 DEF PruneCreated, HandShape, workVars
    <3> QED  BY <2>1, <3>4, <3>6, Tally, SafeFrame DEF DataShape
  <2> QED  BY <2>2, <2>3
<1>5. CASE UnlinkCreated
  <2>1. UNCHANGED <<Path, conn, restore, made>> /\ data' = data /\ LiveIsWhole' /\ Quietly
    BY <1>5 DEF UnlinkCreated, LiveIsWhole, Path
  <2>2. disk' \in [Files -> Contents \cup {NULL}]
    BY <1>5, DiskKeeps DEF UnlinkCreated
  <2>3. HandShape'
    BY <1>5 DEF UnlinkCreated, HandShape, workVars
  <2> QED  BY <2>1, <2>2, <2>3, Tally, SafeFrame DEF DataShape
<1> QED  BY <1>1, <1>2, <1>3, <1>4, <1>5 DEF CreateStep

LEMMA DeleteSafe == ASSUME Safe, DeleteBackup \/ UnlinkDeleted PROVE Safe'
<1> USE DEF Safe
<1>1. CASE DeleteBackup
  <2>1. PICK r \in Of("web").rows : Put("web", WithoutId(Of("web"), r.id)) /\ deleting' = r.file
    BY <1>1 DEF DeleteBackup
  <2>2. UNCHANGED <<Path, conn, disk, made, create, restore, workVars>> /\ ByOwner /\ Connected("web")
    BY <1>1 DEF DeleteBackup
  <2>3. Of("web") \in Contents
    BY <2>2 DEF DataShape, Connected, Of, Processes
  <2>4. Keeps(WithoutId(Of("web"), r.id), Of("web"))
    BY <2>3, ForgetKeeps
  <2>5. data' \in [Inodes -> Contents] /\ LiveIsWhole'
    BY <2>1, <2>2, <2>4, PutKeeps DEF Processes, Path
  <2>6. r.file \in Files
    BY <2>3 DEF Contents, Entries
  <2>7. HandShape'
    BY <2>1, <2>2, <2>6 DEF HandShape, workVars
  <2> QED  BY <2>2, <2>5, <2>7, Tally, SafeFrame DEF DataShape
<1>2. CASE UnlinkDeleted
  <2>1. UNCHANGED <<Path, conn, restore, made>> /\ data' = data /\ LiveIsWhole' /\ Quietly
    BY <1>2 DEF UnlinkDeleted, LiveIsWhole, Path
  <2>2. disk' \in [Files -> Contents \cup {NULL}]
    BY <1>2, DiskKeeps DEF UnlinkDeleted
  <2>3. HandShape'
    BY <1>2 DEF UnlinkDeleted, HandShape, workVars
  <2> QED  BY <2>1, <2>2, <2>3, Tally, SafeFrame DEF DataShape
<1> QED  BY <1>1, <1>2

\* Opening the path never leaves a process on another database.
LEMMA OpenSafe ==
  ASSUME Safe, NEW p \in Processes, Open(p), UNCHANGED <<live, data, disk, made, restore>>,
         HandShape', faults' \in Nat, faults' >= faults
  PROVE  Safe'
<1> USE DEF Safe
<1>1. conn' \in [Processes -> Inodes \cup {NULL}] /\ conn'["web"] \in {conn["web"], live} /\ wal' = live
  BY DEF Open, DataShape, Processes
<1>2. DataShape' /\ LiveIsWhole' /\ RestoreShape'
  BY <1>1 DEF DataShape, LiveIsWhole, RestoreShape
<1> QED  BY <1>1, <1>2 DEF PanelServes, LogFits

\* A process that loses its connection is on no wrong database either.
LEMMA CloseSafe ==
  ASSUME Safe, NEW p \in Processes, conn' = [conn EXCEPT ![p] = NULL],
         UNCHANGED <<live, wal, made, restore>>, data' \in [Inodes -> Contents], LiveIsWhole',
         disk' \in [Files -> Contents \cup {NULL}], HandShape', faults' \in Nat, faults' >= faults
  PROVE  Safe'
<1> USE DEF Safe
<1>1. conn' \in [Processes -> Inodes \cup {NULL}] /\ conn'["web"] \in {conn["web"], NULL}
  BY DEF DataShape, Processes
<1> QED  BY <1>1 DEF DataShape, RestoreShape, PanelServes, LogFits, PanelDied, Connected

LEMMA WebSafe == ASSUME Safe, WebOpens \/ WebCrash PROVE Safe'
<1> USE DEF Safe
<1>1. CASE WebOpens
  <2>1. HandShape'
    BY <1>1 DEF WebOpens, Open, HandShape, panelVars, workVars, DataShape, Processes
  <2> QED  BY <1>1, <2>1, Tally, OpenSafe DEF WebOpens, Processes, panelVars
<1>2. CASE WebCrash
  <2>1. /\ UNCHANGED <<live, data, wal, disk, made, tick, snap>> /\ Fault
        /\ create' = NoCreate /\ deleting' = NULL /\ restore' = NoRestore
        /\ conn' = [conn EXCEPT !["web"] = NULL]
    BY <1>2 DEF WebCrash, Path, workVars
  <2>2. faults' \in Nat /\ faults' > 0
    BY <2>1 DEF DataShape, Fault
  <2>3. DataShape' /\ LiveIsWhole'
    BY <2>1, <2>2 DEF DataShape, LiveIsWhole, Processes
  <2>4. conn'["worker"] = conn["worker"] /\ conn'["web"] = NULL
    BY <2>1 DEF DataShape, Processes
  <2>5. HandShape'
    BY <2>1, <2>4 DEF HandShape, NoCreate
  <2>6. RestoreShape' /\ PanelServes' /\ LogFits'
    BY <2>1, <2>2, <2>4 DEF RestoreShape, NoRestore, Places, PanelServes, LogFits, PanelDied, Connected
  <2> QED  BY <2>3, <2>5, <2>6
<1> QED  BY <1>1, <1>2

-----------------------------------------------------------------------------
(* The restore.                                                            *)

\* Its steps that leave the database and the connections alone.
LEMMA RestoreFrame ==
  ASSUME Safe, UNCHANGED <<live, data, conn, disk, made, create, deleting, workVars>>,
         RestoreShape', wal' \in {wal, NULL}, faults' \in Nat, faults' >= faults,
         restore'.at = "removeLog" => restore.at = "removeLog",
         restore.at = "removeLog" => restore'.at = "removeLog" \/ wal' = NULL,
         restore.at = "close" => restore'.at = "close",
         restore.at = "idle" => Connected("web"),
         restore.at = "removeLog" => restore'.at \in {"removeLog", "close"}
  PROVE  Safe'
<1> USE DEF Safe
<1>1. DataShape' /\ LiveIsWhole' /\ HandShape'
  BY DEF DataShape, LiveIsWhole, HandShape, workVars
<1>2. PanelServes' /\ LogFits'
  BY DEF PanelServes, LogFits, PanelDied, Connected, DataShape
<1> QED  BY <1>1, <1>2

LEMMA RestoreSteps == ASSUME Safe, BeginRestore \/ RestoreStep \/ SwapFails PROVE Safe'
<1> USE DEF Safe
<1>0. NoRestore \in [at : Places, file : Files \cup {NULL}, image : Contents \cup {NULL}] /\ NoRestore.at = "idle"
  BY DEF NoRestore, Places
<1>1. CASE BeginRestore
  <2>1. PICK r \in Of("web").rows : restore' = [NoRestore EXCEPT !.at = "read", !.file = r.file]
    BY <1>1 DEF BeginRestore
  <2>2. r.file \in Files
    <3>1. Of("web") \in Contents
      BY <1>1 DEF BeginRestore, DataShape, Connected, Of, Processes
    <3> QED  BY <3>1 DEF Contents, Entries
  <2>3. restore'.at = "read" /\ restore'.file \in Files /\ restore' \in [at : Places, file : Files \cup {NULL}, image : Contents \cup {NULL}]
    BY <1>0, <2>1, <2>2 DEF Places
  <2>4. RestoreShape'
    BY <1>1, <2>3 DEF BeginRestore, RestoreShape, Path
  <2> QED  BY <1>1, <2>3, <2>4, Tally, RestoreFrame DEF BeginRestore, Path
<1>2. CASE ReadBackup
  <2>1. restore.at = "read" /\ restore' = Loaded(restore.file) /\ Quietly
        /\ UNCHANGED <<Path, data, conn, disk, made, create, deleting, workVars>>
    BY <1>2 DEF ReadBackup
  <2>2. disk[restore.file] # NULL /\ restore.file \in Files => disk[restore.file] \in Contents
    BY DEF DataShape
  <2>3. CASE restore' = NoRestore
    <3>1. RestoreShape'
      BY <1>0, <2>1, <2>3 DEF RestoreShape, Path
    <3> QED  BY <1>0, <2>1, <2>3, <3>1, Tally, RestoreFrame DEF Path
  <2>4. CASE restore' # NoRestore
    <3>1. restore' = [restore EXCEPT !.at = "check", !.image = disk[restore.file]] /\ disk[restore.file] # NULL
      BY <2>1, <2>4 DEF Loaded
    <3>2. restore.file \in Files
      BY <2>1 DEF RestoreShape
    <3>3. RestoreShape' /\ restore'.at = "check"
      BY <2>1, <2>2, <3>1, <3>2 DEF RestoreShape, Path, Places
    <3> QED  BY <2>1, <3>3, Tally, RestoreFrame DEF Path
  <2> QED  BY <2>3, <2>4
<1>3. CASE CheckBackup
  <2>1. restore.at = "check" /\ Quietly
        /\ UNCHANGED <<Path, data, conn, disk, made, create, deleting, workVars>>
    BY <1>3 DEF CheckBackup
  <2>2. \/ restore' = NoRestore
        \/ restore.image.whole /\ restore' = [restore EXCEPT !.at = "rename"]
    BY <1>3, <2>1 DEF CheckBackup, Passes, OnTo, Following
  <2>3. RestoreShape' /\ restore'.at \in {"idle", "rename"}
    BY <1>0, <2>1, <2>2 DEF RestoreShape, Path, Places
  <2> QED  BY <2>1, <2>3, Tally, RestoreFrame DEF Path
<1>4. CASE Swap
  <2>1. PICK d \in {restore.image.due, TRUE}, c \in {restore.image.cooling, FALSE} :
          data' = [data EXCEPT ![live + 1] = [restore.image EXCEPT !.due = d, !.cooling = c]]
    BY <1>4 DEF Swap
  <2>2. /\ restore.at = "rename" /\ live' = live + 1 /\ restore' = [restore EXCEPT !.at = "removeLog"]
        /\ UNCHANGED <<wal, conn, disk, made, create, deleting, tick, snap, faults>>
    BY <1>4 DEF Swap, OnTo, Following, workVars, Quietly
  <2>3. restore.image \in Contents /\ restore.image.whole /\ live <= MaxRestores
    BY <2>2 DEF RestoreShape
  <2>4. live + 1 \in Inodes
    BY <2>3, BackupAssumption DEF DataShape, Inodes
  <2>5. d \in BOOLEAN /\ c \in BOOLEAN
    BY <2>3 DEF Contents
  <2>6. Keeps([restore.image EXCEPT !.due = d, !.cooling = c], restore.image)
    BY <2>3, <2>5, MarksKeep
  <2>7. DataShape' /\ LiveIsWhole'
    BY <2>1, <2>2, <2>3, <2>4, <2>6 DEF DataShape, LiveIsWhole, Keeps
  <2>8. RestoreShape' /\ restore'.at = "removeLog"
    BY <2>2 DEF RestoreShape, Places
  <2> QED  BY <2>2, <2>7, <2>8 DEF HandShape, PanelServes, LogFits
<1>5. CASE RemoveLog
  <2>1. restore.at = "removeLog" /\ wal' = NULL /\ restore' = [restore EXCEPT !.at = "close"] /\ Quietly
        /\ UNCHANGED <<live, data, conn, disk, made, create, deleting, workVars>>
    BY <1>5 DEF RemoveLog, OnTo, Following
  <2>2. RestoreShape' /\ restore'.at = "close"
    BY <2>1 DEF RestoreShape, Places
  <2> QED  BY <2>1, <2>2, Tally, RestoreFrame
<1>6. CASE CloseDb
  <2>1. /\ restore.at = "close" /\ conn' = [conn EXCEPT !["web"] = NULL]
        /\ restore' = [restore EXCEPT !.at = "mark"] /\ Quietly
        /\ UNCHANGED <<live, data, wal, disk, made, create, deleting, workVars>>
    BY <1>6 DEF CloseDb, OnTo, Following, Path
  <2>2. conn' \in [Processes -> Inodes \cup {NULL}] /\ conn'["web"] = NULL /\ conn'["worker"] = conn["worker"]
    BY <2>1 DEF DataShape, Processes
  <2>3. DataShape' /\ LiveIsWhole' /\ HandShape'
    BY <2>1, <2>2 DEF DataShape, LiveIsWhole, HandShape, workVars, Quietly
  <2>4. RestoreShape' /\ restore'.at = "mark"
    BY <2>1 DEF RestoreShape, Places
  <2> QED  BY <2>1, <2>2, <2>3, <2>4 DEF PanelServes, LogFits, PanelDied, Connected, Quietly
<1>7. CASE WriteMarker
  <2>1. /\ restore.at = "mark" /\ restore' = NoRestore /\ (Quietly \/ Fault)
        /\ UNCHANGED <<live, data, wal, conn, disk, made, create, deleting, workVars>>
    BY <1>7 DEF WriteMarker
  <2>2. RestoreShape'
    BY <1>0, <2>1 DEF RestoreShape
  <2> QED  BY <1>0, <2>1, <2>2, Tally, RestoreFrame
<1>8. CASE SwapFails
  <2>1. /\ restore.at = "rename" /\ restore' = NoRestore /\ Fault
        /\ UNCHANGED <<Path, data, conn, disk, made, create, deleting, workVars>>
    BY <1>8 DEF SwapFails
  <2>2. RestoreShape'
    BY <1>0, <2>1 DEF RestoreShape
  <2> QED  BY <1>0, <2>1, <2>2, Tally, RestoreFrame DEF Path
<1> QED  BY <1>1, <1>2, <1>3, <1>4, <1>5, <1>6, <1>7, <1>8 DEF RestoreStep

-----------------------------------------------------------------------------
(* The worker and time.                                                    *)

\* A tick that neither opens nor closes: path and connections stay.
LEMMA TickFrame ==
  ASSUME Safe, UNCHANGED <<Path, conn, panelVars>>, Quietly \/ Fault,
         data' \in [Inodes -> Contents], LiveIsWhole',
         disk' \in [Files -> Contents \cup {NULL}], made' \in 0..MaxFiles,
         tick' \in {"copying", "copied"} => snap' \in Files,
         tick' \in {"copying", "copied", "marking", "pruning"} => conn["worker"] # NULL
  PROVE  Safe'
<1>1. HandShape'
  BY DEF Safe, HandShape, panelVars
<1> QED  BY <1>1, Tally, SafeFrame DEF Safe, panelVars

LEMMA TickSafe == ASSUME Safe, TickStep \/ WorkerFails \/ WorkerStarts PROVE Safe'
<1> USE DEF Safe
<1> USE BackupAssumption
<1>1. CASE BeginTick
  <2>1. /\ UNCHANGED <<live, data, wal, disk, made, create, deleting, restore, snap>> /\ Quietly
        /\ tick' \in {"opening", "stages"}
        /\ UNCHANGED conn \/ conn' = [conn EXCEPT !["worker"] = NULL]
    BY <1>1 DEF BeginTick, Heal, panelVars
  <2>2. HandShape' /\ LiveIsWhole' /\ data' \in [Inodes -> Contents] /\ disk' \in [Files -> Contents \cup {NULL}]
    BY <2>1 DEF HandShape, LiveIsWhole, DataShape
  <2>3. CASE UNCHANGED conn
    BY <2>1, <2>2, <2>3, Tally DEF DataShape, RestoreShape, PanelServes, LogFits, PanelDied, Connected
  <2>4. CASE conn' = [conn EXCEPT !["worker"] = NULL]
    BY <2>1, <2>2, <2>4, Tally, CloseSafe DEF Processes
  <2> QED  BY <2>1, <2>3, <2>4
<1>2. CASE Reopen
  <2>1. Open("worker") /\ tick' = "stages" /\ Quietly /\ UNCHANGED <<live, data, disk, made, create, deleting, restore, snap>>
    BY <1>2 DEF Reopen, Heal, panelVars
  <2>2. HandShape'
    BY <2>1 DEF HandShape
  <2> QED  BY <2>1, <2>2, Tally, OpenSafe DEF Processes
<1>3. CASE ReopenThrows \/ SkipStage \/ EndTick
  <2>1. UNCHANGED <<Path, data, conn, disk, made, panelVars, snap>> /\ tick' = "idle" /\ (Quietly \/ Fault)
    BY <1>3 DEF ReopenThrows, SkipStage, EndTick
  <2>2. LiveIsWhole' /\ data' \in [Inodes -> Contents] /\ disk' \in [Files -> Contents \cup {NULL}] /\ made' \in 0..MaxFiles
    BY <2>1 DEF LiveIsWhole, DataShape, Path
  <2> QED  BY <2>1, <2>2, TickFrame
<1>4. CASE BeginSnapshot
  <2>1. /\ UNCHANGED <<Path, data, conn, panelVars>> /\ Quietly /\ tick' = "copying"
        /\ made' = made + 1 /\ snap' = made + 1 /\ made < MaxFiles /\ conn["worker"] # NULL
        /\ disk' = [disk EXCEPT ![made + 1] = CutShort]
    BY <1>4 DEF BeginSnapshot, Wanted, Connected
  <2>2. made' \in 0..MaxFiles /\ snap' \in Files
    BY <2>1 DEF DataShape, Files
  <2>3. disk' \in [Files -> Contents \cup {NULL}]
    BY <2>1, CutIsContent, DiskKeeps
  <2>4. LiveIsWhole' /\ data' \in [Inodes -> Contents]
    BY <2>1 DEF LiveIsWhole, DataShape, Path
  <2> QED  BY <2>1, <2>2, <2>3, <2>4, TickFrame
<1>5. ASSUME tick \in {"copying", "copied", "marking", "pruning"}
      PROVE  conn["worker"] # NULL /\ Connected("worker") /\ Of("worker") \in Contents
  BY <1>5 DEF HandShape, Connected, Of, DataShape, Processes
<1>6. CASE CopySnapshot
  <2>1. /\ UNCHANGED <<Path, data, conn, made, panelVars, snap>> /\ Quietly /\ tick = "copying"
        /\ tick' = "copied" /\ disk' = [disk EXCEPT ![snap] = Of("worker")]
    BY <1>6 DEF CopySnapshot
  <2>2. disk' \in [Files -> Contents \cup {NULL}]
    BY <1>5, <2>1, DiskKeeps
  <2>3. LiveIsWhole' /\ data' \in [Inodes -> Contents] /\ made' \in 0..MaxFiles /\ snap' \in Files
    BY <2>1 DEF LiveIsWhole, DataShape, Path, HandShape
  <2> QED  BY <1>5, <2>1, <2>2, <2>3, TickFrame
\* The steps that write to the database the worker has open.
<1>7. ASSUME NEW new, Keeps(new, Of("worker")), Put("worker", new), UNCHANGED <<Path, conn, panelVars>>,
             Quietly \/ Fault, disk' \in [Files -> Contents \cup {NULL}], made' = made,
             tick \in {"copying", "copied", "marking", "pruning"}, tick' \in {"marking", "pruning"}
      PROVE  Safe'
  <2>1. data' \in [Inodes -> Contents] /\ LiveIsWhole'
    BY <1>5, <1>7, PutKeeps DEF Processes, Path
  <2> QED  BY <1>5, <1>7, <2>1, TickFrame DEF DataShape
<1>8. CASE CopyFails
  <2> DEFINE row == WithRow(Of("worker"), "auto", snap, "failed")
  <2>1. /\ tick = "copying" /\ Fault /\ tick' = "pruning" /\ (Unlink(snap) \/ UNCHANGED disk)
        /\ Put("worker", AfterFailure(row)) /\ UNCHANGED <<Path, conn, made, panelVars>>
    BY <1>8 DEF CopyFails
  <2>2. snap \in Files
    BY <2>1 DEF HandShape
  <2>3. Keeps(row, Of("worker"))
    BY <1>5, <2>1, <2>2, RowsKeep DEF Kinds
  <2> HIDE DEF row
  <2>4. Keeps(AfterFailure(row), Of("worker"))
    <3>1. row \in Contents
      BY <2>3 DEF Keeps
    <3>2. Keeps(AfterFailure(row), row)
      BY <3>1, MarksKeep
    <3> QED  BY <2>3, <3>2 DEF Keeps
  <2>5. disk' \in [Files -> Contents \cup {NULL}]
    BY <2>1, DiskKeeps
  <2> QED  BY <1>7, <2>1, <2>4, <2>5
<1>9. CASE RecordSnapshot
  <2>1. /\ tick = "copied" /\ Quietly /\ tick' = "marking" /\ UNCHANGED <<Path, conn, disk, made, panelVars>>
        /\ Put("worker", WithRow(Of("worker"), "auto", snap, "done"))
    BY <1>9 DEF RecordSnapshot
  <2>2. Keeps(WithRow(Of("worker"), "auto", snap, "done"), Of("worker"))
    BY <1>5, <2>1, RowsKeep DEF Kinds, HandShape
  <2> QED  BY <1>7, <2>1, <2>2 DEF DataShape
<1>10. CASE RecordFails
  <2>1. /\ tick = "copied" /\ Fault /\ tick' = "pruning" /\ UNCHANGED <<Path, conn, made, panelVars>>
        /\ Unlink(snap) /\ Put("worker", AfterFailure(Of("worker")))
    BY <1>10 DEF RecordFails
  <2>2. Keeps(AfterFailure(Of("worker")), Of("worker")) /\ disk' \in [Files -> Contents \cup {NULL}]
    BY <1>5, <2>1, MarksKeep, DiskKeeps
  <2> QED  BY <1>7, <2>1, <2>2
<1>11. CASE MarkSnapshot
  <2>1. /\ tick = "marking" /\ tick' = "pruning" /\ UNCHANGED <<Path, conn, disk, made, panelVars, snap>>
        /\ \/ Put("worker", [Of("worker") EXCEPT !.due = FALSE, !.cooling = FALSE]) /\ Quietly
           \/ UNCHANGED data /\ Fault
    BY <1>11 DEF MarkSnapshot
  <2>2. CASE UNCHANGED data /\ Fault
    <3>1. LiveIsWhole' /\ data' \in [Inodes -> Contents] /\ disk' \in [Files -> Contents \cup {NULL}] /\ made' \in 0..MaxFiles
      BY <2>1, <2>2 DEF LiveIsWhole, DataShape, Path
    <3> QED  BY <1>5, <2>1, <2>2, <3>1, TickFrame
  <2>3. CASE Put("worker", [Of("worker") EXCEPT !.due = FALSE, !.cooling = FALSE]) /\ Quietly
    <3>1. Keeps([Of("worker") EXCEPT !.due = FALSE, !.cooling = FALSE], Of("worker"))
      BY <1>5, <2>1, MarksKeep
    <3> QED  BY <1>7, <2>1, <2>3, <3>1 DEF DataShape
  <2> QED  BY <2>1, <2>2, <2>3
<1>12. CASE PruneSnapshot
  <2>1. PICK r \in Prunable : Put("worker", WithoutId(Of("worker"), r.id)) /\ Unlink(r.file)
    BY <1>12 DEF PruneSnapshot
  <2>2. /\ tick = "pruning" /\ tick' = "pruning" /\ Quietly /\ UNCHANGED <<Path, conn, made, panelVars>>
    BY <1>12 DEF PruneSnapshot, workVars
  <2>3. Keeps(WithoutId(Of("worker"), r.id), Of("worker")) /\ disk' \in [Files -> Contents \cup {NULL}]
    BY <1>5, <2>1, <2>2, ForgetKeeps, DiskKeeps
  <2> QED  BY <1>7, <2>1, <2>2, <2>3
<1>13. CASE WorkerCrash \/ CrashInPrune
  <2>1. /\ tick' = "dead" /\ conn' = [conn EXCEPT !["worker"] = NULL] /\ Fault
        /\ UNCHANGED <<live, wal, disk, made, create, deleting, restore>>
    BY <1>13 DEF WorkerCrash, CrashInPrune, Halfway, Path, panelVars
  <2>2. data' \in [Inodes -> Contents] /\ LiveIsWhole'
    <3>1. CASE WorkerCrash
      BY <3>1 DEF WorkerCrash, DataShape, LiveIsWhole, Path
    <3>2. CASE CrashInPrune
      <4>1. PICK r \in Prunable : Put("worker", WithoutId(Of("worker"), r.id))
        BY <3>2 DEF CrashInPrune, Halfway
      <4>2. Keeps(WithoutId(Of("worker"), r.id), Of("worker")) /\ Connected("worker")
        BY <1>5, <3>2, ForgetKeeps DEF CrashInPrune
      <4> QED  BY <2>1, <4>1, <4>2, PutKeeps DEF Processes
    <3> QED  BY <1>13, <3>1, <3>2
  <2>3. HandShape'
    BY <2>1 DEF HandShape
  <2>4. disk' \in [Files -> Contents \cup {NULL}]
    BY <2>1 DEF DataShape
  <2> QED  BY <2>1, <2>2, <2>3, <2>4, Tally, CloseSafe DEF Processes
<1>14. CASE WorkerStarts
  <2>1. Open("worker") /\ tick' = "idle" /\ Quietly /\ UNCHANGED <<live, data, disk, made, create, deleting, restore, snap>>
    BY <1>14 DEF WorkerStarts, panelVars
  <2>2. HandShape'
    BY <2>1 DEF HandShape
  <2> QED  BY <2>1, <2>2, Tally, OpenSafe DEF Processes
<1> QED
  BY <1>1, <1>2, <1>3, <1>4, <1>6, <1>8, <1>9, <1>10, <1>11, <1>12, <1>13, <1>14 DEF TickStep, WorkerFails

LEMMA TimeSafe == ASSUME Safe, IntervalPasses \/ HourPasses PROVE Safe'
<1> USE DEF Safe
<1>1. /\ UNCHANGED <<Path, conn, disk, made, panelVars, workVars>> /\ Quietly
      /\ \/ data' = [i \in Inodes |-> [data[i] EXCEPT !.due = TRUE]]
         \/ data' = [i \in Inodes |-> [data[i] EXCEPT !.cooling = FALSE]]
  BY DEF IntervalPasses, HourPasses
<1>2. \A i \in Inodes : data[i] \in Contents
  BY DEF DataShape
<1>3. \A i \in Inodes : /\ Keeps([data[i] EXCEPT !.due = TRUE], data[i])
                        /\ Keeps([data[i] EXCEPT !.cooling = FALSE], data[i])
  BY <1>2, MarksKeep
<1>4. data' \in [Inodes -> Contents] /\ LiveIsWhole'
  BY <1>1, <1>3 DEF Keeps, LiveIsWhole, DataShape, Path
<1>5. HandShape'
  BY <1>1 DEF HandShape, panelVars, workVars
<1> QED  BY <1>1, <1>4, <1>5, Tally, SafeFrame DEF DataShape, panelVars

LEMMA SafeNext == Safe /\ [Next]_vars => Safe'
<1> SUFFICES ASSUME Safe, [Next]_vars PROVE Safe'
  OBVIOUS
<1>1. CASE UNCHANGED vars
  BY <1>1 DEF PanelDied, Connected, vars, panelVars, workVars, Safe, DataShape, HandShape, RestoreShape, LiveIsWhole,
    PanelServes, LogFits
<1>2. CASE Next
  BY <1>2, CreateSafe, DeleteSafe, WebSafe, RestoreSteps, TickSafe, TimeSafe DEF Next
<1> QED  BY <1>1, <1>2

-----------------------------------------------------------------------------
(* The theorems.                                                           *)

\* The path always leads to a whole database: an image gets there only after
\* its check, and whatever is written to a database leaves it whole
\* (settings/actions.ts:419-463).
THEOREM LiveStaysWhole == Spec => []LiveIsWhole
<1>1. Safe => LiveIsWhole
  BY DEF Safe
<1> QED  BY <1>1, SafeInit, SafeNext, PTL DEF Spec

\* A restore ends with the panel on the restored database, and the log of the
\* replaced one is met only between the rename and its removal, by a worker
\* that opens the path there, or after the panel died in that window.
THEOREM RestoreIsSafe == Spec => RestoreSafe
<1>1. Safe => ServesLive
  BY DEF Safe, PanelServes, ServesLive
<1>2. Safe /\ [Next]_vars => [~damaged /\ damaged' => restore.at = "removeLog" \/ PanelDied]_vars
  <2> SUFFICES ASSUME Safe, Next, ~damaged, damaged' PROVE restore.at = "removeLog" \/ PanelDied
    OBVIOUS
  <2>1. \E p \in Processes : Open(p)
    BY DEF Next, WebOpens, CreateStep, BeginCreate, CopyCreated, RecordCreated, PruneCreated,
      UnlinkCreated, DeleteBackup, UnlinkDeleted, BeginRestore, RestoreStep, ReadBackup,
      CheckBackup, Swap, RemoveLog, CloseDb, WriteMarker, SwapFails, WebCrash, TickStep,
      BeginTick, Heal, Reopen, SkipStage, BeginSnapshot, CopySnapshot, RecordSnapshot,
      MarkSnapshot, PruneSnapshot, EndTick, WorkerFails, ReopenThrows, CopyFails, RecordFails,
      WorkerCrash, CrashInPrune, WorkerStarts, IntervalPasses, HourPasses, Path, Processes
  <2>2. wal \notin {NULL, live}
    BY <2>1 DEF Open
  <2> QED  BY <2>2 DEF Safe, LogFits
<1> QED  BY <1>1, <1>2, SafeInit, SafeNext, PTL DEF Spec, RestoreSafe, OnlyWindowDamages
-----------------------------------------------------------------------------
(* Row numbers.  Every file begun leaves at most one row, whichever         *)
(* database it goes to, so numbers stay below the number of files.          *)

\* A file that is still being copied has not left its row yet.
Begun(place) == IF place \in {"copying", "copied"} THEN 1 ELSE 0
Settled == made - Begun(create.at) - Begun(tick)

Numbered(c, n) ==
  /\ c \in Contents /\ 0 <= c.seq /\ c.seq <= n
  /\ \A r \in c.rows : 1 <= r.id /\ r.id <= c.seq

\* Every database, snapshot and image counts no further than files settled.
Numbers ==
  /\ \A i \in Inodes : Numbered(data[i], Settled)
  /\ \A f \in Files : disk[f] # NULL => Numbered(disk[f], Settled)
  /\ restore.image # NULL => Numbered(restore.image, Settled)
  /\ restore.at \notin {"idle", "read"} => restore.image # NULL
  /\ \A r \in create.stale : r.id \in 1..MaxFiles

LEMMA SettledIsInt == ASSUME Safe PROVE Settled \in Int /\ Settled <= made /\ made \in Nat
  BY BackupAssumption DEF Safe, DataShape, Settled, Begun

LEMMA NumberedMore ==
  ASSUME NEW c, NEW n \in Int, NEW m \in Int, Numbered(c, n), n <= m PROVE Numbered(c, m)
  BY DEF Numbered, Contents

LEMMA NumberedRow ==
  ASSUME NEW n \in Int, NEW m \in Int, n + 1 <= m, NEW c, Numbered(c, n),
         NEW k \in Kinds, NEW f \in Files, NEW s \in {"done", "failed"}
  PROVE  Numbered(WithRow(c, k, f, s), m)
<1> DEFINE row == [id |-> c.seq + 1, kind |-> k, file |-> f, status |-> s]
<1> DEFINE new == WithRow(c, k, f, s)
<1>1. c \in Contents /\ c.seq \in Int /\ row.id = c.seq + 1
  BY DEF Numbered, Contents
<1>2. new \in Contents
  BY <1>1, RowsKeep DEF Keeps
<1>3. new.seq = c.seq + 1 /\ new.rows = c.rows \cup {row}
  BY <1>1 DEF WithRow, Contents
<1>4. \A r \in c.rows : r.id \in Int
  BY <1>1 DEF Contents, Entries
<1> HIDE DEF new, row
<1>5. 0 <= new.seq /\ new.seq <= m
  BY <1>1, <1>3 DEF Numbered
<1>6. \A r \in new.rows : 1 <= r.id /\ r.id <= new.seq
  BY <1>1, <1>3, <1>4 DEF Numbered
<1>7. Numbered(new, m)
  BY <1>2, <1>5, <1>6 DEF Numbered
<1> QED  BY <1>7 DEF new

LEMMA NumberedForget ==
  ASSUME NEW n, NEW c, Numbered(c, n), NEW i PROVE Numbered(WithoutId(c, i), n)
<1>1. WithoutId(c, i) \in Contents
  BY ForgetKeeps DEF Numbered, Keeps
<1>2. WithoutId(c, i).seq = c.seq /\ WithoutId(c, i).rows \subseteq c.rows
  BY DEF WithoutId, Numbered, Contents
<1> QED  BY <1>1, <1>2 DEF Numbered

LEMMA NumberedMarks ==
  ASSUME NEW n, NEW c, Numbered(c, n), NEW d \in BOOLEAN, NEW e \in BOOLEAN
  PROVE  /\ Numbered([c EXCEPT !.due = d], n) /\ Numbered([c EXCEPT !.cooling = e], n)
         /\ Numbered([c EXCEPT !.due = d, !.cooling = e], n) /\ Numbered(AfterFailure(c), n)
  BY DEF Numbered, AfterFailure, Contents

LEMMA CutIsNumbered == ASSUME NEW n \in Int, 0 <= n PROVE Numbered(CutShort, n) /\ Numbered(Empty, n)
  BY CutIsContent DEF Numbered, CutShort, Empty, Contents

\* What a step has to show: the count does not go back, and what it writes
\* is numbered.
LEMMA NumbersFrame ==
  ASSUME Safe, Numbers, Settled' \in Int, Settled <= Settled',
         \A i \in Inodes : data'[i] = data[i] \/ Numbered(data'[i], Settled'),
         \A f \in Files : disk'[f] \in {disk[f], NULL} \/ Numbered(disk'[f], Settled'),
         restore'.image \in {restore.image, NULL} \/ Numbered(restore'.image, Settled'),
         restore' = restore \/ restore'.at \in {"idle", "read"} \/ restore'.image # NULL,
         \A r \in create'.stale : r \in create.stale \/ r.id \in 1..MaxFiles
  PROVE  Numbers'
<1>1. Settled \in Int
  BY SettledIsInt
<1>2. \A c : Numbered(c, Settled) => Numbered(c, Settled')
  BY <1>1, NumberedMore
<1>3. \A i \in Inodes : Numbered(data'[i], Settled')
  BY <1>2 DEF Numbers
<1>4. \A f \in Files : disk'[f] # NULL => Numbered(disk'[f], Settled')
  BY <1>2 DEF Numbers
<1>5. restore'.image # NULL => Numbered(restore'.image, Settled')
  BY <1>2 DEF Numbers
<1>6. \A r \in create'.stale : r.id \in 1..MaxFiles
  BY DEF Numbers
<1>7. restore'.at \notin {"idle", "read"} => restore'.image # NULL
  BY DEF Numbers
<1> QED  BY <1>3, <1>4, <1>5, <1>6, <1>7 DEF Numbers

LEMMA OfNumbered ==
  ASSUME Safe, Numbers, NEW p \in Processes, Connected(p)
  PROVE  Numbered(Of(p), Settled) /\ conn[p] \in Inodes
  BY DEF Safe, DataShape, Numbers, Of, Connected

LEMMA PutNumbers ==
  ASSUME Safe, NEW p \in Processes, NEW new, Put(p, new), NEW n, Numbered(new, n)
  PROVE  \A i \in Inodes : data'[i] = data[i] \/ Numbered(data'[i], n)
  BY DEF Safe, DataShape, Put

\* Nothing settles below zero.
LEMMA SettledIsNat == ASSUME Safe, Numbers PROVE 0 <= Settled /\ Settled \in Int
<1>1. live \in Inodes
  BY DEF Safe, DataShape
<1>2. Numbered(data[live], Settled)
  BY <1>1 DEF Numbers
<1> QED  BY <1>2, SettledIsInt DEF Numbered, Contents

LEMMA NumbersInit == Init => Numbers
<1> SUFFICES ASSUME Init PROVE Numbers
  OBVIOUS
<1>1. Settled = 0
  <2>1. made = 0 /\ create.at = "idle" /\ tick = "idle"
    BY DEF Init, NoCreate
  <2>2. Begun("idle") = 0
    BY DEF Begun
  <2> QED  BY <2>1, <2>2 DEF Settled
<1>2. Numbered(Empty, 0)
  BY CutIsNumbered
<1> QED  BY <1>1, <1>2, BackupAssumption DEF Init, Numbers, NoCreate, NoRestore

\* A step that begins no file and gives up none: only what is in hand moves.
LEMMA NumbersStill ==
  ASSUME Safe, Numbers, made' = made, Begun(create'.at) = Begun(create.at), Begun(tick') = Begun(tick)
  PROVE  Settled' = Settled /\ Settled' \in Int
  BY SettledIsInt DEF Settled

LEMMA CreateNumbers == ASSUME Safe, Numbers, CreateStep PROVE Numbers'
<1> USE DEF Begun
<1>0. Settled \in Int /\ 0 <= Settled /\ made \in Nat
  BY SettledIsInt, SettledIsNat
<1>1. CASE BeginCreate
  <2>1. /\ create.at = "idle" /\ create'.at = "copying" /\ create'.stale = {} /\ made' = made + 1
        /\ disk' = [disk EXCEPT ![made + 1] = CutShort] /\ UNCHANGED <<data, restore, tick>>
    BY <1>1 DEF BeginCreate, workVars
  <2>2. Settled' = Settled
    BY <1>0, <2>1 DEF Settled
  <2>3. Numbered(CutShort, Settled')
    BY <1>0, <2>2, CutIsNumbered
  <2>4. \A f \in Files : disk'[f] \in {disk[f], NULL} \/ Numbered(disk'[f], Settled')
    BY <2>1, <2>3 DEF Safe, DataShape
  <2> QED  BY <1>0, <2>1, <2>2, <2>4, NumbersFrame
<1>2. CASE CopyCreated
  <2>1. create.at = "copying" /\ create.from \in Inodes /\ UNCHANGED <<data, restore, tick, made>>
    BY <1>2 DEF CopyCreated, Safe, HandShape, workVars
  <2>2. create' = NoCreate \/ create' = [create EXCEPT !.at = "copied"]
    BY <1>2 DEF CopyCreated
  <2>3. create \in [at : {"idle", "copying", "copied", "pruning", "unlinking"}, file : Files \cup {NULL},
                    from : Inodes \cup {NULL}, stale : SUBSET Entries]
    BY DEF Safe, HandShape
  <2>4. create'.at \in {"idle", "copied"} /\ create'.stale \subseteq create.stale
    BY <2>2, <2>3 DEF NoCreate
  <2>5. Settled' \in Int /\ Settled <= Settled'
    BY <1>0, <2>1, <2>4 DEF Settled
  <2>6. Numbered(data[create.from], Settled')
    BY <1>0, <2>1, <2>5, NumberedMore DEF Numbers
  <2>7. \A f \in Files : disk'[f] \in {disk[f], NULL} \/ Numbered(disk'[f], Settled')
    BY <1>2, <2>6 DEF CopyCreated, Safe, DataShape
  <2> QED  BY <2>1, <2>4, <2>5, <2>7, NumbersFrame
<1>3. CASE RecordCreated
  <2> DEFINE content == WithRow(Of("web"), "manual", create.file, "done")
  <2>1. /\ create.at = "copied" /\ create.file \in Files /\ Connected("web") /\ "web" \in Processes
        /\ UNCHANGED <<disk, restore, tick, made>>
    BY <1>3 DEF RecordCreated, Safe, HandShape, workVars, Processes
  <2>2. Put("web", content) /\ create' = [create EXCEPT !.at = "pruning", !.stale = Surplus(content, "manual")]
    BY <1>3 DEF RecordCreated
  <2>3. create'.at = "pruning" /\ create'.stale = Surplus(content, "manual")
    BY <2>2 DEF Safe, HandShape
  <2>4. Settled' = Settled + 1
    BY <1>0, <2>1, <2>3 DEF Settled
  <2>5. Numbered(content, Settled')
    BY <1>0, <2>1, <2>4, OfNumbered, NumberedRow DEF Kinds
  <2>6. \A r \in Surplus(content, "manual") : r.id \in 1..MaxFiles
    <3>1. Settled' <= MaxFiles
      BY <2>1, <2>3, <2>4, BackupAssumption DEF Safe, DataShape, Settled
    <3>2. Surplus(content, "manual") \subseteq content.rows
      BY DEF Surplus
    <3>3. \A r \in content.rows : r.id \in Int /\ 1 <= r.id /\ r.id <= content.seq /\ content.seq \in Int
      BY <2>5 DEF Numbered, Contents, Entries
    <3> HIDE DEF content
    <3> QED  BY <1>0, <2>4, <2>5, <3>1, <3>2, <3>3, BackupAssumption DEF Numbered
  <2> HIDE DEF content
  <2>7. \A i \in Inodes : data'[i] = data[i] \/ Numbered(data'[i], Settled')
    BY <2>1, <2>2, <2>5, PutNumbers
  <2> QED  BY <1>0, <2>1, <2>3, <2>4, <2>6, <2>7, NumbersFrame
<1>4. CASE PruneCreated
  <2>1. create.at = "pruning" /\ Connected("web") /\ UNCHANGED <<disk, restore, tick, made>> /\ "web" \in Processes
    BY <1>4 DEF PruneCreated, workVars, Processes
  <2>2. /\ create'.at \in {"idle", "unlinking"} /\ create'.stale \subseteq create.stale
        /\ UNCHANGED data \/ \E i : Put("web", WithoutId(Of("web"), i))
    <3>0. create \in [at : {"idle", "copying", "copied", "pruning", "unlinking"}, file : Files \cup {NULL},
                      from : Inodes \cup {NULL}, stale : SUBSET Entries]
      BY DEF Safe, HandShape
    <3>1. CASE create.stale = {}
      BY <1>4, <3>1 DEF PruneCreated, NoCreate
    <3>2. CASE create.stale # {}
      <4>1. PICK r \in create.stale :
              /\ Put("web", WithoutId(Of("web"), r.id))
              /\ create' = [create EXCEPT !.at = "unlinking", !.file = r.file, !.stale = @ \ {r}]
        BY <1>4, <3>2 DEF PruneCreated
      <4> QED  BY <3>0, <4>1
    <3> QED  BY <3>1, <3>2
  <2>3. Settled' = Settled /\ Settled' \in Int
    BY <2>1, <2>2, NumbersStill
  <2>4. \A i \in Inodes : data'[i] = data[i] \/ Numbered(data'[i], Settled')
    BY <2>1, <2>2, <2>3, OfNumbered, NumberedForget, PutNumbers
  <2> QED  BY <2>1, <2>2, <2>3, <2>4, <1>0, NumbersFrame
<1>5. CASE UnlinkCreated
  <2>1. /\ create.at = "unlinking" /\ create'.at = "pruning" /\ create'.stale = create.stale
        /\ UNCHANGED <<data, restore, tick, made>> /\ \A f \in Files : disk'[f] \in {disk[f], NULL}
    BY <1>5 DEF UnlinkCreated, workVars, Safe, HandShape, DataShape, Unlink
  <2>2. Settled' = Settled /\ Settled' \in Int
    BY <2>1, NumbersStill
  <2> QED  BY <1>0, <2>1, <2>2, NumbersFrame
<1> QED  BY <1>1, <1>2, <1>3, <1>4, <1>5 DEF CreateStep

LEMMA PanelNumbers ==
  ASSUME Safe, Numbers, WebOpens \/ DeleteBackup \/ UnlinkDeleted \/ BeginRestore \/ RestoreStep \/ SwapFails \/ WebCrash
  PROVE  Numbers'
<1> USE DEF Begun
<1>0. Settled \in Int /\ 0 <= Settled /\ made \in Nat
  BY SettledIsInt, SettledIsNat
<1>1. CASE DeleteBackup
  <2>1. Connected("web") /\ UNCHANGED <<disk, restore, create, tick, made>> /\ "web" \in Processes
    BY <1>1 DEF DeleteBackup, workVars, Processes
  <2>2. \E i : Put("web", WithoutId(Of("web"), i))
    BY <1>1 DEF DeleteBackup
  <2>3. Settled' = Settled /\ Settled' \in Int
    BY <2>1, NumbersStill
  <2>4. \A i \in Inodes : data'[i] = data[i] \/ Numbered(data'[i], Settled')
    BY <2>1, <2>2, <2>3, OfNumbered, NumberedForget, PutNumbers
  <2> QED  BY <1>0, <2>1, <2>3, <2>4, NumbersFrame
<1>2. CASE UnlinkDeleted \/ WebOpens
  <2>1. UNCHANGED <<data, restore, create, tick, made>> /\ \A f \in Files : disk'[f] \in {disk[f], NULL}
    BY <1>2 DEF UnlinkDeleted, WebOpens, workVars, panelVars, Safe, DataShape, Unlink
  <2>2. Settled' = Settled /\ Settled' \in Int
    BY <2>1, NumbersStill
  <2> QED  BY <1>0, <2>1, <2>2, NumbersFrame
<1>3. CASE WebCrash
  <2>1. create' = NoCreate /\ restore' = NoRestore /\ UNCHANGED <<data, disk, tick, made>>
    BY <1>3 DEF WebCrash, workVars
  <2>2. create'.at = "idle" /\ create'.stale = {} /\ restore'.image = NULL /\ restore'.at = "idle"
    BY <2>1 DEF NoCreate, NoRestore
  <2>3. Settled' \in Int /\ Settled <= Settled'
    BY <1>0, <2>1, <2>2 DEF Settled
  <2> QED  BY <2>1, <2>2, <2>3, NumbersFrame
<1>4. CASE Swap
  <2>1. PICK d \in {restore.image.due, TRUE}, c \in {restore.image.cooling, FALSE} :
          data' = [data EXCEPT ![live + 1] = [restore.image EXCEPT !.due = d, !.cooling = c]]
    BY <1>4 DEF Swap
  <2>2. /\ restore.at = "rename" /\ restore' = [restore EXCEPT !.at = "removeLog"]
        /\ UNCHANGED <<disk, made, create, tick>>
    BY <1>4 DEF Swap, OnTo, Following, workVars
  <2>3. restore.image \in Contents /\ restore'.image = restore.image /\ restore'.image # NULL
    BY <2>2 DEF Safe, RestoreShape, Numbers
  <2>4. Settled' = Settled /\ Settled' \in Int
    BY <2>2, NumbersStill
  <2>5. Numbered([restore.image EXCEPT !.due = d, !.cooling = c], Settled')
    <3>1. d \in BOOLEAN /\ c \in BOOLEAN
      BY <2>3 DEF Contents
    <3>2. Numbered(restore.image, Settled)
      BY <2>2 DEF Numbers
    <3> QED  BY <2>4, <3>1, <3>2, NumberedMarks
  <2>6. \A i \in Inodes : data'[i] = data[i] \/ Numbered(data'[i], Settled')
    BY <2>1, <2>5 DEF Safe, DataShape
  <2> QED  BY <1>0, <2>2, <2>3, <2>4, <2>6, NumbersFrame
<1>5. CASE BeginRestore \/ ReadBackup \/ CheckBackup \/ RemoveLog \/ CloseDb \/ WriteMarker \/ SwapFails
  <2>1. UNCHANGED <<data, disk, made, create, tick>>
    BY <1>5 DEF BeginRestore, ReadBackup, CheckBackup, RemoveLog, CloseDb, WriteMarker, SwapFails, workVars
  <2>2. Settled' = Settled /\ Settled' \in Int
    BY <2>1, NumbersStill
  <2>3. /\ restore'.image \in {restore.image, NULL} \/ Numbered(restore'.image, Settled')
        /\ restore'.at \in {"idle", "read"} \/ restore'.image # NULL
    <3> USE DEF NoRestore
    <3>0. restore \in [at : Places, file : Files \cup {NULL}, image : Contents \cup {NULL}]
      BY DEF Safe, RestoreShape
    <3>1. CASE ReadBackup
      <4>1. restore.file \in Files
        BY <3>1 DEF ReadBackup, Safe, RestoreShape
      <4>2. CASE disk[restore.file] = NULL
        BY <3>1, <4>2 DEF ReadBackup, Loaded
      <4>3. CASE disk[restore.file] # NULL
        <5>1. restore'.image = disk[restore.file]
          BY <3>0, <3>1, <4>3 DEF ReadBackup, Loaded
        <5> QED  BY <2>2, <4>1, <4>3, <5>1 DEF Numbers
      <4> QED  BY <4>2, <4>3
    <3>2. CASE BeginRestore
      BY <3>2 DEF BeginRestore
    <3>3. CASE CheckBackup \/ RemoveLog \/ CloseDb
      <4>1. /\ restore.at \in {"check", "removeLog", "close"}
            /\ restore' = NoRestore \/ \E step : restore' = [restore EXCEPT !.at = step]
        BY <3>3 DEF CheckBackup, RemoveLog, CloseDb, OnTo
      <4> QED  BY <3>0, <4>1 DEF Numbers
    <3>4. CASE WriteMarker \/ SwapFails
      BY <3>4 DEF WriteMarker, SwapFails
    <3> QED  BY <1>5, <3>1, <3>2, <3>3, <3>4
  <2> QED  BY <1>0, <2>1, <2>2, <2>3, NumbersFrame
<1> QED  BY <1>1, <1>2, <1>3, <1>4, <1>5 DEF RestoreStep

\* The steps that write to the database the worker has open.
LEMMA WorkerPuts ==
  ASSUME Safe, Numbers, NEW new, Put("worker", new), Connected("worker"),
         Numbered(Of("worker"), Settled) => Numbered(new, Settled'),
         Settled' \in Int, Settled <= Settled', UNCHANGED <<restore, create>>,
         \A f \in Files : disk'[f] \in {disk[f], NULL}
  PROVE  Numbers'
<1>1. "worker" \in Processes
  BY DEF Processes
<1>2. \A i \in Inodes : data'[i] = data[i] \/ Numbered(data'[i], Settled')
  BY <1>1, OfNumbered, PutNumbers
<1> QED  BY <1>2, NumbersFrame

LEMMA UnlinkOnly ==
  ASSUME Safe, NEW f, Unlink(f) \/ UNCHANGED disk
  PROVE  \A g \in Files : disk'[g] \in {disk[g], NULL}
  BY DEF Safe, DataShape, Unlink

LEMMA TickNumbers == ASSUME Safe, Numbers, TickStep \/ WorkerFails \/ WorkerStarts PROVE Numbers'
<1> USE DEF Begun
<1>0. Settled \in Int /\ 0 <= Settled /\ made \in Nat
  BY SettledIsInt, SettledIsNat
<1>1. CASE BeginTick \/ Reopen \/ SkipStage \/ EndTick \/ ReopenThrows \/ WorkerStarts
  <2>1. /\ UNCHANGED <<data, disk, made, restore, create>>
        /\ tick \notin {"copying", "copied"} /\ tick' \notin {"copying", "copied"}
    BY <1>1 DEF BeginTick, Reopen, SkipStage, EndTick, ReopenThrows, WorkerStarts, panelVars
  <2>2. Settled' = Settled /\ Settled' \in Int
    BY <2>1, NumbersStill
  <2> QED  BY <1>0, <2>1, <2>2, NumbersFrame
<1>2. CASE BeginSnapshot
  <2>1. /\ tick = "stages" /\ tick' = "copying" /\ made' = made + 1
        /\ disk' = [disk EXCEPT ![made + 1] = CutShort] /\ UNCHANGED <<data, restore, create>>
    BY <1>2 DEF BeginSnapshot, panelVars
  <2>2. Settled' = Settled
    BY <1>0, <2>1 DEF Settled
  <2>3. Numbered(CutShort, Settled')
    BY <1>0, <2>2, CutIsNumbered
  <2>4. \A f \in Files : disk'[f] \in {disk[f], NULL} \/ Numbered(disk'[f], Settled')
    BY <2>1, <2>3 DEF Safe, DataShape
  <2> QED  BY <1>0, <2>1, <2>2, <2>4, NumbersFrame
<1>3. CASE CopySnapshot
  <2>1. /\ tick = "copying" /\ tick' = "copied" /\ UNCHANGED <<data, restore, create, made>>
        /\ disk' = [disk EXCEPT ![snap] = Of("worker")] /\ Connected("worker") /\ "worker" \in Processes
    BY <1>3 DEF CopySnapshot, panelVars, Safe, HandShape, Connected, Processes
  <2>2. Settled' = Settled /\ Settled' \in Int
    BY <2>1, NumbersStill
  <2>3. Numbered(Of("worker"), Settled')
    BY <2>1, <2>2, OfNumbered
  <2>4. \A f \in Files : disk'[f] \in {disk[f], NULL} \/ Numbered(disk'[f], Settled')
    BY <2>1, <2>3 DEF Safe, DataShape
  <2> QED  BY <1>0, <2>1, <2>2, <2>4, NumbersFrame
<1>4. CASE CopyFails \/ RecordSnapshot \/ RecordFails
  <2>1. /\ tick \in {"copying", "copied"} /\ tick' \in {"marking", "pruning"} /\ snap \in Files
        /\ UNCHANGED <<restore, create, made>> /\ Connected("worker")
    BY <1>4 DEF CopyFails, RecordSnapshot, RecordFails, panelVars, Safe, HandShape, Connected
  <2>2. \A f \in Files : disk'[f] \in {disk[f], NULL}
    BY <1>4, UnlinkOnly DEF CopyFails, RecordSnapshot, RecordFails
  <2>3. Settled' = Settled + 1
    BY <1>0, <2>1 DEF Settled
  <2> DEFINE old == Of("worker")
  <2>4. PICK new : Put("worker", new) /\ new \in {AfterFailure(WithRow(old, "auto", snap, "failed")), WithRow(old, "auto", snap, "done"), AfterFailure(old)}
    BY <1>4 DEF CopyFails, RecordSnapshot, RecordFails
  <2>5. Numbered(old, Settled) => Numbered(new, Settled')
    <3> SUFFICES ASSUME Numbered(old, Settled) PROVE Numbered(new, Settled')
      OBVIOUS
    <3> HIDE DEF old
    <3>1. \A st \in {"done", "failed"} : Numbered(WithRow(old, "auto", snap, st), Settled')
      BY <1>0, <2>1, <2>3, NumberedRow DEF Kinds
    <3>2. Numbered(old, Settled')
      BY <1>0, <2>3, NumberedMore
    <3>3. Numbered(AfterFailure(WithRow(old, "auto", snap, "failed")), Settled')
      BY <3>1, NumberedMarks
    <3>4. Numbered(AfterFailure(old), Settled')
      BY <3>2, NumberedMarks
    <3> QED  BY <2>4, <3>1, <3>3, <3>4
  <2> QED  BY <1>0, <2>1, <2>2, <2>3, <2>4, <2>5, WorkerPuts
<1>5. CASE MarkSnapshot
  <2>1. tick = "marking" /\ tick' = "pruning" /\ UNCHANGED <<disk, restore, create, made>> /\ Connected("worker")
    BY <1>5 DEF MarkSnapshot, panelVars, Safe, HandShape, Connected
  <2>2. Settled' = Settled /\ Settled' \in Int
    BY <2>1, NumbersStill
  <2>3. CASE UNCHANGED data
    BY <1>0, <2>1, <2>2, <2>3, NumbersFrame
  <2>4. CASE Put("worker", [Of("worker") EXCEPT !.due = FALSE, !.cooling = FALSE])
    <3>1. Numbered(Of("worker"), Settled) => Numbered([Of("worker") EXCEPT !.due = FALSE, !.cooling = FALSE], Settled')
      BY <2>2, NumberedMarks
    <3> QED  BY <1>0, <2>1, <2>2, <2>4, <3>1, WorkerPuts
  <2> QED  BY <1>5, <2>3, <2>4 DEF MarkSnapshot
<1>6. CASE PruneSnapshot \/ CrashInPrune
  <2>1. /\ tick = "pruning" /\ tick' \in {"pruning", "dead"} /\ UNCHANGED <<restore, create, made>> /\ Connected("worker")
    BY <1>6 DEF PruneSnapshot, CrashInPrune, panelVars, workVars, Safe, HandShape, Connected
  <2>2. PICK r \in Prunable : Put("worker", WithoutId(Of("worker"), r.id)) /\ (Unlink(r.file) \/ UNCHANGED disk)
    BY <1>6 DEF PruneSnapshot, CrashInPrune, Halfway
  <2>3. Settled' = Settled /\ Settled' \in Int
    BY <2>1, NumbersStill
  <2>4. Numbered(Of("worker"), Settled) => Numbered(WithoutId(Of("worker"), r.id), Settled')
    BY <2>3, NumberedForget
  <2> QED  BY <1>0, <2>1, <2>2, <2>3, <2>4, UnlinkOnly, WorkerPuts
<1>7. CASE WorkerCrash
  <2>1. tick' = "dead" /\ UNCHANGED <<data, disk, restore, create, made>>
    BY <1>7 DEF WorkerCrash, panelVars
  <2>2. Settled' \in Int /\ Settled <= Settled'
    BY <1>0, <2>1 DEF Settled
  <2> QED  BY <2>1, <2>2, NumbersFrame
<1> QED  BY <1>1, <1>2, <1>3, <1>4, <1>5, <1>6, <1>7 DEF TickStep, WorkerFails

LEMMA NumbersNext == Safe /\ Numbers /\ [Next]_vars => Numbers'
<1> SUFFICES ASSUME Safe, Numbers, [Next]_vars PROVE Numbers'
  OBVIOUS
<1>0. Settled \in Int /\ 0 <= Settled
  BY SettledIsNat
<1>1. CASE UNCHANGED vars
  BY <1>1 DEF vars, panelVars, workVars, Numbers, Settled
<1>2. CASE IntervalPasses \/ HourPasses
  <2>1. /\ UNCHANGED <<disk, made, create, restore, tick>>
        /\ \A i \in Inodes : \/ data'[i] = [data[i] EXCEPT !.due = TRUE]
                             \/ data'[i] = [data[i] EXCEPT !.cooling = FALSE]
    BY <1>2 DEF IntervalPasses, HourPasses, panelVars, workVars
  <2>2. Settled' = Settled /\ Settled' \in Int
    BY <2>1, NumbersStill
  <2>3. \A c : Numbered(c, Settled) =>
          Numbered([c EXCEPT !.due = TRUE], Settled) /\ Numbered([c EXCEPT !.cooling = FALSE], Settled)
    BY NumberedMarks
  <2>4. \A i \in Inodes : Numbered(data'[i], Settled')
    BY <2>1, <2>2, <2>3 DEF Numbers
  <2> QED  BY <1>0, <2>1, <2>2, <2>4, NumbersFrame
<1> QED  BY <1>1, <1>2, CreateNumbers, PanelNumbers, TickNumbers DEF Next

-----------------------------------------------------------------------------
(* Types.                                                                  *)

Stages == {"dead", "idle", "opening", "stages", "copying", "copied", "marking", "pruning"}

\* What the earlier invariants leave out.
Frame ==
  /\ wal \in Inodes \cup {NULL} /\ damaged \in BOOLEAN /\ marker \in BOOLEAN
  /\ tick \in Stages /\ snap \in Files \cup {NULL}
  /\ acts \in 0..MaxActs /\ faults \in 0..MaxFaults

LEMMA FrameInit == Init => Frame
<1>1. 1 \in Inodes /\ 0 \in 0..MaxActs /\ 0 \in 0..MaxFaults
  BY BackupAssumption DEF Inodes
<1> QED  BY <1>1 DEF Init, Frame, Stages

LEMMA FrameNext == Safe /\ Frame /\ [Next]_vars => Frame'
<1> SUFFICES ASSUME Safe, Frame, [Next]_vars PROVE Frame'
  OBVIOUS
<1>1. /\ UNCHANGED <<acts, faults>> \/ ByOwner \/ Fault
      /\ UNCHANGED <<wal, damaged>> \/ (\E p \in Processes : Open(p)) \/ (wal' = NULL /\ UNCHANGED damaged)
      /\ UNCHANGED marker \/ marker' \in BOOLEAN
      /\ UNCHANGED tick \/ tick' \in Stages
      /\ snap' \in {snap, NULL} \/ (snap' = made + 1 /\ made < MaxFiles)
  <2> USE DEF Next, WebOpens, CreateStep, BeginCreate, CopyCreated, RecordCreated, PruneCreated,
        UnlinkCreated, DeleteBackup, UnlinkDeleted, BeginRestore, RestoreStep, ReadBackup,
        CheckBackup, Swap, RemoveLog, CloseDb, WriteMarker, SwapFails, WebCrash, TickStep,
        BeginTick, Heal, Reopen, SkipStage, BeginSnapshot, CopySnapshot, RecordSnapshot,
        MarkSnapshot, PruneSnapshot, EndTick, WorkerFails, ReopenThrows, CopyFails, RecordFails,
        WorkerCrash, CrashInPrune, WorkerStarts, IntervalPasses, HourPasses, Quietly, Path,
        Processes, Stages, workVars, vars
  <2>1. UNCHANGED <<acts, faults>> \/ ByOwner \/ Fault
    OBVIOUS
  <2>2. UNCHANGED <<wal, damaged>> \/ (\E p \in Processes : Open(p)) \/ (wal' = NULL /\ UNCHANGED damaged)
    OBVIOUS
  <2>3. UNCHANGED marker \/ marker' \in BOOLEAN
    OBVIOUS
  <2>4. UNCHANGED tick \/ tick' \in Stages
    OBVIOUS
  <2>5. snap' \in {snap, NULL} \/ (snap' = made + 1 /\ made < MaxFiles)
    OBVIOUS
  <2> QED  BY ONLY <2>1, <2>2, <2>3, <2>4, <2>5
<1>2. acts' \in 0..MaxActs /\ faults' \in 0..MaxFaults
  BY <1>1, BackupAssumption DEF Frame, ByOwner, Fault
<1>3. wal' \in Inodes \cup {NULL} /\ damaged' \in BOOLEAN
  BY <1>1 DEF Frame, Open, Safe, DataShape
<1>4. snap' \in Files \cup {NULL}
  BY <1>1, BackupAssumption DEF Frame, Safe, DataShape, Files
<1> QED  BY <1>1, <1>2, <1>3, <1>4 DEF Frame

LEMMA NumberedIsContent == ASSUME Safe, NEW c, Numbered(c, Settled) PROVE c \in Content
<1>1. Settled <= MaxFiles /\ c.seq \in Int /\ c.seq <= MaxFiles /\ c.seq \in 0..(2 * MaxFiles)
  BY SettledIsInt, BackupAssumption DEF Safe, DataShape, Numbered, Contents
<1>2. ASSUME NEW r \in c.rows PROVE r \in Rows
  <2>1. r \in Entries /\ r.id \in 1..(2 * MaxFiles)
    BY <1>1, <1>2, BackupAssumption DEF Numbered, Contents, Entries
  <2> QED  BY <2>1 DEF Entries, Rows
<1> QED  BY <1>1, <1>2 DEF Numbered, Contents, Content

LEMMA TypesHold == ASSUME Safe, Numbers, Frame PROVE TypeOK
<1>1. data \in [Inodes -> Content]
  BY NumberedIsContent DEF Safe, DataShape, Numbers
<1>2. disk \in [Files -> Content \cup {NULL}]
  BY NumberedIsContent DEF Safe, DataShape, Numbers
<1>3. restore.image \in Content \cup {NULL}
  BY NumberedIsContent DEF Numbers
<1>4. create.stale \subseteq Rows
  <2>1. ASSUME NEW r \in create.stale PROVE r \in Rows
    <3>1. r \in Entries /\ r.id \in 1..(2 * MaxFiles)
      BY <2>1, BackupAssumption DEF Safe, HandShape, Numbers
    <3> QED  BY <3>1 DEF Entries, Rows
  <2> QED  BY <2>1
<1>5. create \in [at : {"idle", "copying", "copied", "pruning", "unlinking"}, file : Files \cup {NULL},
                  from : Inodes \cup {NULL}, stale : SUBSET Rows]
  BY <1>4 DEF Safe, HandShape
<1>6. restore \in [at : {"idle", "read", "check", "rename", "removeLog", "close", "mark"},
                   file : Files \cup {NULL}, image : Content \cup {NULL}]
  BY <1>3 DEF Safe, RestoreShape, Places
<1> QED
  BY <1>1, <1>2, <1>5, <1>6 DEF TypeOK, Safe, DataShape, HandShape, Numbers, Frame, Stages

-----------------------------------------------------------------------------
(* What the panel lists, before a first restore.                           *)

\* A file being copied, and one whose row is gone and that will be unlinked.
InWork(f) ==
  \/ create.at \in {"copying", "copied"} /\ f = create.file
  \/ tick \in {"copying", "copied"} /\ f = snap
Doomed(f) ==
  \/ create.at = "unlinking" /\ f = create.file
  \/ deleting # NULL /\ f = deleting

WholeOn(f) == disk[f] # NULL /\ disk[f].whole

\* Both processes work on the first database, and each has a file to itself.
OneDatabase ==
  /\ \A p \in Processes : conn[p] \in {1, NULL}
  /\ create.at = "copying" => create.from = 1
  /\ ~ (/\ create.at \in {"copying", "copied"} /\ tick \in {"copying", "copied"}
        /\ create.file = snap)
  /\ create.at = "copied" => WholeOn(create.file)
  /\ tick = "copied" => WholeOn(snap)

\* No two rows share a number or a file, and a file with a row is neither
\* being copied nor about to be unlinked.
RowsApart ==
  /\ \A r, s \in data[1].rows : r.id = s.id \/ r.file = s.file => r = s
  /\ \A r \in data[1].rows : r.file <= made /\ ~InWork(r.file) /\ ~Doomed(r.file)
  /\ \A f \in Files : InWork(f) \/ Doomed(f) => f <= made
  /\ \A f \in Files : ~ (InWork(f) /\ Doomed(f))

\* A row on the list of a request that prunes is still the row of its file,
\* or its file has none any more.
ListFits ==
  \A r \in create.stale :
    /\ r.file <= made /\ ~InWork(r.file)
    /\ \A s \in data[1].rows : s.file = r.file => s.id = r.id

Listing == live = 1 => OneDatabase /\ RowsApart /\ ListFits /\ ListedExists

LEMMA ListingInit == Init => Listing
<1> SUFFICES ASSUME Init PROVE Listing
  OBVIOUS
<1>1. 1 \in Inodes
  BY BackupAssumption DEF Inodes
<1>2. data[1].rows = {} /\ create.at = "idle" /\ create.stale = {} /\ deleting = NULL /\ tick = "idle"
  BY <1>1 DEF Init, Empty, NoCreate
<1>3. OneDatabase
  BY <1>2 DEF Init, OneDatabase, Processes
<1>4. RowsApart /\ ListFits /\ ListedExists
  BY <1>2 DEF RowsApart, ListFits, ListedExists, InWork, Doomed
<1> QED  BY <1>3, <1>4 DEF Listing

\* Before a restore there has been none, and every connection leads to the
\* first database.
LEMMA FirstDatabase ==
  ASSUME Safe, Listing, live = 1, NEW p \in Processes, Connected(p)
  PROVE  conn[p] = 1 /\ 1 \in Inodes /\ Of(p) = data[1] /\ \A new : Put(p, new) => data'[1] = new
  BY DEF Listing, OneDatabase, Connected, Of, Safe, DataShape, Put

LEMMA FirstRows == ASSUME Safe, live = 1 PROVE data[1] \in Contents /\ data[1].rows \subseteq Entries
  BY DEF Safe, DataShape, Contents

\* A step that adds no row and begins no file: rows go before their files do.
LEMMA ListingFrame ==
  ASSUME Safe, Listing, live = 1, made' = made,
         OneDatabase',
         data'[1].rows \subseteq data[1].rows,
         \A f \in Files : InWork(f)' => InWork(f),
         \A f \in Files : Doomed(f)' => Doomed(f) \/
           (f <= made /\ ~InWork(f) /\ \A r \in data'[1].rows : r.file # f),
         \A r \in create'.stale : r \in create.stale,
         \A f \in Files : disk'[f] = disk[f] \/ \A r \in data'[1].rows : r.file # f
  PROVE  Listing'
<1> USE DEF Listing
<1>1. data[1].rows \subseteq Entries /\ \A r \in data[1].rows : r.file \in Files
  BY FirstRows DEF Entries
<1>2. RowsApart'
  <2>1. \A r, s \in data'[1].rows : r.id = s.id \/ r.file = s.file => r = s
    BY DEF RowsApart
  <2>2. \A r \in data'[1].rows : r.file <= made /\ ~InWork(r.file)' /\ ~Doomed(r.file)'
    BY <1>1 DEF RowsApart
  <2>3. \A f \in Files : InWork(f)' \/ Doomed(f)' => f <= made
    BY DEF RowsApart
  <2>4. \A f \in Files : ~ (InWork(f)' /\ Doomed(f)')
    BY DEF RowsApart
  <2> QED  BY <2>1, <2>2, <2>3, <2>4 DEF RowsApart
<1>3. ListFits'
  <2>1. ASSUME NEW r \in create'.stale
        PROVE  r.file <= made /\ ~InWork(r.file)' /\ \A s \in data'[1].rows : s.file = r.file => s.id = r.id
    <3>1. r \in create.stale /\ r.file \in Files
      BY <2>1 DEF Safe, HandShape, Entries
    <3> QED  BY <3>1 DEF ListFits
  <2> QED  BY <2>1 DEF ListFits
<1>4. ListedExists'
  BY <1>1 DEF ListedExists
<1> QED  BY <1>2, <1>3, <1>4

\* A step that leaves the row of the file it has copied.
LEMMA ListingRow ==
  ASSUME Safe, Numbers, Listing, live = 1, made' = made, OneDatabase',
         NEW f \in Files, InWork(f), ~ (InWork(f)'), NEW k, NEW s,
         data'[1].rows = data[1].rows \cup {[id |-> data[1].seq + 1, kind |-> k, file |-> f, status |-> s]},
         \A g \in Files : InWork(g)' => InWork(g),
         \A g \in Files : Doomed(g)' => Doomed(g),
         \A r \in create'.stale : r \in create.stale \/ r \in data'[1].rows,
         \A g \in Files : disk'[g] = disk[g] \/ (g = f /\ s = "failed"),
         s = "done" => WholeOn(f)
  PROVE  Listing'
<1> USE DEF Listing
<1> DEFINE row == [id |-> data[1].seq + 1, kind |-> k, file |-> f, status |-> s]
<1>1. data[1].rows \subseteq Entries /\ \A r \in data[1].rows : r.file \in Files
  BY FirstRows DEF Entries
<1>2. row.id = data[1].seq + 1 /\ row.file = f /\ row.status = s /\ data'[1].rows = data[1].rows \cup {row}
  OBVIOUS
<1> HIDE DEF row
<1>3. \A r \in data[1].rows : r.id # row.id /\ r.file # f
  <2>1. Numbered(data[1], Settled)
    BY DEF Numbers, Safe, DataShape
  <2>2. \A r \in data[1].rows : r.id \in Int /\ r.id <= data[1].seq /\ data[1].seq \in Int
    BY <1>1, <2>1 DEF Numbered, Contents, Entries
  <2> QED  BY <1>2, <2>2 DEF RowsApart
<1>4. RowsApart'
  <2>1. \A r, t \in data'[1].rows : r.id = t.id \/ r.file = t.file => r = t
    BY <1>2, <1>3 DEF RowsApart
  <2>2. \A r \in data'[1].rows : r.file <= made /\ ~InWork(r.file)' /\ ~Doomed(r.file)'
    BY <1>1, <1>2 DEF RowsApart
  <2>3. \A g \in Files : InWork(g)' \/ Doomed(g)' => g <= made
    BY DEF RowsApart
  <2>4. \A g \in Files : ~ (InWork(g)' /\ Doomed(g)')
    BY DEF RowsApart
  <2> QED  BY <2>1, <2>2, <2>3, <2>4 DEF RowsApart
<1>5. ListFits'
  <2>1. ASSUME NEW r \in create'.stale
        PROVE  r.file <= made /\ ~InWork(r.file)' /\ \A t \in data'[1].rows : t.file = r.file => t.id = r.id
    <3>1. CASE r \in create.stale
      <4>1. r.file \in Files
        BY <3>1 DEF Safe, HandShape, Entries
      <4> QED  BY <1>2, <3>1, <4>1 DEF ListFits
    <3>2. CASE r \in data'[1].rows
      BY <1>1, <1>2, <1>4, <3>2 DEF RowsApart
    <3> QED  BY <2>1, <3>1, <3>2
  <2> QED  BY <2>1 DEF ListFits
<1>6. ListedExists'
  BY <1>1, <1>2, <1>3 DEF ListedExists, WholeOn
<1> QED  BY <1>4, <1>5, <1>6

\* A step that begins a file: its number is new.
LEMMA ListingBegin ==
  ASSUME Safe, Listing, live = 1, made' = made + 1, made + 1 \in Files, data' = data, OneDatabase',
         \A g \in Files : InWork(g)' => InWork(g) \/ g = made + 1,
         \A g \in Files : Doomed(g)' => Doomed(g),
         \A r \in create'.stale : r \in create.stale,
         \A g \in Files : disk'[g] = disk[g] \/ g = made + 1
  PROVE  Listing'
<1> USE DEF Listing
<1>1. /\ made \in Int /\ \A g \in Files : g \in Int
      /\ data[1].rows \subseteq Entries /\ \A r \in data[1].rows : r.file \in Files
  BY FirstRows, BackupAssumption DEF Entries, Safe, DataShape, Files
<1>2. RowsApart'
  <2>1. \A r, t \in data[1].rows : r.id = t.id \/ r.file = t.file => r = t
    BY DEF RowsApart
  <2>2. \A r \in data[1].rows : r.file <= made + 1 /\ ~InWork(r.file)' /\ ~Doomed(r.file)'
    BY <1>1 DEF RowsApart
  <2>3. \A g \in Files : InWork(g)' \/ Doomed(g)' => g <= made + 1
    BY <1>1 DEF RowsApart
  <2>4. \A g \in Files : ~ (InWork(g)' /\ Doomed(g)')
    BY <1>1 DEF RowsApart
  <2> QED  BY <2>1, <2>2, <2>3, <2>4 DEF RowsApart
<1>3. ListFits'
  <2>1. ASSUME NEW r \in create'.stale
        PROVE  r.file <= made + 1 /\ ~InWork(r.file)' /\ \A t \in data[1].rows : t.file = r.file => t.id = r.id
    <3>1. r \in create.stale /\ r.file \in Files
      BY <2>1 DEF Safe, HandShape, Entries
    <3> QED  BY <1>1, <3>1 DEF ListFits
  <2> QED  BY <2>1 DEF ListFits
<1>4. ListedExists'
  BY <1>1 DEF ListedExists, RowsApart
<1> QED  BY <1>2, <1>3, <1>4

\* What a request holds, as far as files go.
HandFiles == [at : {"idle", "copying", "copied", "pruning", "unlinking"}, file : Files \cup {NULL},
              from : Inodes \cup {NULL}, stale : SUBSET Entries]

LEMMA CreateListing == ASSUME Safe, Numbers, Listing, live = 1, CreateStep PROVE Listing'
<1> USE DEF Listing
<1>0. create \in HandFiles /\ made \in Int /\ 1 \in Inodes /\ "web" \in Processes
  BY BackupAssumption DEF Safe, HandShape, HandFiles, DataShape, Processes
<1>1. CASE BeginCreate
  <2>1. /\ create.at = "idle" /\ create'.at = "copying" /\ create'.file = made + 1 /\ create'.stale = {}
        /\ create'.from = 1 /\ made' = made + 1 /\ made + 1 \in Files
        /\ disk' = [disk EXCEPT ![made + 1] = CutShort] /\ UNCHANGED <<data, conn, deleting, tick, snap>>
    BY <1>1, FirstDatabase, BackupAssumption DEF BeginCreate, workVars, Safe, DataShape, Files, Processes
  <2>2. \A g \in Files : disk'[g] = disk[g] \/ g = made + 1
    BY <2>1 DEF Safe, DataShape
  <2>3. /\ \A g \in Files : InWork(g)' => InWork(g) \/ g = made + 1
        /\ \A g \in Files : Doomed(g)' => Doomed(g)
    BY <2>1 DEF InWork, Doomed
  <2>4. tick \in {"copying", "copied"} => snap \in Files /\ snap <= made
    BY DEF RowsApart, InWork, Safe, HandShape
  <2>5. OneDatabase'
    <3>1. tick \in {"copying", "copied"} => snap # made + 1 /\ disk'[snap] = disk[snap]
      BY <1>0, <2>2, <2>4 DEF Files
    <3> QED  BY <2>1, <3>1 DEF OneDatabase, WholeOn
  <2> QED  BY <2>1, <2>2, <2>3, <2>5, ListingBegin
<1>2. CASE CopyCreated
  <2>1. /\ create.at = "copying" /\ create.from = 1 /\ create.file \in Files
        /\ UNCHANGED <<data, conn, deleting, tick, snap, made>>
    BY <1>2 DEF CopyCreated, workVars, Safe, HandShape, OneDatabase
  <2>2. CASE create' = NoCreate /\ UNCHANGED disk
    <3>1. create'.at = "idle" /\ create'.stale = {}
      BY <2>2 DEF NoCreate
    <3>2. OneDatabase'
      BY <2>1, <2>2, <3>1 DEF OneDatabase, WholeOn
    <3>3. \A f \in Files : (InWork(f)' => InWork(f)) /\ (Doomed(f)' => Doomed(f))
      BY <2>1, <3>1 DEF InWork, Doomed
    <3> QED  BY <2>1, <2>2, <3>1, <3>2, <3>3, ListingFrame
  <2>3. CASE disk' = [disk EXCEPT ![create.file] = data[1]] /\ create' = [create EXCEPT !.at = "copied"]
    <3>1. create'.at = "copied" /\ create'.file = create.file /\ create'.stale = create.stale
      BY <1>0, <2>3 DEF HandFiles
    <3>2. disk'[create.file] = data[1] /\ \A f \in Files : disk'[f] = disk[f] \/ f = create.file
      BY <2>1, <2>3 DEF Safe, DataShape
    <3>3. data[1] # NULL /\ data[1].whole
      <4>1. data[1].whole
        BY DEF Safe, LiveIsWhole
      <4>2. data[1] \in Content
        BY <1>0, NumberedIsContent DEF Numbers
      <4> QED  BY <4>1, <4>2, AbsentAssumption
    <3>4. OneDatabase'
      BY <2>1, <3>1, <3>2, <3>3 DEF OneDatabase, WholeOn, Safe, HandShape
    <3>5. \A f \in Files : (InWork(f)' => InWork(f)) /\ (Doomed(f)' => Doomed(f))
      BY <2>1, <3>1 DEF InWork, Doomed
    <3>6. \A r \in data[1].rows : r.file # create.file
      BY <2>1 DEF RowsApart, InWork
    <3> QED  BY <2>1, <3>1, <3>2, <3>4, <3>5, <3>6, ListingFrame
  <2> QED  BY <1>2, <2>1, <2>2, <2>3 DEF CopyCreated
<1>3. CASE RecordCreated
  <2> DEFINE content == WithRow(data[1], "manual", create.file, "done")
  <2>1. /\ create.at = "copied" /\ create.file \in Files /\ data'[1] = content
        /\ create' = [create EXCEPT !.at = "pruning", !.stale = Surplus(content, "manual")]
        /\ UNCHANGED <<conn, disk, deleting, tick, snap, made>>
    BY <1>0, <1>3, FirstDatabase DEF RecordCreated, workVars, Safe, HandShape
  <2>2. create'.at = "pruning" /\ create'.stale = Surplus(content, "manual") /\ create'.file = create.file
    BY <1>0, <2>1 DEF HandFiles
  <2>3. content.rows = data[1].rows \cup {[id |-> data[1].seq + 1, kind |-> "manual", file |-> create.file, status |-> "done"]}
    BY FirstRows DEF WithRow, Contents
  <2>4. Surplus(content, "manual") \subseteq content.rows
    BY DEF Surplus
  <2> HIDE DEF content
  <2>5. OneDatabase' /\ WholeOn(create.file)
    BY <2>1, <2>2 DEF OneDatabase, WholeOn
  <2>0. PICK f \in Files : f = create.file
    BY <2>1
  <2>6. InWork(f) /\ ~ (InWork(f)')
    BY <2>0, <2>1, <2>2 DEF InWork, OneDatabase
  <2>7. /\ \A g \in Files : InWork(g)' => InWork(g)
        /\ \A g \in Files : Doomed(g)' => Doomed(g)
    BY <2>1, <2>2 DEF InWork, Doomed
  <2> QED  BY <2>0, <2>1, <2>2, <2>3, <2>4, <2>5, <2>6, <2>7, ListingRow
<1>4. CASE PruneCreated
  <2>1. create.at = "pruning" /\ UNCHANGED <<conn, disk, deleting, tick, snap, made>>
    BY <1>4 DEF PruneCreated, workVars
  <2>2. CASE create.stale = {}
    <3>1. data' = data /\ create'.at = "idle" /\ create'.stale = {}
      BY <1>4, <2>2 DEF PruneCreated, NoCreate
    <3>2. OneDatabase'
      BY <2>1, <3>1 DEF OneDatabase, WholeOn
    <3>3. \A f \in Files : (InWork(f)' => InWork(f)) /\ (Doomed(f)' => Doomed(f))
      BY <2>1, <3>1 DEF InWork, Doomed
    <3> QED  BY <2>1, <3>1, <3>2, <3>3, ListingFrame
  <2>3. CASE create.stale # {}
    <3>1. PICK r \in create.stale :
            /\ data'[1] = WithoutId(data[1], r.id)
            /\ create' = [create EXCEPT !.at = "unlinking", !.file = r.file, !.stale = @ \ {r}]
      BY <1>0, <1>4, <2>3, FirstDatabase DEF PruneCreated
    <3>2. r.file \in Files /\ create'.at = "unlinking" /\ create'.file = r.file /\ create'.stale \subseteq create.stale
      BY <1>0, <3>1 DEF HandFiles, Entries
    <3>3. data'[1].rows = {t \in data[1].rows : t.id # r.id}
      BY <3>1, FirstRows DEF WithoutId, Contents
    <3>4. OneDatabase'
      BY <2>1, <3>2 DEF OneDatabase, WholeOn
    <3>5. r.file <= made /\ ~InWork(r.file) /\ \A t \in data'[1].rows : t.file # r.file
      BY <3>3 DEF ListFits
    <3>6. /\ \A f \in Files : InWork(f)' => InWork(f)
          /\ \A f \in Files : Doomed(f)' => Doomed(f) \/ f = r.file
      BY <2>1, <3>2 DEF InWork, Doomed
    <3> QED  BY <2>1, <3>2, <3>3, <3>4, <3>5, <3>6, ListingFrame
  <2> QED  BY <2>2, <2>3
<1>5. CASE UnlinkCreated
  <2>1. /\ create.at = "unlinking" /\ create.file \in Files /\ Unlink(create.file)
        /\ create' = [create EXCEPT !.at = "pruning"] /\ UNCHANGED <<data, conn, deleting, tick, snap, made>>
    BY <1>5 DEF UnlinkCreated, workVars, Safe, HandShape
  <2>2. create'.at = "pruning" /\ create'.stale = create.stale
    BY <1>0, <2>1 DEF HandFiles
  <2>3. \A f \in Files : disk'[f] = disk[f] \/ f = create.file
    BY <2>1 DEF Unlink, Safe, DataShape
  <2>4. Doomed(create.file) /\ (\A r \in data[1].rows : r.file # create.file) /\ ~InWork(create.file)
    BY <2>1 DEF RowsApart, Doomed
  <2>5. OneDatabase'
    BY <2>1, <2>2, <2>3, <2>4 DEF OneDatabase, WholeOn, InWork, Safe, HandShape
  <2>6. \A f \in Files : (InWork(f)' => InWork(f)) /\ (Doomed(f)' => Doomed(f))
    BY <2>1, <2>2 DEF InWork, Doomed
  <2> QED  BY <2>1, <2>2, <2>3, <2>4, <2>5, <2>6, ListingFrame
<1> QED  BY <1>1, <1>2, <1>3, <1>4, <1>5 DEF CreateStep

\* Requests and restores that touch no row and no file.
LEMMA ListingStill ==
  ASSUME Safe, Listing, live = 1, UNCHANGED <<disk, made, tick, snap, create, deleting>>,
         data'[1].rows = data[1].rows, \A p \in Processes : conn'[p] \in {conn[p], 1, NULL}
  PROVE  Listing'
<1> USE DEF Listing
<1>1. OneDatabase'
  BY DEF OneDatabase, WholeOn
<1>2. \A f \in Files : (InWork(f)' => InWork(f)) /\ (Doomed(f)' => Doomed(f))
  BY DEF InWork, Doomed
<1> QED  BY <1>1, <1>2, ListingFrame

LEMMA PanelListing ==
  ASSUME Safe, Listing, live = 1, live' = 1,
         \/ WebOpens \/ DeleteBackup \/ UnlinkDeleted \/ BeginRestore \/ RestoreStep \/ SwapFails \/ WebCrash
  PROVE  Listing'
<1> USE DEF Listing
<1>1. CASE DeleteBackup
  <2>1. PICK r \in data[1].rows : data'[1] = WithoutId(data[1], r.id) /\ deleting' = r.file
    BY <1>1, FirstDatabase DEF DeleteBackup, Processes
  <2>2. deleting = NULL /\ UNCHANGED <<conn, disk, made, create, tick, snap>>
    BY <1>1 DEF DeleteBackup, workVars
  <2>3. data'[1].rows = {t \in data[1].rows : t.id # r.id}
    BY <2>1, FirstRows DEF WithoutId, Contents
  <2>4. r.file <= made /\ ~InWork(r.file) /\ \A t \in data'[1].rows : t.file # r.file
    BY <2>3 DEF RowsApart
  <2>5. /\ \A f \in Files : InWork(f)' => InWork(f)
        /\ \A f \in Files : Doomed(f)' => Doomed(f) \/ f = r.file
    BY <2>1, <2>2 DEF InWork, Doomed
  <2>6. OneDatabase'
    BY <2>2 DEF OneDatabase, WholeOn
  <2> QED  BY <2>2, <2>3, <2>4, <2>5, <2>6, ListingFrame
<1>2. CASE UnlinkDeleted
  <2>1. /\ deleting # NULL /\ deleting \in Files /\ deleting' = NULL /\ Unlink(deleting)
        /\ UNCHANGED <<data, conn, made, create, tick, snap>>
    BY <1>2 DEF UnlinkDeleted, workVars, Safe, HandShape
  <2>2. \A f \in Files : disk'[f] = disk[f] \/ f = deleting
    BY <2>1 DEF Unlink, Safe, DataShape
  <2>3. Doomed(deleting) /\ (\A r \in data[1].rows : r.file # deleting) /\ ~InWork(deleting)
    BY <2>1 DEF RowsApart, Doomed
  <2>4. OneDatabase'
    BY <2>1, <2>2, <2>3 DEF OneDatabase, WholeOn, InWork, Safe, HandShape
  <2>5. \A f \in Files : (InWork(f)' => InWork(f)) /\ (Doomed(f)' => Doomed(f))
    BY <2>1 DEF InWork, Doomed
  <2> QED  BY <2>1, <2>2, <2>3, <2>4, <2>5, ListingFrame
<1>3. CASE WebCrash
  <2>1. /\ create' = NoCreate /\ deleting' = NULL /\ conn' = [conn EXCEPT !["web"] = NULL]
        /\ UNCHANGED <<data, disk, made, tick, snap>>
    BY <1>3 DEF WebCrash, workVars
  <2>2. create'.at = "idle" /\ create'.stale = {} /\ \A p \in Processes : conn'[p] \in {conn[p], NULL}
    BY <2>1 DEF NoCreate, Safe, DataShape
  <2>3. OneDatabase'
    BY <2>1, <2>2 DEF OneDatabase, WholeOn
  <2>4. \A f \in Files : (InWork(f)' => InWork(f)) /\ (Doomed(f)' => Doomed(f))
    BY <2>1, <2>2 DEF InWork, Doomed
  <2> QED  BY <2>1, <2>2, <2>3, <2>4, ListingFrame
<1>4. CASE Swap
  BY <1>4 DEF Swap
<1>5. CASE WebOpens \/ BeginRestore \/ ReadBackup \/ CheckBackup \/ RemoveLog \/ CloseDb \/ WriteMarker \/ SwapFails
  <2>1. /\ UNCHANGED <<data, disk, made, create, deleting, tick, snap>>
        /\ UNCHANGED conn \/ conn' = [conn EXCEPT !["web"] = NULL] \/ conn' = [conn EXCEPT !["web"] = 1]
    BY <1>5 DEF WebOpens, Open, BeginRestore, ReadBackup, CheckBackup, RemoveLog, CloseDb, WriteMarker,
      SwapFails, workVars, panelVars
  <2>2. \A p \in Processes : conn'[p] \in {conn[p], 1, NULL}
    BY <2>1 DEF Safe, DataShape
  <2> QED  BY <2>1, <2>2, ListingStill
<1> QED  BY <1>1, <1>2, <1>3, <1>4, <1>5 DEF RestoreStep

LEMMA TickListing ==
  ASSUME Safe, Numbers, Listing, live = 1, TickStep \/ WorkerFails \/ WorkerStarts
  PROVE  Listing'
<1> USE DEF Listing
<1>0. made \in Int /\ 1 \in Inodes /\ "worker" \in Processes /\ data[1] \in Content
  BY BackupAssumption, NumberedIsContent DEF Safe, DataShape, Processes, Numbers
<1>1. CASE BeginTick \/ Reopen \/ SkipStage \/ EndTick \/ ReopenThrows \/ WorkerStarts \/ WorkerCrash
  <2>1. /\ UNCHANGED <<data, disk, made, create, deleting>> /\ tick' \notin {"copying", "copied"}
        /\ UNCHANGED conn \/ conn' = [conn EXCEPT !["worker"] = NULL] \/ conn' = [conn EXCEPT !["worker"] = 1]
    BY <1>1 DEF BeginTick, Reopen, Heal, Open, SkipStage, EndTick, ReopenThrows, WorkerStarts, WorkerCrash, panelVars
  <2>2. \A p \in Processes : conn'[p] \in {conn[p], 1, NULL}
    BY <2>1 DEF Safe, DataShape
  <2>3. OneDatabase'
    BY <2>1, <2>2 DEF OneDatabase, WholeOn
  <2>4. \A f \in Files : (InWork(f)' => InWork(f)) /\ (Doomed(f)' => Doomed(f))
    BY <2>1 DEF InWork, Doomed
  <2> QED  BY <2>1, <2>3, <2>4, ListingFrame
<1>2. CASE BeginSnapshot
  <2>1. /\ tick = "stages" /\ tick' = "copying" /\ snap' = made + 1 /\ made' = made + 1 /\ made + 1 \in Files
        /\ disk' = [disk EXCEPT ![made + 1] = CutShort] /\ UNCHANGED <<data, conn, create, deleting>>
    BY <1>0, <1>2, BackupAssumption DEF BeginSnapshot, panelVars, Safe, DataShape, Files
  <2>2. \A g \in Files : disk'[g] = disk[g] \/ g = made + 1
    BY <2>1 DEF Safe, DataShape
  <2>3. /\ \A g \in Files : InWork(g)' => InWork(g) \/ g = made + 1
        /\ \A g \in Files : Doomed(g)' => Doomed(g)
    BY <2>1 DEF InWork, Doomed
  <2>4. create.at \in {"copying", "copied"} => create.file \in Files /\ create.file <= made
    BY DEF RowsApart, InWork, Safe, HandShape
  <2>5. OneDatabase'
    <3>1. create.at \in {"copying", "copied"} => create.file # made + 1 /\ disk'[create.file] = disk[create.file]
      BY <1>0, <2>2, <2>4 DEF Files
    <3> QED  BY <2>1, <3>1 DEF OneDatabase, WholeOn
  <2> QED  BY <2>1, <2>2, <2>3, <2>5, ListingBegin
<1>3. ASSUME tick \in {"copying", "copied", "marking", "pruning"}
      PROVE  Connected("worker") /\ conn["worker"] = 1 /\ Of("worker") = data[1] /\ \A new : Put("worker", new) => data'[1] = new
  BY <1>0, <1>3, FirstDatabase DEF Safe, HandShape, Connected
<1>4. CASE CopySnapshot
  <2>1. /\ tick = "copying" /\ tick' = "copied" /\ snap \in Files /\ disk' = [disk EXCEPT ![snap] = data[1]]
        /\ UNCHANGED <<data, conn, made, create, deleting, snap>>
    BY <1>3, <1>4 DEF CopySnapshot, panelVars, Safe, HandShape
  <2>2. disk'[snap] = data[1] /\ \A f \in Files : disk'[f] = disk[f] \/ f = snap
    BY <2>1 DEF Safe, DataShape
  <2>3. data[1] # NULL /\ data[1].whole
    BY <1>0, AbsentAssumption DEF Safe, LiveIsWhole
  <2>4. OneDatabase'
    BY <2>1, <2>2, <2>3 DEF OneDatabase, WholeOn, Safe, HandShape
  <2>5. \A f \in Files : (InWork(f)' => InWork(f)) /\ (Doomed(f)' => Doomed(f))
    BY <2>1 DEF InWork, Doomed
  <2>6. \A r \in data[1].rows : r.file # snap
    BY <2>1 DEF RowsApart, InWork
  <2> QED  BY <2>1, <2>2, <2>4, <2>5, <2>6, ListingFrame
<1>5. CASE CopyFails \/ RecordSnapshot
  <2>1. /\ tick \in {"copying", "copied"} /\ tick' \in {"marking", "pruning"} /\ snap \in Files
        /\ UNCHANGED <<conn, made, create, deleting>>
    BY <1>5 DEF CopyFails, RecordSnapshot, panelVars, Safe, HandShape
  <2>2. PICK s \in {"done", "failed"} :
          /\ data'[1] \in {WithRow(data[1], "auto", snap, s), AfterFailure(WithRow(data[1], "auto", snap, s))}
          /\ s = "done" => tick = "copied" /\ UNCHANGED disk
          /\ Unlink(snap) \/ UNCHANGED disk
    BY <1>3, <1>5 DEF CopyFails, RecordSnapshot
  <2>3. data'[1].rows = data[1].rows \cup {[id |-> data[1].seq + 1, kind |-> "auto", file |-> snap, status |-> s]}
    BY <2>2, FirstRows DEF WithRow, AfterFailure, Contents
  <2>4. \A f \in Files : disk'[f] = disk[f] \/ (f = snap /\ s = "failed")
    BY <2>2 DEF Unlink, Safe, DataShape
  <2>5. OneDatabase' /\ (s = "done" => WholeOn(snap))
    BY <2>1, <2>2, <2>4 DEF OneDatabase, WholeOn, Safe, HandShape
  <2>0. PICK f \in Files : f = snap
    BY <2>1
  <2>6. InWork(f) /\ ~ (InWork(f)')
    BY <2>0, <2>1 DEF InWork, OneDatabase
  <2>7. /\ \A g \in Files : InWork(g)' => InWork(g)
        /\ \A g \in Files : Doomed(g)' => Doomed(g)
    BY <2>1 DEF InWork, Doomed
  <2> QED  BY <2>0, <2>1, <2>3, <2>4, <2>5, <2>6, <2>7, ListingRow
<1>6. CASE RecordFails
  <2>1. /\ tick = "copied" /\ tick' = "pruning" /\ snap \in Files /\ Unlink(snap)
        /\ data'[1] = AfterFailure(data[1]) /\ UNCHANGED <<conn, made, create, deleting>>
    BY <1>3, <1>6 DEF RecordFails, panelVars, Safe, HandShape
  <2>2. data'[1].rows = data[1].rows
    BY <2>1, FirstRows DEF AfterFailure, Contents
  <2>3. \A f \in Files : disk'[f] = disk[f] \/ f = snap
    BY <2>1 DEF Unlink, Safe, DataShape
  <2>4. \A r \in data[1].rows : r.file # snap
    BY <2>1 DEF RowsApart, InWork
  <2>5. OneDatabase'
    BY <2>1, <2>3 DEF OneDatabase, WholeOn, Safe, HandShape
  <2>6. \A f \in Files : (InWork(f)' => InWork(f)) /\ (Doomed(f)' => Doomed(f))
    BY <2>1 DEF InWork, Doomed
  <2> QED  BY <2>1, <2>2, <2>3, <2>4, <2>5, <2>6, ListingFrame
<1>7. CASE MarkSnapshot
  <2>1. tick = "marking" /\ tick' = "pruning" /\ UNCHANGED <<disk, conn, made, create, deleting, snap>>
    BY <1>7 DEF MarkSnapshot, panelVars
  <2>2. data'[1].rows = data[1].rows
    BY <1>3, <1>7, <2>1, FirstRows DEF MarkSnapshot, Contents
  <2>3. OneDatabase'
    BY <2>1 DEF OneDatabase, WholeOn
  <2>4. \A f \in Files : (InWork(f)' => InWork(f)) /\ (Doomed(f)' => Doomed(f))
    BY <2>1 DEF InWork, Doomed
  <2> QED  BY <2>1, <2>2, <2>3, <2>4, ListingFrame
<1>8. CASE PruneSnapshot \/ CrashInPrune
  <2>1. /\ tick = "pruning" /\ tick' \in {"pruning", "dead"} /\ UNCHANGED <<made, create, deleting, snap>>
        /\ UNCHANGED conn \/ conn' = [conn EXCEPT !["worker"] = NULL]
    BY <1>8 DEF PruneSnapshot, CrashInPrune, panelVars, workVars
  <2>2. PICK r \in Prunable : data'[1] = WithoutId(data[1], r.id) /\ (Unlink(r.file) \/ UNCHANGED disk)
    BY <1>3, <1>8, <2>1 DEF PruneSnapshot, CrashInPrune, Halfway
  <2>3. r \in data[1].rows
    BY <1>3, <2>1 DEF Prunable, Surplus
  <2>4. data'[1].rows = {t \in data[1].rows : t.id # r.id}
    BY <2>2, FirstRows DEF WithoutId, Contents
  <2>5. \A f \in Files : disk'[f] = disk[f] \/ f = r.file
    BY <2>2 DEF Unlink, Safe, DataShape
  <2>6. ~InWork(r.file) /\ \A t \in data'[1].rows : t.file # r.file
    BY <2>3, <2>4 DEF RowsApart
  <2>7. \A p \in Processes : conn'[p] \in {conn[p], NULL}
    BY <2>1 DEF Safe, DataShape
  <2>8. OneDatabase'
    BY <2>1, <2>5, <2>6, <2>7 DEF OneDatabase, WholeOn, InWork, Safe, HandShape
  <2>9. \A f \in Files : (InWork(f)' => InWork(f)) /\ (Doomed(f)' => Doomed(f))
    BY <2>1 DEF InWork, Doomed
  <2> QED  BY <2>1, <2>4, <2>5, <2>6, <2>8, <2>9, ListingFrame
<1> QED  BY <1>1, <1>2, <1>4, <1>5, <1>6, <1>7, <1>8 DEF TickStep, WorkerFails

LEMMA ListingNext == Safe /\ Numbers /\ Listing /\ [Next]_vars => Listing'
<1> SUFFICES ASSUME Safe, Numbers, Listing, [Next]_vars, live' = 1 PROVE Listing'
  BY DEF Listing
<1>1. live = 1
  <2>1. live' = live \/ Swap
    BY DEF Next, WebOpens, CreateStep, BeginCreate, CopyCreated, RecordCreated, PruneCreated,
      UnlinkCreated, DeleteBackup, UnlinkDeleted, BeginRestore, RestoreStep, ReadBackup,
      CheckBackup, RemoveLog, CloseDb, WriteMarker, SwapFails, WebCrash, TickStep,
      BeginTick, Reopen, SkipStage, BeginSnapshot, CopySnapshot, RecordSnapshot,
      MarkSnapshot, PruneSnapshot, EndTick, WorkerFails, ReopenThrows, CopyFails, RecordFails,
      WorkerCrash, CrashInPrune, WorkerStarts, IntervalPasses, HourPasses, Path, vars
  <2> QED  BY <2>1, BackupAssumption DEF Swap, Safe, DataShape, Inodes
<1>2. CASE UNCHANGED vars
  BY <1>1, <1>2, ListingStill DEF vars, panelVars, workVars
<1>3. CASE IntervalPasses \/ HourPasses
  <2>1. /\ UNCHANGED <<disk, made, tick, snap, create, deleting, conn>>
        /\ \A i \in Inodes : \/ data'[i] = [data[i] EXCEPT !.due = TRUE]
                             \/ data'[i] = [data[i] EXCEPT !.cooling = FALSE]
    BY <1>3 DEF IntervalPasses, HourPasses, panelVars, workVars
  <2>2. data'[1].rows = data[1].rows
    <3>1. 1 \in Inodes /\ data[1] \in Contents
      BY <1>1, FirstRows DEF Safe, DataShape
    <3> QED  BY <2>1, <3>1 DEF Contents
  <2> QED  BY <1>1, <2>1, <2>2, ListingStill
<1> QED  BY <1>1, <1>2, <1>3, CreateListing, PanelListing, TickListing DEF Next

\* What is on the disk (settings/actions.ts:419-463, backup.ts:99-148,
\* 204-213): types are kept, the path leads to a whole database, and until a
\* first restore every snapshot the panel lists is there and whole.  Two
\* processes make, prune and delete snapshots and either may die between a
\* row and its file; it holds because a row goes before its file, a file has
\* one row at most, and a file gets its row once it is whole.
THEOREM DiskStaysSound == Spec => []DiskInvariant
<1> DEFINE Inv == Safe /\ Numbers /\ Frame /\ Listing
<1>1. Init => Inv
  BY SafeInit, NumbersInit, FrameInit, ListingInit
<1>2. Inv /\ [Next]_vars => Inv'
  BY SafeNext, NumbersNext, FrameNext, ListingNext
<1>3. Inv => DiskInvariant
  <2> SUFFICES ASSUME Inv PROVE DiskInvariant
    OBVIOUS
  <2>1. ListedExists
    BY DEF Listing, ListedExists
  <2> QED  BY <2>1, TypesHold DEF DiskInvariant, Safe
<1> QED  BY <1>1, <1>2, <1>3, PTL DEF Spec

=============================================================================
