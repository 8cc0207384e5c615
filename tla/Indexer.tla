------------------------------- MODULE Indexer -------------------------------
(***************************************************************************)
(* The indexer's background worker (videostore/indexer/indexer.go): once a *)
(* second it inserts the segments it does not know into a SQLite table,    *)
(* drops the rows of segments that are gone, marks the oldest rows for     *)
(* deletion when the storage is over its limit, and deletes what is        *)
(* marked.  The worker is one goroutine; pc is the point it has reached,   *)
(* and one action goes from one access of the directory or the database to *)
(* the next, because the segmenter, the fallback deleter and a crash can   *)
(* all come between two of them.                                           *)
(***************************************************************************)
EXTENDS StorageDir

CONSTANT Grace   \* age below which an unreadable segment is left alone

ASSUME GraceAssumption == Grace \in Nat \ {0}

VARIABLES
    db,        \* ix.db: "closed" (nil), "open", "stale" (its file was removed)
    rows,      \* the row of each file: "none", "live", or "marked" (deleted_at)
    rowSize,   \* size_bytes of the row
    pc,        \* where the worker is; "down" when it does not run
    indexed,   \* the result of getIndexedFiles
    todo,      \* what the current loop has left to visit
    listed,    \* the sizes getDiskFilesSorted saw
    file       \* the file the current iteration works on

ixVars == <<db, rows, rowSize, pc, indexed, todo, listed, file>>
tableVars == <<rows, rowSize>>

NoFile == 0

IndexerPCs == {"down", "tick", "list", "probe", "discard", "insert", "missing",
               "cleanupDB", "mark", "cleanupFiles", "remove", "deleteRecord"}

IndexerTypeOK ==
    /\ db \in {"closed", "open", "stale"}
    /\ rows \in [File -> {"none", "live", "marked"}]
    /\ rowSize \in [File -> 0..MaxSegment]
    /\ pc \in IndexerPCs
    /\ indexed \subseteq File
    /\ todo \subseteq File
    /\ listed \in [File -> 0..MaxSegment]
    /\ file \in File \cup {NoFile}
    /\ pc \in {"discard", "insert", "deleteRecord"} => file # NoFile

EmptyTable == [f \in File |-> "none"]
NoSizes == [f \in File |-> 0]

IndexerInit ==
    /\ db = "open"
    /\ rows = EmptyTable
    /\ rowSize = NoSizes
    /\ pc = "tick"
    /\ indexed = {}
    /\ todo = {}
    /\ listed = NoSizes
    /\ file = NoFile

Live == {f \in File : rows[f] = "live"}
Marked == {f \in File : rows[f] = "marked"}

-----------------------------------------------------------------------------
(***************************************************************************)
(* The table when its connection is dropped: what was written through a    *)
(* connection whose file had been removed goes with it.                    *)
(***************************************************************************)
CloseDB ==
    /\ db' = "closed"
    /\ rows' = IF db = "stale" THEN EmptyTable ELSE rows
    /\ rowSize' = IF db = "stale" THEN NoSizes ELSE rowSize

(***************************************************************************)
(* The tick is over: its locals go out of scope.                           *)
(***************************************************************************)
EndTickInto(point) ==
    /\ pc' = point
    /\ indexed' = {}
    /\ todo' = {}
    /\ listed' = NoSizes
    /\ file' = NoFile

EndTick == EndTickInto("tick")

(***************************************************************************)
(* Mutant: a read-only error is logged like any other, db stays.           *)
(***************************************************************************)
ReadOnlyError_Logged ==
    /\ db = "stale"
    /\ EndTick
    /\ UNCHANGED <<db, rows, rowSize, faults>>

(***************************************************************************)
(* A statement that fails outside the loop over new files ends the tick.   *)
(* SQLite refuses to write to a database file that was removed; then run   *)
(* also closes the connection, for setupDB to make a new one.              *)
(***************************************************************************)
ReadOnlyError ==
    /\ db = "stale"
    /\ CloseDB
    /\ EndTick
    /\ UNCHANGED faults

WriteError ==
    /\ db = "open"
    /\ Fault("dbwrite")
    /\ EndTick
    /\ UNCHANGED <<db, rows, rowSize>>

FailedWrite ==
    /\ ReadOnlyError \/ WriteError
    /\ UNCHANGED <<now, disk, size, readable, last, writing, up>>

(***************************************************************************)
(* Mutant: os.IsNotExist is not told apart from the other errors.          *)
(***************************************************************************)
RemoveFails_IfMissing(f) == f \notin disk /\ UNCHANGED faults

(***************************************************************************)
(* os.Remove failing for another reason than a missing file.               *)
(***************************************************************************)
RemoveFails(f) ==
    /\ f \in disk
    /\ Fault("remove")

Goto(point) ==
    /\ pc' = point
    /\ UNCHANGED <<db, rows, rowSize>>

-----------------------------------------------------------------------------
(***************************************************************************)
(* A tick of run: setupDB, then getIndexedFiles of processUnindexedFiles.  *)
(***************************************************************************)
Tick ==
    /\ pc = "tick"
    /\ db' = IF db = "closed" THEN "open" ELSE db
    /\ indexed' = Live
    /\ pc' = "list"
    /\ UNCHANGED <<dirVars, tableVars, todo, listed, file>>

(***************************************************************************)
(* getDiskFilesSorted: the directory and the size of each file in it.  The *)
(* loop skips the files indexed holds, so they are left out here.          *)
(***************************************************************************)
ListDir ==
    /\ pc = "list"
    /\ todo' = disk \ indexed
    /\ listed' = [f \in File |-> IF f \in disk \ indexed THEN size[f] ELSE 0]
    /\ Goto("probe")
    /\ UNCHANGED <<dirVars, indexed, file>>

TooYoung_Never(f) == FALSE   \* mutant: no grace period

TooYoung(f) == now - f < Grace

(***************************************************************************)
(* processFileForIndex, as far as GetVideoInfo, for the newest file left.  *)
(* A file that cannot be opened is left alone while it is young.           *)
(***************************************************************************)
Probe(f) ==
    /\ pc = "probe"
    /\ Newest(f, todo)
    /\ todo' = todo \ {f}
    /\ \/ /\ f \in readable
          /\ UNCHANGED faults
          /\ file' = f
          /\ Goto("insert")
       \/ /\ \/ f \notin readable /\ UNCHANGED faults
             \/ f \in readable /\ Fault("probe")
          /\ IF TooYoung(f)
             THEN UNCHANGED file /\ Goto("probe")
             ELSE file' = f /\ Goto("discard")
    /\ UNCHANGED <<now, disk, size, readable, last, writing, up, indexed, listed>>

(***************************************************************************)
(* The os.Remove of an old unreadable file; its error is only logged.      *)
(***************************************************************************)
Discard ==
    /\ pc = "discard"
    /\ \/ Unlink(file) /\ UNCHANGED faults
       \/ RemoveFails(file) /\ UNCHANGED <<disk, size, readable>>
    /\ file' = NoFile
    /\ Goto("probe")
    /\ UNCHANGED <<now, last, writing, up, indexed, todo, listed>>

Conflict_LiveOnly(f) == rows[f] = "live"   \* mutant: ON CONFLICT DO UPDATE

Conflict(f) == rows[f] # "none"

(***************************************************************************)
(* The INSERT of processFileForIndex, ON CONFLICT DO NOTHING, with the     *)
(* size of the listing.  Any error but a read-only one is only logged.     *)
(***************************************************************************)
Insert ==
    /\ pc = "insert"
    /\ \/ /\ Conflict(file)
          /\ UNCHANGED <<rows, rowSize, faults>>
       \/ /\ ~Conflict(file) /\ db = "open"
          /\ rows' = [rows EXCEPT ![file] = "live"]
          /\ rowSize' = [rowSize EXCEPT ![file] = listed[file]]
          /\ UNCHANGED faults
       \/ /\ db = "open" /\ Fault("insert")
          /\ UNCHANGED tableVars
    /\ pc' = "probe"
    /\ file' = NoFile
    /\ UNCHANGED <<now, disk, size, readable, last, writing, up, db, indexed, todo, listed>>

InsertReadOnly ==
    /\ pc = "insert"
    /\ ~Conflict(file)
    /\ ReadOnlyError
    /\ UNCHANGED <<now, disk, size, readable, last, writing, up>>

IndexingDone ==
    /\ pc = "probe"
    /\ todo = {}
    /\ Goto("missing")
    /\ todo' = indexed
    /\ listed' = NoSizes
    /\ UNCHANGED <<dirVars, indexed, file>>

(***************************************************************************)
(* handleMissingDiskFiles, for one of the files of the snapshot: a row     *)
(* whose file is gone is deleted.                                          *)
(***************************************************************************)
DeleteRow(f) ==
    /\ rows' = [rows EXCEPT ![f] = "none"]
    /\ rowSize' = [rowSize EXCEPT ![f] = 0]

Missing(f) ==
    /\ pc = "missing"
    /\ f \in todo
    /\ IF f \in disk THEN UNCHANGED tableVars
       ELSE db = "open" /\ DeleteRow(f)
    /\ todo' = todo \ {f}
    /\ UNCHANGED <<dirVars, db, pc, indexed, listed, file>>

MissingFails(f) ==
    /\ pc = "missing"
    /\ f \in todo
    /\ f \notin disk
    /\ FailedWrite

MissingDone ==
    /\ pc = "missing"
    /\ todo = {}
    /\ Goto("cleanupDB")
    /\ indexed' = {}
    /\ UNCHANGED <<dirVars, todo, listed, file>>

-----------------------------------------------------------------------------
(***************************************************************************)
(* Mutants: retention from the newest segment on; nothing marked when the  *)
(* storage is exactly at its limit.                                        *)
(***************************************************************************)
FilesToMark_Newest(excess) ==
    {f \in Live : LET newer == {g \in Live : g > f}
                  IN  newer = {} \/ Bytes(newer, rowSize) < excess}

FilesToMark_NoneAtLimit(excess) ==
    {f \in Live : Bytes({g \in Live : g < f}, rowSize) < excess}

(***************************************************************************)
(* cleanupDB takes live rows from the oldest on until their sizes reach    *)
(* the excess, and the oldest one in any case.                             *)
(***************************************************************************)
FilesToMark(excess) ==
    {f \in Live : LET older == {g \in Live : g < f}
                  IN  older = {} \/ Bytes(older, rowSize) < excess}

CleanupDB ==
    /\ pc = "cleanupDB"
    /\ LET excess == GetDirectorySize - MaxStorage
       IN  IF excess < 0 THEN /\ Goto("cleanupFiles")
                              /\ UNCHANGED todo
           ELSE /\ Goto("mark")
                /\ todo' = FilesToMark(excess)
    /\ UNCHANGED <<dirVars, indexed, listed, file>>

(***************************************************************************)
(* markFilesAsDeleted: one UPDATE per file, oldest first, no transaction.  *)
(***************************************************************************)
Mark(f) ==
    /\ pc = "mark"
    /\ Oldest(f, todo)
    /\ db = "open"
    /\ rows' = [rows EXCEPT ![f] = "marked"]
    /\ todo' = todo \ {f}
    /\ UNCHANGED <<dirVars, db, rowSize, pc, indexed, listed, file>>

MarkFails ==
    /\ pc = "mark"
    /\ todo # {}
    /\ FailedWrite

MarkDone ==
    /\ pc = "mark"
    /\ todo = {}
    /\ Goto("cleanupFiles")
    /\ UNCHANGED <<dirVars, indexed, todo, listed, file>>

SoftDeleted_AnyRow == Live \cup Marked   \* mutant: the WHERE clause is lost

SoftDeleted == Marked

(***************************************************************************)
(* cleanupFiles: every marked row there is, this tick's and older ones.    *)
(***************************************************************************)
CleanupFiles ==
    /\ pc = "cleanupFiles"
    /\ Goto("remove")
    /\ todo' = SoftDeleted
    /\ UNCHANGED <<dirVars, indexed, listed, file>>

(***************************************************************************)
(* One file of cleanupFiles: unlink it, a file that is already gone being  *)
(* no error, then delete its row.  Any other error ends the tick.          *)
(***************************************************************************)
Remove(f) ==
    /\ pc = "remove"
    /\ f \in todo
    /\ \/ /\ Unlink(f)
          /\ Goto("deleteRecord")
          /\ file' = f
          /\ todo' = todo \ {f}
          /\ UNCHANGED <<faults, indexed, listed>>
       \/ /\ RemoveFails(f)
          /\ EndTick
          /\ UNCHANGED <<db, tableVars, disk, size, readable>>
    /\ UNCHANGED <<now, last, writing, up>>

DeleteRecord ==
    /\ pc = "deleteRecord"
    /\ db = "open"
    /\ DeleteRow(file)
    /\ pc' = "remove"
    /\ file' = NoFile
    /\ UNCHANGED <<dirVars, db, indexed, todo, listed>>

DeleteRecordFails ==
    /\ pc = "deleteRecord"
    /\ FailedWrite

(***************************************************************************)
(* A query, the listing of the directory or the walk that measures it (a   *)
(* file may vanish under it) fails, and the tick ends there.               *)
(***************************************************************************)
ReadFails ==
    /\ pc \in {"list", "cleanupDB", "cleanupFiles"}
    /\ Fault("read")
    /\ EndTick
    /\ UNCHANGED <<now, disk, size, readable, last, writing, up, db, rows, rowSize>>

RefreshDone ==
    /\ pc = "remove"
    /\ todo = {}
    /\ EndTick
    /\ UNCHANGED <<dirVars, db, tableVars>>

IndexerNext ==
    \/ Tick \/ ListDir \/ Discard \/ Insert \/ InsertReadOnly \/ IndexingDone
    \/ \E f \in File : Probe(f) \/ Missing(f) \/ MissingFails(f) \/ Mark(f) \/ Remove(f)
    \/ MissingDone \/ CleanupDB \/ MarkFails \/ MarkDone
    \/ CleanupFiles \/ DeleteRecord \/ DeleteRecordFails \/ ReadFails \/ RefreshDone

-----------------------------------------------------------------------------
(***************************************************************************)
(* Close, or the death of the process: the worker stops where it is (every *)
(* loop and statement checks the context) and the connection is closed.    *)
(***************************************************************************)
IndexerStops ==
    /\ CloseDB
    /\ EndTickInto("down")

(***************************************************************************)
(* NewIndexer and Start: the database is opened before the worker runs.    *)
(***************************************************************************)
IndexerStart ==
    /\ pc = "down"
    /\ db' = "open"
    /\ pc' = "tick"
    /\ UNCHANGED <<tableVars, indexed, todo, listed, file>>

(***************************************************************************)
(* The database file is removed by hand.  An open connection keeps the     *)
(* unlinked file and still reads the table through it.                     *)
(***************************************************************************)
DeleteDBFile ==
    /\ Fault("dbdelete")
    /\ IF db = "open" THEN /\ db' = "stale"
                           /\ UNCHANGED tableVars
       ELSE /\ db = "closed"
            /\ rows' = EmptyTable
            /\ rowSize' = NoSizes
            /\ UNCHANGED db
    /\ UNCHANGED <<now, disk, size, readable, last, writing, up, pc, indexed, todo, listed, file>>
=============================================================================
