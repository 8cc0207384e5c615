--------------------------- MODULE RetentionProofs ---------------------------
(***************************************************************************)
(* Retention goes by age, and only what is condemned or corrupt goes.      *)
(* Both rest on the order of names: a segment is named by the time it was  *)
(* opened, so none that is still to become readable is older than a file   *)
(* the indexer knows of (Recorded).                                        *)
(***************************************************************************)
EXTENDS CatalogueProofs

(***************************************************************************)
(* Fewer files have fewer bytes.                                           *)
(***************************************************************************)
LEMMA BytesMonotone ==
    ASSUME NEW S \in SUBSET File, NEW T \in SUBSET S, NEW sz
    PROVE  Bytes(T, sz) <= Bytes(S, sz)
<1> DEFINE Counted(U) == {p \in U \X (1..MaxSegment) : p[2] <= sz[p[1]]}
<1>1. IsFiniteSet(S \X (1..MaxSegment))
  <2>1. IsFiniteSet(File) /\ IsFiniteSet(1..MaxSegment)
    BY FS_Interval, TimeAssumption, SizeAssumption DEF File
  <2>2. IsFiniteSet(S)
    BY <2>1, FS_Subset
  <2>. QED
    BY <2>1, <2>2, FS_Product
<1>2. IsFiniteSet(Counted(S))
  BY <1>1, FS_Subset
<1>3. Counted(T) \subseteq Counted(S)
  OBVIOUS
<1>4. Cardinality(Counted(T)) <= Cardinality(Counted(S))
  BY <1>2, <1>3, FS_Subset
<1>. QED
  BY <1>4 DEF Bytes

(***************************************************************************)
(* What cleanupDB marks is closed downwards: with a row, every older one.  *)
(***************************************************************************)
LEMMA MarksFromTheOldest ==
    ASSUME NEW excess \in Int, NEW f \in FilesToMark(excess), NEW g \in Live, g < f
    PROVE  g \in FilesToMark(excess)
<1> DEFINE Older(h) == {i \in Live : i < h}
<1>1. /\ f \in File /\ g \in File
      /\ Older(f) \in SUBSET File /\ Older(g) \in SUBSET Older(f)
      /\ g \in Older(f)
  BY TimeAssumption DEF FilesToMark, Live, File
<1>2. Bytes(Older(f), rowSize) < excess
  BY <1>1 DEF FilesToMark
<1>3. Bytes(Older(g), rowSize) <= Bytes(Older(f), rowSize)
  BY <1>1, BytesMonotone
<1>4. Bytes(Older(g), rowSize) \in Nat /\ Bytes(Older(f), rowSize) \in Nat
  BY <1>1, BytesType
<1>5. Bytes(Older(g), rowSize) < excess
  BY <1>2, <1>3, <1>4
<1>. QED
  BY <1>5 DEF FilesToMark

-----------------------------------------------------------------------------
(***************************************************************************)
(* No name is ahead of the segment opened last: initially.                 *)
(***************************************************************************)
LEMMA RecordedInit == Init => Recorded
BY DEF Init, DirInit, IndexerInit, Recorded, Live, Marked, EmptyTable, NoFile

(***************************************************************************)
(* The indexer names no file it did not find on the disk, and unlinking    *)
(* one, or losing rows, takes names away.                                  *)
(***************************************************************************)
LEMMA RecordedAfter ==
    ASSUME TypeOK, Recorded,
           disk' \subseteq disk, last' = last,
           todo' \subseteq disk \cup todo \cup indexed \cup Live \cup Marked,
           indexed' \subseteq indexed \cup Live,
           Live' \cup Marked' \subseteq Live \cup Marked \cup {file},
           file' \in {NoFile, file} \cup todo
    PROVE  Recorded'
<1>1. NoFile <= last
  BY DEF TypeOK, DirTypeOK, NoFile
<1>. QED
  BY <1>1 DEF Recorded

(***************************************************************************)
(* The segmenter opens a segment with a new name, ahead of all.            *)
(***************************************************************************)
LEMMA RecordedDir ==
    ASSUME TypeOK, Recorded, DirNext, UNCHANGED <<ixVars, fbVars>>
    PROVE  Recorded'
<1>1. last <= last' /\ last' \in Nat /\ last \in Nat
  BY TimeAssumption
     DEF DirNext, OpenSegment, WritePacket, FinishSegment, Advance, TypeOK, DirTypeOK
<1>2. disk' \subseteq disk \cup {last'}
  BY DEF DirNext, OpenSegment, WritePacket, FinishSegment, Advance
<1>3. \A f \in disk \cup todo \cup indexed \cup Live \cup Marked \cup {file} : f \in Int
  BY DEF TypeOK, DirTypeOK, IndexerTypeOK, File, Live, Marked, NoFile
<1>4. /\ todo' = todo /\ indexed' = indexed /\ file' = file
      /\ Live' = Live /\ Marked' = Marked
  BY DEF ixVars, Live, Marked
<1>. QED
  BY <1>1, <1>2, <1>3, <1>4 DEF Recorded

(***************************************************************************)
(* A failed statement forgets the tick, and perhaps the table.             *)
(***************************************************************************)
LEMMA RecordedStops ==
    ASSUME TypeOK, Recorded,
           disk' \subseteq disk, last' = last,
           rows' = rows \/ rows' = EmptyTable,
           \E point : EndTickInto(point)
    PROVE  Recorded'
<1>1. Live' \cup Marked' \subseteq Live \cup Marked
  BY DEF Live, Marked, EmptyTable
<1>2. todo' = {} /\ indexed' = {} /\ file' = NoFile
  BY DEF EndTickInto
<1>. QED
  BY <1>1, <1>2, RecordedAfter

(***************************************************************************)
(* Every action of the indexer.                                            *)
(***************************************************************************)
LEMMA RecordedIndexer ==
    ASSUME TypeOK, Recorded, IndexerNext
    PROVE  Recorded'
<1> USE DEF Goto, tableVars, dirVars, Live, Marked
<1>1. CASE Tick
  BY <1>1, RecordedAfter DEF Tick
<1>2. CASE ListDir
  BY <1>2, RecordedAfter DEF ListDir
<1>3. CASE Discard
  BY <1>3, RecordedAfter DEF Discard, Unlink
<1>4. CASE Insert
  <2>1. Live' \cup Marked' \subseteq Live \cup Marked \cup {file}
    BY <1>4 DEF Insert, TypeOK, IndexerTypeOK
  <2>. QED
    BY <1>4, <2>1, RecordedAfter DEF Insert
<1>5. CASE FailedWrite
  BY <1>5, RecordedStops DEF FailedWrite, ReadOnlyError, WriteError, CloseDB, EndTick
<1>6. CASE InsertReadOnly
  BY <1>5, <1>6 DEF InsertReadOnly, FailedWrite
<1>7. CASE IndexingDone
  BY <1>7, RecordedAfter DEF IndexingDone
<1>8. ASSUME NEW f \in File, Probe(f)
      PROVE  Recorded'
  BY <1>8, RecordedAfter DEF Probe, Newest
<1>9. ASSUME NEW f \in File, Missing(f)
      PROVE  Recorded'
  <2>1. Live' \cup Marked' \subseteq Live \cup Marked
    BY <1>9 DEF Missing, DeleteRow, TypeOK, IndexerTypeOK
  <2>. QED
    BY <1>9, <2>1, RecordedAfter DEF Missing
<1>10. CASE MissingDone \/ MarkDone
  BY <1>10, RecordedAfter DEF MissingDone, MarkDone
<1>11. CASE CleanupDB
  BY <1>11, RecordedAfter DEF CleanupDB, FilesToMark
<1>12. ASSUME NEW f \in File, Mark(f)
       PROVE  Recorded'
  <2>1. f \in todo
    BY <1>12 DEF Mark, Oldest
  <2>2. Live' \cup Marked' \subseteq Live \cup Marked \cup {f}
    BY <1>12 DEF Mark, TypeOK, IndexerTypeOK
  <2>. QED
    BY <1>12, <2>1, <2>2 DEF Mark, Recorded
<1>13. CASE CleanupFiles
  BY <1>13, RecordedAfter DEF CleanupFiles, SoftDeleted
<1>14. ASSUME NEW f \in File, Remove(f)
       PROVE  Recorded'
  <2>1. CASE RemoveFails(f) /\ EndTick /\ UNCHANGED <<db, tableVars, disk, size, readable>>
    BY <1>14, <2>1, RecordedStops DEF Remove, EndTick
  <2>2. CASE /\ Unlink(f)
             /\ Goto("deleteRecord")
             /\ file' = f
             /\ todo' = todo \ {f}
             /\ UNCHANGED <<faults, indexed, listed>>
    BY <1>14, <2>2, RecordedAfter DEF Remove, Unlink
  <2>. QED
    BY <1>14, <2>1, <2>2 DEF Remove
<1>15. CASE DeleteRecord
  <2>1. Live' \cup Marked' \subseteq Live \cup Marked
    BY <1>15 DEF DeleteRecord, DeleteRow, TypeOK, IndexerTypeOK
  <2>. QED
    BY <1>15, <2>1, RecordedAfter DEF DeleteRecord
<1>16. CASE ReadFails \/ RefreshDone
  BY <1>16, RecordedStops DEF ReadFails, RefreshDone, EndTick
<1>. QED
  BY <1>1, <1>2, <1>3, <1>4, <1>5, <1>6, <1>7, <1>8, <1>9, <1>10, <1>11, <1>12, <1>13,
     <1>14, <1>15, <1>16
     DEF IndexerNext, MissingFails, MarkFails, DeleteRecordFails

(***************************************************************************)
(* Every step of the system, the stuttering one included.                  *)
(***************************************************************************)
LEMMA RecordedStep == TypeOK /\ Recorded /\ [Next]_vars => Recorded'
<1> SUFFICES ASSUME TypeOK, Recorded, [Next]_vars
             PROVE  Recorded'
  OBVIOUS
<1>1. CASE UNCHANGED vars
  BY <1>1 DEF vars, dirVars, ixVars, Recorded, Live, Marked
<1>2. CASE FallbackNext /\ UNCHANGED ixVars
  <2>1. disk' \subseteq disk /\ last' = last
    BY <1>2 DEF FallbackNext, FallbackMeasure, FallbackList, FallbackDone,
                FallbackListFails, FallbackStat, FallbackRemove,
                Unlink, dirVars
  <2>. QED
    BY <1>2, <2>1, RecordedAfter DEF ixVars, Live, Marked
<1>3. CASE DeleteDBFile
  <2>1. Live' \cup Marked' \subseteq Live \cup Marked
    BY <1>3 DEF DeleteDBFile, tableVars, EmptyTable, Live, Marked
  <2>. QED
    BY <1>3, <2>1, RecordedAfter DEF DeleteDBFile
<1>4. CASE Crash \/ Close
  BY <1>4, RecordedStops DEF Crash, Close, IndexerStops, CloseDB
<1>5. CASE Start
  BY <1>5, RecordedAfter DEF Start, IndexerStart, tableVars, Live, Marked
<1>. QED
  BY <1>1, <1>2, <1>3, <1>4, <1>5, RecordedDir, RecordedIndexer DEF Next

-----------------------------------------------------------------------------
(***************************************************************************)
(* The order of ages: initially there is nothing to order.                 *)
(***************************************************************************)
LEMMA AgeInit == Init => ByAge /\ OldestFirst
BY DEF Init, DirInit, IndexerInit, ByAge, OldestFirst, Marked, EmptyTable

(***************************************************************************)
(* A segment that becomes readable is the newest of all.                   *)
(***************************************************************************)
LEMMA AgeDir ==
    ASSUME AgeInv, DirNext, UNCHANGED <<ixVars, fbVars>>
    PROVE  ByAge' /\ OldestFirst'
<1>1. readable' \subseteq readable \cup {last} /\ disk' \subseteq disk \cup {last'}
  BY DEF DirNext, OpenSegment, WritePacket, FinishSegment, Advance
<1>2. (last' = last /\ disk' = disk) \/ last' > last
  BY DEF DirNext, OpenSegment, WritePacket, FinishSegment, Advance, AgeInv, CatalogueInv,
         TypeOK, DirTypeOK
<1>3. /\ last \in Int /\ last' \in Int /\ file \in Int
      /\ \A f \in Live \cup Marked \cup InFlight : f \in Int /\ f <= last
  BY <1>2 DEF AgeInv, Recorded, InFlight, CatalogueInv, TypeOK, DirTypeOK, IndexerTypeOK,
         File, Live, Marked, NoFile, DirNext, OpenSegment, WritePacket, FinishSegment, Advance
<1>4. \A f \in Live \cup Marked \cup InFlight : \A g \in readable' : g < f => g \in readable
  BY <1>1, <1>3
<1>5. /\ Live' = Live /\ Marked' = Marked /\ InFlight' = InFlight
      /\ UNCHANGED <<pc, indexed, todo, file>>
  BY DEF ixVars, Live, Marked, InFlight
<1>6. OldestFirst'
  <2>1. Marked \cap disk' \subseteq Marked \cap disk
    BY <1>1, <1>2, <1>3
  <2>. QED
    BY <1>4, <1>5, <2>1 DEF AgeInv, OldestFirst
<1>7. ByAge'
  <2>1. pc = "deleteRecord" => file \notin disk'
    BY <1>1, <1>2, <1>3 DEF AgeInv, ByAge, Recorded
  <2>. QED
    BY <1>4, <1>5, <2>1 DEF AgeInv, ByAge, InOrder
<1>. QED
  BY <1>6, <1>7

(***************************************************************************)
(* Files and marks may go, and the worker be at rest, in any order.        *)
(***************************************************************************)
LEMMA AgeStops ==
    ASSUME AgeInv,
           rows' = rows \/ rows' = EmptyTable,
           pc' \in {"tick", "down"},
           disk' \subseteq disk, readable' \subseteq readable
    PROVE  ByAge' /\ OldestFirst'
<1>1. ByAge'
  BY DEF ByAge
<1>2. CASE rows' = rows
  BY <1>1, <1>2 DEF AgeInv, OldestFirst, Marked
<1>3. CASE rows' = EmptyTable
  BY <1>1, <1>3 DEF OldestFirst, Marked, EmptyTable
<1>. QED
  BY <1>2, <1>3

(***************************************************************************)
(* Indexing, newest first: what has been passed over is not readable, if   *)
(* readable files can be opened and inserts succeed.                       *)
(***************************************************************************)
LEMMA AgeIndexing ==
    ASSUME AgeInv, {"probe", "insert"} \cap FaultKinds = {},
           \/ Tick \/ ListDir \/ Discard \/ Insert \/ InsertReadOnly \/ IndexingDone
           \/ \E f \in File : Probe(f) \/ Missing(f) \/ MissingFails(f)
           \/ MissingDone
    PROVE  ByAge' /\ OldestFirst'
<1> USE DEF AgeInv, ByAge, OldestFirst, InOrder, InFlight, Live, Marked, Goto, tableVars, dirVars
<1>1. CASE Tick
  BY <1>1 DEF Tick
<1>2. CASE ListDir
  BY <1>2 DEF ListDir, CatalogueInv, TypeOK, DirTypeOK
<1>3. CASE Discard
  BY <1>3 DEF Discard, Unlink
<1>4. CASE Insert
  <2>1. \/ rows[file] # "none" /\ UNCHANGED rows
        \/ rows[file] = "none" /\ rows' = [rows EXCEPT ![file] = "live"]
    BY <1>4 DEF Insert, Conflict, Fault
  <2>2. file \in File /\ rows \in [File -> {"none", "live", "marked"}]
    BY <1>4 DEF Insert, CatalogueInv, TypeOK, IndexerTypeOK
  <2>3. /\ Marked' = Marked
        /\ Live' \subseteq Live \cup {file}
        /\ Live \cup {file} \subseteq Live' \cup Marked
    BY <2>1, <2>2
  <2>4. /\ pc = "insert" /\ pc' = "probe" /\ UNCHANGED <<todo, disk, readable>>
    BY <1>4 DEF Insert
  <2>. QED
    BY <2>3, <2>4
<1>5. CASE FailedWrite
  BY <1>5, AgeStops DEF FailedWrite, ReadOnlyError, WriteError, CloseDB, EndTick, EndTickInto
<1>6. CASE InsertReadOnly
  BY <1>5, <1>6 DEF InsertReadOnly, FailedWrite
<1>7. CASE IndexingDone
  BY <1>7 DEF IndexingDone
<1>8. ASSUME NEW f \in File, Probe(f)
      PROVE  ByAge' /\ OldestFirst'
  BY <1>8 DEF Probe, Newest, Fault
<1>9. ASSUME NEW f \in File, Missing(f)
      PROVE  ByAge' /\ OldestFirst'
  <2>1. /\ Live' \subseteq Live /\ Marked' \subseteq Marked
        /\ readable \cap (Live \cup Marked) \subseteq Live' \cup Marked'
        /\ readable \cap Marked \subseteq Marked'
    BY <1>9 DEF Missing, DeleteRow, CatalogueInv, TypeOK, DirTypeOK, IndexerTypeOK
  <2>2. pc = "missing" /\ UNCHANGED <<pc, disk, readable>>
    BY <1>9 DEF Missing
  <2>. QED
    BY <2>1, <2>2
<1>10. ASSUME NEW f \in File, MissingFails(f)
       PROVE  ByAge' /\ OldestFirst'
  BY <1>5, <1>10 DEF MissingFails
<1>11. CASE MissingDone
  BY <1>11 DEF MissingDone
<1>. QED
  BY <1>1, <1>2, <1>3, <1>4, <1>6, <1>7, <1>8, <1>9, <1>10, <1>11

(***************************************************************************)
(* Marking takes live rows from the oldest on, and deleting a row forgets  *)
(* a file that is gone.                                                    *)
(***************************************************************************)
LEMMA AgeCleanup ==
    ASSUME AgeInv,
           \/ CleanupDB \/ MarkFails \/ MarkDone \/ CleanupFiles
           \/ DeleteRecord \/ DeleteRecordFails \/ ReadFails \/ RefreshDone
           \/ \E f \in File : Mark(f) \/ Remove(f)
    PROVE  ByAge' /\ OldestFirst'
<1> USE DEF AgeInv, ByAge, OldestFirst, InOrder, InFlight, Live, Marked, Goto, tableVars, dirVars
<1>1. CASE CleanupDB
  <2> DEFINE excess == GetDirectorySize - MaxStorage
  <2>1. excess \in Int
    BY DirectorySizeType, SizeAssumption DEF CatalogueInv, MaxStorage
  <2>2. \A f \in FilesToMark(excess) : f \in Live /\ \A g \in Live : g < f => g \in FilesToMark(excess)
    BY <2>1, MarksFromTheOldest DEF FilesToMark
  <2>3. /\ pc = "cleanupDB" /\ pc' \in {"mark", "cleanupFiles"}
        /\ UNCHANGED <<rows, disk, readable>>
        /\ pc' = "mark" => todo' = FilesToMark(excess)
    BY <1>1 DEF CleanupDB
  <2> HIDE DEF excess
  <2>. QED
    BY <2>2, <2>3
<1>2. CASE FailedWrite
  BY <1>2, AgeStops DEF FailedWrite, ReadOnlyError, WriteError, CloseDB, EndTick, EndTickInto
<1>3. CASE MarkDone
  BY <1>3 DEF MarkDone
<1>4. CASE CleanupFiles
  BY <1>4 DEF CleanupFiles
<1>5. CASE DeleteRecord
  <2>1. /\ pc' = "remove" /\ UNCHANGED <<disk, readable>>
        /\ file \notin readable
        /\ Marked' = Marked \ {file}
    BY <1>5 DEF DeleteRecord, DeleteRow, CatalogueInv, TypeOK, DirTypeOK, IndexerTypeOK
  <2>. QED
    BY <2>1
<1>6. CASE ReadFails \/ RefreshDone
  BY <1>6, AgeStops DEF ReadFails, RefreshDone, EndTick, EndTickInto
<1>7. ASSUME NEW f \in File, Mark(f)
      PROVE  ByAge' /\ OldestFirst'
  <2>1. /\ pc = "mark" /\ pc' = "mark" /\ UNCHANGED <<disk, readable>>
        /\ f \in todo /\ \A g \in todo : f <= g
        /\ todo' = todo \ {f}
    BY <1>7 DEF Mark, Oldest
  <2>2. Live' = Live \ {f} /\ Marked' = Marked \cup {f}
    BY <1>7 DEF Mark, CatalogueInv, TypeOK, IndexerTypeOK
  <2>3. \A g \in readable : g < f => g \in Marked
    <3>1. \A g \in Live : ~(g < f)
      BY <2>1, TimeAssumption DEF File
    <3>. QED
      BY <2>1, <3>1
  <2>. QED
    BY <2>1, <2>2, <2>3
<1>8. ASSUME NEW f \in File, Remove(f)
      PROVE  ByAge' /\ OldestFirst'
  <2>1. CASE RemoveFails(f) /\ EndTick /\ UNCHANGED <<db, tableVars, disk, size, readable>>
    BY <2>1, AgeStops DEF EndTick, EndTickInto
  <2>2. CASE /\ Unlink(f)
             /\ Goto("deleteRecord")
             /\ file' = f
    BY <2>2 DEF Unlink
  <2>. QED
    BY <1>8, <2>1, <2>2 DEF Remove
<1>. QED
  BY <1>1, <1>2, <1>3, <1>4, <1>5, <1>6, <1>7, <1>8 DEF MarkFails, DeleteRecordFails

(***************************************************************************)
(* The fallback deleter takes files away, and no row.                      *)
(***************************************************************************)
LEMMA AgeFallback ==
    ASSUME AgeInv, FallbackNext, UNCHANGED ixVars
    PROVE  ByAge' /\ OldestFirst'
<1>1. disk' \subseteq disk /\ readable' \subseteq readable
  BY DEF FallbackNext, FallbackMeasure, FallbackList, FallbackDone,
         FallbackListFails, FallbackStat, FallbackRemove,
         Unlink, dirVars
<1>. QED
  BY <1>1 DEF AgeInv, ByAge, OldestFirst, InOrder, InFlight, Live, Marked, ixVars

(***************************************************************************)
(* A crash, Close, Start and the removal of the database file.             *)
(***************************************************************************)
LEMMA AgeRestart ==
    ASSUME AgeInv,
           Crash \/ Close \/ Start \/ (DeleteDBFile /\ UNCHANGED fbVars)
    PROVE  ByAge' /\ OldestFirst'
<1>1. CASE Crash \/ Close
  BY <1>1, AgeStops DEF Crash, Close, IndexerStops, CloseDB, EndTickInto
<1>2. CASE Start
  BY <1>2, AgeStops DEF Start, IndexerStart, tableVars
<1>3. CASE DeleteDBFile
  <2>1. CASE db = "open"
    BY <1>3, <2>1
       DEF DeleteDBFile, AgeInv, ByAge, OldestFirst, InOrder, InFlight, Live, Marked, tableVars
  <2>2. CASE db = "closed"
    <3>1. pc \in {"tick", "down"}
      BY <2>2 DEF AgeInv, CatalogueInv, InHand
    <3>. QED
      BY <1>3, <2>2, <3>1, AgeStops DEF DeleteDBFile
  <2>. QED
    BY <1>3, <2>1, <2>2 DEF DeleteDBFile
<1>. QED
  BY <1>1, <1>2, <1>3

(***************************************************************************)
(* Every step of the system, the stuttering one included.                  *)
(***************************************************************************)
LEMMA AgeStep ==
    ASSUME {"probe", "insert"} \cap FaultKinds = {}
    PROVE  AgeInv /\ [Next]_vars => AgeInv'
<1> SUFFICES ASSUME AgeInv, [Next]_vars
             PROVE  AgeInv'
  OBVIOUS
<1>1. CatalogueInv' /\ Recorded'
  BY CatalogueStep, RecordedStep DEF AgeInv, CatalogueInv
<1>2. ByAge' /\ OldestFirst'
  <2>1. CASE UNCHANGED vars
    BY <2>1 DEF AgeInv, ByAge, OldestFirst, InOrder, InFlight, Live, Marked,
                vars, dirVars, ixVars
  <2>2. CASE IndexerNext
    BY <2>2, AgeIndexing, AgeCleanup DEF IndexerNext
  <2>. QED
    BY <2>1, <2>2, AgeDir, AgeFallback, AgeRestart DEF Next
<1>. QED
  BY <1>1, <1>2 DEF AgeInv

(***************************************************************************)
(* Storage is retained by age: as long as a marked segment is on the disk, *)
(* no older segment that can be opened has been left unmarked.  It needs   *)
(* GetVideoInfo to open every readable file and inserts not to fail, whose *)
(* errors processUnindexedFiles only logs; crashes, restarts, other failed *)
(* statements, failed removals and the loss of the database do no harm.    *)
(***************************************************************************)
THEOREM RetainedByAge ==
    ASSUME {"probe", "insert"} \cap FaultKinds = {}
    PROVE  Spec => []OldestFirst
<1>1. Init => AgeInv
  BY TypeInit, CatalogueInit, RecordedInit, AgeInit DEF AgeInv, CatalogueInv
<1>2. AgeInv /\ [Next]_vars => AgeInv'
  BY AgeStep
<1>3. AgeInv => OldestFirst
  BY DEF AgeInv
<1>. QED
  BY <1>1, <1>2, <1>3, PTL DEF Spec

-----------------------------------------------------------------------------
(***************************************************************************)
(* The segment about to be discarded is neither complete nor open, if no   *)
(* source stalls and the grace period is longer than a segment.            *)
(***************************************************************************)
LEMMA DiscardStep ==
    ASSUME {"probe", "stall"} \cap FaultKinds = {}, Grace > 1
    PROVE  DiscardInv /\ [Next]_vars => DiscardInv'
<1> SUFFICES ASSUME DiscardInv, [Next]_vars
             PROVE  DiscardInv'
  OBVIOUS
<1> USE DEF OldWhenDiscarded
<1>1. CatalogueInv' /\ Recorded'
  BY CatalogueStep, RecordedStep DEF DiscardInv, CatalogueInv
<1>2. OldWhenDiscarded /\ now \in Int /\ last \in Int /\ file \in Int /\ file <= last
  BY DEF DiscardInv, Recorded, CatalogueInv, TypeOK, DirTypeOK, IndexerTypeOK, File, NoFile
<1>3. CASE DirNext /\ UNCHANGED <<ixVars, fbVars>>
  <2>1. pc' = pc /\ file' = file
    BY <1>3 DEF ixVars
  <2>2. OldWhenDiscarded'
    BY <1>2, <1>3, <2>1
       DEF DirNext, OpenSegment, WritePacket, FinishSegment, Advance, Fault
  <2>. QED
    BY <1>1, <2>2 DEF DiscardInv
<1>4. CASE IndexerNext
  <2>1. UNCHANGED <<now, last, writing>> /\ readable' \subseteq readable
    BY <1>4 DEF IndexerNext, Tick, ListDir, Probe, Discard, Insert, InsertReadOnly, IndexingDone,
                Missing, MissingFails, MissingDone, CleanupDB, Mark, MarkFails, MarkDone,
                CleanupFiles, Remove, DeleteRecord, DeleteRecordFails, ReadFails, RefreshDone,
                FailedWrite, Unlink, dirVars
  <2>2. CASE pc' # "discard"
    BY <1>1, <1>2, <2>1, <2>2 DEF DiscardInv
  <2>3. CASE \E f \in File : Probe(f) /\ pc' = "discard"
    <3>1. PICK f \in File : Probe(f) /\ pc' = "discard"
      BY <2>3
    <3>2. file' = f /\ f \notin readable /\ ~(now - f < Grace)
      BY <3>1 DEF Probe, Fault, TooYoung, Goto
    <3>3. f \in Int /\ Grace \in Int
      BY GraceAssumption, TimeAssumption DEF File
    <3>4. ~(writing /\ file' = last)
      BY <1>2, <3>2, <3>3
    <3>. QED
      BY <1>1, <1>2, <2>1, <3>2, <3>4 DEF DiscardInv
  <2>4. pc' = "discard" => \E f \in File : Probe(f)
    BY <1>4 DEF IndexerNext, Tick, ListDir, Discard, Insert, InsertReadOnly, IndexingDone,
                Missing, MissingFails, MissingDone, CleanupDB, Mark, MarkFails, MarkDone,
                CleanupFiles, Remove, DeleteRecord, DeleteRecordFails, ReadFails, RefreshDone,
                FailedWrite, ReadOnlyError, WriteError, EndTick, EndTickInto, Goto
  <2>. QED
    BY <2>2, <2>3, <2>4
<1>5. CASE FallbackNext /\ UNCHANGED ixVars
  <2>1. UNCHANGED <<now, last, writing, pc, file>> /\ readable' \subseteq readable
    BY <1>5 DEF FallbackNext, FallbackMeasure, FallbackList, FallbackDone,
                FallbackListFails, FallbackStat, FallbackRemove,
                Unlink, dirVars, ixVars
  <2>. QED
    BY <1>1, <1>2, <2>1 DEF DiscardInv
<1>6. CASE DeleteDBFile \/ Crash \/ Close \/ Start
  <2>1. /\ UNCHANGED <<now, last, readable>>
        /\ writing' => writing
        /\ pc' \in {"tick", "down"} \/ UNCHANGED <<pc, file>>
    BY <1>6 DEF DeleteDBFile, Crash, Close, Start, IndexerStops, IndexerStart, EndTickInto
  <2>. QED
    BY <1>1, <1>2, <2>1 DEF DiscardInv
<1>7. CASE UNCHANGED vars
  BY <1>1, <1>2, <1>7 DEF DiscardInv, vars, dirVars, ixVars
<1>. QED
  BY <1>3, <1>4, <1>5, <1>6, <1>7 DEF Next

(***************************************************************************)
(* The files that go in one step of the indexer: the one discarded, or one *)
(* that was marked.                                                        *)
(***************************************************************************)
LEMMA UnlinkedByIndexer ==
    ASSUME CatalogueInv, IndexerNext, NEW f \in disk \ disk'
    PROVE  rows[f] = "marked" \/ (pc = "discard" /\ f = file)
<1>1. CASE Discard
  BY <1>1 DEF Discard, Unlink
<1>2. ASSUME NEW g \in File, Remove(g)
      PROVE  rows[f] = "marked"
  BY <1>2 DEF Remove, Unlink, CatalogueInv, InHand, Marked
<1>3. Discard \/ \E g \in File : Remove(g)
  BY DEF IndexerNext, Tick, ListDir, Probe, Insert, InsertReadOnly, IndexingDone,
         Missing, MissingFails, MissingDone, CleanupDB, Mark, MarkFails, MarkDone,
         CleanupFiles, DeleteRecord, DeleteRecordFails, ReadFails, RefreshDone,
         FailedWrite, dirVars
<1>. QED
  BY <1>1, <1>2, <1>3

(***************************************************************************)
(* The indexer deletes a segment only when it is marked, or cannot be      *)
(* opened and is not the one being written.  The assumptions are those of  *)
(* the grace period: no source stalls, and it is longer than a segment     *)
(* (half an hour against thirty seconds in the code).                      *)
(***************************************************************************)
THEOREM DeletesOnlyCondemnedOrCorrupt ==
    ASSUME {"probe", "stall"} \cap FaultKinds = {}, Grace > 1
    PROVE  Spec => OnlyCondemnedOrCorrupt
<1> DEFINE Justified ==
        \A f \in disk \ disk' : \/ rows[f] = "marked"
                                \/ f \notin readable /\ ~(writing /\ f = last)
                                \/ f \in taken'
<1>1. Init => DiscardInv
  <2>1. Init => OldWhenDiscarded
    BY DEF Init, DirInit, IndexerInit, OldWhenDiscarded
  <2>. QED
    BY <2>1, TypeInit, CatalogueInit, RecordedInit DEF DiscardInv, CatalogueInv
<1>2. DiscardInv /\ [Next]_vars => DiscardInv'
  BY DiscardStep
<1>3. DiscardInv /\ [Next]_vars => [Justified]_vars
  <2> SUFFICES ASSUME DiscardInv, Next
               PROVE  Justified
    OBVIOUS
  <2>1. CASE IndexerNext
    BY <2>1, UnlinkedByIndexer DEF DiscardInv, OldWhenDiscarded
  <2>2. CASE FallbackNext
    BY <2>2 DEF FallbackNext, FallbackMeasure, FallbackList, FallbackDone,
                FallbackListFails, FallbackStat, FallbackRemove,
                Unlink, dirVars
  <2>3. CASE DirNext \/ DeleteDBFile \/ Crash \/ Close \/ Start
    <3>1. disk \subseteq disk'
      BY <2>3 DEF DirNext, OpenSegment, WritePacket, FinishSegment, Advance, DeleteDBFile,
                  Crash, Close, Start
    <3>. QED
      BY <3>1
  <2>. QED
    BY <2>1, <2>2, <2>3 DEF Next
<1>. QED
  BY <1>1, <1>2, <1>3, PTL DEF Spec, OnlyCondemnedOrCorrupt
=============================================================================
