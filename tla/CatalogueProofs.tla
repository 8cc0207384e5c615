--------------------------- MODULE CatalogueProofs ---------------------------
(***************************************************************************)
(* The catalogue is sound: every row GetVideoList reports names a segment  *)
(* that is on the disk and can be opened, or one the fallback deleter took.*)
(* The inductive invariant adds to it what the worker holds between two    *)
(* accesses (InHand): the steps below are the steps that write a row or    *)
(* unlink a file, and each needs the part about its own point.             *)
(***************************************************************************)
EXTENDS StorageProofs

(***************************************************************************)
(* At the start there is no row, and the worker has nothing in hand.       *)
(***************************************************************************)
LEMMA CatalogueInit == Init => CatalogueSound /\ InHand
BY DEF Init, DirInit, IndexerInit, CatalogueSound, InHand, Live, EmptyTable

(***************************************************************************)
(* The segmenter only adds to what can be opened.                          *)
(***************************************************************************)
LEMMA CatalogueDir ==
    ASSUME CatalogueInv, DirNext, UNCHANGED <<ixVars, fbVars>>
    PROVE  CatalogueSound' /\ InHand'
<1>1. readable \subseteq readable'
  BY DEF DirNext, OpenSegment, WritePacket, FinishSegment, Advance
<1>. QED
  BY <1>1 DEF CatalogueInv, CatalogueSound, InHand, Live, Marked, ixVars, fbVars

(***************************************************************************)
(* Stopping the worker, or ending its tick, leaves nothing in hand, and    *)
(* closing the connection adds no row.                                     *)
(***************************************************************************)
LEMMA CatalogueStops ==
    ASSUME CatalogueInv,
           rows' = rows \/ rows' = EmptyTable,
           pc' \in {"tick", "down"},
           readable \subseteq readable', taken' = taken
    PROVE  CatalogueSound' /\ InHand'
<1>1. Live' \subseteq Live
  BY DEF Live, EmptyTable
<1>. QED
  BY <1>1 DEF CatalogueInv, CatalogueSound, InHand

(***************************************************************************)
(* A failed statement ends the tick, and may empty the table.              *)
(***************************************************************************)
LEMMA CatalogueFailedWrite ==
    ASSUME CatalogueInv, ReadOnlyError \/ WriteError,
           UNCHANGED <<now, disk, size, readable, last, writing, up>>, UNCHANGED fbVars
    PROVE  CatalogueSound' /\ InHand'
BY CatalogueStops DEF ReadOnlyError, WriteError, CloseDB, EndTick, EndTickInto, fbVars

(***************************************************************************)
(* Indexing: a row is inserted for a file that was opened, and a file that *)
(* is discarded has no live row.                                           *)
(***************************************************************************)
LEMMA CatalogueIndexing ==
    ASSUME CatalogueInv, UNCHANGED fbVars,
           \/ Tick \/ ListDir \/ Discard \/ Insert \/ InsertReadOnly \/ IndexingDone
           \/ \E f \in File : Probe(f) \/ Missing(f) \/ MissingFails(f)
           \/ MissingDone
    PROVE  CatalogueSound' /\ InHand'
<1> USE DEF CatalogueInv, CatalogueSound, InHand, Live, Marked, Goto, tableVars, dirVars, fbVars
<1>1. CASE Tick
  BY <1>1 DEF Tick
<1>2. CASE ListDir
  BY <1>2 DEF ListDir
<1>3. CASE Discard
  BY <1>3 DEF Discard, Unlink
<1>4. CASE Insert
  <2>1. file \in File
    BY <1>4 DEF Insert, TypeOK, IndexerTypeOK
  <2>. QED
    BY <1>4, <2>1 DEF Insert, TypeOK, IndexerTypeOK
<1>5. CASE InsertReadOnly
  BY <1>5, CatalogueFailedWrite DEF InsertReadOnly
<1>6. CASE IndexingDone
  BY <1>6 DEF IndexingDone
<1>7. ASSUME NEW f \in File, Probe(f)
      PROVE  CatalogueSound' /\ InHand'
  BY <1>7 DEF Probe, Newest
<1>8. ASSUME NEW f \in File, Missing(f)
      PROVE  CatalogueSound' /\ InHand'
  BY <1>8 DEF Missing, DeleteRow, TypeOK, IndexerTypeOK
<1>9. ASSUME NEW f \in File, MissingFails(f)
      PROVE  CatalogueSound' /\ InHand'
  BY <1>9, CatalogueFailedWrite DEF MissingFails, FailedWrite
<1>10. CASE MissingDone
  BY <1>10 DEF MissingDone
<1>. QED
  BY <1>1, <1>2, <1>3, <1>4, <1>5, <1>6, <1>7, <1>8, <1>9, <1>10

(***************************************************************************)
(* Cleanup: only files with a marked row are unlinked, and a row is        *)
(* deleted after its file.                                                 *)
(***************************************************************************)
LEMMA CatalogueCleanup ==
    ASSUME CatalogueInv, UNCHANGED fbVars,
           \/ CleanupDB \/ MarkFails \/ MarkDone \/ CleanupFiles
           \/ DeleteRecord \/ DeleteRecordFails \/ ReadFails \/ RefreshDone
           \/ \E f \in File : Mark(f) \/ Remove(f)
    PROVE  CatalogueSound' /\ InHand'
<1> USE DEF CatalogueInv, CatalogueSound, InHand, Live, Marked, Goto, tableVars, dirVars, fbVars
<1>1. CASE CleanupDB
  BY <1>1 DEF CleanupDB
<1>2. CASE MarkFails
  BY <1>2, CatalogueFailedWrite DEF MarkFails, FailedWrite
<1>3. CASE MarkDone
  BY <1>3 DEF MarkDone
<1>4. CASE CleanupFiles
  BY <1>4 DEF CleanupFiles, SoftDeleted
<1>5. CASE DeleteRecord
  BY <1>5 DEF DeleteRecord, DeleteRow, TypeOK, IndexerTypeOK
<1>6. CASE DeleteRecordFails
  BY <1>6, CatalogueFailedWrite DEF DeleteRecordFails, FailedWrite
<1>7. CASE RefreshDone
  BY <1>7, CatalogueStops DEF RefreshDone, EndTick, EndTickInto
<1>8. ASSUME NEW f \in File, Mark(f)
      PROVE  CatalogueSound' /\ InHand'
  BY <1>8 DEF Mark, TypeOK, IndexerTypeOK
<1>9. ASSUME NEW f \in File, Remove(f)
      PROVE  CatalogueSound' /\ InHand'
  <2>1. CASE RemoveFails(f) /\ EndTick /\ UNCHANGED <<db, tableVars, disk, size, readable>>
    BY <2>1, CatalogueStops DEF EndTick, EndTickInto
  <2>2. CASE /\ Unlink(f)
             /\ Goto("deleteRecord")
             /\ file' = f
             /\ todo' = todo \ {f}
    BY <1>9, <2>2 DEF Remove, Unlink
  <2>. QED
    BY <1>9, <2>1, <2>2 DEF Remove
<1>10. CASE ReadFails
  BY <1>10, CatalogueStops DEF ReadFails, EndTick, EndTickInto
<1>. QED
  BY <1>1, <1>2, <1>3, <1>4, <1>5, <1>6, <1>7, <1>8, <1>9, <1>10

(***************************************************************************)
(* What the fallback deleter unlinks it has taken.                         *)
(***************************************************************************)
LEMMA CatalogueFallback ==
    ASSUME CatalogueInv, FallbackNext, UNCHANGED ixVars
    PROVE  CatalogueSound' /\ InHand'
<1>1. /\ taken \subseteq taken'
      /\ readable \subseteq readable' \cup taken'
  BY DEF FallbackNext, FallbackMeasure, FallbackList, FallbackDone, FallbackDown,
         FallbackListFails, FallbackStat, FallbackRemove, Unlink, dirVars
<1>. QED
  BY <1>1 DEF CatalogueInv, CatalogueSound, InHand, Live, Marked, ixVars

(***************************************************************************)
(* A crash, Close, Start and the removal of the database file.             *)
(***************************************************************************)
LEMMA CatalogueRestart ==
    ASSUME CatalogueInv,
           Crash \/ Close \/ Start \/ (DeleteDBFile /\ UNCHANGED fbVars)
    PROVE  CatalogueSound' /\ InHand'
<1>1. CASE Crash \/ Close
  BY <1>1, CatalogueStops
     DEF Crash, Close, IndexerStops, CloseDB, EndTickInto, FallbackDown
<1>2. CASE Start
  BY <1>2, CatalogueStops DEF Start, IndexerStart, FallbackDown, tableVars
<1>3. CASE DeleteDBFile /\ UNCHANGED fbVars
  <2>1. CASE db = "open"
    BY <1>3, <2>1
       DEF DeleteDBFile, CatalogueInv, CatalogueSound, InHand, Live, Marked, tableVars, fbVars
  <2>2. CASE db = "closed"
    <3>1. pc \in {"tick", "down"}
      BY <2>2 DEF CatalogueInv, InHand
    <3>. QED
      BY <1>3, <2>2, <3>1, CatalogueStops DEF DeleteDBFile, fbVars
  <2>. QED
    BY <1>3, <2>1, <2>2 DEF DeleteDBFile
<1>. QED
  BY <1>1, <1>2, <1>3

(***************************************************************************)
(* Every step of the system, the stuttering one included.                  *)
(***************************************************************************)
LEMMA CatalogueStep == CatalogueInv /\ [Next]_vars => CatalogueInv'
<1> SUFFICES ASSUME CatalogueInv, [Next]_vars
             PROVE  CatalogueInv'
  OBVIOUS
<1>1. TypeOK'
  BY TypeStep DEF CatalogueInv
<1>2. CASE UNCHANGED vars
  BY <1>1, <1>2
     DEF CatalogueInv, CatalogueSound, InHand, Live, Marked, vars, dirVars, ixVars, fbVars
<1>3. CASE Next
  <2>1. CatalogueSound' /\ InHand'
    BY <1>3, CatalogueDir, CatalogueIndexing, CatalogueCleanup, CatalogueFallback,
       CatalogueRestart
       DEF Next, IndexerNext
  <2>. QED
    BY <1>1, <2>1 DEF CatalogueInv
<1>. QED
  BY <1>2, <1>3

(***************************************************************************)
(* GetVideoList never reports a segment that is missing or unfinished,     *)
(* whatever crashes, failures of the disk and losses of the database the   *)
(* indexer went through, except for what the fallback deleter removed.     *)
(***************************************************************************)
THEOREM CatalogueIsSound == Spec => []CatalogueSound
<1>1. Init => CatalogueInv
  BY TypeInit, CatalogueInit DEF CatalogueInv
<1>2. CatalogueInv => CatalogueSound
  BY DEF CatalogueInv
<1>. QED
  BY <1>1, <1>2, CatalogueStep, PTL DEF Spec
=============================================================================
