---------------------------- MODULE StorageProofs ----------------------------
(***************************************************************************)
(* Theorems about Storage, for every value of its constants.               *)
(***************************************************************************)
EXTENDS Storage, FiniteSetTheorems, TLAPS

(***************************************************************************)
(* Byte counts of files and rows are natural numbers.                      *)
(***************************************************************************)
LEMMA BytesType ==
    ASSUME NEW S \in SUBSET File, NEW sz
    PROVE  Bytes(S, sz) \in Nat
<1>1. IsFiniteSet(File) /\ IsFiniteSet(1..MaxSegment)
  BY FS_Interval, TimeAssumption, SizeAssumption DEF File
<1>2. IsFiniteSet(S)
  BY <1>1, FS_Subset
<1>3. IsFiniteSet(S \X (1..MaxSegment))
  BY <1>1, <1>2, FS_Product
<1>4. IsFiniteSet({p \in S \X (1..MaxSegment) : p[2] <= sz[p[1]]})
  BY <1>3, FS_Subset
<1>. QED
  BY <1>4, FS_CardinalityType DEF Bytes

(***************************************************************************)
(* What the walk of the storage path adds up to is a natural number.       *)
(***************************************************************************)
LEMMA DirectorySizeType == TypeOK => GetDirectorySize \in Nat
BY BytesType, SizeAssumption DEF TypeOK, DirTypeOK, GetDirectorySize

(***************************************************************************)
(* Type correctness, one step for each action.                             *)
(***************************************************************************)
LEMMA TypeInit == Init => TypeOK
<1> SUFFICES ASSUME Init PROVE TypeOK
  OBVIOUS
<1> USE DEF Init
<1>1. DirTypeOK
  <2>1. now \in 0..MaxTime /\ last \in 0..now /\ faults \in 0..MaxFaults
    BY TimeAssumption, FaultAssumption DEF DirInit
  <2>2. disk \subseteq File /\ readable \subseteq disk
    BY DEF DirInit
  <2>3. size \in [File -> 0..MaxSegment]
    BY SizeAssumption DEF DirInit
  <2>4. writing \in BOOLEAN /\ up \in BOOLEAN
    BY DEF DirInit
  <2>. QED
    BY <2>1, <2>2, <2>3, <2>4 DEF DirTypeOK
<1>2. IndexerTypeOK
  BY SizeAssumption
     DEF IndexerInit, IndexerTypeOK, EmptyTable, NoSizes, IndexerPCs, NoFile
<1>3. FallbackTypeOK
  BY DEF FallbackInit, FallbackTypeOK
<1>. QED
  BY <1>1, <1>2, <1>3 DEF TypeOK

(***************************************************************************)
(* The segmenter and the clock.                                            *)
(***************************************************************************)
LEMMA TypeDir == TypeOK /\ DirNext /\ UNCHANGED <<ixVars, fbVars>> => TypeOK'
<1> SUFFICES ASSUME TypeOK, DirNext, UNCHANGED <<ixVars, fbVars>>
             PROVE  TypeOK'
  OBVIOUS
<1> USE TimeAssumption, FaultAssumption, SizeAssumption DEF TypeOK, DirTypeOK, File
<1>1. IndexerTypeOK' /\ FallbackTypeOK'
  BY DEF ixVars, fbVars, IndexerTypeOK, FallbackTypeOK
<1>2. CASE OpenSegment
  <2>1. now \in File
    BY <1>2 DEF OpenSegment
  <2>. QED
    BY <1>1, <1>2, <2>1 DEF OpenSegment
<1>3. CASE WritePacket
  <2>1. size[last] + 1 \in 0..MaxSegment
    BY <1>3 DEF WritePacket
  <2>. QED
    BY <1>1, <1>3, <2>1 DEF WritePacket
<1>4. CASE FinishSegment
  BY <1>1, <1>4 DEF FinishSegment
<1>5. CASE Advance
  BY <1>1, <1>5 DEF Advance, Fault
<1>. QED
  BY <1>2, <1>3, <1>4, <1>5 DEF DirNext

(***************************************************************************)
(* Unlinking a file keeps the types of what describes the directory.       *)
(***************************************************************************)
LEMMA TypeUnlink ==
    ASSUME DirTypeOK, NEW f \in File, Unlink(f)
    PROVE  /\ disk' \subseteq File
           /\ size' \in [File -> 0..MaxSegment]
           /\ readable' \subseteq disk'
BY SizeAssumption DEF DirTypeOK, Unlink

(***************************************************************************)
(* A fault stays within the budget.                                        *)
(***************************************************************************)
LEMMA TypeFault ==
    ASSUME DirTypeOK, NEW kind, Fault(kind)
    PROVE  faults' \in 0..MaxFaults
BY FaultAssumption DEF DirTypeOK, Fault

(***************************************************************************)
(* An action that leaves the clock and the segmenter alone keeps the type  *)
(* of the directory when it unlinks a file or nothing, and spends a fault  *)
(* or none.                                                                *)
(***************************************************************************)
LEMMA TypeDirAfter ==
    ASSUME DirTypeOK,
           UNCHANGED <<now, last, writing, up>>,
           UNCHANGED <<disk, size, readable>> \/ \E f \in File : Unlink(f),
           UNCHANGED faults \/ \E kind : Fault(kind)
    PROVE  DirTypeOK'
<1>1. /\ disk' \subseteq File
      /\ size' \in [File -> 0..MaxSegment]
      /\ readable' \subseteq disk'
  BY TypeUnlink DEF DirTypeOK
<1>2. faults' \in 0..MaxFaults
  BY TypeFault DEF DirTypeOK
<1>. QED
  BY <1>1, <1>2 DEF DirTypeOK

(***************************************************************************)
(* A step that leaves the directory alone keeps its type.                  *)
(***************************************************************************)
LEMMA TypeDirSame == DirTypeOK /\ UNCHANGED dirVars => DirTypeOK'
BY DEF DirTypeOK, dirVars

(***************************************************************************)
(* A failed statement, read-only or not, leaves the worker at its next     *)
(* tick.                                                                   *)
(***************************************************************************)
LEMMA TypeFailedWrite == IndexerTypeOK /\ (ReadOnlyError \/ WriteError) => IndexerTypeOK'
BY SizeAssumption DEF IndexerTypeOK, IndexerPCs, NoFile, ReadOnlyError, WriteError,
    CloseDB, EndTick, EndTickInto, EmptyTable, NoSizes

(***************************************************************************)
(* A failed statement touches nothing of the directory.                    *)
(***************************************************************************)
LEMMA TypeDirFailedWrite ==
    DirTypeOK /\ (ReadOnlyError \/ WriteError)
    /\ UNCHANGED <<now, disk, size, readable, last, writing, up>> => DirTypeOK'
BY TypeDirAfter DEF ReadOnlyError, WriteError

(***************************************************************************)
(* The actions that find, index and drop segments.                         *)
(***************************************************************************)
LEMMA TypeIndexing ==
    ASSUME DirTypeOK, IndexerTypeOK,
           \/ Tick \/ ListDir \/ Discard \/ Insert \/ InsertReadOnly \/ IndexingDone
           \/ \E f \in File : Probe(f) \/ Missing(f) \/ MissingFails(f)
           \/ MissingDone
    PROVE  DirTypeOK' /\ IndexerTypeOK'
<1> USE DEF IndexerTypeOK, IndexerPCs, NoFile, tableVars, Goto, NoSizes
<1>1. CASE Tick
  BY <1>1, TypeDirSame DEF Tick, Live
<1>2. CASE ListDir
  BY <1>2, TypeDirSame, SizeAssumption DEF ListDir, DirTypeOK
<1>3. CASE Discard
  <2>1. file \in File
    BY <1>3 DEF Discard
  <2>2. IndexerTypeOK'
    BY <1>3 DEF Discard
  <2>3. DirTypeOK'
    BY <1>3, <2>1, TypeDirAfter DEF Discard, RemoveFails
  <2>. QED
    BY <2>2, <2>3
<1>4. CASE Insert
  <2>1. file \in File
    BY <1>4 DEF Insert
  <2>2. IndexerTypeOK'
    BY <1>4, <2>1 DEF Insert
  <2>3. DirTypeOK'
    BY <1>4, TypeDirAfter DEF Insert
  <2>. QED
    BY <2>2, <2>3
<1>5. CASE InsertReadOnly
  BY <1>5, TypeFailedWrite, TypeDirFailedWrite DEF InsertReadOnly
<1>6. CASE IndexingDone
  BY <1>6, TypeDirSame, SizeAssumption DEF IndexingDone
<1>7. ASSUME NEW f \in File, Probe(f)
      PROVE  DirTypeOK' /\ IndexerTypeOK'
  <2>1. IndexerTypeOK'
    BY <1>7, TimeAssumption DEF Probe, File
  <2>2. DirTypeOK'
    BY <1>7, TypeDirAfter DEF Probe
  <2>. QED
    BY <2>1, <2>2
<1>8. ASSUME NEW f \in File, Missing(f)
      PROVE  DirTypeOK' /\ IndexerTypeOK'
  BY <1>8, TypeDirSame, SizeAssumption DEF Missing, DeleteRow
<1>9. ASSUME NEW f \in File, MissingFails(f)
      PROVE  DirTypeOK' /\ IndexerTypeOK'
  BY <1>9, TypeFailedWrite, TypeDirFailedWrite DEF MissingFails, FailedWrite
<1>10. CASE MissingDone
  BY <1>10, TypeDirSame DEF MissingDone
<1>. QED
  BY <1>1, <1>2, <1>3, <1>4, <1>5, <1>6, <1>7, <1>8, <1>9, <1>10

(***************************************************************************)
(* The actions that mark and delete.                                       *)
(***************************************************************************)
LEMMA TypeCleanup ==
    ASSUME DirTypeOK, IndexerTypeOK,
           \/ CleanupDB \/ MarkFails \/ MarkDone \/ CleanupFiles
           \/ DeleteRecord \/ DeleteRecordFails \/ ReadFails \/ RefreshDone
           \/ \E f \in File : Mark(f) \/ Remove(f)
    PROVE  DirTypeOK' /\ IndexerTypeOK'
<1> USE DEF IndexerTypeOK, IndexerPCs, NoFile, tableVars, Goto, NoSizes
<1>1. CASE CleanupDB
  BY <1>1, TypeDirSame DEF CleanupDB, FilesToMark, Live
<1>2. CASE MarkFails
  BY <1>2, TypeFailedWrite, TypeDirFailedWrite DEF MarkFails, FailedWrite
<1>3. CASE MarkDone
  BY <1>3, TypeDirSame DEF MarkDone
<1>4. CASE CleanupFiles
  BY <1>4, TypeDirSame DEF CleanupFiles, SoftDeleted, Marked
<1>5. CASE DeleteRecord
  BY <1>5, TypeDirSame, SizeAssumption DEF DeleteRecord, DeleteRow
<1>6. CASE DeleteRecordFails
  BY <1>6, TypeFailedWrite, TypeDirFailedWrite DEF DeleteRecordFails, FailedWrite
<1>7. CASE RefreshDone
  BY <1>7, TypeDirSame, SizeAssumption DEF RefreshDone, EndTick, EndTickInto
<1>8. ASSUME NEW f \in File, Mark(f)
      PROVE  DirTypeOK' /\ IndexerTypeOK'
  BY <1>8, TypeDirSame DEF Mark
<1>9. ASSUME NEW f \in File, Remove(f)
      PROVE  DirTypeOK' /\ IndexerTypeOK'
  <2>1. IndexerTypeOK'
    <3>1. CASE RemoveFails(f) /\ EndTick /\ UNCHANGED <<db, tableVars>>
      BY <3>1, SizeAssumption DEF EndTick, EndTickInto
    <3>2. CASE /\ Goto("deleteRecord")
               /\ file' = f
               /\ todo' = todo \ {f}
               /\ UNCHANGED <<indexed, listed>>
      BY <3>2, TimeAssumption DEF File
    <3>. QED
      BY <1>9, <3>1, <3>2 DEF Remove
  <2>2. DirTypeOK'
    BY <1>9, TypeDirAfter DEF Remove, RemoveFails
  <2>. QED
    BY <2>1, <2>2
<1>10. CASE ReadFails
  <2>1. IndexerTypeOK'
    BY <1>10, SizeAssumption DEF ReadFails, EndTick, EndTickInto
  <2>2. DirTypeOK'
    BY <1>10, TypeDirAfter DEF ReadFails
  <2>. QED
    BY <2>1, <2>2
<1>. QED
  BY <1>1, <1>2, <1>3, <1>4, <1>5, <1>6, <1>7, <1>8, <1>9, <1>10

(***************************************************************************)
(* Every action of the indexer.                                            *)
(***************************************************************************)
LEMMA TypeIndexer ==
    TypeOK /\ IndexerNext /\ UNCHANGED fbVars => TypeOK'
BY TypeIndexing, TypeCleanup DEF TypeOK, IndexerNext, FallbackTypeOK, fbVars

(***************************************************************************)
(* The fallback deleter.                                                   *)
(***************************************************************************)
LEMMA TypeFallback ==
    TypeOK /\ FallbackNext /\ UNCHANGED ixVars => TypeOK'
<1> SUFFICES ASSUME TypeOK, FallbackNext, UNCHANGED ixVars
             PROVE  TypeOK'
  OBVIOUS
<1> USE DEF TypeOK, FallbackTypeOK
<1>1. IndexerTypeOK'
  BY DEF IndexerTypeOK, ixVars
<1>2. CASE FallbackMeasure
  BY <1>1, <1>2, TypeDirSame, DirectorySizeType DEF FallbackMeasure
<1>3. CASE FallbackList
  BY <1>1, <1>3, TypeDirSame DEF FallbackList, DirTypeOK
<1>4. CASE FallbackDone
  BY <1>1, <1>4, TypeDirSame DEF FallbackDone, FallbackDown
<1>5. CASE FallbackListFails
  <2>1. FallbackTypeOK'
    BY <1>5 DEF FallbackListFails, FallbackDown
  <2>2. DirTypeOK'
    BY <1>5, TypeDirAfter DEF FallbackListFails, DirTypeOK
  <2>. QED
    BY <1>1, <2>1, <2>2
<1>6. ASSUME NEW f \in File, FallbackStat(f)
      PROVE  TypeOK'
  <2>1. FallbackTypeOK'
    BY <1>6, SizeAssumption DEF FallbackStat, DirTypeOK
  <2>. QED
    BY <1>1, <1>6, <2>1, TypeDirSame DEF FallbackStat
<1>7. ASSUME NEW f \in File, FallbackRemove(f)
      PROVE  TypeOK'
  <2>1. FallbackTypeOK'
    BY <1>7 DEF FallbackRemove
  <2>2. DirTypeOK'
    BY <1>7, TypeDirAfter DEF FallbackRemove
  <2>. QED
    BY <1>1, <2>1, <2>2
<1>. QED
  BY <1>2, <1>3, <1>4, <1>5, <1>6, <1>7 DEF FallbackNext

(***************************************************************************)
(* Crashes, restarts and the loss of the database.                         *)
(***************************************************************************)
LEMMA TypeRestart ==
    TypeOK /\ (Crash \/ Close \/ Start \/ (DeleteDBFile /\ UNCHANGED fbVars)) => TypeOK'
<1> SUFFICES ASSUME TypeOK, Crash \/ Close \/ Start \/ (DeleteDBFile /\ UNCHANGED fbVars)
             PROVE  TypeOK'
  OBVIOUS
<1> USE SizeAssumption DEF TypeOK, IndexerTypeOK, IndexerPCs, NoFile, EmptyTable, NoSizes,
        FallbackTypeOK, FallbackDown, IndexerStops, CloseDB, EndTickInto, IndexerStart,
        tableVars, fbVars
<1>1. CASE Crash
  <2>1. IndexerTypeOK' /\ FallbackTypeOK'
    BY <1>1 DEF Crash
  <2>2. DirTypeOK'
    BY <1>1, TypeFault DEF Crash, DirTypeOK
  <2>. QED
    BY <2>1, <2>2
<1>2. CASE Close
  <2>1. IndexerTypeOK' /\ FallbackTypeOK'
    BY <1>2 DEF Close
  <2>2. DirTypeOK'
    BY <1>2, TypeFault DEF Close, DirTypeOK
  <2>. QED
    BY <2>1, <2>2
<1>3. CASE Start
  <2>1. IndexerTypeOK' /\ FallbackTypeOK'
    BY <1>3 DEF Start
  <2>2. DirTypeOK'
    BY <1>3 DEF Start, DirTypeOK
  <2>. QED
    BY <2>1, <2>2
<1>4. CASE DeleteDBFile /\ UNCHANGED fbVars
  <2>1. IndexerTypeOK' /\ FallbackTypeOK'
    BY <1>4 DEF DeleteDBFile
  <2>2. DirTypeOK'
    BY <1>4, TypeFault DEF DeleteDBFile, DirTypeOK
  <2>. QED
    BY <2>1, <2>2
<1>. QED
  BY <1>1, <1>2, <1>3, <1>4

(***************************************************************************)
(* Every step of the system, the stuttering one included.                  *)
(***************************************************************************)
LEMMA TypeStep == TypeOK /\ [Next]_vars => TypeOK'
<1>1. TypeOK /\ UNCHANGED vars => TypeOK'
  BY TypeDirSame
     DEF vars, ixVars, fbVars, TypeOK, IndexerTypeOK, FallbackTypeOK
<1>. QED
  BY <1>1, TypeDir, TypeIndexer, TypeFallback, TypeRestart DEF Next

(***************************************************************************)
(* The variables keep their types; in particular the file the indexer      *)
(* works on is a file whenever it is about to touch it.                    *)
(***************************************************************************)
THEOREM TypeCorrect == Spec => []TypeOK
BY TypeInit, TypeStep, PTL DEF Spec
=============================================================================
