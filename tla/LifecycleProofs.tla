--------------------------- MODULE LifecycleProofs ---------------------------
(***************************************************************************)
(* Storage implements Retention: what happens to each segment, read off    *)
(* the directory and the table, is one of the steps Retention allows.      *)
(*                                                                         *)
(* The deletions of the fallback deleter, which knows nothing of the       *)
(* index, are none of them: the theorem is about behaviours in which it    *)
(* finds nothing to delete.                                                *)
(***************************************************************************)
EXTENDS RetentionProofs

-----------------------------------------------------------------------------
(***************************************************************************)
(* What the steps of a segment rest on.  A row is that of a file that can  *)
(* be opened, for as long as there is one.  While the worker marks, what   *)
(* it has left are the live rows from the oldest on.  A row that is being  *)
(* deleted is that of a file that is gone.                                 *)
(***************************************************************************)
RowsOpened == (Live \cup Marked) \cap disk \subseteq readable

Condemning == pc = "mark" => \A f \in todo : f \in Live /\ \A g \in Live : g < f => g \in todo

Unlinked == pc = "deleteRecord" => file \notin disk

NothingTaken == taken = {}   \* the fallback deleter has deleted nothing

LifeInv == DiscardInv /\ RowsOpened /\ Condemning /\ Unlinked

-----------------------------------------------------------------------------
(***************************************************************************)
(* The stage of a segment depends on nothing but its file and its row.     *)
(***************************************************************************)
Untouched(f) ==
    /\ f \in disk' <=> f \in disk
    /\ f \in disk => /\ rows'[f] = rows[f]
                     /\ rows[f] = "none" => (f \in readable' <=> f \in readable)

LEMMA StageOf ==
    ASSUME NEW f \in File
    PROVE  /\ f \notin disk => Life[f] = "gone"
           /\ f \in disk /\ rows[f] = "live" => Life[f] = "listed"
           /\ f \in disk /\ rows[f] = "marked" => Life[f] = "condemned"
           /\ f \in disk /\ rows[f] \notin {"live", "marked"} /\ f \in readable => Life[f] = "complete"
           /\ f \in disk /\ rows[f] \notin {"live", "marked"} /\ f \notin readable => Life[f] = "recording"
BY DEF Life, Live, Marked

LEMMA StageOfNext ==
    ASSUME NEW f \in File
    PROVE  /\ f \notin disk' => Life'[f] = "gone"
           /\ f \in disk' /\ rows'[f] = "live" => Life'[f] = "listed"
           /\ f \in disk' /\ rows'[f] = "marked" => Life'[f] = "condemned"
           /\ f \in disk' /\ rows'[f] \notin {"live", "marked"} /\ f \in readable' => Life'[f] = "complete"
           /\ f \in disk' /\ rows'[f] \notin {"live", "marked"} /\ f \notin readable' => Life'[f] = "recording"
BY DEF Life, Live, Marked

LEMMA SameStage ==
    ASSUME NEW f \in File, Untouched(f), rows[f] \in {"none", "live", "marked"}
    PROVE  Life'[f] = Life[f]
BY StageOf, StageOfNext DEF Untouched

LEMMA SameLife ==
    ASSUME TypeOK, \A f \in File : Untouched(f)
    PROVE  Life' = Life
<1>1. \A f \in File : Life'[f] = Life[f]
  BY SameStage DEF TypeOK, IndexerTypeOK
<1>. QED
  BY <1>1 DEF Life

(***************************************************************************)
(* One segment goes from a stage to another, and no other does.            *)
(***************************************************************************)
LEMMA OneMoves ==
    ASSUME TypeOK, NEW f \in File, NEW from, NEW to,
           Life[f] = from, Life'[f] = to,
           \A g \in File \ {f} : Untouched(g)
    PROVE  Retained!Moves(f, from, to)
<1>1. \A g \in File \ {f} : Life'[g] = Life[g]
  BY SameStage DEF TypeOK, IndexerTypeOK
<1>2. /\ Life = [g \in File |-> Life[g]]
      /\ Life' = [g \in File |-> Life'[g]]
  BY DEF Life
<1>3. Life' = [Life EXCEPT ![f] = to]
  BY <1>1, <1>2
<1>. QED
  BY <1>3 DEF Retained!Moves

(***************************************************************************)
(* The table is lost: every segment that had a row can be opened, and has  *)
(* none now.                                                               *)
(***************************************************************************)
LEMMA TableLost ==
    ASSUME TypeOK, RowsOpened, rows' = EmptyTable, UNCHANGED <<disk, readable, last>>
    PROVE  Retained!Forget
<1>1. \A f \in File : Life'[f] = IF Life[f] \in {"listed", "condemned"} THEN "complete" ELSE Life[f]
  BY DEF Life, RowsOpened, Live, Marked, EmptyTable, TypeOK, IndexerTypeOK
<1>2. Life' = [f \in File |-> Life'[f]]
  BY DEF Life
<1>. QED
  BY <1>1, <1>2 DEF Retained!Forget

-----------------------------------------------------------------------------
(***************************************************************************)
(* LifeInv is inductive as long as the fallback deleter takes nothing.     *)
(***************************************************************************)
LEMMA LifeInit == Init => LifeInv
<1>1. Init => OldWhenDiscarded
  BY DEF Init, DirInit, IndexerInit, OldWhenDiscarded
<1>2. Init => RowsOpened /\ Condemning /\ Unlinked
  BY DEF Init, DirInit, IndexerInit, RowsOpened, Condemning, Unlinked, Live, Marked, EmptyTable
<1>. QED
  BY <1>1, <1>2, TypeInit, CatalogueInit, RecordedInit DEF LifeInv, DiscardInv, CatalogueInv

(***************************************************************************)
(* A step that gives rows to no file that is neither opened nor marked     *)
(* keeps RowsOpened, if it takes readability only from what it unlinks.    *)
(***************************************************************************)
LEMMA RowsKept ==
    ASSUME RowsOpened,
           \A f \in (Live' \cup Marked') \cap disk' :
              f \in disk /\ (f \in Live \cup Marked \cup readable),
           readable \cap disk' \subseteq readable'
    PROVE  RowsOpened'
BY DEF RowsOpened

LEMMA DirKeepsLife ==
    ASSUME LifeInv, DirNext, UNCHANGED <<ixVars, fbVars>>
    PROVE  RowsOpened' /\ Condemning' /\ Unlinked'
<1>1. /\ readable \subseteq readable'
      /\ disk' \subseteq disk \cup {now} /\ (disk' # disk => now > last)
      /\ now \in Int /\ last \in Int
  BY TimeAssumption DEF DirNext, OpenSegment, WritePacket, FinishSegment, Advance, LifeInv,
     DiscardInv, CatalogueInv, TypeOK, DirTypeOK
<1>2. UNCHANGED <<rows, pc, todo, file>> /\ Live' = Live /\ Marked' = Marked
  BY DEF ixVars, Live, Marked
<1>3. \A f \in Live \cup Marked \cup {file} : f <= last /\ f \in Int
  <2>1. \A f \in Live \cup Marked \cup {file} : f <= last
    BY DEF LifeInv, DiscardInv, Recorded
  <2>2. Live \subseteq Int /\ Marked \subseteq Int
    BY TimeAssumption DEF Live, Marked, File
  <2>3. file \in Int
    BY TimeAssumption DEF LifeInv, DiscardInv, CatalogueInv, TypeOK, IndexerTypeOK, File, NoFile
  <2>. QED
    BY <2>1, <2>2, <2>3
<1>4. \A f \in Live \cup Marked \cup {file} : f \in disk' => f \in disk
  BY <1>1, <1>3
<1>5. RowsOpened'
  BY <1>1, <1>2, <1>4, RowsKept DEF LifeInv, RowsOpened
<1>6. Condemning' /\ Unlinked'
  BY <1>2, <1>4 DEF LifeInv, Condemning, Unlinked
<1>. QED
  BY <1>5, <1>6

(***************************************************************************)
(* Losing the table, and going to a point where nothing is in hand.        *)
(***************************************************************************)
LEMMA StopsKeepLife ==
    ASSUME RowsOpened, pc' \in {"tick", "down"}, rows' = rows \/ rows' = EmptyTable,
           UNCHANGED <<disk, readable>>
    PROVE  RowsOpened' /\ Condemning' /\ Unlinked'
BY DEF RowsOpened, Condemning, Unlinked, Live, Marked, EmptyTable

LEMMA IndexingKeepsLife ==
    ASSUME LifeInv, taken = {},
           \/ Tick \/ ListDir \/ Discard \/ Insert \/ InsertReadOnly \/ IndexingDone
           \/ \E f \in File : Probe(f) \/ Missing(f) \/ MissingFails(f)
           \/ MissingDone
    PROVE  RowsOpened' /\ Condemning' /\ Unlinked'
<1>1. CASE InsertReadOnly \/ \E f \in File : MissingFails(f)
  BY <1>1, StopsKeepLife DEF LifeInv, InsertReadOnly, MissingFails, FailedWrite, ReadOnlyError,
     WriteError, CloseDB, EndTick, EndTickInto
<1>2. CASE Insert
  <2>1. file \in readable /\ file \in disk /\ UNCHANGED <<disk, readable>> /\ pc' = "probe"
    BY <1>2 DEF Insert, LifeInv, DiscardInv, CatalogueInv, InHand, TypeOK, DirTypeOK
  <2>2. Live' \cup Marked' \subseteq Live \cup Marked \cup {file}
    BY <1>2 DEF Insert, tableVars, Live, Marked, LifeInv, DiscardInv, CatalogueInv, TypeOK, IndexerTypeOK
  <2>. QED
    BY <2>1, <2>2, RowsKept DEF LifeInv, Condemning, Unlinked
<1>3. CASE \E f \in File : Missing(f)
  <2>1. UNCHANGED <<disk, readable>> /\ pc' = "missing"
    BY <1>3 DEF Missing, dirVars
  <2>2. Live' \cup Marked' \subseteq Live \cup Marked
    BY <1>3 DEF Missing, DeleteRow, tableVars, Live, Marked, LifeInv, DiscardInv, CatalogueInv, TypeOK, IndexerTypeOK
  <2>. QED
    BY <2>1, <2>2, RowsKept DEF LifeInv, Condemning, Unlinked, RowsOpened
<1>4. CASE Tick \/ ListDir \/ Discard \/ IndexingDone \/ MissingDone \/ \E f \in File : Probe(f)
  <2>1. /\ rows' = rows /\ pc' \notin {"mark", "deleteRecord"}
        /\ disk' \subseteq disk /\ readable \cap disk' \subseteq readable'
    BY <1>4 DEF Tick, ListDir, Discard, IndexingDone, MissingDone, Probe, Goto, Unlink, dirVars, tableVars
  <2>2. Live' = Live /\ Marked' = Marked
    BY <2>1 DEF Live, Marked
  <2>. QED
    BY <2>1, <2>2, RowsKept DEF LifeInv, Condemning, Unlinked, RowsOpened
<1>. QED
  BY <1>1, <1>2, <1>3, <1>4

LEMMA CleanupKeepsLife ==
    ASSUME LifeInv, taken = {},
           \/ CleanupDB \/ MarkFails \/ MarkDone \/ CleanupFiles
           \/ DeleteRecord \/ DeleteRecordFails \/ ReadFails \/ RefreshDone
           \/ \E f \in File : Mark(f) \/ Remove(f)
    PROVE  RowsOpened' /\ Condemning' /\ Unlinked'
<1>1. CASE \/ MarkFails \/ DeleteRecordFails \/ ReadFails \/ RefreshDone
           \/ \E f \in File : Remove(f) /\ EndTick /\ UNCHANGED <<tableVars, disk, readable>>
  BY <1>1, StopsKeepLife DEF LifeInv, MarkFails, DeleteRecordFails, ReadFails, RefreshDone, FailedWrite,
     ReadOnlyError, WriteError, CloseDB, EndTick, EndTickInto, dirVars, tableVars
<1>2. CASE CleanupDB \/ MarkDone \/ CleanupFiles
  <2>1. UNCHANGED <<rows, disk, readable>> /\ Live' = Live /\ Marked' = Marked /\ pc' # "deleteRecord"
    BY <1>2 DEF CleanupDB, MarkDone, CleanupFiles, Goto, dirVars, Live, Marked
  <2>2. Condemning'
    <3>1. CASE pc' = "mark"
      <4>1. PICK excess \in Int : todo' = FilesToMark(excess)
        <5>1. GetDirectorySize - MaxStorage \in Int
          BY DirectorySizeType, SizeAssumption DEF LifeInv, DiscardInv, CatalogueInv, MaxStorage
        <5>. QED
          BY <1>2, <3>1, <5>1 DEF CleanupDB, MarkDone, CleanupFiles, Goto
      <4>2. \A f \in todo' : f \in Live /\ \A g \in Live : g < f => g \in todo'
        <5>1. todo' \subseteq Live
          BY <4>1 DEF FilesToMark
        <5>. QED
          BY <4>1, <5>1, MarksFromTheOldest
      <4>. QED
        BY <2>1, <4>2 DEF Condemning
    <3>. QED
      BY <3>1 DEF Condemning
  <2>. QED
    BY <2>1, <2>2, RowsKept DEF LifeInv, Unlinked, RowsOpened
<1>3. CASE \E f \in File : Mark(f)
  <2>1. PICK f \in File : Mark(f)
    BY <1>3
  <2>2. f \in Live /\ f \in todo /\ todo' = todo \ {f} /\ pc' = "mark" /\ UNCHANGED <<disk, readable>>
    BY <2>1 DEF Mark, Oldest, LifeInv, Condemning, dirVars
  <2>3. Live' = Live \ {f} /\ Marked' = Marked \cup {f}
    BY <2>1 DEF Mark, Live, Marked, LifeInv, DiscardInv, CatalogueInv, TypeOK, IndexerTypeOK
  <2>4. Condemning'
    BY <2>1, <2>2, <2>3 DEF Mark, Condemning, LifeInv
  <2>. QED
    BY <2>2, <2>3, <2>4, RowsKept DEF LifeInv, Unlinked, RowsOpened
<1>4. CASE DeleteRecord
  <2>1. UNCHANGED <<disk, readable>> /\ pc' = "remove"
    BY <1>4 DEF DeleteRecord, dirVars
  <2>2. Live' \cup Marked' \subseteq Live \cup Marked
    BY <1>4 DEF DeleteRecord, DeleteRow, Live, Marked, LifeInv, DiscardInv, CatalogueInv, TypeOK, IndexerTypeOK
  <2>. QED
    BY <2>1, <2>2, RowsKept DEF LifeInv, Condemning, Unlinked, RowsOpened
<1>5. ASSUME NEW f \in File, Remove(f), Unlink(f), Goto("deleteRecord"), file' = f
      PROVE  RowsOpened' /\ Condemning' /\ Unlinked'
  <2>1. Live' = Live /\ Marked' = Marked /\ pc' = "deleteRecord"
    BY <1>5 DEF Goto, Live, Marked
  <2>2. disk' = disk \ {f} /\ readable' = readable \ {f}
    BY <1>5 DEF Unlink
  <2>. QED
    BY <1>5, <2>1, <2>2, RowsKept DEF LifeInv, Condemning, Unlinked, RowsOpened
<1>. QED
  BY <1>1, <1>2, <1>3, <1>4, <1>5 DEF Remove

LEMMA LifeStep ==
    ASSUME {"probe", "stall"} \cap FaultKinds = {}, Grace > 1
    PROVE  LifeInv /\ taken = {} /\ taken' = {} /\ [Next]_vars => LifeInv'
<1> SUFFICES ASSUME LifeInv, taken = {}, taken' = {}, [Next]_vars
             PROVE  RowsOpened' /\ Condemning' /\ Unlinked'
  BY DiscardStep DEF LifeInv
<1>1. CASE IndexerNext
  BY <1>1, IndexingKeepsLife, CleanupKeepsLife DEF IndexerNext
<1>2. CASE DirNext /\ UNCHANGED <<ixVars, fbVars>>
  BY <1>2, DirKeepsLife
<1>3. CASE UNCHANGED vars \/ Start
  <2>1. UNCHANGED <<rows, disk, readable, todo, file>> /\ (pc' = pc \/ pc' = "tick")
    BY <1>3 DEF vars, dirVars, ixVars, Start, IndexerStart, tableVars
  <2>. QED
    BY <2>1 DEF LifeInv, RowsOpened, Condemning, Unlinked, Live, Marked
<1>4. CASE FallbackNext /\ UNCHANGED ixVars
  <2>1. UNCHANGED <<disk, readable, rows, pc, todo, file>>
    BY <1>4 DEF FallbackNext, FallbackMeasure, FallbackList, FallbackDone,
                FallbackListFails, FallbackStat, FallbackRemove, dirVars, ixVars
  <2>. QED
    BY <2>1 DEF LifeInv, RowsOpened, Condemning, Unlinked, Live, Marked
<1>5. CASE Crash \/ Close
  BY <1>5, StopsKeepLife DEF LifeInv, Crash, Close, IndexerStops, CloseDB, EndTickInto
<1>6. CASE DeleteDBFile
  <2>1. /\ UNCHANGED <<disk, readable, pc, todo, file>>
        /\ rows' = rows \/ (rows' = EmptyTable /\ db = "closed")
    BY <1>6 DEF DeleteDBFile, tableVars
  <2>2. CASE rows' = rows
    BY <2>1, <2>2 DEF LifeInv, RowsOpened, Condemning, Unlinked, Live, Marked
  <2>3. CASE rows' = EmptyTable /\ db = "closed"
    <3>1. pc' \in {"tick", "down"}
      BY <2>1, <2>3 DEF LifeInv, DiscardInv, CatalogueInv, InHand
    <3>. QED
      BY <2>1, <2>3, <3>1, StopsKeepLife DEF LifeInv
  <2>. QED
    BY <2>1, <2>2, <2>3
<1>. QED
  BY <1>1, <1>2, <1>3, <1>4, <1>5, <1>6 DEF Next

-----------------------------------------------------------------------------
(***************************************************************************)
(* Each step of the directory is one of Retention, or none at all.         *)
(***************************************************************************)
LEMMA DirRefines ==
    ASSUME LifeInv, DirNext, UNCHANGED <<ixVars, fbVars>>
    PROVE  [Retained!Next]_(Retained!abstractVars)
<1> USE DEF LifeInv, DiscardInv, CatalogueInv
<1>1. TypeOK /\ rows' = rows
  BY DEF ixVars
<1>2. CASE OpenSegment
  <2>1. now \in Int /\ now > last /\ disk' = disk \cup {now} /\ last' = now /\ readable' = readable
    BY <1>2, TimeAssumption DEF OpenSegment, TypeOK, DirTypeOK
  <2>2. now \in File
    BY <2>1, TimeAssumption DEF TypeOK, DirTypeOK, File
  <2>3. last \in Int /\ now \notin disk \cup Live \cup Marked
    BY <2>1, TimeAssumption DEF Recorded, TypeOK, DirTypeOK
  <2>4. now \notin readable /\ rows[now] = "none"
    BY <2>2, <2>3 DEF TypeOK, DirTypeOK, IndexerTypeOK, Live, Marked
  <2>5. Life[now] = "gone" /\ Life'[now] = "recording"
    BY <1>1, <2>1, <2>2, <2>3, <2>4, StageOf, StageOfNext
  <2>6. \A g \in File \ {now} : Untouched(g)
    BY <1>1, <2>1 DEF Untouched
  <2>7. Retained!Record(now)
    BY <1>1, <2>1, <2>2, <2>5, <2>6, OneMoves DEF Retained!Record
  <2>. QED
    BY <2>2, <2>7 DEF Retained!Next
<1>3. CASE FinishSegment
  <2>1. /\ disk' = disk /\ last' = last
        /\ readable' = readable \cup {f \in disk : f = last /\ size[f] > 0}
    BY <1>3 DEF FinishSegment
  <2>2. CASE last \in disk /\ rows[last] = "none" /\ last \notin readable /\ last \in readable'
    <3>1. last \in File
      BY <2>2 DEF TypeOK, DirTypeOK
    <3>2. Life[last] = "recording" /\ Life'[last] = "complete"
      BY <1>1, <2>1, <2>2, <3>1, StageOf, StageOfNext
    <3>3. \A g \in File \ {last} : Untouched(g)
      BY <1>1, <2>1 DEF Untouched
    <3>4. Retained!Complete(last)
      BY <1>1, <2>1, <3>1, <3>2, <3>3, OneMoves DEF Retained!Complete
    <3>. QED
      BY <3>1, <3>4 DEF Retained!Next
  <2>3. CASE ~(last \in disk /\ rows[last] = "none" /\ last \notin readable /\ last \in readable')
    <3>1. \A g \in File : Untouched(g)
      BY <1>1, <2>1, <2>3 DEF Untouched
    <3>. QED
      BY <1>1, <2>1, <3>1, SameLife DEF Retained!abstractVars
  <2>. QED
    BY <2>2, <2>3
<1>4. CASE WritePacket \/ Advance
  <2>1. UNCHANGED <<disk, readable, last>>
    BY <1>4 DEF WritePacket, Advance
  <2>2. \A g \in File : Untouched(g)
    BY <1>1, <2>1 DEF Untouched
  <2>. QED
    BY <1>1, <2>1, <2>2, SameLife DEF Retained!abstractVars
<1>. QED
  BY <1>2, <1>3, <1>4 DEF DirNext

(***************************************************************************)
(* A step that leaves the directory alone, and every row but those of      *)
(* files that are gone.                                                    *)
(***************************************************************************)
LEMMA NothingHappens ==
    ASSUME TypeOK, UNCHANGED <<disk, readable, last>>,
           \A f \in disk : rows'[f] = rows[f]
    PROVE  [Retained!Next]_(Retained!abstractVars)
<1>1. \A f \in File : Untouched(f)
  BY DEF Untouched
<1>. QED
  BY <1>1, SameLife DEF Retained!abstractVars

(***************************************************************************)
(* A step that ends in losing the table, or only the tick.                 *)
(***************************************************************************)
LEMMA LosesTable ==
    ASSUME TypeOK, RowsOpened, UNCHANGED <<disk, readable, last>>,
           rows' = EmptyTable \/ rows' = rows
    PROVE  [Retained!Next]_(Retained!abstractVars)
<1>1. CASE rows' = EmptyTable
  BY <1>1, TableLost DEF Retained!Next
<1>2. CASE rows' = rows
  BY <1>2, NothingHappens
<1>. QED
  BY <1>1, <1>2

(***************************************************************************)
(* The steps of the indexer that move a segment from a stage to the next.  *)
(***************************************************************************)
LEMMA InsertLists ==
    ASSUME LifeInv, taken = {}, Insert
    PROVE  [Retained!Next]_(Retained!abstractVars)
<1> USE DEF LifeInv, DiscardInv, CatalogueInv
<1>1. file \in readable /\ file \in disk /\ file \in File /\ UNCHANGED <<disk, readable, last>>
  BY DEF Insert, InHand, TypeOK, DirTypeOK
<1>2. CASE rows' = rows
  BY <1>1, <1>2, NothingHappens
<1>3. CASE rows[file] = "none" /\ rows' = [rows EXCEPT ![file] = "live"]
  <2>1. Life[file] = "complete" /\ Life'[file] = "listed"
    BY <1>1, <1>3, StageOf, StageOfNext DEF TypeOK, IndexerTypeOK
  <2>2. \A g \in File \ {file} : Untouched(g)
    BY <1>1, <1>3 DEF Untouched, TypeOK, IndexerTypeOK
  <2>3. Retained!List(file)
    BY <1>1, <2>1, <2>2, OneMoves DEF Retained!List
  <2>. QED
    BY <1>1, <2>3 DEF Retained!Next
<1>. QED
  BY <1>2, <1>3 DEF Insert, Conflict, tableVars

LEMMA MarkCondemns ==
    ASSUME LifeInv, NEW f \in File, Mark(f)
    PROVE  [Retained!Next]_(Retained!abstractVars)
<1> USE DEF LifeInv, DiscardInv, CatalogueInv
<1>1. /\ UNCHANGED <<disk, readable, last>> /\ rows' = [rows EXCEPT ![f] = "marked"]
      /\ f \in todo /\ \A g \in todo : f <= g
  BY DEF Mark, Oldest, dirVars
<1>2. f \in Live /\ \A g \in Live : f <= g
  <2>1. f \in Live /\ \A g \in Live : g < f => g \in todo
    BY <1>1 DEF Mark, Condemning
  <2>2. \A g \in Live : g \in Int /\ f \in Int
    BY TimeAssumption DEF Live, File
  <2>. QED
    BY <1>1, <2>1, <2>2
<1>3. CASE f \notin disk
  BY <1>1, <1>3, NothingHappens DEF TypeOK, IndexerTypeOK
<1>4. CASE f \in disk
  <2>1. Life[f] = "listed" /\ Life'[f] = "condemned"
    BY <1>1, <1>2, <1>4, StageOf, StageOfNext DEF Live, TypeOK, IndexerTypeOK
  <2>2. \A g \in Retained!In("listed") : f <= g
    <3>1. \A g \in File : Life[g] = "listed" => g \in Live
      BY StageOf DEF TypeOK, IndexerTypeOK, Live
    <3>. QED
      BY <1>2, <3>1 DEF Retained!In
  <2>3. \A g \in File \ {f} : Untouched(g)
    BY <1>1 DEF Untouched, TypeOK, IndexerTypeOK
  <2>4. Retained!Condemn(f)
    BY <1>1, <2>1, <2>2, <2>3, OneMoves DEF Retained!Condemn
  <2>. QED
    BY <2>4 DEF Retained!Next
<1>. QED
  BY <1>3, <1>4

(***************************************************************************)
(* A file is unlinked: one that is marked, or could not be opened.         *)
(***************************************************************************)
LEMMA UnlinkDeletes ==
    ASSUME LifeInv, NEW f \in File, Unlink(f), UNCHANGED <<rows, last>>,
           f \in Marked \/ f \notin readable
    PROVE  [Retained!Next]_(Retained!abstractVars)
<1> USE DEF LifeInv, DiscardInv, CatalogueInv
<1>1. disk' = disk \ {f} /\ readable' = readable \ {f}
  BY DEF Unlink
<1>2. \A g \in File \ {f} : Untouched(g)
  BY <1>1 DEF Untouched
<1>3. CASE f \notin disk
  <2>1. \A g \in File : Untouched(g)
    BY <1>1, <1>2, <1>3 DEF Untouched
  <2>. QED
    BY <2>1, SameLife DEF Retained!abstractVars
<1>4. CASE f \in disk /\ f \in Marked
  <2>1. Life[f] = "condemned" /\ Life'[f] = "gone"
    BY <1>1, <1>4, StageOf, StageOfNext DEF Marked
  <2>2. Retained!Delete(f)
    BY <1>2, <2>1, OneMoves DEF Retained!Delete
  <2>. QED
    BY <2>2 DEF Retained!Next
<1>5. CASE f \in disk /\ f \notin readable
  <2>1. rows[f] = "none"
    BY <1>5 DEF RowsOpened, Live, Marked, TypeOK, IndexerTypeOK
  <2>2. Life[f] = "recording" /\ Life'[f] = "gone"
    BY <1>1, <1>5, <2>1, StageOf, StageOfNext
  <2>3. Retained!Discard(f)
    BY <1>2, <2>2, OneMoves DEF Retained!Discard
  <2>. QED
    BY <2>3 DEF Retained!Next
<1>. QED
  BY <1>3, <1>4, <1>5

LEMMA IndexerRefines ==
    ASSUME LifeInv, taken = {}, IndexerNext
    PROVE  [Retained!Next]_(Retained!abstractVars)
<1> USE DEF LifeInv, DiscardInv, CatalogueInv
<1>1. CASE Insert
  BY <1>1, InsertLists
<1>2. ASSUME NEW f \in File, Mark(f)
      PROVE  [Retained!Next]_(Retained!abstractVars)
  BY <1>2, MarkCondemns
<1>3. CASE Discard
  <2>1. file \in File /\ file \notin readable /\ UNCHANGED <<rows, last>>
    BY <1>3 DEF Discard, Goto, OldWhenDiscarded, TypeOK, IndexerTypeOK
  <2>2. CASE Unlink(file)
    BY <2>1, <2>2, UnlinkDeletes
  <2>3. CASE UNCHANGED <<disk, size, readable>>
    BY <2>1, <2>3, NothingHappens
  <2>. QED
    BY <1>3, <2>2, <2>3 DEF Discard
<1>4. ASSUME NEW f \in File, Remove(f)
      PROVE  [Retained!Next]_(Retained!abstractVars)
  <2>1. f \in Marked /\ UNCHANGED <<rows, last>>
    BY <1>4 DEF Remove, Goto, InHand, tableVars
  <2>2. CASE Unlink(f)
    BY <2>1, <2>2, UnlinkDeletes
  <2>3. CASE UNCHANGED <<disk, size, readable>>
    BY <2>1, <2>3, NothingHappens
  <2>. QED
    BY <1>4, <2>2, <2>3 DEF Remove
<1>5. CASE \/ DeleteRecord
           \/ \E f \in File : Missing(f)
  <2>1. UNCHANGED <<disk, readable, last>> /\ \A f \in disk : rows'[f] = rows[f]
    BY <1>5 DEF DeleteRecord, Missing, DeleteRow, tableVars, dirVars, Unlinked, TypeOK, DirTypeOK,
       IndexerTypeOK
  <2>. QED
    BY <2>1, NothingHappens
<1>6. CASE \/ InsertReadOnly \/ MarkFails \/ DeleteRecordFails \/ ReadFails
           \/ \E f \in File : MissingFails(f)
  <2>1. UNCHANGED <<disk, readable, last>> /\ (rows' = EmptyTable \/ rows' = rows)
    BY <1>6 DEF InsertReadOnly, MarkFails, DeleteRecordFails, ReadFails, MissingFails, FailedWrite,
       ReadOnlyError, WriteError, CloseDB
  <2>. QED
    BY <2>1, LosesTable
<1>7. CASE \/ Tick \/ ListDir \/ IndexingDone \/ MissingDone \/ CleanupDB \/ MarkDone
           \/ CleanupFiles \/ RefreshDone \/ \E f \in File : Probe(f)
  <2>1. UNCHANGED <<disk, readable, last, rows>>
    BY <1>7 DEF Tick, ListDir, IndexingDone, MissingDone, CleanupDB, MarkDone, CleanupFiles,
       RefreshDone, Probe, Goto, dirVars, tableVars
  <2>. QED
    BY <2>1, NothingHappens
<1>. QED
  BY <1>1, <1>2, <1>3, <1>4, <1>5, <1>6, <1>7 DEF IndexerNext

LEMMA StepRefines ==
    ASSUME LifeInv, taken = {}, taken' = {}, [Next]_vars
    PROVE  [Retained!Next]_(Retained!abstractVars)
<1> USE DEF LifeInv, DiscardInv, CatalogueInv
<1>1. CASE IndexerNext
  BY <1>1, IndexerRefines
<1>2. CASE DirNext /\ UNCHANGED <<ixVars, fbVars>>
  BY <1>2, DirRefines
<1>3. CASE (FallbackNext /\ UNCHANGED ixVars) \/ Start \/ UNCHANGED vars
  <2>1. UNCHANGED <<disk, readable, last, rows>>
    BY <1>3 DEF FallbackNext, FallbackMeasure, FallbackList, FallbackDone,
                FallbackListFails, FallbackStat, FallbackRemove, Start,
       IndexerStart, vars, dirVars, ixVars, tableVars
  <2>. QED
    BY <2>1, NothingHappens
<1>4. CASE DeleteDBFile \/ Crash \/ Close
  <2>1. UNCHANGED <<disk, readable, last>> /\ (rows' = EmptyTable \/ rows' = rows)
    BY <1>4 DEF DeleteDBFile, Crash, Close, IndexerStops, CloseDB, tableVars
  <2>. QED
    BY <2>1, LosesTable
<1>. QED
  BY <1>1, <1>2, <1>3, <1>4 DEF Next

-----------------------------------------------------------------------------
(***************************************************************************)
(* The storage keeps the promise of Retention for every segment, as long   *)
(* as the fallback deleter finds nothing to delete: through crashes,       *)
(* restarts, failed statements and inserts, files that cannot be removed   *)
(* and the loss of the database.  The assumptions are those of the grace   *)
(* period, as for DeletesOnlyCondemnedOrCorrupt.                           *)
(***************************************************************************)
THEOREM StorageImplementsRetention ==
    ASSUME {"probe", "stall"} \cap FaultKinds = {}, Grace > 1
    PROVE  Spec /\ []NothingTaken => Lifecycle
<1>1. Init => Retained!Init
  BY DEF Init, DirInit, Retained!Init, Life
<1>2. LifeInv /\ NothingTaken /\ NothingTaken' /\ [Next]_vars => LifeInv'
  BY LifeStep DEF NothingTaken
<1>3. LifeInv /\ NothingTaken /\ NothingTaken' /\ [Next]_vars => [Retained!Next]_(Retained!abstractVars)
  BY StepRefines DEF NothingTaken
<1>. QED
  BY <1>1, <1>2, <1>3, LifeInit, PTL DEF Spec, Lifecycle, Retained!Spec

(***************************************************************************)
(* A store that runs no fallback deleter keeps it whatever happens.        *)
(***************************************************************************)
THEOREM RetentionWithoutFallback ==
    ASSUME {"probe", "stall"} \cap FaultKinds = {}, Grace > 1, ~WithFallback
    PROVE  Spec => Lifecycle
<1>1. Init => NothingTaken
  BY DEF Init, FallbackInit, NothingTaken
<1>2. NothingTaken /\ [Next]_vars => NothingTaken'
  BY DEF NothingTaken, Next, vars, fbVars, DeleteDBFile, Crash, Close, Start, FallbackDown
<1>3. Spec /\ []NothingTaken => Lifecycle
  BY StorageImplementsRetention
<1>. QED
  BY <1>1, <1>2, <1>3, PTL DEF Spec
=============================================================================
