------------------------------- MODULE Storage -------------------------------
(***************************************************************************)
(* A running video store's storage: the segmenter, the indexer and the     *)
(* fallback deleter over one directory, with the crashes, restarts and     *)
(* failures they meet.                                                     *)
(***************************************************************************)
EXTENDS Indexer, FallbackDeleter

CONSTANT WithFallback   \* the store runs a fallback deleter (all but read-only ones)

ASSUME FallbackAssumption == WithFallback \in BOOLEAN

vars == <<dirVars, ixVars, fbVars>>

TypeOK == DirTypeOK /\ IndexerTypeOK /\ FallbackTypeOK

Init == DirInit /\ IndexerInit /\ FallbackInit

-----------------------------------------------------------------------------
(***************************************************************************)
(* The process dies: the open segment never gets its trailer.              *)
(***************************************************************************)
Crash ==
    /\ up \/ writing
    /\ Fault("crash")
    /\ up' = FALSE
    /\ writing' = FALSE
    /\ IndexerStops
    /\ FallbackDown("down")
    /\ UNCHANGED <<now, disk, size, readable, last>>

(***************************************************************************)
(* videostore.Close: the workers and the indexer stop; the segmenter then  *)
(* finishes the segment it has open, which FinishSegment does.             *)
(***************************************************************************)
Close ==
    /\ up
    /\ Fault("close")
    /\ up' = FALSE
    /\ IndexerStops
    /\ FallbackDown("down")
    /\ UNCHANGED <<now, disk, size, readable, last, writing>>

Start ==
    /\ ~up /\ ~writing
    /\ up' = TRUE
    /\ IndexerStart
    /\ FallbackDown("wait")
    /\ UNCHANGED <<now, disk, size, readable, last, writing, faults>>

Next ==
    \/ DirNext /\ UNCHANGED <<ixVars, fbVars>>
    \/ IndexerNext /\ UNCHANGED fbVars
    \/ WithFallback /\ FallbackNext /\ UNCHANGED ixVars
    \/ DeleteDBFile /\ UNCHANGED fbVars
    \/ Crash \/ Close \/ Start

Spec == Init /\ [][Next]_vars

-----------------------------------------------------------------------------
(***************************************************************************)
(* The goroutines are scheduled and the tickers fire; the process is       *)
(* restarted when it is down, after Close has finished the open segment.   *)
(* Nothing else is assumed of the segmenter.                               *)
(***************************************************************************)
Fairness ==
    /\ WF_vars(IndexerNext /\ UNCHANGED fbVars)
    /\ WF_vars(Start)
    /\ WF_vars(~up /\ FinishSegment /\ UNCHANGED <<ixVars, fbVars>>)

FairSpec == Spec /\ Fairness

-----------------------------------------------------------------------------
(***************************************************************************)
(* Every segment GetVideoList reports is on the disk with its trailer,     *)
(* whatever was interrupted or failed, unless the fallback deleter (which  *)
(* does not tell the index) took it.                                       *)
(***************************************************************************)
CatalogueSound == \A f \in Live : f \in readable \/ f \in taken

(***************************************************************************)
(* CatalogueSound made inductive: what the worker has in hand at each      *)
(* point.  A file about to be inserted could be opened, and no file about  *)
(* to be unlinked has a live row.                                          *)
(***************************************************************************)
InHand ==
    /\ pc \notin {"tick", "down"} => db # "closed"
    /\ pc = "list" => Live \subseteq indexed
    /\ pc \in {"probe", "discard", "insert"} => todo \cap Live = {}
    /\ pc \in {"discard", "insert"} => file \notin Live \cup todo
    /\ pc = "insert" => file \in readable \cup taken
    /\ pc \in {"remove", "deleteRecord"} => todo \subseteq Marked
    /\ pc = "deleteRecord" => file \in Marked \ todo

CatalogueInv == TypeOK /\ CatalogueSound /\ InHand

(***************************************************************************)
(* Retention goes by age: while a condemned segment is still on the disk,  *)
(* no older segment that could be opened has been left out.  It needs      *)
(* every tick to index all it finds before it marks, across crashes.       *)
(***************************************************************************)
OldestFirst ==
    \A f \in Marked \cap disk : \A g \in readable : g < f => g \in Marked

(***************************************************************************)
(* OldestFirst made inductive.  No name is ahead of the segment opened     *)
(* last, so one that becomes readable is the newest of all.  While the     *)
(* worker indexes, every readable segment older than one it has found is   *)
(* in the table or still to be visited; when it marks, in the table.       *)
(***************************************************************************)
Recorded ==
    /\ \A f \in disk \cup todo \cup indexed \cup Live \cup Marked : f <= last
    /\ file <= last

InOrder(S, known) == \A f \in S : \A g \in readable : g < f => g \in known

InFlight == IF pc = "insert" THEN todo \cup {file} ELSE todo

ByAge ==
    /\ pc = "list" => indexed \subseteq Live
    /\ pc \in {"probe", "discard", "insert"} =>
          InOrder(Live \cup InFlight, Live \cup Marked \cup InFlight)
    /\ pc \in {"missing", "cleanupDB", "mark"} => InOrder(Live, Live \cup Marked)
    /\ pc = "mark" => \A f \in todo : f \in Live /\ \A g \in Live : g < f => g \in todo
    /\ pc = "deleteRecord" => file \notin disk

AgeInv == CatalogueInv /\ Recorded /\ ByAge /\ OldestFirst

(***************************************************************************)
(* The indexer unlinks a segment only when it was condemned, or cannot be  *)
(* opened and is not the one being written.                                *)
(***************************************************************************)
OnlyCondemnedOrCorrupt ==
    [][\A f \in disk \ disk' :
          \/ rows[f] = "marked"
          \/ f \notin readable /\ ~(writing /\ f = last)
          \/ f \in taken']_vars

(***************************************************************************)
(* OnlyCondemnedOrCorrupt rests on this: an open segment is at most one    *)
(* unit old, and what is about to be discarded is not open.                *)
(***************************************************************************)
OldWhenDiscarded ==
    /\ writing => now <= last + 1
    /\ pc = "discard" => file \notin readable /\ ~(writing /\ file = last)

DiscardInv == CatalogueInv /\ Recorded /\ OldWhenDiscarded

(***************************************************************************)
(* The stages a segment goes through, read off the directory and the       *)
(* table; see Retention.                                                   *)
(***************************************************************************)
Life ==
    [f \in File |->
        CASE f \notin disk           -> "gone"
          [] f \in disk \cap Live    -> "listed"
          [] f \in disk \cap Marked  -> "condemned"
          [] OTHER -> IF f \in readable THEN "complete" ELSE "recording"]

Retained == INSTANCE Retention WITH Segment <- File, life <- Life, latest <- last

(***************************************************************************)
(* The storage keeps the promise of Retention, through crashes, restarts,  *)
(* files that cannot be removed and the loss of the database.              *)
(***************************************************************************)
Lifecycle == Retained!Spec

(***************************************************************************)
(* Every segment that can be opened is indexed in the end, unless it is    *)
(* deleted first.                                                          *)
(***************************************************************************)
EventuallyIndexed ==
    \A f \in File : f \in readable ~> rows[f] # "none" \/ f \notin disk

(***************************************************************************)
(* A storage at its limit gets below it again, unless what fills it is     *)
(* not in the index.                                                       *)
(***************************************************************************)
EventuallyReclaimed ==
    GetDirectorySize >= MaxStorage ~> \/ GetDirectorySize < MaxStorage
                                      \/ readable = {}

(***************************************************************************)
(* A segment condemned is deleted in the end: a mark survives failures and *)
(* restarts, or is forgotten with the database.                            *)
(***************************************************************************)
EventuallyDeleted ==
    \A f \in File : rows[f] = "marked" ~> rows[f] # "marked"

-----------------------------------------------------------------------------
(***************************************************************************)
(* What the README and the comments say, and the code does not keep.       *)
(***************************************************************************)

(***************************************************************************)
(* README.md: "the oldest clips get deleted until the storage size is      *)
(* below the configured max".  With segments of one size, no segment is    *)
(* then unlinked while the storage is below it.  A mark that is carried    *)
(* over a restart does not count for cleanupDB, which marks as much again. *)
(***************************************************************************)
DeletesOnlyUntilBelowMax ==
    [][\A f \in Marked \cap disk : f \notin disk' => GetDirectorySize >= MaxStorage]_vars

(***************************************************************************)
(* README.md: storage_used_gb is "the amount of disk space currently used  *)
(* by the video store", the sum of size_bytes over the live rows; so each  *)
(* of them is the size of its file.                                        *)
(***************************************************************************)
ListedSizesExact == \A f \in Live \cap disk : rowSize[f] = size[f]

(***************************************************************************)
(* indexer.go: the grace period is there "to avoid deleting files that are *)
(* actively being written".                                                *)
(***************************************************************************)
ActiveSegmentSafe ==
    [][writing /\ last \in disk => last \in disk']_vars

(***************************************************************************)
(* videostore.go: the multiplier is there "to avoid clashing with the      *)
(* indexer so it only runs when the indexer is in a bad state".            *)
(***************************************************************************)
NoClashWithIndexer ==
    ~(fbTodo # {} /\ pc \in {"mark", "remove", "deleteRecord"} /\ Marked # {})
=============================================================================
