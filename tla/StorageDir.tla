----------------------------- MODULE StorageDir -----------------------------
(***************************************************************************)
(* The storage directory of a video store: the segment files on the disk,  *)
(* the segmenter that writes them and the process both live in.  The       *)
(* indexer (Indexer) and the fallback deleter (FallbackDeleter) work on    *)
(* this directory concurrently and share no lock for it.                   *)
(*                                                                         *)
(* A segment is named by the second it was opened ("<unix seconds>.mp4"),  *)
(* so a file IS its start time; time advances in units of one segment.     *)
(***************************************************************************)
EXTENDS Integers, FiniteSets

CONSTANTS
    MaxTime,      \* bound: the last instant of the model
    MaxSegment,   \* bound: the largest size of a segment
    SizeGB,       \* config.Storage.SizeGB
    Gigabyte,     \* bytes in a gigabyte, in the model's unit of size
    Overhead,     \* bytes of everything else below the storage path
    FaultKinds,   \* the faults the environment may inject
    MaxFaults     \* bound: how many of them in one behaviour

ASSUME TimeAssumption     == MaxTime \in Nat
ASSUME SizeAssumption     == /\ MaxSegment \in Nat
                             /\ SizeGB \in Nat
                             /\ Gigabyte \in Nat
                             /\ Overhead \in Nat
ASSUME FaultAssumption    == /\ MaxFaults \in Nat
                             /\ FaultKinds \subseteq {"crash", "close", "remove", "read", "insert",
                                    "dbwrite", "dbdelete", "probe", "stall", "clip", "store"}

VARIABLES
    now,       \* the wall clock
    disk,      \* the segments on the disk
    size,      \* their sizes; 0 for a file that is not there
    readable,  \* the segments with a trailer: GetVideoInfo can open them
    last,      \* the segment opened last, 0 before the first
    writing,   \* the segmenter has the segment "last" open
    up,        \* the video store process is running
    faults     \* faults injected so far

dirVars == <<now, disk, size, readable, last, writing, up, faults>>

File == 1..MaxTime

Oldest(f, S) == f \in S /\ \A g \in S : f <= g
Newest(f, S) == f \in S /\ \A g \in S : g <= f

(***************************************************************************)
(* The bytes the files of S occupy when f is sz[f] bytes long, counted one *)
(* by one, and what a walk of the whole storage path adds up to.           *)
(***************************************************************************)
Bytes(S, sz) == Cardinality({p \in S \X (1..MaxSegment) : p[2] <= sz[p[1]]})

GetDirectorySize == Overhead + Bytes(disk, size)

MaxStorage == SizeGB * Gigabyte

(***************************************************************************)
(* One unit of the fault budget is spent on a fault of the given kind.     *)
(***************************************************************************)
Fault(kind) ==
    /\ kind \in FaultKinds
    /\ faults < MaxFaults
    /\ faults' = faults + 1

DirTypeOK ==
    /\ now \in 0..MaxTime
    /\ disk \subseteq File
    /\ size \in [File -> 0..MaxSegment]
    /\ readable \subseteq disk
    /\ last \in 0..now
    /\ writing \in BOOLEAN
    /\ up \in BOOLEAN
    /\ faults \in 0..MaxFaults

DirInit ==
    /\ now = 0
    /\ disk = {}
    /\ size = [f \in File |-> 0]
    /\ readable = {}
    /\ last = 0
    /\ writing = FALSE
    /\ up = TRUE
    /\ faults = 0

-----------------------------------------------------------------------------
(***************************************************************************)
(* Mutant: the bookkeeping of an unlinked file is not cleared.             *)
(***************************************************************************)
Unlink_Partial(f) ==
    /\ disk' = disk \ {f}
    /\ UNCHANGED <<readable, size>>

(***************************************************************************)
(* The directory after a file is unlinked.  A segment that is unlinked     *)
(* while the segmenter has it open stays gone when it is finished.         *)
(***************************************************************************)
Unlink(f) ==
    /\ disk' = disk \ {f}
    /\ readable' = readable \ {f}
    /\ size' = [size EXCEPT ![f] = 0]

(***************************************************************************)
(* The segment muxer opens a file named by the current second, writes      *)
(* packets into it and closes it with a trailer, which is what makes an    *)
(* mp4 that holds a packet readable.  It opens at most one file a second.  *)
(***************************************************************************)
OpenSegment ==
    /\ up /\ ~writing
    /\ now > last
    /\ disk' = disk \cup {now}
    /\ last' = now
    /\ writing' = TRUE
    /\ UNCHANGED <<now, size, readable, up, faults>>

WritePacket ==
    /\ writing
    /\ last \in disk
    /\ size[last] < MaxSegment
    /\ size' = [size EXCEPT ![last] = @ + 1]
    /\ UNCHANGED <<now, disk, readable, last, writing, up, faults>>

FinishSegment ==
    /\ writing
    /\ writing' = FALSE
    /\ readable' = readable \cup {f \in disk : f = last /\ size[f] > 0}
    /\ UNCHANGED <<now, disk, size, last, up, faults>>

(***************************************************************************)
(* Time passes.  A segment is open for one unit at most unless the source  *)
(* stalls: the muxer rotates on the timestamp of a packet that arrives.    *)
(***************************************************************************)
Advance ==
    /\ now < MaxTime
    /\ now' = now + 1
    /\ \/ /\ writing => now = last
          /\ UNCHANGED faults
       \/ /\ writing /\ now > last
          /\ Fault("stall")
    /\ UNCHANGED <<disk, size, readable, last, writing, up>>

DirNext == OpenSegment \/ WritePacket \/ FinishSegment \/ Advance
=============================================================================
