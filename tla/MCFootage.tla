------------------------------ MODULE MCFootage ------------------------------
(***************************************************************************)
(* The two pure algorithms over every short history of one segmenter:      *)
(* segments are recorded one after the other, the gap between two being    *)
(* anything from a second of overlap (file names are whole seconds) to an  *)
(* outage, and a clip is requested at any moment.  No two segments have    *)
(* the same name, and both algorithms see them in the order of their names.*)
(***************************************************************************)
EXTENDS VideoRanges, MatchStorage

CONSTANTS
    MaxFiles,    \* bound: segments in a history
    MaxOverlap,  \* bound: how far two segments overlap
    MaxGap,      \* bound: the gap between them
    Durations,   \* durations of a segment
    Params       \* width, height and codec, together

ASSUME FootageAssumption ==
    MaxFiles \in Nat /\ MaxOverlap \in Nat /\ MaxGap \in Nat /\ Durations \subseteq Nat \ {0}

VARIABLES files, from, to

vars == <<files, from, to>>

Horizon == IF files = <<>> THEN 0 ELSE EndOf(Last(files)) + 1

Init == files = <<>> /\ from = 0 /\ to = 0

Record ==
    /\ Len(files) < MaxFiles
    /\ \E gap \in -MaxOverlap..MaxGap, d \in Durations, p \in Params, r \in BOOLEAN :
          /\ files # <<>> => Last(files).start < EndOf(Last(files)) + gap
          /\ files' = Append(files,
                 [start |-> IF files = <<>> THEN 1 ELSE EndOf(Last(files)) + gap,
                  duration |-> d, params |-> p, readable |-> r])
    /\ from' = 0 /\ to' = 0

(***************************************************************************)
(* FetchRequest.Validate: from is not after to.                            *)
(***************************************************************************)
Request ==
    /\ from = 0 /\ to = 0
    /\ from' \in 0..Horizon
    /\ to' \in from'..Horizon
    /\ UNCHANGED files

Answered == <<from, to>> # <<0, 0>> /\ from' = 0 /\ to' = 0 /\ UNCHANGED files

Next == Record \/ Request \/ Answered

Spec == Init /\ [][Next]_vars

-----------------------------------------------------------------------------
(***************************************************************************)
(* get-storage-state reports exactly the contiguous blocks of video, in    *)
(* order, whatever the gaps and overlaps between segments, as long as no   *)
(* segment is shorter than the longest overlap (RangesAreAllBlocks).       *)
(***************************************************************************)
RangesAreBlocks ==
    /\ ToSet(Ranges(files)) = Blocks(files)
    /\ \A i \in 2..Len(Ranges(files)) : Ranges(files)[i].start > Ranges(files)[i - 1].end

Covers(f, t) == f.start <= t /\ t < EndOf(f)

(***************************************************************************)
(* The clip has the instant t of segment i.                                *)
(***************************************************************************)
Shows(i, t) ==
    LET clip == Clip(files, from, to)
    IN  /\ i \in DOMAIN clip
        /\ clip[i].inpoint <= t - files[i].start
        /\ t - files[i].start < clip[i].outpoint

(***************************************************************************)
(* The segments a clip is cut from: those the request touches, but one     *)
(* that the next segment had taken over from when the request starts.  (If *)
(* the two overlap it may go on for a second; the code takes segments not  *)
(* to overlap.)                                                            *)
(***************************************************************************)
Current ==
    {i \in DOMAIN files : /\ Intersects(files[i], from, to)
                          /\ \A j \in DOMAIN files : j > i => files[j].start > from}

(***************************************************************************)
(* A clip misses nothing of the segments it is cut from: each instant of   *)
(* the request that one of them holds is in the clip, if that segment can  *)
(* be opened and has the format of the earliest of them.                   *)
(***************************************************************************)
ClipHasAllFootage ==
    ValidTimeRange(files, from) =>
       \A t \in from..(to - 1), i \in Current :
          Covers(files[i], t) /\ files[i].params = files[Min(Current)].params => Shows(i, t)

(***************************************************************************)
(* A clip misses no moment: when every segment can be opened and all are   *)
(* of one format, each instant of the request that some segment holds is   *)
(* in the clip, out of that segment or a later one that overlaps it, as    *)
(* long as no segment is shorter than the longest overlap.                 *)
(***************************************************************************)
NoMomentMissed ==
    ValidTimeRange(files, from) /\ (\A i \in DOMAIN files :
                                       files[i].readable /\ files[i].params = files[1].params) =>
       \A t \in from..(to - 1) :
          (\E i \in DOMAIN files : Covers(files[i], t)) => \E i \in DOMAIN files : Shows(i, t)

NoOverlap == \A i \in 2..Len(files) : EndOf(files[i - 1]) <= files[i].start

(***************************************************************************)
(* A clip holds nothing else: every piece lies inside its segment and the  *)
(* request, and the pieces do not overlap if the segments do not.  (The    *)
(* list file has these points with two decimals; that is left out.)        *)
(***************************************************************************)
ClipWithinRequest ==
    LET clip == Clip(files, from, to)
    IN  \A i \in DOMAIN clip :
          /\ 0 <= clip[i].inpoint
          /\ from < to => clip[i].inpoint < clip[i].outpoint
          /\ clip[i].outpoint <= files[i].duration
          /\ files[i].start + clip[i].inpoint >= from
          /\ files[i].start + clip[i].outpoint <= to
          /\ NoOverlap => \A j \in DOMAIN clip : i < j =>
                files[i].start + clip[i].outpoint <= files[j].start + clip[j].inpoint
=============================================================================
