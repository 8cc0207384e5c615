----------------------------- MODULE VideoRanges -----------------------------
(***************************************************************************)
(* getVideoRangesFromFiles (videostore/indexer/indexer.go): the rows of    *)
(* the index, oldest first, folded into the contiguous blocks of video     *)
(* that get-storage-state reports.                                         *)
(***************************************************************************)
EXTENDS Integers, Sequences, SequencesExt

CONSTANT Slop   \* slopDuration: the longest gap inside a block

ASSUME SlopAssumption == Slop \in Nat

FileEnd(f) == f.start + f.duration

RangeOf(f) == [start |-> f.start, end |-> FileEnd(f)]

(***************************************************************************)
(* Mutant: the slop is not added to the end of the previous range.         *)
(***************************************************************************)
NewBlock_NoSlop(prev, f) == f.start > prev.end

NewBlock(prev, f) == f.start > prev.end + Slop

AddFile(ranges, f) ==
    IF ranges = <<>> \/ NewBlock(Last(ranges), f)
    THEN Append(ranges, RangeOf(f))
    ELSE [ranges EXCEPT ![Len(ranges)].end = FileEnd(f)]

Ranges(files) == FoldLeft(AddFile, <<>>, files)

-----------------------------------------------------------------------------
(***************************************************************************)
(* What a block is: a maximal run of files i..j without a gap longer than  *)
(* the slop, from the start of the first to the latest end of any of them. *)
(***************************************************************************)
Gap(files, i) == i > 1 /\ files[i].start > FileEnd(files[i - 1]) + Slop

IsBlock(files, i, j) ==
    /\ i = 1 \/ Gap(files, i)
    /\ j = Len(files) \/ Gap(files, j + 1)
    /\ \A k \in (i + 1)..j : ~Gap(files, k)

Block(files, i, j) ==
    [start |-> files[i].start, end |-> Max({FileEnd(files[k]) : k \in i..j})]

Blocks(files) ==
    {Block(files, ij[1], ij[2]) : ij \in {ij \in (DOMAIN files) \X (DOMAIN files) :
        ij[1] <= ij[2] /\ IsBlock(files, ij[1], ij[2])}}
=============================================================================
