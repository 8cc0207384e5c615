---------------------------- MODULE MatchStorage ----------------------------
(***************************************************************************)
(* MatchStorageToRange (videostore/utils/utils.go): the segments of the    *)
(* storage a clip [from, to) is cut from, and where each is trimmed.  The  *)
(* files are sorted by start; a file that cannot be opened (unfinished, or *)
(* deleted since the directory was read) has readable = FALSE.             *)
(* ConcatWithFormat calls ValidateTimeRange first.                         *)
(***************************************************************************)
EXTENDS Integers, Sequences, FiniteSetsExt

EndOf(f) == f.start + f.duration

ValidTimeRange(files, from) == files # <<>> /\ from >= files[1].start

After(files, t) == {i \in DOMAIN files : files[i].start > t}

(***************************************************************************)
(* Mutant: the first file after the start instead of the one before it.    *)
(***************************************************************************)
FirstIndex_Late(files, from) ==
    IF After(files, from) = {} THEN Len(files) ELSE Min(After(files, from))

(***************************************************************************)
(* The file the request starts in, and the last one it can end in.  Where  *)
(* two overlap the request starts in the later one.                        *)
(***************************************************************************)
FirstIndex(files, from) ==
    IF After(files, from) = {} THEN Len(files) ELSE Min(After(files, from)) - 1

LastIndex_Short(files, to) ==   \* mutant: the end of the slice is one too low
    IF After(files, to) = {} THEN Len(files) - 1 ELSE Min(After(files, to)) - 2

LastIndex(files, to) ==
    IF After(files, to) = {} THEN Len(files) ELSE Min(After(files, to)) - 1

Intersects(f, from, to) == f.readable /\ f.start < to /\ EndOf(f) > from

(***************************************************************************)
(* The matched files: those that intersect the request and agree with the  *)
(* first of them (cacheFirstVid) on width, height and codec.               *)
(***************************************************************************)
Matched(files, from, to) ==
    LET found == {i \in FirstIndex(files, from)..LastIndex(files, to) :
                     Intersects(files[i], from, to)}
    IN  {i \in found : files[i].params = files[Min(found)].params}

Outpoint_Untrimmed(f, to) == f.duration   \* mutant: the outpoint is forgotten

Inpoint(f, from) == IF f.start < from THEN from - f.start ELSE 0
Outpoint(f, to)  == IF EndOf(f) > to THEN to - f.start ELSE f.duration

(***************************************************************************)
(* The entries of the concat file, by the index of their segment.          *)
(***************************************************************************)
Clip(files, from, to) ==
    IF ~ValidTimeRange(files, from) THEN <<>>
    ELSE [i \in Matched(files, from, to) |->
             [inpoint  |-> Inpoint(files[i], from),
              outpoint |-> Outpoint(files[i], to)]]
=============================================================================
