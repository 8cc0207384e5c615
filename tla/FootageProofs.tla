---------------------------- MODULE FootageProofs ----------------------------
(***************************************************************************)
(* Theorems about the ranges of get-storage-state and the matching of a    *)
(* clip, for every history of one segmenter: any number of segments of any *)
(* durations and formats, any gaps and overlaps, and every request.        *)
(***************************************************************************)
EXTENDS MCFootage, WellFoundedInduction, TLAPS

(***************************************************************************)
(* A set of natural numbers that is not empty has a least member.          *)
(***************************************************************************)
LEMMA LeastMember ==
    ASSUME NEW S, S \subseteq Nat, S # {}
    PROVE  Min(S) \in S /\ \A y \in S : Min(S) <= y
<1> DEFINE R == OpToRel(<, Nat)
<1>1. IsWellFoundedOn(R, Nat)
  BY NatLessThanWellFounded
<1>2. R = {ss \in Nat \X Nat : ss[1] < ss[2]}
  BY DEF OpToRel
<1> HIDE DEF R
<1>3. \E n \in S : \A m \in S : <<m, n>> \notin R
  BY <1>1, WFMin
<1>4. \A m, n \in Nat : <<m, n>> \notin R => n <= m
  BY <1>2
<1>5. \E n \in S : \A m \in S : n <= m
  BY <1>3, <1>4
<1>. QED
  BY <1>5 DEF Min

-----------------------------------------------------------------------------
(***************************************************************************)
(* What a history is: in order, and segments none of which overlaps the    *)
(* next are apart from each other.                                         *)
(***************************************************************************)
Segment == [start : Int, duration : Durations, params : Params, readable : BOOLEAN]

Sorted(fs) == \A i, j \in DOMAIN fs : i < j => fs[i].start < fs[j].start

Apart(fs) == \A i, j \in DOMAIN fs : i < j => EndOf(fs[i]) <= fs[j].start

HistoryInv ==
    /\ files \in Seq(Segment)
    /\ from \in Int /\ to \in Int
    /\ Sorted(files)
    /\ NoOverlap => Apart(files)

LEMMA SegmentType ==
    ASSUME NEW f \in Segment
    PROVE  f.start \in Int /\ f.duration \in Nat /\ f.duration > 0 /\ EndOf(f) \in Int
           /\ EndOf(f) = f.start + f.duration
<1>1. f.start \in Int /\ f.duration \in Durations
  BY DEF Segment
<1>2. f.duration \in Nat /\ f.duration > 0
  <2> DEFINE d == f.duration
  <2>1. d \in Durations
    BY <1>1
  <2> HIDE DEF d
  <2>2. d \in Nat \ {0}
    BY <2>1, FootageAssumption
  <2>3. d \in Nat /\ d > 0
    BY <2>2
  <2>. QED
    BY <2>3 DEF d
<1>. QED
  BY <1>1, <1>2 DEF EndOf

LEMMA InitHistory == Init => HistoryInv
BY DEF Init, HistoryInv, Sorted, Apart

(***************************************************************************)
(* A segment is added to a history.                                        *)
(***************************************************************************)
LEMMA RecordHistory ==
    ASSUME HistoryInv, Record
    PROVE  HistoryInv'
<1> DEFINE n == Len(files)
<1>1. PICK f : /\ f \in Segment /\ files' = Append(files, f)
               /\ files # <<>> => Last(files).start < f.start
  <2>1. PICK gap \in -MaxOverlap..MaxGap, d \in Durations, p \in Params, r \in BOOLEAN :
          /\ files # <<>> => Last(files).start < EndOf(Last(files)) + gap
          /\ files' = Append(files,
                 [start |-> IF files = <<>> THEN 1 ELSE EndOf(Last(files)) + gap,
                  duration |-> d, params |-> p, readable |-> r])
    BY DEF Record
  <2> DEFINE s == IF files = <<>> THEN 1 ELSE EndOf(Last(files)) + gap
  <2>2. s \in Int
    <3>1. files # <<>> => Last(files) \in Segment
      BY DEF HistoryInv, Last
    <3>2. gap \in Int
      BY FootageAssumption
    <3>. QED
      BY <3>1, <3>2, SegmentType
  <2> HIDE DEF s
  <2>3. [start |-> s, duration |-> d, params |-> p, readable |-> r] \in Segment
    BY <2>2 DEF Segment
  <2>4. files # <<>> => Last(files).start < s
    BY <2>1 DEF s
  <2>. QED
    BY <2>1, <2>3, <2>4 DEF s
<1>2. /\ files' \in Seq(Segment) /\ Len(files') = n + 1 /\ n \in Nat
      /\ \A i \in 1..n : files'[i] = files[i] /\ files[i] \in Segment
      /\ files'[n + 1] = f
  BY <1>1 DEF HistoryInv
<1>3. from' \in Int /\ to' \in Int
  BY DEF Record
<1>4. ASSUME NoOverlap' PROVE Apart(files')
  <2>1. \A i \in 2..(n + 1) : EndOf(files'[i - 1]) <= files'[i].start
    BY <1>2, <1>4 DEF NoOverlap
  <2>2. NoOverlap
    <3>1. ASSUME NEW i \in 2..n PROVE EndOf(files[i - 1]) <= files[i].start
      <4>1. i \in 2..(n + 1) /\ files'[i] = files[i] /\ files'[i - 1] = files[i - 1]
        BY <1>2
      <4>. QED
        BY <2>1, <4>1
    <3>. QED
      BY <3>1 DEF NoOverlap
  <2>3. \A i, j \in 1..n : i < j => EndOf(files[i]) <= files[j].start
    BY <1>2, <2>2 DEF HistoryInv, Apart
  <2>4. ASSUME NEW i \in 1..n PROVE EndOf(files[i]) <= f.start
    <3>1. EndOf(files[n]) <= f.start
      <4>1. n + 1 \in 2..(n + 1) /\ (n + 1) - 1 = n /\ n \in 1..n
        BY <1>2
      <4>. QED
        BY <1>2, <2>1, <4>1
    <3>2. CASE i = n
      BY <3>1, <3>2
    <3>3. CASE i # n
      <4>1. EndOf(files[i]) <= files[n].start
        BY <1>2, <2>3, <3>3
      <4>2. files[n].start <= EndOf(files[n]) /\ files[n].start \in Int /\ EndOf(files[n]) \in Int
            /\ EndOf(files[i]) \in Int /\ f.start \in Int
        BY <1>1, <1>2, SegmentType
      <4>. QED
        BY <3>1, <4>1, <4>2
    <3>. QED
      BY <3>2, <3>3
  <2>5. ASSUME NEW i \in 1..(n + 1), NEW j \in 1..(n + 1), i < j
        PROVE  EndOf(files'[i]) <= files'[j].start
    <3>1. i \in 1..n /\ (j \in 1..n \/ j = n + 1)
      BY <1>2, <2>5
    <3>. QED
      BY <1>2, <2>3, <2>4, <2>5, <3>1
  <2>. QED
    BY <1>2, <2>5 DEF Apart
<1>5. Sorted(files')
  <2>1. ASSUME NEW i \in 1..n PROVE files[i].start < f.start
    <3>1. files # <<>> /\ n \in 1..n /\ Last(files) = files[n]
      BY <1>2 DEF Last
    <3>2. i = n \/ files[i].start < files[n].start
      BY <1>2, <3>1 DEF HistoryInv, Sorted
    <3>3. files[i].start \in Int /\ files[n].start \in Int /\ f.start \in Int
      BY <1>1, <1>2, <3>1, SegmentType
    <3>. QED
      BY <1>1, <3>1, <3>2, <3>3
  <2>2. ASSUME NEW i \in 1..(n + 1), NEW j \in 1..(n + 1), i < j
        PROVE  files'[i].start < files'[j].start
    <3>1. i \in 1..n /\ (j \in 1..n \/ j = n + 1)
      BY <1>2, <2>2
    <3>. QED
      BY <1>2, <2>1, <2>2, <3>1 DEF HistoryInv, Sorted
  <2>. QED
    BY <1>2, <2>2 DEF Sorted
<1>. QED
  BY <1>2, <1>3, <1>4, <1>5 DEF HistoryInv

LEMMA NextHistory == HistoryInv /\ [Next]_vars => HistoryInv'
<1> SUFFICES ASSUME HistoryInv, [Next]_vars PROVE HistoryInv'
  OBVIOUS
<1>1. CASE Record
  BY <1>1, RecordHistory
<1>2. CASE Request \/ Answered \/ UNCHANGED vars
  <2>1. files' = files
    BY <1>2 DEF Request, Answered, vars
  <2>2. from' \in Int /\ to' \in Int
    BY <1>2 DEF Request, Answered, vars, HistoryInv
  <2>. QED
    BY <2>1, <2>2 DEF HistoryInv, NoOverlap
<1>. QED
  BY <1>1, <1>2 DEF Next

LEMMA AlwaysHistory == Spec => []HistoryInv
BY InitHistory, NextHistory, PTL DEF Spec

-----------------------------------------------------------------------------
(***************************************************************************)
(* The index both searches come to: that of the last segment not after t,  *)
(* if the history begins before t.                                         *)
(***************************************************************************)
LastNotAfter(fs, t) == IF After(fs, t) = {} THEN Len(fs) ELSE Min(After(fs, t)) - 1

LEMMA SearchResult ==
    ASSUME NEW fs \in Seq(Segment), NEW t \in Int
    PROVE  /\ LastNotAfter(fs, t) \in Int /\ LastNotAfter(fs, t) <= Len(fs)
           /\ \A i \in DOMAIN fs : i <= LastNotAfter(fs, t) => fs[i].start <= t
           /\ LastNotAfter(fs, t) < Len(fs) =>
                 /\ LastNotAfter(fs, t) + 1 \in DOMAIN fs
                 /\ fs[LastNotAfter(fs, t) + 1].start > t
           /\ fs # <<>> /\ fs[1].start <= t => LastNotAfter(fs, t) >= 1
<1> DEFINE S == After(fs, t)
           k == LastNotAfter(fs, t)
<1>1. Len(fs) \in Nat /\ DOMAIN fs = 1..Len(fs) /\ \A i \in 1..Len(fs) : fs[i].start \in Int
  <2>1. \A i \in 1..Len(fs) : fs[i] \in Segment
    OBVIOUS
  <2>. QED
    BY <2>1, SegmentType
<1>2. S \subseteq Nat /\ \A i \in DOMAIN fs : i \in S <=> fs[i].start > t
  BY <1>1 DEF After
<1>3. CASE S = {}
  <2>1. k = Len(fs)
    BY <1>3 DEF LastNotAfter
  <2>2. fs # <<>> => Len(fs) >= 1
    BY <1>1
  <2>. QED
    BY <1>1, <1>2, <1>3, <2>1, <2>2
<1>4. CASE S # {}
  <2>1. k = Min(S) - 1 /\ Min(S) \in S /\ \A y \in S : Min(S) <= y
    BY <1>2, <1>4, LeastMember DEF LastNotAfter
  <2> DEFINE m == Min(S)
  <2>2. m \in 1..Len(fs) /\ fs[m].start > t
    BY <1>1, <1>2, <2>1 DEF After
  <2>3. \A i \in DOMAIN fs : i < m => fs[i].start <= t
    BY <1>1, <1>2, <2>1, <2>2
  <2> HIDE DEF m, k, S
  <2>4. k = m - 1
    BY <2>1 DEF m
  <2>5. fs[1].start <= t => m # 1
    BY <1>1, <2>2
  <2>. QED
    BY <1>1, <2>2, <2>3, <2>4, <2>5 DEF k
<1>. QED
  BY <1>3, <1>4

(***************************************************************************)
(* The matched segments are of the history, and intersect the request.     *)
(***************************************************************************)
LEMMA MatchedType ==
    ASSUME HistoryInv, ValidTimeRange(files, from), NEW i \in Matched(files, from, to)
    PROVE  /\ i \in DOMAIN files /\ files[i] \in Segment
           /\ Intersects(files[i], from, to)
<1>1. FirstIndex(files, from) = LastNotAfter(files, from)
      /\ LastIndex(files, to) = LastNotAfter(files, to)
  BY DEF FirstIndex, LastIndex, LastNotAfter
<1>2. /\ files \in Seq(Segment) /\ from \in Int /\ to \in Int
      /\ files # <<>> /\ files[1].start <= from
  <2>1. files # <<>> /\ files[1] \in Segment
    BY DEF HistoryInv, ValidTimeRange
  <2>2. files[1].start \in Int
    BY <2>1, SegmentType
  <2>. QED
    BY <2>1, <2>2 DEF HistoryInv, ValidTimeRange
<1>3. /\ LastNotAfter(files, from) \in Int /\ LastNotAfter(files, from) >= 1
      /\ LastNotAfter(files, to) \in Int /\ LastNotAfter(files, to) <= Len(files)
  BY <1>2, SearchResult
<1>4. i \in LastNotAfter(files, from)..LastNotAfter(files, to) /\ Intersects(files[i], from, to)
  BY <1>1 DEF Matched
<1>5. i \in 1..Len(files)
  BY <1>2, <1>3, <1>4
<1>. QED
  BY <1>2, <1>4, <1>5

(***************************************************************************)
(* Where a matched segment is trimmed.                                     *)
(***************************************************************************)
LEMMA Trimmed ==
    ASSUME NEW f \in Segment, NEW a \in Int, NEW b \in Int, Intersects(f, a, b)
    PROVE  /\ Inpoint(f, a) \in Int /\ Outpoint(f, b) \in Int
           /\ 0 <= Inpoint(f, a)
           /\ a < b => Inpoint(f, a) < Outpoint(f, b)
           /\ Outpoint(f, b) <= f.duration
           /\ f.start + Inpoint(f, a) >= a /\ f.start + Inpoint(f, a) >= f.start
           /\ f.start + Outpoint(f, b) <= b /\ f.start + Outpoint(f, b) <= EndOf(f)
           /\ \A t \in a..(b - 1) : Covers(f, t) =>
                 Inpoint(f, a) <= t - f.start /\ t - f.start < Outpoint(f, b)
BY SegmentType DEF Intersects, Inpoint, Outpoint, Covers

(***************************************************************************)
(* A clip holds nothing but the request: whatever the gaps, the overlaps,  *)
(* the formats and the segments that cannot be opened, each piece lies in  *)
(* its segment and in the request, and pieces of segments that do not      *)
(* overlap do not either.                                                  *)
(***************************************************************************)
THEOREM ClipsWithinRequests == Spec => []ClipWithinRequest
<1>1. HistoryInv => ClipWithinRequest
  <2> DEFINE clip == Clip(files, from, to)
  <2> SUFFICES ASSUME HistoryInv, NEW i \in DOMAIN clip
               PROVE  /\ 0 <= clip[i].inpoint
                      /\ from < to => clip[i].inpoint < clip[i].outpoint
                      /\ clip[i].outpoint <= files[i].duration
                      /\ files[i].start + clip[i].inpoint >= from
                      /\ files[i].start + clip[i].outpoint <= to
                      /\ NoOverlap => \A j \in DOMAIN clip : i < j =>
                            files[i].start + clip[i].outpoint <= files[j].start + clip[j].inpoint
    BY DEF ClipWithinRequest
  <2>1. ValidTimeRange(files, from)
    <3>1. DOMAIN <<>> = {}
      OBVIOUS
    <3>. QED
      BY <3>1 DEF Clip
  <2>2. \A j \in DOMAIN clip : /\ j \in Matched(files, from, to)
                               /\ clip[j].inpoint = Inpoint(files[j], from)
                               /\ clip[j].outpoint = Outpoint(files[j], to)
    BY <2>1 DEF Clip
  <2> HIDE DEF clip
  <2>3. \A j \in DOMAIN clip : /\ j \in DOMAIN files /\ files[j] \in Segment
                               /\ Intersects(files[j], from, to)
    BY <2>1, <2>2, MatchedType
  <2>4. from \in Int /\ to \in Int
    BY DEF HistoryInv
  <2>5. /\ 0 <= clip[i].inpoint
        /\ from < to => clip[i].inpoint < clip[i].outpoint
        /\ clip[i].outpoint <= files[i].duration
        /\ files[i].start + clip[i].inpoint >= from
        /\ files[i].start + clip[i].outpoint <= to
    BY <2>2, <2>3, <2>4, Trimmed
  <2>6. ASSUME NoOverlap, NEW j \in DOMAIN clip, i < j
        PROVE  files[i].start + clip[i].outpoint <= files[j].start + clip[j].inpoint
    <3>1. EndOf(files[i]) <= files[j].start
      BY <2>3, <2>6 DEF HistoryInv, Apart
    <3>2. files[i].start + clip[i].outpoint <= EndOf(files[i])
          /\ files[j].start <= files[j].start + clip[j].inpoint
      BY <2>2, <2>3, <2>4, Trimmed
    <3>3. /\ clip[i].outpoint \in Int /\ clip[j].inpoint \in Int
          /\ files[i].start \in Int /\ files[j].start \in Int /\ EndOf(files[i]) \in Int
      BY <2>2, <2>3, <2>4, Trimmed, SegmentType
    <3>. QED
      BY <3>1, <3>2, <3>3
  <2>. QED
    BY <2>5, <2>6
<1>. QED
  BY <1>1, AlwaysHistory, PTL

(***************************************************************************)
(* The searches find the segments that the clip is to be cut from, and no  *)
(* others.                                                                 *)
(***************************************************************************)
LEMMA CurrentFound ==
    ASSUME HistoryInv, ValidTimeRange(files, from)
    PROVE  Current = {i \in FirstIndex(files, from)..LastIndex(files, to) :
                         Intersects(files[i], from, to)}
<1> DEFINE a == LastNotAfter(files, from)
           b == LastNotAfter(files, to)
<1>1. FirstIndex(files, from) = a /\ LastIndex(files, to) = b
  BY DEF FirstIndex, LastIndex, LastNotAfter
<1>2. /\ files \in Seq(Segment) /\ from \in Int /\ to \in Int /\ Sorted(files)
      /\ DOMAIN files = 1..Len(files) /\ Len(files) \in Nat
      /\ files # <<>> /\ files[1] \in Segment /\ from >= files[1].start
  BY DEF HistoryInv, ValidTimeRange
<1>3. \A j \in DOMAIN files : files[j].start \in Int
  BY <1>2, SegmentType
<1>4. /\ a \in Int /\ a >= 1 /\ a <= Len(files)
      /\ \A j \in DOMAIN files : j <= a => files[j].start <= from
      /\ a < Len(files) => a + 1 \in DOMAIN files /\ files[a + 1].start > from
      /\ b \in Int /\ b <= Len(files)
      /\ b < Len(files) => b + 1 \in DOMAIN files /\ files[b + 1].start > to
  <2>1. files[1].start \in Int
    BY <1>2, SegmentType
  <2>. QED
    BY <1>2, <2>1, SearchResult
<1> HIDE DEF a, b
<1>5. \A j, k \in DOMAIN files : j <= k => files[j].start <= files[k].start
  BY <1>2, <1>3 DEF Sorted
<1>6. ASSUME NEW i \in Current
      PROVE  i \in a..b /\ Intersects(files[i], from, to)
  <2>1. /\ i \in 1..Len(files) /\ Intersects(files[i], from, to)
        /\ \A j \in DOMAIN files : j > i => files[j].start > from
    BY <1>2 DEF Current
  <2>2. i >= a
    <3> SUFFICES ASSUME i < a PROVE FALSE
      BY <1>4, <2>1
    <3>1. a \in DOMAIN files /\ files[a].start <= from /\ files[a].start > from
      BY <1>2, <1>4, <2>1
    <3>. QED
      BY <1>2, <1>3, <3>1
  <2>3. i <= b
    <3> SUFFICES ASSUME i > b PROVE FALSE
      BY <1>4, <2>1
    <3>1. b + 1 \in DOMAIN files /\ files[b + 1].start > to /\ b + 1 <= i
      BY <1>2, <1>4, <2>1
    <3>2. files[b + 1].start <= files[i].start /\ files[i].start < to
      BY <1>2, <1>5, <2>1, <3>1 DEF Intersects
    <3>. QED
      BY <1>2, <1>3, <2>1, <3>1, <3>2
  <2>. QED
    BY <1>4, <2>1, <2>2, <2>3
<1>7. ASSUME NEW i \in a..b, Intersects(files[i], from, to)
      PROVE  i \in Current
  <2>1. i \in DOMAIN files
    BY <1>2, <1>4
  <2>2. ASSUME NEW j \in DOMAIN files, j > i PROVE files[j].start > from
    <3>1. a + 1 \in DOMAIN files /\ files[a + 1].start > from /\ a + 1 <= j
      BY <1>2, <1>4, <2>2
    <3>2. files[a + 1].start <= files[j].start
      BY <1>5, <3>1
    <3>. QED
      BY <1>2, <1>3, <3>1, <3>2
  <2>. QED
    BY <1>7, <2>1, <2>2 DEF Current
<1>. QED
  BY <1>1, <1>6, <1>7

(***************************************************************************)
(* So a segment of the clip's format shows what it covers.                 *)
(***************************************************************************)
LEMMA CurrentShows ==
    ASSUME HistoryInv, ValidTimeRange(files, from), NEW t \in from..(to - 1),
           NEW i \in Current, Covers(files[i], t), files[i].params = files[Min(Current)].params
    PROVE  Shows(i, t)
<1> DEFINE clip == Clip(files, from, to)
<1>1. i \in Matched(files, from, to)
  BY CurrentFound DEF Matched
<1>2. /\ DOMAIN clip = Matched(files, from, to)
      /\ clip[i].inpoint = Inpoint(files[i], from)
      /\ clip[i].outpoint = Outpoint(files[i], to)
  BY <1>1 DEF Clip
<1>3. files[i] \in Segment /\ Intersects(files[i], from, to) /\ from \in Int /\ to \in Int
  BY DEF HistoryInv, Current
<1>4. Inpoint(files[i], from) <= t - files[i].start /\ t - files[i].start < Outpoint(files[i], to)
  BY <1>3, Trimmed
<1>. QED
  BY <1>1, <1>2, <1>4 DEF Shows

(***************************************************************************)
(* A clip misses nothing: for histories of any length with any gaps and    *)
(* overlaps, each instant of the request that one of the segments it is    *)
(* cut from holds is in it, if that segment can be opened and has the      *)
(* format of the first (MatchStorageToRange).                              *)
(***************************************************************************)
THEOREM ClipsHaveAllFootage == Spec => []ClipHasAllFootage
<1>1. HistoryInv => ClipHasAllFootage
  BY CurrentShows DEF ClipHasAllFootage
<1>. QED
  BY <1>1, AlwaysHistory, PTL

-----------------------------------------------------------------------------
(***************************************************************************)
(* Induction as a fact about sets: one that has 0, and with a number the   *)
(* next one, has every number.                                             *)
(***************************************************************************)
LEMMA AllNumbers ==
    ASSUME NEW S, 0 \in S, \A k \in Nat : k \in S => k + 1 \in S
    PROVE  Nat \subseteq S
<1> DEFINE T == Nat \ S
<1> SUFFICES ASSUME T # {} PROVE FALSE
  OBVIOUS
<1>1. Min(T) \in T /\ \A y \in T : Min(T) <= y
  BY LeastMember
<1> DEFINE m == Min(T)
<1>2. m \in Nat /\ m \notin S /\ \A y \in Nat : y < m => y \in S
  BY <1>1
<1> HIDE DEF m, T
<1>3. m # 0 /\ m - 1 \in Nat /\ m - 1 < m /\ (m - 1) + 1 = m
  BY <1>2
<1>. QED
  BY <1>2, <1>3

(***************************************************************************)
(* A set of numbers that is bounded has a greatest member.                 *)
(***************************************************************************)
LEMMA GreatestMember ==
    ASSUME NEW n \in Nat, NEW S, S \subseteq 1..n, S # {}
    PROVE  Max(S) \in S /\ \A y \in S : Max(S) >= y
<1> DEFINE U == {u \in Nat : \A y \in S : y <= u}
           m == Min(U)
<1>1. n \in U
  OBVIOUS
<1>2. m \in U /\ \A u \in U : m <= u
  BY <1>1, LeastMember
<1>3. m \in Nat /\ (\A y \in S : y <= m) /\ S \subseteq Nat /\ \A y \in S : y >= 1
  BY <1>2
<1>4. m \in S
  <2> SUFFICES ASSUME m \notin S PROVE FALSE
    OBVIOUS
  <2>1. \A y \in S : y <= m - 1
    BY <1>3
  <2>2. m - 1 \in Nat
    <3>1. PICK y \in S : TRUE
      OBVIOUS
    <3>2. y \in Nat /\ y >= 1 /\ y <= m
      BY <1>3, <3>1
    <3>. QED
      BY <1>3, <3>2
  <2>3. m - 1 \in U
    BY <2>1, <2>2
  <2>. QED
    BY <1>2, <1>3, <2>3
<1> HIDE DEF m
<1>5. \E x \in S : \A y \in S : x >= y
  BY <1>3, <1>4
<1>. QED
  BY <1>5 DEF Max

-----------------------------------------------------------------------------
(***************************************************************************)
(* The fold of Ranges, as the function FoldLeft chooses.                   *)
(***************************************************************************)
IsFold(fs, S, g) ==
    g = [s \in SUBSET S |-> IF s = {} THEN <<>> ELSE AddFile(g[s \ {Max(s)}], fs[Max(s)])]

LEMMA RangesUnfolded ==
    ASSUME NEW fs
    PROVE  Ranges(fs) = (CHOOSE g : IsFold(fs, DOMAIN fs, g))[DOMAIN fs]
BY DEF Ranges, FoldLeft, MapThenFoldSet, IsFold

(***************************************************************************)
(* There is such a function: that of k files gives that of k + 1.          *)
(***************************************************************************)
LEMMA FoldExists ==
    ASSUME NEW fs, NEW n \in Nat
    PROVE  \E g : IsFold(fs, 1..n, g)
<1> DEFINE S == {k \in Nat : \E g : IsFold(fs, 1..k, g)}
<1>1. 0 \in S
  <2> DEFINE g == [s \in SUBSET (1..0) |-> <<>>]
  <2>1. \A s \in SUBSET (1..0) : s = {}
    OBVIOUS
  <2>2. g = [s \in SUBSET (1..0) |->
                IF s = {} THEN <<>> ELSE AddFile(g[s \ {Max(s)}], fs[Max(s)])]
    BY <2>1
  <2>3. IsFold(fs, 1..0, g)
    BY <2>2 DEF IsFold
  <2>. QED
    BY <2>3
<1>2. ASSUME NEW k \in Nat, k \in S PROVE k + 1 \in S
  <2>1. PICK g : IsFold(fs, 1..k, g)
    BY <1>2
  <2> DEFINE F(f, s) == IF s = {} THEN <<>> ELSE AddFile(f[s \ {Max(s)}], fs[Max(s)])
             h == [s \in SUBSET (1..(k + 1)) |-> F(g, s)]
  <2>2. g = [s \in SUBSET (1..k) |-> F(g, s)]
    BY <2>1 DEF IsFold
  <2>3. ASSUME NEW s \in SUBSET (1..k) PROVE h[s] = g[s]
    <3>1. s \in SUBSET (1..(k + 1))
      OBVIOUS
    <3>2. h[s] = F(g, s)
      BY <3>1
    <3>3. g[s] = F(g, s)
      BY <2>2
    <3>. QED
      BY <3>2, <3>3
  <2>4. ASSUME NEW s \in SUBSET (1..(k + 1)), s # {} PROVE s \ {Max(s)} \in SUBSET (1..k)
    <3> DEFINE m == Max(s)
    <3>1. k + 1 \in Nat /\ s \subseteq 1..(k + 1)
      OBVIOUS
    <3>2. m \in s /\ \A y \in s : m >= y
      BY <2>4, <3>1, GreatestMember
    <3> HIDE DEF m
    <3>3. ASSUME NEW y \in s \ {m} PROVE y \in 1..k
      <4>1. y \in 1..(k + 1) /\ m \in 1..(k + 1) /\ m >= y /\ y # m
        BY <3>1, <3>2
      <4>. QED
        BY <4>1
    <3>. QED
      BY <3>3 DEF m
  <2>5. ASSUME NEW s \in SUBSET (1..(k + 1)) PROVE F(g, s) = F(h, s)
    BY <2>3, <2>4
  <2>6. h = [s \in SUBSET (1..(k + 1)) |-> F(h, s)]
    BY <2>5
  <2>7. IsFold(fs, 1..(k + 1), h)
    BY <2>6 DEF IsFold
  <2>. QED
    BY <2>7
<1> HIDE DEF S
<1>3. Nat \subseteq S
  BY <1>1, <1>2, AllNumbers
<1>. QED
  BY <1>3 DEF S

(***************************************************************************)
(* The ranges of the first k files, one file after the other.              *)
(***************************************************************************)
LEMMA RangesStep ==
    ASSUME NEW fs, NEW n \in Nat, NEW g, IsFold(fs, 1..n, g)
    PROVE  /\ g[1..0] = <<>>
           /\ \A k \in Nat : k < n => g[1..(k + 1)] = AddFile(g[1..k], fs[k + 1])
<1>1. g[1..0] = <<>>
  <2>1. 1..0 = {} /\ 1..0 \in SUBSET (1..n)
    OBVIOUS
  <2>. QED
    BY <2>1 DEF IsFold
<1>2. ASSUME NEW k \in Nat, k < n PROVE g[1..(k + 1)] = AddFile(g[1..k], fs[k + 1])
  <2> DEFINE s == 1..(k + 1)
  <2>1. s \in SUBSET (1..n) /\ s # {} /\ k + 1 \in s /\ k + 1 \in Nat
    <3>1. k + 1 \in s /\ k + 1 \in Nat
      OBVIOUS
    <3>2. \A y \in s : y \in 1..n
      BY <1>2
    <3>. QED
      BY <3>1, <3>2
  <2>2. Max(s) \in s /\ Max(s) >= k + 1
    BY <2>1, GreatestMember
  <2>3. Max(s) = k + 1
    BY <2>2
  <2>4. s \ {k + 1} = 1..k
    OBVIOUS
  <2> HIDE DEF s
  <2>5. g[s] = AddFile(g[s \ {Max(s)}], fs[Max(s)])
    BY <2>1 DEF IsFold
  <2>. QED
    BY <2>3, <2>4, <2>5 DEF s
<1>. QED
  BY <1>1, <1>2

-----------------------------------------------------------------------------
(***************************************************************************)
(* What the ranges of the first k files are: b holds the file each begins  *)
(* with, the first file and every one after a gap; a range ends with the   *)
(* file before the next range, the last one with file k.                   *)
(***************************************************************************)
RangeList == Seq([start : Int, end : Int])

Piece(fs, i, j) == [start |-> fs[i].start, end |-> FileEnd(fs[j])]

Begins(fs, i) == i = 1 \/ Gap(fs, i)

Cuts(fs, k, rs, b) ==
    /\ b \in [1..Len(rs) -> 1..k]
    /\ \A r, q \in 1..Len(rs) : r < q => b[r] < b[q]
    /\ \A i \in 1..k : Begins(fs, i) <=> \E r \in 1..Len(rs) : b[r] = i
    /\ \A r \in 1..Len(rs) :
          rs[r] = Piece(fs, b[r], IF r = Len(rs) THEN k ELSE b[r + 1] - 1)

Divided(fs, k, rs) == rs \in RangeList /\ \E b : Cuts(fs, k, rs, b)

LEMMA PieceType ==
    ASSUME NEW fs \in Seq(Segment), NEW i \in DOMAIN fs, NEW j \in DOMAIN fs
    PROVE  /\ Piece(fs, i, j) \in [start : Int, end : Int]
           /\ fs[i].start \in Int /\ FileEnd(fs[j]) \in Int
<1>1. fs[i] \in Segment /\ fs[j] \in Segment
  OBVIOUS
<1>2. fs[i].start \in Int /\ FileEnd(fs[j]) \in Int
  BY <1>1, SegmentType DEF EndOf, FileEnd
<1>. QED
  BY <1>2 DEF Piece

(***************************************************************************)
(* A file that begins a range.                                             *)
(***************************************************************************)
LEMMA AppendDivides ==
    ASSUME NEW fs \in Seq(Segment), NEW k \in Nat, k < Len(fs), NEW rs \in RangeList,
           NEW b, Cuts(fs, k, rs, b), Begins(fs, k + 1)
    PROVE  Divided(fs, k + 1, Append(rs, RangeOf(fs[k + 1])))
<1> DEFINE m  == Len(rs)
           ts == Append(rs, RangeOf(fs[k + 1]))
           c  == [r \in 1..(m + 1) |-> IF r = m + 1 THEN k + 1 ELSE b[r]]
<1>1. k + 1 \in DOMAIN fs /\ m \in Nat
  BY DEF RangeList
<1>2. RangeOf(fs[k + 1]) = Piece(fs, k + 1, k + 1)
  BY DEF RangeOf, Piece
<1>3. /\ ts \in RangeList /\ Len(ts) = m + 1
      /\ ts[m + 1] = Piece(fs, k + 1, k + 1)
      /\ \A r \in 1..m : ts[r] = rs[r]
  BY <1>1, <1>2, PieceType DEF RangeList
<1>4. /\ \A r \in 1..m : b[r] \in 1..k
      /\ \A r, q \in 1..m : r < q => b[r] < b[q]
      /\ \A i \in 1..k : Begins(fs, i) <=> \E r \in 1..m : b[r] = i
      /\ \A r \in 1..m : rs[r] = Piece(fs, b[r], IF r = m THEN k ELSE b[r + 1] - 1)
  BY DEF Cuts
<1>5. c[m + 1] = k + 1 /\ \A r \in 1..m : c[r] = b[r]
  BY <1>1
<1>6. c \in [1..(m + 1) -> 1..(k + 1)]
  BY <1>1, <1>4
<1> HIDE DEF c, ts, m
<1>7. \A r, q \in 1..(m + 1) : r < q => c[r] < c[q]
  <2> SUFFICES ASSUME NEW r \in 1..(m + 1), NEW q \in 1..(m + 1), r < q PROVE c[r] < c[q]
    OBVIOUS
  <2>1. r \in 1..m
    BY <1>1
  <2>2. CASE q = m + 1
    BY <1>4, <1>5, <2>1, <2>2
  <2>3. CASE q # m + 1
    BY <1>1, <1>4, <1>5, <2>1, <2>3
  <2>. QED
    BY <2>2, <2>3
<1>8. ASSUME NEW i \in 1..(k + 1)
      PROVE  Begins(fs, i) <=> \E r \in 1..(m + 1) : c[r] = i
  <2>1. CASE i = k + 1
    <3>1. m + 1 \in 1..(m + 1)
      BY <1>1
    <3>. QED
      BY <1>5, <2>1, <3>1
  <2>2. CASE i # k + 1
    <3>1. i \in 1..k
      BY <2>2
    <3>2. (\E r \in 1..(m + 1) : c[r] = i) <=> \E r \in 1..m : b[r] = i
      <4>1. ASSUME NEW r \in 1..m PROVE r \in 1..(m + 1) /\ c[r] = b[r]
        BY <1>1, <1>5
      <4>2. ASSUME NEW r \in 1..(m + 1), c[r] = i PROVE r \in 1..m
        BY <1>1, <1>5, <2>2, <4>2
      <4>. QED
        BY <4>1, <4>2
    <3>. QED
      BY <1>4, <3>1, <3>2
  <2>. QED
    BY <2>1, <2>2
<1>9. ASSUME NEW r \in 1..(m + 1)
      PROVE  ts[r] = Piece(fs, c[r], IF r = m + 1 THEN k + 1 ELSE c[r + 1] - 1)
  <2>1. CASE r = m + 1
    BY <1>3, <1>5, <2>1
  <2>2. CASE r = m
    <3>1. r \in 1..m /\ c[r + 1] - 1 = k /\ r # m + 1
      BY <1>1, <1>5, <2>2
    <3>. QED
      BY <1>3, <1>4, <1>5, <2>2, <3>1
  <2>3. CASE r \notin {m, m + 1}
    <3>1. r \in 1..m /\ r + 1 \in 1..m
      BY <1>1, <2>3
    <3>. QED
      BY <1>3, <1>4, <1>5, <2>3, <3>1
  <2>. QED
    BY <2>1, <2>2, <2>3
<1>10. Cuts(fs, k + 1, ts, c)
  BY <1>3, <1>6, <1>7, <1>8, <1>9 DEF Cuts
<1>. QED
  BY <1>3, <1>10 DEF Divided, ts

(***************************************************************************)
(* A file that goes on with the last range.                                *)
(***************************************************************************)
LEMMA ExtendDivides ==
    ASSUME NEW fs \in Seq(Segment), NEW k \in Nat, k < Len(fs), NEW rs \in RangeList,
           NEW b, Cuts(fs, k, rs, b), ~Begins(fs, k + 1), rs # <<>>
    PROVE  Divided(fs, k + 1, [rs EXCEPT ![Len(rs)].end = FileEnd(fs[k + 1])])
<1> DEFINE m  == Len(rs)
           e  == FileEnd(fs[k + 1])
           ts == [rs EXCEPT ![m].end = e]
<1>1. k + 1 \in DOMAIN fs /\ m \in Nat /\ m \in 1..m /\ DOMAIN rs = 1..m /\ m >= 1
  BY DEF RangeList
<1>2. /\ b \in [1..m -> 1..k] /\ \A r \in 1..m : b[r] \in 1..k
      /\ \A r, q \in 1..m : r < q => b[r] < b[q]
      /\ \A i \in 1..k : Begins(fs, i) <=> \E r \in 1..m : b[r] = i
      /\ \A r \in 1..m : rs[r] = Piece(fs, b[r], IF r = m THEN k ELSE b[r + 1] - 1)
  BY DEF Cuts
<1>3. e \in Int
  BY <1>1, PieceType
<1>4. rs[m] = Piece(fs, b[m], k)
  BY <1>1, <1>2
<1> HIDE DEF e
<1>5. /\ ts \in RangeList /\ Len(ts) = m
      /\ ts[m] = [start |-> rs[m].start, end |-> e]
      /\ \A r \in 1..m : r # m => ts[r] = rs[r]
  <2>1. \A r \in 1..m : rs[r] \in [start : Int, end : Int]
    <3> DEFINE X == [start : Int, end : Int]
    <3>1. rs \in Seq(X)
      BY DEF RangeList
    <3> HIDE DEF X
    <3>2. \A r \in 1..Len(rs) : rs[r] \in X
      BY <3>1
    <3>. QED
      BY <3>2 DEF X
  <2>2. [rs[m] EXCEPT !.end = e] = [start |-> rs[m].start, end |-> e]
    BY <1>1, <2>1
  <2>3. ts[m] = [start |-> rs[m].start, end |-> e] /\ \A r \in 1..m : r # m => ts[r] = rs[r]
    BY <1>1, <2>2
  <2>4. ts \in [1..m -> [start : Int, end : Int]]
    BY <1>1, <1>3, <2>1, <2>3
  <2>. QED
    BY <1>1, <2>3, <2>4 DEF RangeList
<1> HIDE DEF ts, m
<1>6. ts[m] = Piece(fs, b[m], k + 1)
  BY <1>4, <1>5 DEF Piece, e
<1>7. b \in [1..m -> 1..(k + 1)]
  BY <1>2
<1>8. ASSUME NEW i \in 1..(k + 1)
      PROVE  Begins(fs, i) <=> \E r \in 1..m : b[r] = i
  <2>1. CASE i = k + 1
    BY <1>2, <2>1
  <2>2. CASE i # k + 1
    <3>1. i \in 1..k
      BY <2>2
    <3>. QED
      BY <1>2, <3>1
  <2>. QED
    BY <2>1, <2>2
<1>9. \A r \in 1..m : ts[r] = Piece(fs, b[r], IF r = m THEN k + 1 ELSE b[r + 1] - 1)
  BY <1>2, <1>5, <1>6
<1>10. Cuts(fs, k + 1, ts, b)
  BY <1>2, <1>5, <1>7, <1>8, <1>9 DEF Cuts
<1>. QED
  BY <1>5, <1>10 DEF Divided, ts, m, e

(***************************************************************************)
(* The next file, as AddFile decides.                                      *)
(***************************************************************************)
LEMMA AddDivides ==
    ASSUME NEW fs \in Seq(Segment), NEW k \in Nat, k < Len(fs), NEW rs, Divided(fs, k, rs)
    PROVE  Divided(fs, k + 1, AddFile(rs, fs[k + 1]))
<1>1. PICK b : rs \in RangeList /\ Cuts(fs, k, rs, b)
  BY DEF Divided
<1>2. /\ Len(rs) \in Nat /\ (rs # <<>> => Len(rs) \in 1..Len(rs))
      /\ k + 1 \in DOMAIN fs
  BY <1>1 DEF RangeList
<1>3. rs = <<>> <=> k = 0
  <2>1. k = 0 => 1..k = {}
    OBVIOUS
  <2>2. k = 0 => rs = <<>>
    BY <1>1, <1>2, <2>1 DEF Cuts
  <2>3. k # 0 => 1 \in 1..k /\ Begins(fs, 1)
    BY DEF Begins
  <2>4. k # 0 => \E r \in 1..Len(rs) : TRUE
    BY <1>1, <2>3 DEF Cuts
  <2>5. rs = <<>> => 1..Len(rs) = {}
    OBVIOUS
  <2>. QED
    BY <2>2, <2>4, <2>5
<1>4. k # 0 => Last(rs).end = FileEnd(fs[k])
  <2> SUFFICES ASSUME k # 0 PROVE Last(rs).end = FileEnd(fs[k])
    OBVIOUS
  <2>1. Len(rs) \in 1..Len(rs)
    BY <1>2, <1>3
  <2>2. rs[Len(rs)] = Piece(fs, b[Len(rs)], k)
    BY <1>1, <2>1 DEF Cuts
  <2>. QED
    BY <2>2 DEF Piece, Last
<1>5. (rs = <<>> \/ NewBlock(Last(rs), fs[k + 1])) <=> Begins(fs, k + 1)
  <2>1. k # 0 => (NewBlock(Last(rs), fs[k + 1]) <=> Gap(fs, k + 1))
    BY <1>4 DEF NewBlock, Gap
  <2>2. k + 1 = 1 <=> k = 0
    OBVIOUS
  <2>3. k = 0 => Begins(fs, k + 1)
    BY DEF Begins
  <2>. QED
    BY <1>3, <2>1, <2>2, <2>3 DEF Begins
<1>6. CASE Begins(fs, k + 1)
  <2>1. AddFile(rs, fs[k + 1]) = Append(rs, RangeOf(fs[k + 1]))
    BY <1>5, <1>6 DEF AddFile
  <2>. QED
    BY <1>1, <1>6, <2>1, AppendDivides
<1>7. CASE ~Begins(fs, k + 1)
  <2>1. AddFile(rs, fs[k + 1]) = [rs EXCEPT ![Len(rs)].end = FileEnd(fs[k + 1])] /\ rs # <<>>
    BY <1>5, <1>7 DEF AddFile
  <2>. QED
    BY <1>1, <1>7, <2>1, ExtendDivides
<1>. QED
  BY <1>6, <1>7

(***************************************************************************)
(* The ranges of a history divide it.                                      *)
(***************************************************************************)
LEMMA RangesDivide ==
    ASSUME NEW fs \in Seq(Segment)
    PROVE  Divided(fs, Len(fs), Ranges(fs))
<1> DEFINE n == Len(fs)
           g == CHOOSE f : IsFold(fs, DOMAIN fs, f)
           S == {k \in Nat : k <= n => Divided(fs, k, g[1..k])}
<1>1. n \in Nat /\ DOMAIN fs = 1..n
  OBVIOUS
<1>2. IsFold(fs, 1..n, g) /\ Ranges(fs) = g[1..n]
  BY <1>1, FoldExists, RangesUnfolded
<1> HIDE DEF g, n
<1>3. /\ g[1..0] = <<>>
      /\ \A k \in Nat : k < n => g[1..(k + 1)] = AddFile(g[1..k], fs[k + 1])
  BY <1>1, <1>2, RangesStep
<1>4. Divided(fs, 0, <<>>)
  <2>1. <<>> \in RangeList /\ Len(<<>>) = 0
    BY DEF RangeList
  <2>2. Cuts(fs, 0, <<>>, [r \in 1..0 |-> 1])
    BY <2>1 DEF Cuts
  <2>. QED
    BY <2>1, <2>2 DEF Divided
<1>5. 0 \in S
  BY <1>3, <1>4
<1>6. ASSUME NEW k \in Nat, k \in S PROVE k + 1 \in S
  <2> SUFFICES ASSUME k + 1 <= n PROVE Divided(fs, k + 1, g[1..(k + 1)])
    OBVIOUS
  <2>1. k < n /\ Divided(fs, k, g[1..k])
    BY <1>1, <1>6
  <2>. QED
    BY <1>3, <2>1, AddDivides DEF n
<1> HIDE DEF S
<1>7. n \in S
  BY <1>1, <1>5, <1>6, AllNumbers
<1>. QED
  BY <1>1, <1>2, <1>7 DEF S, n

-----------------------------------------------------------------------------
(***************************************************************************)
(* A history in which no segment ends before the one that went before it.  *)
(***************************************************************************)
Steady(fs) == \A i, j \in DOMAIN fs : i <= j => FileEnd(fs[i]) <= FileEnd(fs[j])

LEMMA SteadyBlock ==
    ASSUME NEW fs \in Seq(Segment), Steady(fs), NEW i \in DOMAIN fs, NEW j \in DOMAIN fs, i <= j
    PROVE  Block(fs, i, j) = Piece(fs, i, j)
<1> DEFINE E == {FileEnd(fs[k]) : k \in i..j}
           e == FileEnd(fs[j])
<1>1. DOMAIN fs = 1..Len(fs) /\ Len(fs) \in Nat
  OBVIOUS
<1>2. \A k \in i..j : k \in DOMAIN fs /\ k <= j
  BY <1>1
<1>3. \A k \in i..j : FileEnd(fs[k]) \in Int /\ FileEnd(fs[k]) <= e
  BY <1>2, PieceType DEF Steady
<1>4. j \in i..j
  BY <1>1
<1>5. e \in E /\ E \subseteq Int /\ \A y \in E : e >= y
  <2>1. e \in E
    BY <1>4
  <2>2. \A y \in E : y \in Int /\ y <= e
    BY <1>3
  <2>3. e \in Int
    BY <2>1, <2>2
  <2>. QED
    BY <2>1, <2>2, <2>3
<1> HIDE DEF E, e
<1>6. Max(E) \in E /\ \A y \in E : Max(E) >= y
  BY <1>5 DEF Max
<1> DEFINE x == Max(E)
<1>7. x = e
  <2>1. x \in E /\ x >= e
    BY <1>5, <1>6
  <2> HIDE DEF x
  <2>2. x \in Int /\ e \in Int /\ e >= x
    BY <1>5, <2>1
  <2>. QED
    BY <2>1, <2>2
<1>. QED
  BY <1>7 DEF Block, Piece, E, e

(***************************************************************************)
(* The ranges that divide a steady history are its blocks, and each starts *)
(* after the one before it has ended.                                      *)
(***************************************************************************)
LEMMA DividedBlocks ==
    ASSUME NEW fs \in Seq(Segment), Steady(fs), NEW rs, Divided(fs, Len(fs), rs)
    PROVE  /\ ToSet(rs) = Blocks(fs)
           /\ \A i \in 2..Len(rs) : rs[i].start > rs[i - 1].end
<1> DEFINE n == Len(fs)
           m == Len(rs)
<1>1. PICK b : rs \in RangeList /\ Cuts(fs, n, rs, b)
  BY DEF Divided
<1> DEFINE end(r) == IF r = m THEN n ELSE b[r + 1] - 1
<1>2. n \in Nat /\ m \in Nat /\ DOMAIN fs = 1..n /\ DOMAIN rs = 1..m
  BY <1>1 DEF RangeList
<1>3. /\ \A r \in 1..m : b[r] \in 1..n
      /\ \A r, q \in 1..m : r < q => b[r] < b[q]
      /\ \A i \in 1..n : Begins(fs, i) <=> \E r \in 1..m : b[r] = i
      /\ \A r \in 1..m : rs[r] = Piece(fs, b[r], end(r))
  BY <1>1 DEF Cuts
<1> HIDE DEF n, m
<1>4. ASSUME NEW r \in 1..m, r # m
      PROVE  /\ r + 1 \in 1..m /\ b[r] < b[r + 1] /\ Gap(fs, b[r + 1])
             /\ end(r) = b[r + 1] - 1 /\ end(r) + 1 = b[r + 1]
  <2>1. r + 1 \in 1..m /\ r < r + 1
    BY <1>2, <1>4
  <2>2. b[r] < b[r + 1] /\ b[r] \in 1..n /\ b[r + 1] \in 1..n
    BY <1>3, <2>1
  <2>3. Begins(fs, b[r + 1]) /\ b[r + 1] # 1
    BY <1>3, <2>1, <2>2
  <2>4. (b[r + 1] - 1) + 1 = b[r + 1]
    BY <2>2
  <2>. QED
    BY <1>4, <2>1, <2>2, <2>3, <2>4 DEF Begins
<1>5. ASSUME NEW r \in 1..m
      PROVE  end(r) \in 1..n /\ b[r] <= end(r)
  <2>1. CASE r = m
    BY <1>2, <1>3, <2>1
  <2>2. CASE r # m
    <3>1. b[r] \in 1..n /\ b[r + 1] \in 1..n /\ b[r] < b[r + 1] /\ end(r) = b[r + 1] - 1
      BY <1>3, <1>4, <2>2
    <3> HIDE DEF end
    <3>. QED
      BY <1>2, <3>1
  <2>. QED
    BY <2>1, <2>2
<1> HIDE DEF end
<1>6. ASSUME NEW r \in 1..m, NEW k \in (b[r] + 1)..end(r)
      PROVE  ~Gap(fs, k)
  <2> SUFFICES ASSUME Gap(fs, k) PROVE FALSE
    OBVIOUS
  <2>1. b[r] \in 1..n /\ end(r) \in 1..n
    BY <1>3, <1>5
  <2>2. k \in 1..n /\ b[r] < k /\ k <= end(r)
    BY <1>2, <2>1
  <2>3. PICK q \in 1..m : b[q] = k
    BY <1>3, <2>2 DEF Begins
  <2>4. r < q
    <3>1. r # q /\ ~(q < r)
      BY <1>3, <2>1, <2>2, <2>3
    <3>. QED
      BY <3>1
  <2>5. r # m /\ r + 1 \in 1..m /\ (r + 1 = q \/ r + 1 < q)
    BY <1>2, <2>4
  <2>6. b[r + 1] <= k /\ b[r + 1] \in 1..n
    BY <1>3, <2>3, <2>5
  <2>7. end(r) + 1 = b[r + 1]
    BY <1>4, <2>5
  <2>. QED
    BY <2>1, <2>2, <2>6, <2>7
<1>7. ASSUME NEW r \in 1..m
      PROVE  IsBlock(fs, b[r], end(r)) /\ Block(fs, b[r], end(r)) = rs[r]
  <2>1. b[r] \in 1..n /\ end(r) \in 1..n /\ b[r] <= end(r)
    BY <1>3, <1>5
  <2>2. b[r] = 1 \/ Gap(fs, b[r])
    BY <1>3, <2>1 DEF Begins
  <2>3. end(r) = n \/ Gap(fs, end(r) + 1)
    BY <1>4 DEF end
  <2>4. \A k \in (b[r] + 1)..end(r) : ~Gap(fs, k)
    BY <1>6
  <2>5. Block(fs, b[r], end(r)) = Piece(fs, b[r], end(r))
    BY <1>2, <2>1, SteadyBlock
  <2>. QED
    BY <1>3, <2>2, <2>3, <2>4, <2>5 DEF IsBlock, n
<1>8. ASSUME NEW i \in 1..n, NEW j \in 1..n, i <= j, IsBlock(fs, i, j)
      PROVE  \E r \in 1..m : Block(fs, i, j) = rs[r]
  <2>1. /\ Begins(fs, i)
        /\ j = n \/ Gap(fs, j + 1)
        /\ \A k \in (i + 1)..j : ~Gap(fs, k)
    BY <1>8 DEF IsBlock, Begins, n
  <2>2. PICK r \in 1..m : b[r] = i
    BY <1>3, <2>1
  <2>3. end(r) \in 1..n /\ i <= end(r)
    BY <1>5, <2>2
  <2>4. ~(j < end(r))
    <3> SUFFICES ASSUME j < end(r) PROVE FALSE
      OBVIOUS
    <3>1. j + 1 \in (b[r] + 1)..end(r) /\ j # n
      BY <1>2, <1>8, <2>2, <2>3
    <3>. QED
      BY <1>6, <2>1, <3>1
  <2>5. ~(end(r) < j)
    <3> SUFFICES ASSUME end(r) < j PROVE FALSE
      OBVIOUS
    <3>1. end(r) + 1 \in (i + 1)..j /\ end(r) # n
      BY <1>2, <2>3
    <3>2. r # m
      BY <3>1 DEF end
    <3>. QED
      BY <1>4, <2>1, <3>1, <3>2
  <2>6. end(r) = j
    BY <2>3, <2>4, <2>5
  <2>. QED
    BY <1>7, <2>2, <2>6
<1>9. ToSet(rs) = Blocks(fs)
  <2>1. ASSUME NEW r \in 1..m PROVE rs[r] \in Blocks(fs)
    <3>1. b[r] \in DOMAIN fs /\ end(r) \in DOMAIN fs /\ b[r] <= end(r)
      BY <1>2, <1>3, <1>5
    <3>2. IsBlock(fs, b[r], end(r)) /\ Block(fs, b[r], end(r)) = rs[r]
      BY <1>7
    <3>3. Block(fs, b[r], end(r)) \in Blocks(fs)
      <4> DEFINE ij == <<b[r], end(r)>>
      <4>1. ij \in {x \in (DOMAIN fs) \X (DOMAIN fs) : x[1] <= x[2] /\ IsBlock(fs, x[1], x[2])}
        BY <3>1, <3>2
      <4>2. Block(fs, ij[1], ij[2]) \in Blocks(fs)
        BY <4>1 DEF Blocks
      <4>. QED
        BY <4>2
    <3>. QED
      BY <3>2, <3>3
  <2>2. ASSUME NEW x \in Blocks(fs) PROVE \E r \in 1..m : x = rs[r]
    <3>1. PICK i \in DOMAIN fs, j \in DOMAIN fs : i <= j /\ IsBlock(fs, i, j) /\ x = Block(fs, i, j)
      BY DEF Blocks
    <3>. QED
      BY <1>2, <1>8, <3>1
  <2>. QED
    BY <1>2, <2>1, <2>2 DEF ToSet
<1>10. ASSUME NEW i \in 2..m PROVE rs[i].start > rs[i - 1].end
  <2>1. i \in 1..m /\ i - 1 \in 1..m /\ i - 1 # m /\ (i - 1) + 1 = i
    BY <1>2
  <2>2. Gap(fs, b[i]) /\ b[i] \in 1..n /\ b[i - 1] \in 1..n /\ b[i - 1] < b[i]
    BY <1>3, <1>4, <2>1
  <2>3. rs[i].start = fs[b[i]].start /\ rs[i - 1].end = FileEnd(fs[b[i] - 1])
    <3>1. rs[i] = Piece(fs, b[i], end(i)) /\ rs[i - 1] = Piece(fs, b[i - 1], end(i - 1))
      BY <1>3, <2>1
    <3>2. end(i - 1) = b[i] - 1
      BY <1>4, <2>1
    <3>. QED
      BY <3>1, <3>2 DEF Piece
  <2>4. b[i] \in DOMAIN fs /\ b[i] - 1 \in DOMAIN fs
    BY <1>2, <2>2
  <2>5. fs[b[i]].start \in Int /\ FileEnd(fs[b[i] - 1]) \in Int
    BY <2>4, PieceType
  <2>. QED
    BY <2>2, <2>3, <2>5, SlopAssumption DEF Gap
<1>. QED
  BY <1>9, <1>10 DEF m

-----------------------------------------------------------------------------
(***************************************************************************)
(* A segment that is not shorter than the overlap ends no earlier than the *)
(* one before it, so every history stays steady.                           *)
(***************************************************************************)
SteadyInv == files \in Seq(Segment) /\ Steady(files)

LEMMA RecordSteady ==
    ASSUME SteadyInv, Record, \A d \in Durations : d >= MaxOverlap
    PROVE  SteadyInv'
<1> DEFINE n == Len(files)
<1>1. PICK gap \in -MaxOverlap..MaxGap, d \in Durations, p \in Params, r \in BOOLEAN :
        files' = Append(files,
            [start |-> IF files = <<>> THEN 1 ELSE EndOf(Last(files)) + gap,
             duration |-> d, params |-> p, readable |-> r])
  BY DEF Record
<1> DEFINE s == IF files = <<>> THEN 1 ELSE EndOf(Last(files)) + gap
           f == [start |-> s, duration |-> d, params |-> p, readable |-> r]
<1>2. n \in Nat /\ (files # <<>> => n \in 1..n /\ files[n] \in Segment)
      /\ DOMAIN files = 1..n /\ \A i \in 1..n : files[i] \in Segment
  BY DEF SteadyInv
<1>3. d \in Nat /\ gap \in Int /\ gap + d >= 0
  <2>1. MaxOverlap \in Nat /\ d \in Nat /\ d >= MaxOverlap
    BY FootageAssumption
  <2>2. gap \in Int /\ gap >= -MaxOverlap
    BY <2>1, FootageAssumption
  <2>. QED
    BY <2>1, <2>2
<1>4. s \in Int
  BY <1>2, <1>3, SegmentType DEF Last
<1>5. n # 0 => s = FileEnd(files[n]) + gap /\ FileEnd(files[n]) \in Int
  BY <1>2, SegmentType DEF Last, EndOf, FileEnd
<1> HIDE DEF s
<1>6. f \in Segment /\ FileEnd(f) = s + d
  BY <1>4 DEF Segment, FileEnd
<1>7. files' = Append(files, f)
  BY <1>1 DEF s
<1> HIDE DEF f
<1>8. /\ files' \in Seq(Segment) /\ DOMAIN files' = 1..(n + 1) /\ files'[n + 1] = f
      /\ \A i \in 1..n : files'[i] = files[i]
  BY <1>2, <1>6, <1>7 DEF SteadyInv
<1>9. ASSUME NEW i \in 1..n PROVE FileEnd(files[i]) <= FileEnd(f)
  <2>1. FileEnd(files[i]) <= FileEnd(files[n]) /\ FileEnd(files[i]) \in Int
    <3>1. i \in DOMAIN files /\ n \in DOMAIN files /\ i <= n
      BY <1>2
    <3>2. FileEnd(files[i]) \in Int
      BY <3>1, PieceType DEF SteadyInv
    <3>. QED
      BY <3>1, <3>2 DEF SteadyInv, Steady
  <2>2. FileEnd(files[n]) + gap + d = FileEnd(f) /\ FileEnd(files[n]) \in Int
    BY <1>2, <1>3, <1>5, <1>6
  <2>. QED
    BY <1>3, <2>1, <2>2
<1> HIDE DEF n
<1>10. ASSUME NEW i \in 1..(n + 1), NEW j \in 1..(n + 1), i <= j
       PROVE  FileEnd(files'[i]) <= FileEnd(files'[j])
  <2>1. CASE i = n + 1
    <3>1. j = n + 1 /\ FileEnd(f) \in Int
      BY <1>2, <1>3, <1>4, <1>6, <1>10, <2>1
    <3>. QED
      BY <1>8, <2>1, <3>1
  <2>2. CASE j = n + 1 /\ i # n + 1
    <3>1. i \in 1..n
      BY <1>2, <2>2
    <3>. QED
      BY <1>8, <1>9, <2>2, <3>1
  <2>3. CASE i # n + 1 /\ j # n + 1
    <3>1. i \in 1..n /\ j \in 1..n
      BY <1>2, <2>3
    <3>2. FileEnd(files[i]) <= FileEnd(files[j])
      BY <1>2, <1>10, <3>1 DEF SteadyInv, Steady
    <3>. QED
      BY <1>8, <3>1, <3>2
  <2>. QED
    BY <2>1, <2>2, <2>3
<1>. QED
  BY <1>8, <1>10 DEF SteadyInv, Steady

LEMMA NextSteady ==
    ASSUME \A d \in Durations : d >= MaxOverlap
    PROVE  SteadyInv /\ [Next]_vars => SteadyInv'
<1> SUFFICES ASSUME SteadyInv, [Next]_vars PROVE SteadyInv'
  OBVIOUS
<1>1. CASE Record
  BY <1>1, RecordSteady
<1>2. CASE Request \/ Answered \/ UNCHANGED vars
  BY <1>2 DEF Request, Answered, vars, SteadyInv
<1>. QED
  BY <1>1, <1>2 DEF Next

(***************************************************************************)
(* Whatever the number of segments, the gaps between them and the slop,    *)
(* get-storage-state reports exactly the blocks of video, in order, as     *)
(* long as no segment is shorter than the longest overlap: a shorter one   *)
(* would take the end of its range back (getVideoRangesFromFiles).         *)
(***************************************************************************)
THEOREM RangesAreAllBlocks ==
    ASSUME \A d \in Durations : d >= MaxOverlap
    PROVE  Spec => []RangesAreBlocks
<1>1. Init => SteadyInv
  BY DEF Init, SteadyInv, Steady
<1>2. SteadyInv /\ [Next]_vars => SteadyInv'
  BY NextSteady
<1>3. SteadyInv => RangesAreBlocks
  BY RangesDivide, DividedBlocks DEF SteadyInv, RangesAreBlocks
<1>. QED
  BY <1>1, <1>2, <1>3, PTL DEF Spec

(***************************************************************************)
(* The segment that has taken over when the request starts goes on for at  *)
(* least as long as those before it, in a steady history.                  *)
(***************************************************************************)
LEMMA MomentShown ==
    ASSUME HistoryInv, Steady(files), ValidTimeRange(files, from),
           \A j \in DOMAIN files : files[j].readable /\ files[j].params = files[1].params,
           NEW t \in from..(to - 1), NEW i \in DOMAIN files, Covers(files[i], t)
    PROVE  \E j \in DOMAIN files : Shows(j, t)
<1> DEFINE a == LastNotAfter(files, from)
<1>1. /\ files \in Seq(Segment) /\ from \in Int /\ to \in Int /\ t \in Int
      /\ from <= t /\ t < to
      /\ DOMAIN files = 1..Len(files) /\ Len(files) \in Nat
      /\ files # <<>> /\ files[1] \in Segment /\ from >= files[1].start
  BY DEF HistoryInv, ValidTimeRange
<1>2. \A j \in DOMAIN files : /\ files[j].start \in Int /\ EndOf(files[j]) \in Int
                               /\ EndOf(files[j]) = FileEnd(files[j])
  BY <1>1, SegmentType DEF EndOf, FileEnd
<1>3. /\ a \in Int /\ a >= 1 /\ a <= Len(files)
      /\ \A j \in DOMAIN files : j <= a => files[j].start <= from
      /\ a < Len(files) => a + 1 \in DOMAIN files /\ files[a + 1].start > from
  <2>1. files[1].start \in Int
    BY <1>1, SegmentType
  <2>. QED
    BY <1>1, <2>1, SearchResult
<1> HIDE DEF a
<1>4. \A j, k \in DOMAIN files : j <= k => files[j].start <= files[k].start
  BY <1>2 DEF HistoryInv, Sorted
<1>5. a \in DOMAIN files
  BY <1>1, <1>3
<1>6. ASSUME NEW j \in DOMAIN files, j >= a, Covers(files[j], t)
      PROVE  j \in Current
  <2>1. ASSUME NEW k \in DOMAIN files, k > j PROVE files[k].start > from
    <3>1. a + 1 \in DOMAIN files /\ files[a + 1].start > from /\ a + 1 <= k
      BY <1>1, <1>3, <1>6, <2>1
    <3>2. files[a + 1].start <= files[k].start
      BY <1>4, <3>1
    <3>. QED
      BY <1>1, <1>2, <3>1, <3>2
  <2>2. Intersects(files[j], from, to)
    BY <1>1, <1>2, <1>6 DEF Intersects, Covers
  <2>. QED
    BY <2>1, <2>2 DEF Current
<1>7. ASSUME NEW j \in Current, Covers(files[j], t)
      PROVE  Shows(j, t)
  <2>1. Current \subseteq DOMAIN files /\ Current # {}
    BY DEF Current
  <2>2. Min(Current) \in Current
    BY <1>1, <2>1, LeastMember
  <2>3. files[j].params = files[Min(Current)].params
    BY <2>1, <2>2
  <2>. QED
    BY <1>7, <2>3, CurrentShows
<1>8. CASE i >= a
  BY <1>6, <1>7, <1>8
<1>9. CASE i < a
  <2>1. EndOf(files[i]) <= EndOf(files[a])
    BY <1>1, <1>2, <1>3, <1>5, <1>9 DEF Steady
  <2>2. Covers(files[a], t)
    BY <1>1, <1>2, <1>3, <1>5, <2>1 DEF Covers
  <2>3. a \in Current
    BY <1>3, <1>5, <1>6, <2>2
  <2>. QED
    BY <1>5, <1>7, <2>2, <2>3
<1>. QED
  BY <1>1, <1>3, <1>8, <1>9

(***************************************************************************)
(* A clip misses no moment, whatever the number of segments, the gaps and  *)
(* the overlaps: what the tail of an overlapped segment holds is in the    *)
(* clip out of the one that took over (MatchStorageToRange).               *)
(***************************************************************************)
THEOREM ClipsMissNoMoment ==
    ASSUME \A d \in Durations : d >= MaxOverlap
    PROVE  Spec => []NoMomentMissed
<1>1. Init => SteadyInv
  BY DEF Init, SteadyInv, Steady
<1>2. SteadyInv /\ [Next]_vars => SteadyInv'
  BY NextSteady
<1>3. HistoryInv /\ SteadyInv => NoMomentMissed
  BY MomentShown DEF NoMomentMissed, SteadyInv
<1>. QED
  BY <1>1, <1>2, <1>3, AlwaysHistory, PTL DEF Spec
=============================================================================
