----------------------------- MODULE ClipsProofs -----------------------------
(***************************************************************************)
(* Theorems about Clips, for every value of its constants: any number of   *)
(* requests of any kinds, segments, failures, crashes and starts.          *)
(***************************************************************************)
EXTENDS Clips, TLAPS

-----------------------------------------------------------------------------
(***************************************************************************)
(* TypeOK in the parts that the steps change together.                     *)
(***************************************************************************)
ReqTypeOK ==
    /\ ask \in [Request -> [kind : Kind \cup {"none"}, from : 0..MaxTime,
                            to : 0..MaxTime, since : 0..MaxTime]]
    /\ phase \in [Request -> {"idle"} \cup Working \cup Settled]
    /\ entries \in [Request -> SUBSET File]
    /\ rest \in [Request -> SUBSET File]
    /\ missed \subseteq Request \X File
    /\ ok \subseteq Request
    /\ got \in [Request -> SUBSET Piece]

FilesTypeOK ==
    /\ lists \subseteq Request
    /\ name \in [Path -> Request \cup {None}]
    /\ bytes \in [Request -> SUBSET Piece]
    /\ out \in [Request -> Request \cup {None}]
    /\ disturbed \subseteq Request
    /\ left \subseteq Path
    /\ stuck \subseteq Request
    /\ alive \in BOOLEAN

(***************************************************************************)
(* The parts make up the whole, now and after a step.                      *)
(***************************************************************************)
LEMMA TypeParts == TypeOK <=> DirTypeOK /\ ReqTypeOK /\ FilesTypeOK
BY DEF TypeOK, ReqTypeOK, FilesTypeOK

LEMMA TypePartsNext == TypeOK' <=> DirTypeOK' /\ ReqTypeOK' /\ FilesTypeOK'
BY DEF TypeOK, ReqTypeOK, FilesTypeOK

(***************************************************************************)
(* A step that does nothing to the directory but may spend a fault.        *)
(***************************************************************************)
LEMMA DirSame ==
    ASSUME DirTypeOK, UNCHANGED <<now, disk, size, readable, last, writing>>,
           up' \in BOOLEAN, UNCHANGED faults \/ \E k \in FaultKinds : Fault(k)
    PROVE  DirTypeOK'
<1>1. faults' \in 0..MaxFaults
  BY FaultAssumption DEF DirTypeOK, Fault
<1>. QED
  BY <1>1 DEF DirTypeOK

LEMMA InitTyped == Init => TypeOK
<1> SUFFICES ASSUME Init PROVE TypeOK
  OBVIOUS
<1> USE DEF Init
<1>1. DirTypeOK
  <2>1. now \in 0..MaxTime /\ last \in 0..now /\ faults \in 0..MaxFaults
    BY TimeAssumption, FaultAssumption DEF DirInit
  <2>2. size \in [File -> 0..MaxSegment]
    BY SizeAssumption DEF DirInit
  <2>. QED
    BY <2>1, <2>2 DEF DirInit, DirTypeOK
<1>2. ReqTypeOK
  <2>1. 0 \in 0..MaxTime
    BY TimeAssumption
  <2>2. ask \in [Request -> [kind : Kind \cup {"none"}, from : 0..MaxTime,
                             to : 0..MaxTime, since : 0..MaxTime]]
    BY <2>1
  <2>3. phase \in [Request -> {"idle"} \cup Working \cup Settled]
    OBVIOUS
  <2>. QED
    BY <2>2, <2>3 DEF ReqTypeOK
<1>3. FilesTypeOK
  BY DEF FilesTypeOK
<1>. QED
  BY <1>1, <1>2, <1>3, TypeParts

-----------------------------------------------------------------------------
(***************************************************************************)
(* What the steps do to the types.                                         *)
(***************************************************************************)
LEMMA GoToTyped ==
    ASSUME ReqTypeOK, NEW r \in Request, NEW point \in Working \cup Settled, GoTo(r, point)
    PROVE  phase' \in [Request -> {"idle"} \cup Working \cup Settled]
BY DEF ReqTypeOK, GoTo

LEMMA UnlistTyped ==
    ASSUME FilesTypeOK, NEW S, Unlist(S)
    PROVE  /\ lists' \subseteq lists /\ lists' \cap S \subseteq stuck'
           /\ lists' \subseteq Request
           /\ stuck \subseteq stuck' /\ stuck' \subseteq Request
<1>1. PICK K \in SUBSET Unremovable(S) : lists' = (lists \ S) \cup K /\ stuck' = stuck \cup K
  BY DEF Unlist
<1>2. K \subseteq lists
  BY <1>1 DEF Unremovable
<1>. QED
  BY <1>1, <1>2 DEF FilesTypeOK

LEMMA FailTyped ==
    ASSUME ReqTypeOK, FilesTypeOK, NEW r \in Request, Fail(r)
    PROVE  /\ phase' \in [Request -> {"idle"} \cup Working \cup Settled]
           /\ entries' \in [Request -> SUBSET File]
           /\ rest' \in [Request -> SUBSET File]
           /\ out' \in [Request -> Request \cup {None}]
           /\ lists' \subseteq Request /\ stuck' \subseteq Request /\ ok' = ok
BY UnlistTyped DEF ReqTypeOK, FilesTypeOK, Fail, Forget, GoTo, Working, Settled

LEMMA BeginTyped ==
    ASSUME TypeOK, NEW r \in Request, NEW kind \in Kind, NEW from \in File, NEW to \in File,
           Begin(r, kind, from, to)
    PROVE  TypeOK'
<1>1. /\ UNCHANGED <<dirVars, entries, rest, missed, ok, got, fileVars, alive>>
      /\ \E t \in {0, now} :
            ask' = [ask EXCEPT ![r] = [kind |-> kind, from |-> from, to |-> to, since |-> t]]
      /\ \E point \in {"list", "wait", "dropped"} : GoTo(r, point)
  BY DEF Begin
<1>2. phase' \in [Request -> {"idle"} \cup Working \cup Settled]
  BY <1>1, TypeParts, GoToTyped DEF Working, Settled, Concatenating
<1>3. from \in 0..MaxTime /\ to \in 0..MaxTime /\ now \in 0..MaxTime /\ 0 \in 0..MaxTime
  BY TypeParts, TimeAssumption DEF File, DirTypeOK
<1>4. ask' \in [Request -> [kind : Kind \cup {"none"}, from : 0..MaxTime,
                            to : 0..MaxTime, since : 0..MaxTime]]
  BY <1>1, <1>3, TypeParts DEF ReqTypeOK
<1>. QED
  BY <1>1, <1>2, <1>4, TypeParts, TypePartsNext
     DEF dirVars, fileVars, DirTypeOK, ReqTypeOK, FilesTypeOK

LEMMA WaitTyped ==
    ASSUME TypeOK, NEW r \in Request, Fire(r) \/ Cancel(r)
    PROVE  TypeOK'
<1>1. /\ UNCHANGED <<dirVars, ask, entries, rest, missed, ok, got, fileVars, alive>>
      /\ \E point \in {"list", "cancelled"} : GoTo(r, point)
  BY DEF Fire, Cancel
<1>2. phase' \in [Request -> {"idle"} \cup Working \cup Settled]
  BY <1>1, TypeParts, GoToTyped DEF Working, Settled, Concatenating
<1>. QED
  BY <1>1, <1>2, TypeParts, TypePartsNext
     DEF dirVars, fileVars, DirTypeOK, ReqTypeOK, FilesTypeOK

LEMMA ListTyped ==
    ASSUME TypeOK, NEW r \in Request, List(r)
    PROVE  TypeOK'
<1> USE TypeParts
<1>1. /\ phase' \in [Request -> {"idle"} \cup Working \cup Settled]
      /\ entries' \in [Request -> SUBSET File]
      /\ rest' \in [Request -> SUBSET File]
      /\ out' \in [Request -> Request \cup {None}]
      /\ lists' \subseteq Request /\ stuck' \subseteq Request /\ ok' = ok
  <2>1. CASE Fail(r)
    BY <2>1, FailTyped
  <2>2. CASE ~Fail(r)
    <3>1. /\ GoTo(r, "match") /\ UNCHANGED <<lists, stuck, ok, entries, out>>
          /\ rest' = [rest EXCEPT ![r] = disk \cap Touched(r)]
      BY <2>2 DEF List
    <3>. QED
      BY <3>1, GoToTyped DEF Working, Concatenating, DirTypeOK, ReqTypeOK, FilesTypeOK
  <2>. QED
    BY <2>1, <2>2
<1>2. UNCHANGED <<dirVars, ask, missed, got, name, bytes, disturbed, left, alive>>
  BY DEF List
<1>. QED
  BY <1>1, <1>2, TypePartsNext DEF dirVars, DirTypeOK, ReqTypeOK, FilesTypeOK

(***************************************************************************)
(* A match probes one more segment, writes the list, or fails.             *)
(***************************************************************************)
LEMMA MatchCases ==
    ASSUME NEW r \in Request, Match(r)
    PROVE  \/ \E f \in rest[r] : Probe(r, f)
           \/ rest[r] = {} /\ WriteList(r)
           \/ Fail(r) /\ UNCHANGED <<missed, faults>>
BY DEF Match

LEMMA ProbeTyped ==
    ASSUME ReqTypeOK, FilesTypeOK, NEW r \in Request, NEW f \in rest[r], Probe(r, f)
    PROVE  /\ phase' \in [Request -> {"idle"} \cup Working \cup Settled]
           /\ entries' \in [Request -> SUBSET File]
           /\ rest' \in [Request -> SUBSET File]
           /\ missed' \subseteq Request \X File
           /\ out' \in [Request -> Request \cup {None}]
           /\ lists' \subseteq Request /\ stuck' \subseteq Request /\ ok' = ok
           /\ UNCHANGED faults \/ \E k \in FaultKinds : Fault(k)
<1> USE DEF ReqTypeOK, FilesTypeOK
<1>1. f \in File
  OBVIOUS
<1>2. /\ UNCHANGED <<phase, lists, stuck, ok, out>>
      /\ rest' = [rest EXCEPT ![r] = @ \ {f}]
      /\ entries' \in {entries, [entries EXCEPT ![r] = @ \cup {f}]}
      /\ missed' \in {missed, missed \cup {<<r, f>>}}
      /\ UNCHANGED faults \/ \E k \in FaultKinds : Fault(k)
  BY DEF Probe, Fault
<1>. QED
  BY <1>1, <1>2

LEMMA MatchTyped ==
    ASSUME TypeOK, NEW r \in Request, Match(r)
    PROVE  TypeOK'
<1> USE TypeParts
<1>1. /\ phase' \in [Request -> {"idle"} \cup Working \cup Settled]
      /\ entries' \in [Request -> SUBSET File]
      /\ rest' \in [Request -> SUBSET File]
      /\ missed' \subseteq Request \X File
      /\ out' \in [Request -> Request \cup {None}]
      /\ lists' \subseteq Request /\ stuck' \subseteq Request /\ ok' = ok
      /\ UNCHANGED faults \/ \E k \in FaultKinds : Fault(k)
  <2>1. CASE Fail(r) /\ UNCHANGED <<missed, faults>>
    BY <2>1, FailTyped DEF ReqTypeOK
  <2>2. CASE \E f \in rest[r] : Probe(r, f)
    BY <2>2, ProbeTyped
  <2>3. CASE WriteList(r)
    <3>1. phase' \in [Request -> {"idle"} \cup Working \cup Settled]
      BY <2>3, GoToTyped DEF WriteList, Working, Concatenating
    <3>. QED
      BY <2>3, <3>1 DEF WriteList, ReqTypeOK, FilesTypeOK
  <2>. QED
    BY <2>1, <2>2, <2>3, MatchCases
<1>2. /\ UNCHANGED <<now, disk, size, readable, last, writing, up>>
      /\ UNCHANGED <<ask, got, name, bytes, disturbed, left, alive>>
  BY DEF Match
<1>3. DirTypeOK'
  BY <1>1, <1>2, DirSame DEF DirTypeOK
<1>. QED
  BY <1>1, <1>2, <1>3, TypePartsNext DEF ReqTypeOK, FilesTypeOK

(***************************************************************************)
(* The path of a request that has begun is one.                            *)
(***************************************************************************)
LEMMA OpenTyped ==
    ASSUME TypeOK, NEW r \in Request, PathOf(r) \in Path, Open(r)
    PROVE  TypeOK'
<1> USE TypeParts
<1>1. /\ phase' \in [Request -> {"idle"} \cup Working \cup Settled]
      /\ entries' \in [Request -> SUBSET File]
      /\ rest' \in [Request -> SUBSET File]
      /\ out' \in [Request -> Request \cup {None}]
      /\ lists' \subseteq Request /\ stuck' \subseteq Request /\ ok' = ok
      /\ name' \in [Path -> Request \cup {None}]
      /\ bytes' \in [Request -> SUBSET Piece]
      /\ disturbed' \subseteq Request
  <2>1. CASE Fail(r) /\ UNCHANGED <<name, bytes, disturbed>>
    BY <2>1, FailTyped DEF FilesTypeOK
  <2>2. CASE ~(Fail(r) /\ UNCHANGED <<name, bytes, disturbed>>)
    <3> DEFINE p == PathOf(r)
               f == IF name[p] = None THEN r ELSE name[p]
    <3>1. /\ GoTo(r, "copy") /\ UNCHANGED <<lists, stuck, ok, entries, rest>>
          /\ name' = [name EXCEPT ![p] = f]
          /\ out' = [out EXCEPT ![r] = f]
          /\ bytes' = Truncated(f)
          /\ Disturb(r)
      BY <2>2 DEF Open
    <3>2. f \in Request
      BY DEF FilesTypeOK
    <3>3. disturbed' \subseteq Request
      BY <3>1 DEF Disturb, SavedAt, Using, FilesTypeOK, ReqTypeOK
    <3> HIDE DEF f, p
    <3>4. bytes' \in [Request -> SUBSET Piece]
      BY <3>1, <3>2 DEF Truncated, FilesTypeOK
    <3>5. phase' \in [Request -> {"idle"} \cup Working \cup Settled]
      BY <3>1, GoToTyped DEF Working, Concatenating
    <3>. QED
      BY <3>1, <3>2, <3>3, <3>4, <3>5 DEF ReqTypeOK, FilesTypeOK
  <2>. QED
    BY <2>1, <2>2
<1>2. /\ UNCHANGED <<now, disk, size, readable, last, writing, up>>
      /\ UNCHANGED <<ask, missed, got, left, alive>>
      /\ UNCHANGED faults \/ \E k \in FaultKinds : Fault(k)
  BY DEF Open, Fault
<1>3. DirTypeOK'
  BY <1>2, DirSame DEF DirTypeOK
<1>. QED
  BY <1>1, <1>2, <1>3, TypePartsNext DEF ReqTypeOK, FilesTypeOK

(***************************************************************************)
(* Copy and Finish, which write a piece.                                   *)
(***************************************************************************)
LEMMA PutTyped ==
    ASSUME FilesTypeOK, NEW r \in Request, NEW c \in (File \cup {0}), Put(r, c)
    PROVE  bytes' \in [Request -> SUBSET Piece]
<1>1. <<r, c>> \in Piece
  BY TimeAssumption DEF Piece, File
<1>2. bytes' = [bytes EXCEPT ![out[r]] = bytes[out[r]] \cup {<<r, c>>}]
  BY DEF Put
<1>. QED
  BY <1>1, <1>2 DEF FilesTypeOK

LEMMA CopyTyped ==
    ASSUME TypeOK, NEW r \in Request, Copy(r)
    PROVE  TypeOK'
<1> USE TypeParts
<1>1. PICK f \in rest[r] :
          \/ /\ Put(r, f)
             /\ rest' = [rest EXCEPT ![r] = @ \ {f}]
             /\ UNCHANGED <<phase, lists, stuck, ok, entries, out>>
          \/ Fail(r) /\ UNCHANGED bytes
  BY DEF Copy
<1>2. /\ phase' \in [Request -> {"idle"} \cup Working \cup Settled]
      /\ entries' \in [Request -> SUBSET File]
      /\ rest' \in [Request -> SUBSET File]
      /\ out' \in [Request -> Request \cup {None}]
      /\ lists' \subseteq Request /\ stuck' \subseteq Request /\ ok' = ok
      /\ bytes' \in [Request -> SUBSET Piece]
  <2>1. CASE Fail(r) /\ UNCHANGED bytes
    BY <2>1, FailTyped DEF FilesTypeOK
  <2>2. CASE ~(Fail(r) /\ UNCHANGED bytes)
    <3>1. f \in File
      BY DEF ReqTypeOK
    <3>2. bytes' \in [Request -> SUBSET Piece]
      BY <1>1, <2>2, <3>1, PutTyped
    <3>3. rest' \in [Request -> SUBSET File]
      BY <1>1, <2>2 DEF ReqTypeOK
    <3>. QED
      BY <1>1, <2>2, <3>2, <3>3 DEF ReqTypeOK, FilesTypeOK
  <2>. QED
    BY <2>1, <2>2
<1>3. /\ UNCHANGED <<now, disk, size, readable, last, writing, up>>
      /\ UNCHANGED <<ask, missed, got, name, disturbed, left, alive>>
      /\ UNCHANGED faults \/ \E k \in FaultKinds : Fault(k)
  BY DEF Copy, Fault
<1>4. DirTypeOK'
  BY <1>3, DirSame DEF DirTypeOK
<1>. QED
  BY <1>2, <1>3, <1>4, TypePartsNext DEF ReqTypeOK, FilesTypeOK

LEMMA FinishTyped ==
    ASSUME TypeOK, NEW r \in Request, Finish(r)
    PROVE  TypeOK'
<1> USE TypeParts
<1>1. /\ phase' \in [Request -> {"idle"} \cup Working \cup Settled]
      /\ entries' \in [Request -> SUBSET File]
      /\ rest' \in [Request -> SUBSET File]
      /\ out' \in [Request -> Request \cup {None}]
      /\ lists' \subseteq Request /\ stuck' \subseteq Request /\ ok' \subseteq Request
      /\ bytes' \in [Request -> SUBSET Piece]
  <2>1. CASE Fail(r) /\ UNCHANGED bytes
    BY <2>1, FailTyped DEF FilesTypeOK, ReqTypeOK
  <2>2. CASE ~(Fail(r) /\ UNCHANGED bytes)
    <3>1. /\ Put(r, 0)
          /\ Unlist({r})
          /\ \E point \in {"read", "done"} : GoTo(r, point)
          /\ ok' \in {ok, ok \cup {r}}
          /\ out' = [out EXCEPT ![r] = None]
          /\ UNCHANGED <<entries, rest>>
      BY <2>2 DEF Finish
    <3>2. bytes' \in [Request -> SUBSET Piece]
      BY <3>1, PutTyped
    <3>3. phase' \in [Request -> {"idle"} \cup Working \cup Settled]
      BY <3>1, GoToTyped DEF Working, Settled
    <3>4. lists' \subseteq Request /\ stuck' \subseteq Request
      BY <3>1, UnlistTyped
    <3>. QED
      BY <3>1, <3>2, <3>3, <3>4 DEF ReqTypeOK, FilesTypeOK
  <2>. QED
    BY <2>1, <2>2
<1>2. /\ UNCHANGED <<now, disk, size, readable, last, writing, up>>
      /\ UNCHANGED <<ask, missed, got, name, disturbed, left, alive>>
      /\ UNCHANGED faults \/ \E k \in FaultKinds : Fault(k)
  BY DEF Finish, Fault
<1>3. DirTypeOK'
  BY <1>2, DirSame DEF DirTypeOK
<1>. QED
  BY <1>1, <1>2, <1>3, TypePartsNext DEF ReqTypeOK, FilesTypeOK

(***************************************************************************)
(* What a fetch does with its clip.                                        *)
(***************************************************************************)
LEMMA ReadTyped ==
    ASSUME TypeOK, NEW r \in Request, PathOf(r) \in Path, Read(r)
    PROVE  TypeOK'
<1> USE TypeParts
<1> DEFINE f == name[PathOf(r)]
<1>1. f \in Request \cup {None}
  BY DEF FilesTypeOK
<1>2. /\ \E point \in {"remove", "stream"} : GoTo(r, point)
      /\ out' \in {out, [out EXCEPT ![r] = f]}
      /\ ok' \in {ok, ok \cup {r}}
      /\ (f # None /\ got' = [got EXCEPT ![r] = bytes[f]]) \/ UNCHANGED got
      /\ UNCHANGED <<dirVars, ask, entries, rest, missed, lists, stuck, name, bytes>>
      /\ UNCHANGED <<disturbed, left, alive>>
  BY DEF Read
<1>3. phase' \in [Request -> {"idle"} \cup Working \cup Settled]
  BY <1>2, GoToTyped DEF Working, Settled
<1>4. got' \in [Request -> SUBSET Piece]
  BY <1>1, <1>2 DEF FilesTypeOK, ReqTypeOK
<1>5. out' \in [Request -> Request \cup {None}]
  BY <1>1, <1>2 DEF FilesTypeOK
<1>. QED
  BY <1>2, <1>3, <1>4, <1>5, TypePartsNext DEF dirVars, DirTypeOK, ReqTypeOK, FilesTypeOK

LEMMA StreamTyped ==
    ASSUME TypeOK, NEW r \in Request, out[r] \in Request, Stream(r)
    PROVE  TypeOK'
<1> USE TypeParts
<1>1. /\ GoTo(r, "remove")
      /\ out' = [out EXCEPT ![r] = None]
      /\ ok' \in {ok, ok \cup {r}}
      /\ got' = [got EXCEPT ![r] = bytes[out[r]]] \/ UNCHANGED got
      /\ UNCHANGED <<now, disk, size, readable, last, writing, up>>
      /\ UNCHANGED <<ask, entries, rest, missed, lists, stuck, name, bytes>>
      /\ UNCHANGED <<disturbed, left, alive>>
      /\ UNCHANGED faults \/ \E k \in FaultKinds : Fault(k)
  BY DEF Stream, Fault
<1>2. phase' \in [Request -> {"idle"} \cup Working \cup Settled]
  BY <1>1, GoToTyped DEF Working
<1>3. got' \in [Request -> SUBSET Piece]
  BY <1>1 DEF FilesTypeOK, ReqTypeOK
<1>4. DirTypeOK'
  BY <1>1, DirSame DEF DirTypeOK
<1>. QED
  BY <1>1, <1>2, <1>3, <1>4, TypePartsNext DEF ReqTypeOK, FilesTypeOK

LEMMA RemoveClipTyped ==
    ASSUME TypeOK, NEW r \in Request, PathOf(r) \in Path, RemoveClip(r)
    PROVE  TypeOK'
<1> USE TypeParts
<1>1. /\ \E point \in {"done", "failed"} : GoTo(r, point)
      /\ name' \in {name, [name EXCEPT ![PathOf(r)] = None]}
      /\ Disturb(r) \/ UNCHANGED disturbed
      /\ left' \in {left, left \cup {PathOf(r)}}
      /\ UNCHANGED <<now, disk, size, readable, last, writing, up>>
      /\ UNCHANGED <<ask, entries, rest, missed, ok, got, lists, stuck, bytes, out, alive>>
      /\ UNCHANGED faults \/ \E k \in FaultKinds : Fault(k)
  BY DEF RemoveClip, Removed, Fault
<1>2. phase' \in [Request -> {"idle"} \cup Working \cup Settled]
  BY <1>1, GoToTyped DEF Settled
<1>3. disturbed' \subseteq Request
  BY <1>1 DEF Disturb, SavedAt, Using, FilesTypeOK, ReqTypeOK
<1>4. name' \in [Path -> Request \cup {None}]
  BY <1>1 DEF FilesTypeOK
<1>5. DirTypeOK'
  BY <1>1, DirSame DEF DirTypeOK
<1>. QED
  BY <1>1, <1>2, <1>3, <1>4, <1>5, TypePartsNext DEF ReqTypeOK, FilesTypeOK

(***************************************************************************)
(* The directory and the life of the store.                                *)
(***************************************************************************)
LEMMA DirectoryTyped ==
    ASSUME TypeOK, UNCHANGED clipVars, Segmenting \/ Reclaim \/ Tick \/ Close
    PROVE  TypeOK'
<1> USE TypeParts, TimeAssumption, SizeAssumption DEF DirTypeOK, File
<1>1. ReqTypeOK' /\ FilesTypeOK'
  BY DEF clipVars, reqVars, fileVars, ReqTypeOK, FilesTypeOK
<1>2. CASE OpenSegment
  <2>1. now \in File
    BY <1>2 DEF OpenSegment
  <2>. QED
    BY <1>1, <1>2, <2>1, TypePartsNext DEF OpenSegment
<1>3. CASE WritePacket
  <2>1. size[last] + 1 \in 0..MaxSegment
    BY <1>3 DEF WritePacket
  <2>. QED
    BY <1>1, <1>3, <2>1, TypePartsNext DEF WritePacket
<1>4. CASE FinishSegment
  BY <1>1, <1>4, TypePartsNext DEF FinishSegment
<1>5. CASE Reclaim
  <2>1. PICK f \in readable : Unlink(f)
    BY <1>5 DEF Reclaim
  <2>2. UNCHANGED <<now, last, writing, up, faults>>
    BY <1>5 DEF Reclaim
  <2>. QED
    BY <1>1, <2>1, <2>2, TypePartsNext DEF Unlink
<1>6. CASE Tick
  BY <1>1, <1>6, TypePartsNext DEF Tick
<1>7. CASE Close
  <2>1. DirTypeOK'
    BY <1>7, DirSame DEF Close, Fault
  <2>. QED
    BY <1>1, <2>1, TypePartsNext
<1>. QED
  BY <1>2, <1>3, <1>4, <1>5, <1>6, <1>7 DEF Segmenting

LEMMA CrashTyped == TypeOK /\ Crash => TypeOK'
<1> SUFFICES ASSUME TypeOK, Crash PROVE TypeOK'
  OBVIOUS
<1> USE TypeParts
<1>1. DirTypeOK'
  <2>1. faults' \in 0..MaxFaults
    BY FaultAssumption DEF Crash, Fault, DirTypeOK
  <2>. QED
    BY <2>1 DEF Crash, DirTypeOK
<1>2. phase' \in [Request -> {"idle"} \cup Working \cup Settled]
  BY DEF Crash, ReqTypeOK, Settled
<1>3. entries' \in [Request -> SUBSET File] /\ rest' \in [Request -> SUBSET File]
  BY DEF Crash, ReqTypeOK
<1>4. out' \in [Request -> Request \cup {None}]
  BY DEF Crash
<1>5. /\ ok' \subseteq Request /\ left' \subseteq Path /\ alive' \in BOOLEAN
      /\ UNCHANGED <<ask, missed, got, lists, stuck, name, bytes, disturbed>>
  BY DEF Crash, ReqTypeOK, FilesTypeOK
<1>. QED
  BY <1>1, <1>2, <1>3, <1>4, <1>5, TypePartsNext DEF ReqTypeOK, FilesTypeOK

LEMMA StartsTyped == TypeOK /\ (Start \/ OtherStart) => TypeOK'
<1> SUFFICES ASSUME TypeOK, Start \/ OtherStart PROVE TypeOK'
  OBVIOUS
<1> USE TypeParts
<1>1. DirTypeOK'
  BY DirSame DEF Start, OtherStart, Fault, DirTypeOK
<1>2. Unlist(lists) /\ UNCHANGED <<reqVars, name, bytes, out, disturbed, left>>
  BY DEF Start, OtherStart
<1>3. lists' \subseteq Request /\ stuck' \subseteq Request
  BY <1>2, UnlistTyped
<1>4. alive' \in BOOLEAN
  BY DEF Start, OtherStart, FilesTypeOK
<1>. QED
  BY <1>1, <1>2, <1>3, <1>4, TypePartsNext DEF reqVars, ReqTypeOK, FilesTypeOK

-----------------------------------------------------------------------------
(***************************************************************************)
(* The inductive invariant behind OwnClip and SavedClip.                   *)
(***************************************************************************)

(***************************************************************************)
(* A request that has begun has a kind and a path.                         *)
(***************************************************************************)
Begun ==
    \A r \in Request : phase[r] # "idle" => ask[r].kind \in Kind /\ ask[r].from \in File

(***************************************************************************)
(* What a request holds at each point.                                     *)
(***************************************************************************)
Shape ==
    \A r \in Request :
       /\ phase[r] \in {"read", "stream", "remove"} => Fetching(r)
       /\ phase[r] \in {"copy", "stream"} <=> out[r] # None
       /\ phase[r] = "open" => rest[r] = entries[r]
       /\ phase[r] = "copy" => rest[r] \subseteq entries[r]
       /\ r \in ok => phase[r] = "done" \/ (phase[r] = "remove" /\ Fetching(r))

(***************************************************************************)
(* A file is named by, and open under, the path of the request that made   *)
(* it, and no other.                                                       *)
(***************************************************************************)
Files ==
    /\ \A p \in Path : name[p] # None => phase[name[p]] # "idle" /\ PathOf(name[p]) = p
    /\ \A r \in Request : out[r] # None => phase[out[r]] # "idle" /\ PathOf(out[r]) = PathOf(r)

(***************************************************************************)
(* Two requests that write or read clips of one path at the same time know *)
(* of it, and so does a save whose clip is being replaced.                 *)
(***************************************************************************)
Busy == {"copy", "read", "stream"}

Exclusive ==
    \A q, r \in Request :
       /\ q # r /\ PathOf(q) = PathOf(r) /\ phase[q] \in Busy
       /\ phase[r] \in Busy \/ (r \in ok /\ ~Fetching(r))
       => r \in disturbed

(***************************************************************************)
(* A request that nobody disturbs writes to the file its path names, which *)
(* holds what it has copied so far and nothing else.                       *)
(***************************************************************************)
Copied(r) == {r} \X (entries[r] \ rest[r])

Held ==
    \A r \in Request \ disturbed :
       /\ phase[r] = "copy" => name[PathOf(r)] = out[r] /\ bytes[out[r]] = Copied(r)
       /\ phase[r] = "read" => /\ name[PathOf(r)] # None
                               /\ bytes[name[PathOf(r)]] = Whole(r)
       /\ phase[r] = "stream" => bytes[out[r]] = Whole(r)

ClipInv == TypeOK /\ Begun /\ Shape /\ Files /\ Exclusive /\ Held /\ OwnClip /\ SavedClip

(***************************************************************************)
(* What a step leaves of a request's own state.                            *)
(***************************************************************************)
Same(q) ==
    /\ phase'[q] = phase[q] /\ entries'[q] = entries[q] /\ rest'[q] = rest[q]
    /\ out'[q] = out[q] /\ got'[q] = got[q] /\ (q \in ok' <=> q \in ok)

(***************************************************************************)
(* A request keeps its path and its kind; with its segments, its clip.     *)
(***************************************************************************)
LEMMA AskSame ==
    ASSUME NEW q \in Request, ask'[q] = ask[q]
    PROVE  PathOf(q)' = PathOf(q) /\ (Fetching(q)' <=> Fetching(q))
BY DEF PathOf, Fetching

LEMMA WholeSame ==
    ASSUME NEW q \in Request, entries'[q] = entries[q]
    PROVE  Whole(q)' = Whole(q) /\ (rest'[q] = rest[q] => Copied(q)' = Copied(q))
BY DEF Whole, Copied

LEMMA PathType ==
    ASSUME Begun, NEW r \in Request, phase[r] # "idle"
    PROVE  PathOf(r) \in Path
BY DEF Begun, PathOf, Path

(***************************************************************************)
(* A step of a request outside of its clip: it is not there yet, or has    *)
(* failed.                                                                 *)
(***************************************************************************)
LEMMA OutsideInv ==
    ASSUME ClipInv, TypeOK', NEW r \in Request,
           UNCHANGED <<ask, name, bytes, disturbed, got, ok>>,
           \A q \in Request \ {r} : Same(q),
           phase[r] \notin {"idle", "done", "remove"},
           phase'[r] \in {"list", "match", "open", "cancelled", "failed", "remove"},
           out'[r] = None,
           phase'[r] = "open" => rest'[r] = entries'[r],
           phase'[r] = "remove" => Fetching(r)
    PROVE  ClipInv'
<1> USE DEF ClipInv, Same
<1>1. \A q \in Request : PathOf(q)' = PathOf(q) /\ (Fetching(q)' <=> Fetching(q))
  BY AskSame
<1>2. \A q \in Request \ {r} : Whole(q)' = Whole(q) /\ Copied(q)' = Copied(q)
  BY WholeSame
<1>3. r \notin ok
  BY DEF Shape
<1>4. Begun'
  BY DEF Begun
<1>5. Shape'
  BY <1>1, <1>3 DEF Shape
<1>6. Files'
  <2>1. \A q \in Request : phase[q] # "idle" => phase'[q] # "idle"
    OBVIOUS
  <2>2. \A p \in Path : name[p] # None => name[p] \in Request
    BY DEF TypeOK
  <2>3. \A q \in Request : out[q] # None => out[q] \in Request
    BY DEF TypeOK
  <2>. QED
    BY <1>1, <2>1, <2>2, <2>3 DEF Files
<1>7. Exclusive'
  BY <1>1, <1>3 DEF Exclusive, Busy
<1>8. Held'
  BY <1>1, <1>2 DEF Held
<1>9. OwnClip'
  BY <1>1, <1>2, <1>3, TypeParts DEF OwnClip, ReqTypeOK
<1>10. SavedClip'
  BY <1>1, <1>2, <1>3, TypeParts DEF SavedClip, ReqTypeOK
<1>. QED
  BY <1>4, <1>5, <1>6, <1>7, <1>8, <1>9, <1>10

LEMMA FailInv ==
    ASSUME ClipInv, TypeOK', NEW r \in Request, Fail(r),
           phase[r] \in Concatenating,
           UNCHANGED <<ask, name, bytes, disturbed, got>>
    PROVE  ClipInv'
<1> USE TypeParts DEF ReqTypeOK, FilesTypeOK
<1>1. /\ phase' = [phase EXCEPT ![r] = IF Fetching(r) THEN "remove" ELSE "failed"]
      /\ entries' = [entries EXCEPT ![r] = {}]
      /\ rest' = [rest EXCEPT ![r] = {}]
      /\ out' = [out EXCEPT ![r] = None]
      /\ UNCHANGED ok
  BY DEF Fail, Forget, GoTo
<1>2. \A q \in Request \ {r} : Same(q)
  BY <1>1 DEF Same, ClipInv
<1>3. out'[r] = None /\ phase'[r] = IF Fetching(r) THEN "remove" ELSE "failed"
  BY <1>1 DEF ClipInv
<1>. QED
  BY <1>1, <1>2, <1>3, OutsideInv DEF Concatenating

LEMMA WaitInv ==
    ASSUME ClipInv, TypeOK', NEW r \in Request, Fire(r) \/ Cancel(r)
    PROVE  ClipInv'
<1> USE TypeParts DEF ReqTypeOK, FilesTypeOK
<1>1. /\ phase[r] = "wait"
      /\ \E point \in {"list", "cancelled"} : phase' = [phase EXCEPT ![r] = point]
      /\ UNCHANGED <<dirVars, ask, entries, rest, missed, ok, got, fileVars, alive>>
  BY DEF Fire, Cancel, GoTo
<1>2. \A q \in Request \ {r} : Same(q)
  BY <1>1 DEF Same, ClipInv, fileVars
<1>3. out[r] = None
  BY <1>1 DEF ClipInv, Shape
<1>. QED
  BY <1>1, <1>2, <1>3, OutsideInv DEF fileVars, ClipInv

LEMMA ListInv ==
    ASSUME ClipInv, TypeOK', NEW r \in Request, List(r)
    PROVE  ClipInv'
<1> USE TypeParts DEF ReqTypeOK, FilesTypeOK
<1>1. phase[r] = "list" /\ UNCHANGED <<ask, name, bytes, disturbed, got>>
  BY DEF List
<1>2. CASE Fail(r)
  BY <1>1, <1>2, FailInv DEF Concatenating
<1>3. CASE ~Fail(r)
  <2>1. /\ phase' = [phase EXCEPT ![r] = "match"]
        /\ \E e : rest' = [rest EXCEPT ![r] = e]
        /\ UNCHANGED <<ok, entries, out>>
    BY <1>3 DEF List, GoTo
  <2>2. \A q \in Request \ {r} : Same(q)
    BY <1>1, <2>1 DEF Same, ClipInv
  <2>3. out[r] = None
    BY <1>1 DEF ClipInv, Shape
  <2>. QED
    BY <1>1, <2>1, <2>2, <2>3, OutsideInv DEF ClipInv
<1>. QED
  BY <1>2, <1>3

LEMMA MatchInv ==
    ASSUME ClipInv, TypeOK', NEW r \in Request, Match(r)
    PROVE  ClipInv'
<1> USE TypeParts DEF ReqTypeOK, FilesTypeOK
<1>1. phase[r] = "match" /\ UNCHANGED <<ask, name, bytes, disturbed, got>>
  BY DEF Match
<1>2. out[r] = None
  BY <1>1 DEF ClipInv, Shape
<1>3. CASE Fail(r)
  BY <1>1, <1>3, FailInv DEF Concatenating
<1>4. CASE \E f \in rest[r] : Probe(r, f)
  <2>1. /\ UNCHANGED <<phase, ok, out>>
        /\ \E e : entries' = [entries EXCEPT ![r] = e]
        /\ \E e : rest' = [rest EXCEPT ![r] = e]
    <3>1. PICK f \in rest[r] : Probe(r, f)
      BY <1>4
    <3>2. entries' = [entries EXCEPT ![r] = @]
      \/ entries' = [entries EXCEPT ![r] = @ \cup {f}]
      BY <3>1 DEF Probe, ClipInv
    <3>. QED
      BY <3>1, <3>2 DEF Probe
  <2>2. \A q \in Request \ {r} : Same(q)
    BY <1>1, <2>1 DEF Same, ClipInv
  <2>. QED
    BY <1>1, <1>2, <2>1, <2>2, OutsideInv DEF ClipInv
<1>5. CASE WriteList(r)
  <2>1. /\ phase' = [phase EXCEPT ![r] = "open"]
        /\ rest' = [rest EXCEPT ![r] = entries[r]]
        /\ UNCHANGED <<ok, out, entries>>
    BY <1>5 DEF WriteList, GoTo
  <2>2. \A q \in Request \ {r} : Same(q)
    BY <1>1, <2>1 DEF Same, ClipInv
  <2>3. rest'[r] = entries'[r]
    BY <1>1, <2>1 DEF ClipInv
  <2>. QED
    BY <1>1, <1>2, <2>1, <2>2, <2>3, OutsideInv DEF ClipInv
<1>. QED
  BY <1>3, <1>4, <1>5, MatchCases

-----------------------------------------------------------------------------
(***************************************************************************)
(* A request opens its clip.  Whoever has the path in use, or has saved a  *)
(* clip there, is disturbed; so a request that is not has another path,    *)
(* and by Files another file than the one that is truncated.               *)
(***************************************************************************)
LEMMA OpenInv ==
    ASSUME ClipInv, TypeOK', NEW r \in Request, Open(r)
    PROVE  ClipInv'
<1> USE TypeParts DEF ClipInv
<1> DEFINE p == PathOf(r)
           f == IF name[p] = None THEN r ELSE name[p]
<1>1. phase[r] = "open" /\ UNCHANGED <<ask, got, left>>
  BY DEF Open
<1>2. CASE Fail(r) /\ UNCHANGED <<name, bytes, disturbed>>
  BY <1>1, <1>2, FailInv DEF Concatenating
<1>3. CASE ~(Fail(r) /\ UNCHANGED <<name, bytes, disturbed>>)
  <2>1. /\ phase' = [phase EXCEPT ![r] = "copy"]
        /\ name' = [name EXCEPT ![p] = f]
        /\ out' = [out EXCEPT ![r] = f]
        /\ bytes' = [bytes EXCEPT ![f] = {}]
        /\ Disturb(r)
        /\ UNCHANGED <<ok, entries, rest>>
    BY <1>3 DEF Open, GoTo, Truncated
  <2>2. p \in Path /\ f \in Request
    BY <1>1, PathType DEF FilesTypeOK
  <2>3. \A q \in Request \ {r} : Same(q)
    BY <1>1, <2>1 DEF Same, ReqTypeOK, FilesTypeOK
  <2>4. \A q \in Request : PathOf(q)' = PathOf(q) /\ (Fetching(q)' <=> Fetching(q))
    BY <1>1, AskSame
  <2>5. \A q \in Request : Whole(q)' = Whole(q) /\ Copied(q)' = Copied(q)
    BY <2>1, WholeSame
  <2>6. phase[f] # "idle" /\ PathOf(f) = p
    BY <1>1, <2>2 DEF Files
  <2>7. /\ phase'[r] = "copy" /\ out'[r] = f /\ name'[p] = f /\ bytes'[f] = {}
        /\ \A g \in Request \ {f} : bytes'[g] = bytes[g]
        /\ \A s \in Path \ {p} : name'[s] = name[s]
    BY <2>1, <2>2 DEF ReqTypeOK, FilesTypeOK
  <2>8. disturbed \subseteq disturbed'
    BY <2>1 DEF Disturb
  <2>9. \A q \in Request \ {r} : PathOf(q) = p /\ phase[q] \in Busy => q \in disturbed' /\ r \in disturbed'
    BY <2>1 DEF Disturb, Using, Busy
  <2>10. \A q \in Request : PathOf(q) = p /\ q \in ok /\ ~Fetching(q) => q \in disturbed'
    BY <2>1 DEF Disturb, SavedAt
  <2>11. r \notin ok /\ r \notin ok'
    BY <1>1, <2>1 DEF Shape
  <2> HIDE DEF f, p
  <2>12. Begun'
    BY <1>1, <2>3, <2>7 DEF Begun, Same
  <2>13. Shape'
    <3>1. rest'[r] \subseteq entries'[r] /\ f # None
      BY <1>1, <2>1, <2>2 DEF Shape, Request, None
    <3>. QED
      BY <2>3, <2>4, <2>7, <2>11, <3>1, <1>1 DEF Shape, Same
  <2>14. Files'
    <3>1. \A q \in Request : phase[q] # "idle" => phase'[q] # "idle"
      BY <2>3, <2>7 DEF Same
    <3>2. ASSUME NEW s \in Path, name'[s] # None
          PROVE  name'[s] \in Request /\ phase'[name'[s]] # "idle" /\ PathOf(name'[s]) = s
      BY <2>2, <2>4, <2>6, <2>7, <3>1, <3>2 DEF Files, FilesTypeOK
    <3>3. ASSUME NEW q \in Request, out'[q] # None
          PROVE  out'[q] \in Request /\ phase'[out'[q]] # "idle" /\ PathOf(out'[q]) = PathOf(q)
      <4>1. CASE q = r
        BY <4>1, <2>2, <2>4, <2>6, <2>7, <3>1 DEF p
      <4>2. CASE q # r
        BY <4>2, <2>3, <2>4, <3>1, <3>3 DEF Files, FilesTypeOK, Same
      <4>. QED
        BY <4>1, <4>2
    <3>. QED
      BY <2>4, <3>2, <3>3 DEF Files
  <2>15. Exclusive'
    <3>1. p = PathOf(r)
      BY DEF p
    <3>. QED
      BY <2>3, <2>4, <2>7, <2>8, <2>9, <2>10, <2>11, <3>1 DEF Exclusive, Same, Busy
  <2>16. Held'
    <3>1. p = PathOf(r)
      BY DEF p
    <3>2. bytes'[out'[r]] = Copied(r) /\ name'[PathOf(r)] = out'[r]
      <4>1. Copied(r) = {}
        BY <1>1 DEF Shape, Copied
      <4>. QED
        BY <2>7, <3>1, <4>1
    <3>3. ASSUME NEW q \in Request \ disturbed', q # r, phase[q] \in Busy
          PROVE  PathOf(q) # p /\ name'[PathOf(q)] = name[PathOf(q)]
      <4>1. PathOf(q) # p
        BY <2>9, <3>3
      <4>2. PathOf(q) \in Path
        BY <3>3, PathType DEF Busy
      <4>. QED
        BY <4>1, <4>2, <2>7
    <3>4. ASSUME NEW q \in Request \ disturbed', q # r, phase[q] \in {"copy", "stream"}
          PROVE  bytes'[out[q]] = bytes[out[q]]
      <4>1. out[q] \in Request /\ PathOf(out[q]) = PathOf(q)
        BY <3>4 DEF Shape, Files, FilesTypeOK
      <4>. QED
        BY <4>1, <3>3, <3>4, <2>6, <2>7 DEF Busy
    <3>5. ASSUME NEW q \in Request \ disturbed', q # r, phase[q] = "read"
          PROVE  bytes'[name[PathOf(q)]] = bytes[name[PathOf(q)]]
      <4>1. PathOf(q) \in Path /\ name[PathOf(q)] # None
        BY <3>5, <2>8, PathType DEF Held
      <4>2. name[PathOf(q)] \in Request /\ PathOf(name[PathOf(q)]) = PathOf(q)
        BY <4>1 DEF Files, FilesTypeOK
      <4>. QED
        BY <4>2, <3>3, <3>5, <2>6, <2>7 DEF Busy
    <3>. QED
      BY <2>3, <2>4, <2>5, <2>7, <2>8, <3>2, <3>3, <3>4, <3>5 DEF Held, Same, Busy
  <2>17. OwnClip'
    BY <1>1, <2>1, <2>4, <2>5, <2>8 DEF OwnClip, ReqTypeOK
  <2>18. SavedClip'
    <3>1. ASSUME NEW q \in ok \ disturbed', ~Fetching(q)
          PROVE  name'[PathOf(q)] # None /\ bytes'[name'[PathOf(q)]] = Whole(q)
      <4>1. q \in Request /\ PathOf(q) # p
        BY <2>10, <3>1 DEF ReqTypeOK
      <4>2. PathOf(q) \in Path
        BY <3>1, <4>1, PathType DEF Shape
      <4>3. name[PathOf(q)] # None /\ bytes[name[PathOf(q)]] = Whole(q)
        BY <2>8, <3>1 DEF SavedClip
      <4>4. name[PathOf(q)] \in Request /\ PathOf(name[PathOf(q)]) = PathOf(q)
        BY <4>2, <4>3 DEF Files, FilesTypeOK
      <4>. QED
        BY <4>1, <4>2, <4>3, <4>4, <2>6, <2>7
    <3>. QED
      BY <2>1, <2>4, <2>5, <3>1 DEF SavedClip, ReqTypeOK
  <2>. QED
    BY <2>12, <2>13, <2>14, <2>15, <2>16, <2>17, <2>18
<1>. QED
  BY <1>2, <1>3

-----------------------------------------------------------------------------
(***************************************************************************)
(* A piece that a request writes goes to no file that an undisturbed       *)
(* request has: that would have the same path.                             *)
(***************************************************************************)
LEMMA PutElsewhere ==
    ASSUME ClipInv, NEW r \in Request, phase[r] = "copy", NEW c, Put(r, c)
    PROVE  /\ \A q \in Request \ disturbed : q # r /\ phase[q] \in {"copy", "stream"} =>
                 bytes'[out[q]] = bytes[out[q]]
           /\ \A q \in Request \ disturbed : q # r /\ phase[q] = "read" =>
                 bytes'[name[PathOf(q)]] = bytes[name[PathOf(q)]]
           /\ \A q \in ok \ disturbed : q # r /\ ~Fetching(q) =>
                 bytes'[name[PathOf(q)]] = bytes[name[PathOf(q)]]
<1> USE TypeParts DEF ClipInv
<1>1. /\ out[r] \in Request /\ PathOf(out[r]) = PathOf(r)
      /\ \A g \in Request : g # out[r] => bytes'[g] = bytes[g]
  BY DEF Put, Shape, Files, FilesTypeOK
<1>2. ASSUME NEW q \in Request \ disturbed, q # r,
             phase[q] \in Busy \/ (q \in ok /\ ~Fetching(q))
      PROVE  PathOf(q) # PathOf(r)
  BY <1>2 DEF Exclusive, Busy
<1>3. ASSUME NEW q \in Request \ disturbed, q # r, phase[q] \in {"copy", "stream"}
      PROVE  bytes'[out[q]] = bytes[out[q]]
  <2>1. out[q] \in Request /\ PathOf(out[q]) = PathOf(q)
    BY <1>3 DEF Shape, Files, FilesTypeOK
  <2>. QED
    BY <1>1, <1>2, <1>3, <2>1 DEF Busy
<1>4. ASSUME NEW q \in Request \ disturbed, q # r, phase[q] # "idle",
             name[PathOf(q)] # None, PathOf(q) # PathOf(r)
      PROVE  bytes'[name[PathOf(q)]] = bytes[name[PathOf(q)]]
  <2>1. PathOf(q) \in Path
    BY <1>4, PathType
  <2>2. name[PathOf(q)] \in Request /\ PathOf(name[PathOf(q)]) = PathOf(q)
    BY <1>4, <2>1 DEF Files, FilesTypeOK
  <2>. QED
    BY <1>1, <1>4, <2>2
<1>5. ASSUME NEW q \in Request \ disturbed, q # r, phase[q] = "read"
      PROVE  bytes'[name[PathOf(q)]] = bytes[name[PathOf(q)]]
  <2>1. name[PathOf(q)] # None
    BY <1>5 DEF Held
  <2>. QED
    BY <1>2, <1>4, <1>5, <2>1 DEF Busy
<1>6. ASSUME NEW q \in ok \ disturbed, q # r, ~Fetching(q)
      PROVE  bytes'[name[PathOf(q)]] = bytes[name[PathOf(q)]]
  <2>1. name[PathOf(q)] # None /\ phase[q] # "idle" /\ q \in Request
    BY <1>6 DEF SavedClip, Shape, ReqTypeOK
  <2>. QED
    BY <1>2, <1>4, <1>6, <2>1
<1>. QED
  BY <1>3, <1>5, <1>6

LEMMA CopyInv ==
    ASSUME ClipInv, TypeOK', NEW r \in Request, Copy(r)
    PROVE  ClipInv'
<1> USE TypeParts DEF ClipInv
<1>1. phase[r] = "copy" /\ UNCHANGED <<ask, got, name, disturbed, left>>
  BY DEF Copy
<1>2. PICK f \in rest[r] :
          \/ /\ Put(r, f)
             /\ rest' = [rest EXCEPT ![r] = @ \ {f}]
             /\ UNCHANGED <<phase, lists, ok, entries, out>>
          \/ Fail(r) /\ UNCHANGED bytes
  BY DEF Copy
<1>3. CASE Fail(r) /\ UNCHANGED bytes
  BY <1>1, <1>3, FailInv DEF Concatenating
<1>4. CASE ~(Fail(r) /\ UNCHANGED bytes)
  <2>1. /\ Put(r, f)
        /\ rest' = [rest EXCEPT ![r] = @ \ {f}]
        /\ UNCHANGED <<phase, ok, entries, out>>
    BY <1>2, <1>4
  <2>2. \A q \in Request : PathOf(q)' = PathOf(q) /\ (Fetching(q)' <=> Fetching(q))
    BY <1>1, AskSame
  <2>3. \A q \in Request : Whole(q)' = Whole(q) /\ (q # r => Copied(q)' = Copied(q))
    BY <2>1, WholeSame DEF ReqTypeOK
  <2>4. Begun'
    BY <1>1, <2>1 DEF Begun
  <2>5. Shape'
    BY <1>1, <2>1, <2>2 DEF Shape, ReqTypeOK
  <2>6. Files'
    BY <1>1, <2>1, <2>2 DEF Files, FilesTypeOK
  <2>7. Exclusive'
    BY <1>1, <2>1, <2>2 DEF Exclusive
  <2>8. Held'
    <3>1. ASSUME r \notin disturbed
          PROVE  name[PathOf(r)] = out[r] /\ bytes'[out[r]] = Copied(r)'
      <4>1. name[PathOf(r)] = out[r] /\ bytes[out[r]] = Copied(r) /\ out[r] \in Request
        BY <1>1, <3>1 DEF Held, Shape, FilesTypeOK
      <4>2. bytes'[out[r]] = Copied(r) \cup {<<r, f>>}
        BY <2>1, <4>1 DEF Put, FilesTypeOK
      <4>3. rest[r] \subseteq entries[r] /\ rest'[r] = rest[r] \ {f}
        BY <1>1, <2>1 DEF Shape, ReqTypeOK
      <4>4. Copied(r) \cup {<<r, f>>} = {r} \X (entries[r] \ rest'[r])
        BY <4>3 DEF Copied
      <4>. QED
        BY <2>1, <4>1, <4>2, <4>4 DEF Copied
    <3>. QED
      BY <1>1, <2>1, <2>2, <2>3, <3>1, PutElsewhere DEF Held
  <2>9. OwnClip'
    BY <1>1, <2>1, <2>2, <2>3 DEF OwnClip, ReqTypeOK
  <2>10. SavedClip'
    <3>1. r \notin ok
      BY <1>1 DEF Shape
    <3>. QED
      BY <1>1, <2>1, <2>2, <2>3, <3>1, PutElsewhere DEF SavedClip, ReqTypeOK
  <2>. QED
    BY <2>4, <2>5, <2>6, <2>7, <2>8, <2>9, <2>10
<1>. QED
  BY <1>3, <1>4

LEMMA FinishInv ==
    ASSUME ClipInv, TypeOK', NEW r \in Request, Finish(r)
    PROVE  ClipInv'
<1> USE TypeParts DEF ClipInv
<1>1. phase[r] = "copy" /\ rest[r] = {} /\ UNCHANGED <<ask, got, name, disturbed, left>>
  BY DEF Finish
<1>2. CASE Fail(r) /\ UNCHANGED bytes
  BY <1>1, <1>2, FailInv DEF Concatenating
<1>3. CASE ~(Fail(r) /\ UNCHANGED bytes)
  <2>1. /\ Put(r, 0)
        /\ phase' = [phase EXCEPT ![r] = IF Fetching(r) THEN "read" ELSE "done"]
        /\ ok' = IF Fetching(r) THEN ok ELSE ok \cup {r}
        /\ out' = [out EXCEPT ![r] = None]
        /\ UNCHANGED <<entries, rest>>
    BY <1>3 DEF Finish, GoTo
  <2>2. \A q \in Request : PathOf(q)' = PathOf(q) /\ (Fetching(q)' <=> Fetching(q))
    BY <1>1, AskSame
  <2>3. \A q \in Request : Whole(q)' = Whole(q) /\ Copied(q)' = Copied(q)
    BY <2>1, WholeSame
  <2>4. \A q \in Request \ {r} : Same(q)
    BY <1>1, <2>1 DEF Same, ReqTypeOK, FilesTypeOK
  <2>5. /\ phase'[r] = IF Fetching(r) THEN "read" ELSE "done"
        /\ out'[r] = None /\ r \notin ok /\ (r \in ok' <=> ~Fetching(r))
    BY <1>1, <2>1 DEF Shape, ReqTypeOK, FilesTypeOK
  <2>6. ASSUME r \notin disturbed
        PROVE  /\ name[PathOf(r)] \in Request
               /\ bytes'[name[PathOf(r)]] = Whole(r)
    <3>1. name[PathOf(r)] = out[r] /\ bytes[out[r]] = Copied(r) /\ out[r] \in Request
      BY <1>1, <2>6 DEF Held, Shape, FilesTypeOK
    <3>2. bytes'[out[r]] = Copied(r) \cup {<<r, 0>>}
      BY <2>1, <3>1 DEF Put, FilesTypeOK
    <3>3. Copied(r) \cup {<<r, 0>>} = Whole(r)
      BY <1>1 DEF Copied, Whole
    <3>. QED
      BY <3>1, <3>2, <3>3
  <2>7. Begun'
    BY <1>1, <2>4, <2>5 DEF Begun, Same
  <2>8. Shape'
    BY <2>2, <2>4, <2>5 DEF Shape, Same
  <2>9. Files'
    <3>1. \A q \in Request : phase[q] # "idle" => phase'[q] # "idle"
      BY <2>4, <2>5 DEF Same
    <3>2. \A q \in Request : out'[q] # None => out'[q] = out[q]
      BY <2>4, <2>5 DEF Same
    <3>. QED
      BY <1>1, <2>2, <3>1, <3>2 DEF Files, FilesTypeOK
  <2>10. Exclusive'
    BY <1>1, <2>2, <2>4, <2>5 DEF Exclusive, Same, Busy
  <2>11. Held'
    <3>1. None \notin Request
      BY DEF Request, None
    <3>. QED
      BY <1>1, <2>1, <2>2, <2>3, <2>4, <2>5, <2>6, <3>1, PutElsewhere DEF Held, Same
  <2>12. OwnClip'
    <3>1. \A q \in ok' : q \in Request /\ (Fetching(q) => q \in ok)
      BY <2>1 DEF ReqTypeOK
    <3>. QED
      BY <1>1, <2>2, <2>3, <3>1 DEF OwnClip
  <2>13. SavedClip'
    <3>1. None \notin Request
      BY DEF Request, None
    <3>2. ASSUME NEW q \in ok' \ disturbed, ~Fetching(q)
          PROVE  name[PathOf(q)] # None /\ bytes'[name[PathOf(q)]] = Whole(q)
      <4>1. CASE q = r
        BY <4>1, <3>1, <3>2, <2>6
      <4>2. CASE q # r
        BY <4>2, <3>2, <1>1, <2>1, PutElsewhere DEF SavedClip
      <4>. QED
        BY <4>1, <4>2
    <3>3. ok' \subseteq Request
      BY <2>1 DEF ReqTypeOK
    <3>. QED
      BY <1>1, <2>2, <2>3, <3>2, <3>3 DEF SavedClip
  <2>. QED
    BY <2>7, <2>8, <2>9, <2>10, <2>11, <2>12, <2>13
<1>. QED
  BY <1>2, <1>3

-----------------------------------------------------------------------------
(***************************************************************************)
(* A fetch goes on with its clip: it is in no other request's way.         *)
(***************************************************************************)
LEMMA ReadInv ==
    ASSUME ClipInv, TypeOK', NEW r \in Request, Read(r)
    PROVE  ClipInv'
<1> USE TypeParts DEF ClipInv
<1> DEFINE f == name[PathOf(r)]
<1>1. /\ phase[r] = "read" /\ Fetching(r) /\ r \notin ok
      /\ UNCHANGED <<ask, entries, rest, name, bytes, disturbed>>
  BY DEF Read, Shape
<1>2. PathOf(r) \in Path
  BY <1>1, PathType
<1>3. \/ /\ f = None /\ phase' = [phase EXCEPT ![r] = "remove"]
         /\ UNCHANGED <<out, ok, got>>
      \/ /\ f # None /\ phase' = [phase EXCEPT ![r] = "stream"]
         /\ out' = [out EXCEPT ![r] = f]
         /\ UNCHANGED <<ok, got>>
      \/ /\ f # None /\ phase' = [phase EXCEPT ![r] = "remove"]
         /\ got' = [got EXCEPT ![r] = bytes[f]]
         /\ ok' = ok \cup {r}
         /\ UNCHANGED out
  BY DEF Read, GoTo
<1>4. \A q \in Request : PathOf(q)' = PathOf(q) /\ (Fetching(q)' <=> Fetching(q))
  BY <1>1, AskSame
<1>5. \A q \in Request : Whole(q)' = Whole(q) /\ Copied(q)' = Copied(q)
  BY <1>1, WholeSame
<1>6. \A q \in Request \ {r} : Same(q)
  BY <1>1, <1>3 DEF Same, ReqTypeOK, FilesTypeOK
<1>7. /\ phase'[r] \in {"remove", "stream"}
      /\ phase'[r] = "stream" => out'[r] = f /\ f # None
      /\ phase'[r] = "remove" => out'[r] = None
      /\ r \in ok' => phase'[r] = "remove" /\ f # None /\ got'[r] = bytes[f]
  BY <1>1, <1>3 DEF Shape, ReqTypeOK, FilesTypeOK
<1>8. f # None => f \in Request /\ phase[f] # "idle" /\ PathOf(f) = PathOf(r)
  BY <1>2 DEF Files, FilesTypeOK
<1> HIDE DEF f
<1>9. Begun'
  BY <1>1, <1>6, <1>7 DEF Begun, Same
<1>10. Shape'
  BY <1>1, <1>4, <1>6, <1>7 DEF Shape, Same
<1>11. Files'
  <2>1. \A q \in Request : phase[q] # "idle" => phase'[q] # "idle"
    BY <1>6, <1>7 DEF Same
  <2>2. ASSUME NEW q \in Request, out'[q] # None
        PROVE  out'[q] \in Request /\ phase'[out'[q]] # "idle" /\ PathOf(out'[q]) = PathOf(q)
    <3>1. CASE q = r
      BY <3>1, <2>1, <2>2, <1>7, <1>8
    <3>2. CASE q # r
      BY <3>2, <2>1, <2>2, <1>6 DEF Same, Files, FilesTypeOK
    <3>. QED
      BY <3>1, <3>2
  <2>. QED
    BY <1>1, <1>4, <2>1, <2>2 DEF Files, FilesTypeOK
<1>12. Exclusive'
  BY <1>1, <1>4, <1>6, <1>7 DEF Exclusive, Same, Busy
<1>13. r \notin disturbed => bytes[f] = Whole(r)
  BY <1>1 DEF Held, f
<1>14. Held'
  BY <1>1, <1>4, <1>5, <1>6, <1>7, <1>13 DEF Held, Same
<1>15. OwnClip'
  <2>1. ok' \subseteq Request
    BY <1>3 DEF ReqTypeOK
  <2>2. ASSUME NEW q \in ok' \ disturbed, Fetching(q)
        PROVE  got'[q] = Whole(q)
    <3>1. CASE q = r
      BY <3>1, <2>2, <1>7, <1>13
    <3>2. CASE q # r
      BY <3>2, <2>1, <2>2, <1>6 DEF Same, OwnClip
    <3>. QED
      BY <3>1, <3>2
  <2>. QED
    BY <1>1, <1>4, <1>5, <2>1, <2>2 DEF OwnClip
<1>16. SavedClip'
  <2>1. \A q \in ok' : q \in Request /\ (~Fetching(q) => q \in ok)
    BY <1>1, <1>3 DEF ReqTypeOK
  <2>. QED
    BY <1>1, <1>4, <1>5, <2>1 DEF SavedClip
<1>. QED
  BY <1>9, <1>10, <1>11, <1>12, <1>14, <1>15, <1>16

LEMMA StreamInv ==
    ASSUME ClipInv, TypeOK', NEW r \in Request, Stream(r)
    PROVE  ClipInv'
<1> USE TypeParts DEF ClipInv
<1>1. /\ phase[r] = "stream" /\ Fetching(r) /\ r \notin ok
      /\ phase' = [phase EXCEPT ![r] = "remove"]
      /\ out' = [out EXCEPT ![r] = None]
      /\ UNCHANGED <<ask, entries, rest, name, bytes, disturbed>>
      /\ \/ got' = [got EXCEPT ![r] = bytes[out[r]]] /\ ok' = ok \cup {r}
         \/ UNCHANGED <<got, ok>>
  BY DEF Stream, GoTo, Shape
<1>2. \A q \in Request : PathOf(q)' = PathOf(q) /\ (Fetching(q)' <=> Fetching(q))
  BY <1>1, AskSame
<1>3. \A q \in Request : Whole(q)' = Whole(q) /\ Copied(q)' = Copied(q)
  BY <1>1, WholeSame
<1>4. \A q \in Request \ {r} : Same(q)
  BY <1>1 DEF Same, ReqTypeOK, FilesTypeOK
<1>5. /\ phase'[r] = "remove" /\ out'[r] = None
      /\ r \in ok' => got'[r] = bytes[out[r]]
  BY <1>1 DEF ReqTypeOK, FilesTypeOK
<1>6. Begun'
  BY <1>1, <1>4, <1>5 DEF Begun, Same
<1>7. Shape'
  BY <1>1, <1>2, <1>4, <1>5 DEF Shape, Same
<1>8. Files'
  <2>1. \A q \in Request : phase[q] # "idle" => phase'[q] # "idle"
    BY <1>4, <1>5 DEF Same
  <2>2. \A q \in Request : out'[q] # None => out'[q] = out[q]
    BY <1>4, <1>5 DEF Same
  <2>. QED
    BY <1>1, <1>2, <2>1, <2>2 DEF Files, FilesTypeOK
<1>9. Exclusive'
  BY <1>1, <1>2, <1>4, <1>5 DEF Exclusive, Same, Busy
<1>10. Held'
  BY <1>1, <1>2, <1>3, <1>4, <1>5 DEF Held, Same
<1>11. OwnClip'
  <2>1. ok' \subseteq Request
    BY <1>1 DEF ReqTypeOK
  <2>2. ASSUME NEW q \in ok' \ disturbed, Fetching(q)
        PROVE  got'[q] = Whole(q)
    <3>1. CASE q = r
      BY <3>1, <2>2, <1>1, <1>5 DEF Held
    <3>2. CASE q # r
      BY <3>2, <2>1, <2>2, <1>4 DEF Same, OwnClip
    <3>. QED
      BY <3>1, <3>2
  <2>. QED
    BY <1>1, <1>2, <1>3, <2>1, <2>2 DEF OwnClip
<1>12. SavedClip'
  <2>1. \A q \in ok' : q \in Request /\ (~Fetching(q) => q \in ok)
    BY <1>1 DEF ReqTypeOK
  <2>. QED
    BY <1>1, <1>2, <1>3, <2>1 DEF SavedClip
<1>. QED
  BY <1>6, <1>7, <1>8, <1>9, <1>10, <1>11, <1>12

(***************************************************************************)
(* The removal of a temporary clip takes the file away from under everyone *)
(* who has its path in use, who are disturbed.                             *)
(***************************************************************************)
LEMMA RemoveClipInv ==
    ASSUME ClipInv, TypeOK', NEW r \in Request, RemoveClip(r)
    PROVE  ClipInv'
<1> USE TypeParts DEF ClipInv
<1> DEFINE p == PathOf(r)
<1>1. /\ phase[r] = "remove" /\ Fetching(r)
      /\ phase' = [phase EXCEPT ![r] = IF r \in ok THEN "done" ELSE "failed"]
      /\ UNCHANGED <<ask, entries, rest, ok, got, bytes, out>>
      /\ \/ UNCHANGED <<name, disturbed>>
         \/ name' = [name EXCEPT ![p] = None] /\ Disturb(r)
  BY DEF RemoveClip, GoTo, Removed, Shape
<1>2. \A q \in Request : PathOf(q)' = PathOf(q) /\ (Fetching(q)' <=> Fetching(q))
  BY <1>1, AskSame
<1>3. \A q \in Request : Whole(q)' = Whole(q) /\ Copied(q)' = Copied(q)
  BY <1>1, WholeSame
<1>4. \A q \in Request \ {r} : Same(q)
  BY <1>1 DEF Same, ReqTypeOK
<1>5. phase'[r] = (IF r \in ok THEN "done" ELSE "failed") /\ out[r] = None
  BY <1>1 DEF ReqTypeOK, Shape
<1>6. disturbed \subseteq disturbed'
  BY <1>1 DEF Disturb
<1>7. ASSUME NEW q \in Request \ disturbed', phase[q] \in Busy \/ (q \in ok /\ ~Fetching(q))
      PROVE  name'[PathOf(q)] = name[PathOf(q)]
  <2>1. CASE UNCHANGED <<name, disturbed>>
    BY <2>1
  <2>2. CASE name' = [name EXCEPT ![p] = None] /\ Disturb(r)
    <3>1. PathOf(q) # p
      <4>1. CASE phase[q] \in Busy
        BY <4>1, <2>2, <1>1, <1>7 DEF Disturb, Using, Busy
      <4>2. CASE q \in ok /\ ~Fetching(q)
        BY <4>2, <2>2, <1>7 DEF Disturb, SavedAt
      <4>. QED
        BY <4>1, <4>2, <1>7
    <3>2. PathOf(q) \in Path
      BY <1>7, PathType DEF Busy, Shape
    <3>. QED
      BY <2>2, <3>1, <3>2 DEF FilesTypeOK
  <2>. QED
    BY <1>1, <2>1, <2>2
<1>8. Begun'
  BY <1>1, <1>4, <1>5 DEF Begun, Same
<1>9. Shape'
  BY <1>1, <1>2, <1>4, <1>5 DEF Shape, Same
<1>10. Files'
  <2>1. \A q \in Request : phase[q] # "idle" => phase'[q] # "idle"
    BY <1>4, <1>5 DEF Same
  <2>2. \A s \in Path : name'[s] # None => name'[s] = name[s]
    BY <1>1 DEF FilesTypeOK
  <2>. QED
    BY <1>1, <1>2, <2>1, <2>2 DEF Files, FilesTypeOK
<1>11. Exclusive'
  BY <1>1, <1>2, <1>4, <1>5, <1>6 DEF Exclusive, Same, Busy
<1>12. Held'
  BY <1>1, <1>2, <1>3, <1>4, <1>5, <1>6, <1>7 DEF Held, Same, Busy
<1>13. OwnClip'
  BY <1>1, <1>2, <1>3, <1>6 DEF OwnClip, ReqTypeOK
<1>14. SavedClip'
  BY <1>1, <1>2, <1>3, <1>6, <1>7 DEF SavedClip, ReqTypeOK
<1>. QED
  BY <1>8, <1>9, <1>10, <1>11, <1>12, <1>13, <1>14

-----------------------------------------------------------------------------
(***************************************************************************)
(* A request that begins has no file yet, and no file is named by it.      *)
(***************************************************************************)
LEMMA BeginInv ==
    ASSUME ClipInv, TypeOK', NEW r \in Request, NEW kind \in Kind, NEW from \in File, NEW to \in File,
           Begin(r, kind, from, to)
    PROVE  ClipInv'
<1> USE TypeParts DEF ClipInv
<1>1. /\ phase[r] = "idle"
      /\ \E point \in {"list", "wait", "dropped"} : phase' = [phase EXCEPT ![r] = point]
      /\ \E t : ask' = [ask EXCEPT ![r] = [kind |-> kind, from |-> from, to |-> to, since |-> t]]
      /\ UNCHANGED <<entries, rest, ok, got, name, bytes, out, disturbed>>
  BY DEF Begin, GoTo, fileVars
<1>2. \A q \in Request \ {r} : ask'[q] = ask[q] /\ Same(q)
  BY <1>1 DEF Same, ReqTypeOK
<1>3. \A q \in Request \ {r} : PathOf(q)' = PathOf(q) /\ (Fetching(q)' <=> Fetching(q))
  BY <1>2, AskSame
<1>4. \A q \in Request : Whole(q)' = Whole(q) /\ Copied(q)' = Copied(q)
  BY <1>1, WholeSame
<1>5. /\ phase'[r] \in {"list", "wait", "dropped"} /\ r \notin ok /\ out[r] = None
      /\ ask'[r].kind \in Kind /\ ask'[r].from \in File
  BY <1>1 DEF Shape, ReqTypeOK
<1>6. Begun'
  BY <1>2, <1>5 DEF Begun, Same
<1>7. Shape'
  BY <1>1, <1>2, <1>3, <1>5 DEF Shape, Same
<1>8. Files'
  <2>1. ASSUME NEW s \in Path, name[s] # None
        PROVE  name[s] \in Request \ {r} /\ phase'[name[s]] # "idle" /\ PathOf(name[s]) = s
    BY <1>1, <1>2, <2>1 DEF Files, FilesTypeOK, Same
  <2>2. ASSUME NEW q \in Request, out[q] # None
        PROVE  /\ q # r /\ out[q] \in Request \ {r}
               /\ phase'[out[q]] # "idle" /\ PathOf(out[q]) = PathOf(q)
    BY <1>1, <1>2, <1>5, <2>2 DEF Files, FilesTypeOK, Same
  <2>. QED
    BY <1>1, <1>3, <2>1, <2>2 DEF Files
<1>9. Exclusive'
  BY <1>1, <1>2, <1>3, <1>5 DEF Exclusive, Same, Busy
<1>10. Held'
  BY <1>1, <1>2, <1>3, <1>4, <1>5 DEF Held, Same
<1>11. OwnClip'
  BY <1>1, <1>3, <1>4, <1>5 DEF OwnClip, ReqTypeOK
<1>12. SavedClip'
  BY <1>1, <1>3, <1>4, <1>5 DEF SavedClip, ReqTypeOK
<1>. QED
  BY <1>6, <1>7, <1>8, <1>9, <1>10, <1>11, <1>12

(***************************************************************************)
(* A crash ends every request that is at work.                             *)
(***************************************************************************)
LEMMA CrashInv == ClipInv /\ TypeOK' /\ Crash => ClipInv'
<1> SUFFICES ASSUME ClipInv, TypeOK', Crash PROVE ClipInv'
  OBVIOUS
<1> USE TypeParts DEF ClipInv
<1>1. /\ phase' = [r \in Request |-> IF phase[r] \in Working THEN "dead" ELSE phase[r]]
      /\ entries' = [r \in Request |-> IF phase[r] \in Working THEN {} ELSE entries[r]]
      /\ out' = [r \in Request |-> None]
      /\ ok' = ok \ {r \in Request : phase[r] \in Working}
      /\ UNCHANGED <<ask, got, name, bytes, disturbed>>
  BY DEF Crash
<1>2. \A q \in Request : PathOf(q)' = PathOf(q) /\ (Fetching(q)' <=> Fetching(q))
  BY <1>1, AskSame
<1>3. \A q \in Request : phase'[q] \notin Working /\ (phase[q] # "idle" => phase'[q] # "idle")
                         /\ (phase[q] = "idle" => phase'[q] = "idle")
  BY <1>1 DEF Working, Concatenating
<1>4. \A q \in ok' : /\ q \in ok /\ q \in Request /\ phase[q] \notin Working
                     /\ phase'[q] = phase[q] /\ Whole(q)' = Whole(q)
  BY <1>1, WholeSame DEF ReqTypeOK
<1>5. Begun'
  <2>1. UNCHANGED ask
    BY <1>1
  <2>. QED
    BY <1>3, <2>1 DEF Begun
<1>6. Shape'
  BY <1>1, <1>2, <1>3, <1>4 DEF Shape, Working, Concatenating
<1>7. Files'
  BY <1>1, <1>2, <1>3 DEF Files, FilesTypeOK
<1>8. Exclusive'
  BY <1>3 DEF Exclusive, Busy, Working, Concatenating
<1>9. Held'
  BY <1>3 DEF Held, Working, Concatenating
<1>10. OwnClip'
  BY <1>1, <1>2, <1>4 DEF OwnClip
<1>11. SavedClip'
  BY <1>1, <1>2, <1>4 DEF SavedClip
<1>. QED
  BY <1>5, <1>6, <1>7, <1>8, <1>9, <1>10, <1>11

(***************************************************************************)
(* The steps of the directory and of stores that start touch no request.   *)
(***************************************************************************)
LEMMA QuietInv ==
    ASSUME ClipInv, TypeOK', UNCHANGED <<reqVars, name, bytes, out, disturbed, left>>
    PROVE  ClipInv'
<1> USE DEF ClipInv, reqVars
<1>1. \A q \in Request : /\ PathOf(q)' = PathOf(q) /\ (Fetching(q)' <=> Fetching(q))
                         /\ Whole(q)' = Whole(q) /\ Copied(q)' = Copied(q)
  BY AskSame, WholeSame
<1>2. Begun' /\ Shape'
  BY <1>1 DEF Begun, Shape
<1>3. Files'
  BY <1>1, TypeParts DEF Files, FilesTypeOK
<1>4. Exclusive'
  BY <1>1 DEF Exclusive
<1>5. Held'
  BY <1>1 DEF Held
<1>6. OwnClip' /\ SavedClip'
  BY <1>1, TypeParts DEF OwnClip, SavedClip, ReqTypeOK
<1>. QED
  BY <1>2, <1>3, <1>4, <1>5, <1>6

-----------------------------------------------------------------------------
LEMMA InitInv == Init => ClipInv
<1> SUFFICES ASSUME Init PROVE ClipInv
  OBVIOUS
<1>1. TypeOK
  BY InitTyped
<1>2. /\ \A r \in Request : phase[r] = "idle" /\ out[r] = None
      /\ ok = {} /\ \A p \in Path : name[p] = None
  BY DEF Init
<1>3. Begun /\ Shape
  BY <1>2 DEF Begun, Shape
<1>4. Files /\ Exclusive /\ Held
  BY <1>2 DEF Files, Exclusive, Held, Busy
<1>. QED
  BY <1>1, <1>2, <1>3, <1>4 DEF ClipInv, OwnClip, SavedClip

(***************************************************************************)
(* Every step keeps ClipInv, the types first.                              *)
(***************************************************************************)
LEMMA StepInv ==
    ASSUME ClipInv, NEW r \in Request, Step(r)
    PROVE  ClipInv'
<1> USE DEF ClipInv
<1>1. CASE Fire(r) \/ Cancel(r)
  BY <1>1, WaitTyped, WaitInv
<1>2. CASE List(r)
  BY <1>2, ListTyped, ListInv
<1>3. CASE Match(r)
  BY <1>3, MatchTyped, MatchInv
<1>4. CASE Open(r)
  <2>1. PathOf(r) \in Path
    BY <1>4, PathType DEF Open
  <2>. QED
    BY <1>4, <2>1, OpenTyped, OpenInv
<1>5. CASE Copy(r)
  BY <1>5, CopyTyped, CopyInv
<1>6. CASE Finish(r)
  BY <1>6, FinishTyped, FinishInv
<1>7. CASE Read(r)
  <2>1. PathOf(r) \in Path
    BY <1>7, PathType DEF Read
  <2>. QED
    BY <1>7, <2>1, ReadTyped, ReadInv
<1>8. CASE Stream(r)
  <2>1. out[r] \in Request
    BY <1>8, TypeParts DEF Stream, Shape, FilesTypeOK
  <2>. QED
    BY <1>8, <2>1, StreamTyped, StreamInv
<1>9. CASE RemoveClip(r)
  <2>1. PathOf(r) \in Path
    BY <1>9, PathType DEF RemoveClip
  <2>. QED
    BY <1>9, <2>1, RemoveClipTyped, RemoveClipInv
<1>. QED
  BY <1>1, <1>2, <1>3, <1>4, <1>5, <1>6, <1>7, <1>8, <1>9 DEF Step

LEMMA NextInv == ClipInv /\ [Next]_vars => ClipInv'
<1> SUFFICES ASSUME ClipInv, [Next]_vars PROVE ClipInv'
  OBVIOUS
<1> USE DEF ClipInv
<1>1. CASE UNCHANGED vars
  <2>1. TypeOK'
    BY <1>1 DEF vars, dirVars, clipVars, reqVars, fileVars, TypeOK, DirTypeOK
  <2>. QED
    BY <1>1, <2>1, QuietInv DEF vars, clipVars, fileVars
<1>2. CASE (Segmenting /\ UNCHANGED clipVars) \/ Reclaim \/ Tick \/ Close
  <2>1. UNCHANGED clipVars
    BY <1>2 DEF Reclaim, Tick, Close
  <2>2. TypeOK'
    BY <1>2, <2>1, DirectoryTyped
  <2>. QED
    BY <2>1, <2>2, QuietInv DEF clipVars, fileVars
<1>3. CASE Crash
  BY <1>3, CrashTyped, CrashInv
<1>4. CASE Start \/ OtherStart
  <2>1. UNCHANGED <<reqVars, name, bytes, out, disturbed, left>>
    BY <1>4 DEF Start, OtherStart
  <2>. QED
    BY <1>4, <2>1, StartsTyped, QuietInv
<1>5. CASE \E a \in Asks : Begin(a[1], a[2], a[3], a[4])
  <2>1. PICK a \in Asks : Begin(a[1], a[2], a[3], a[4])
    BY <1>5
  <2>2. a[1] \in Request /\ a[2] \in Kind /\ a[3] \in File /\ a[4] \in File
    BY RequestAssumption
  <2>. QED
    BY <2>1, <2>2, BeginTyped, BeginInv
<1>6. CASE \E r \in Request : Step(r)
  BY <1>6, StepInv
<1>. QED
  BY <1>1, <1>2, <1>3, <1>4, <1>5, <1>6 DEF Next

LEMMA AlwaysClipInv == Spec => []ClipInv
BY InitInv, NextInv, PTL DEF Spec

(***************************************************************************)
(* The state is one the code can handle.                                   *)
(***************************************************************************)
THEOREM ClipsTyped == Spec => []TypeOK
BY AlwaysClipInv, PTL DEF ClipInv

(***************************************************************************)
(* For any number of requests of any kinds: a fetch that is answered       *)
(* without an error, and shared its path with no other, has its own clip,  *)
(* whatever failed, crashed, was swept or was deleted meanwhile.           *)
(***************************************************************************)
THEOREM FetchesOwnClip == Spec => []OwnClip
BY AlwaysClipInv, PTL DEF ClipInv

(***************************************************************************)
(* And so has a save, in the upload directory.                             *)
(***************************************************************************)
THEOREM SavesOwnClip == Spec => []SavedClip
BY AlwaysClipInv, PTL DEF ClipInv

-----------------------------------------------------------------------------
(***************************************************************************)
(* What is left over: lists and temporary clips.  Both properties are      *)
(* inductive, by what a request holds at each point.                       *)
(***************************************************************************)
Tidy == ListsAccounted /\ TempAccounted

(***************************************************************************)
(* The step of a request that keeps its path, and leaves the files of      *)
(* others alone: it may come to use its path, or not, if that names none.  *)
(***************************************************************************)
LEMMA TempKept ==
    ASSUME TypeOK, Begun, TempAccounted, NEW r \in Request, phase[r] # "idle",
           UNCHANGED ask, left \subseteq left',
           NEW point, phase' = [phase EXCEPT ![r] = point],
           \A p \in Path : name'[p] # None /\ p # PathOf(r) => name[p] # None,
           \/ name'[PathOf(r)] = None
           \/ point \in {"copy", "read", "stream", "remove"}
           \/ PathOf(r) \in left'
           \/ PathOf(r)[1] = "upload"
           \/ r \notin Using(PathOf(r)) /\ UNCHANGED name
    PROVE  TempAccounted'
<1> USE TypeParts DEF ReqTypeOK
<1>1. \A q \in Request : PathOf(q)' = PathOf(q)
  BY AskSame
<1>2. ASSUME NEW p \in Path, p[1] = "temp", name'[p] # None
      PROVE  Using(p)' # {} \/ p \in left'
  <2>1. CASE p = PathOf(r) /\ point \in {"copy", "read", "stream", "remove"}
    <3>1. r \in Using(p)'
      BY <2>1, <1>1 DEF Using
    <3>. QED
      BY <3>1
  <2>2. CASE name[p] # None /\ ~(p = PathOf(r) /\ r \in Using(p))
    <3>1. CASE p \in left
      BY <3>1
    <3>2. CASE Using(p) # {}
      <4>1. PICK q \in Request : q \in Using(p) /\ q # r
        BY <3>2, <2>2 DEF Using
      <4>2. q \in Using(p)'
        BY <4>1, <1>1 DEF Using
      <4>. QED
        BY <4>2
    <3>. QED
      BY <3>1, <3>2, <2>2, <1>2 DEF TempAccounted
  <2>. QED
    BY <2>1, <2>2, <1>2 DEF Using
<1>. QED
  BY <1>2 DEF TempAccounted

(***************************************************************************)
(* And a step that takes a list only into a concat, or could not remove    *)
(* it, and leaves the lists of others alone.                               *)
(***************************************************************************)
LEMMA ListsKept ==
    ASSUME TypeOK, ListsAccounted, NEW r \in Request,
           UNCHANGED up, stuck \subseteq stuck', lists' \subseteq lists \cup {r},
           NEW point, phase' = [phase EXCEPT ![r] = point],
           r \in lists' => point \in {"open", "copy"} \/ r \in stuck'
    PROVE  ListsAccounted'
<1> USE TypeParts DEF ReqTypeOK, FilesTypeOK
<1>1. SUFFICES ASSUME NEW q \in lists'
               PROVE  \/ phase'[q] \in {"open", "copy"}
                      \/ phase'[q] = "dead" /\ ~up'
                      \/ q \in stuck'
  BY DEF ListsAccounted
<1>2. CASE q = r
  BY <1>1, <1>2
<1>3. CASE q # r
  <2>1. q \in lists /\ q \in Request
    BY <1>1, <1>3
  <2>. QED
    BY <2>1, <1>3 DEF ListsAccounted
<1>. QED
  BY <1>2, <1>3

(***************************************************************************)
(* A concat that fails: the list is removed, a fetch will remove the clip. *)
(***************************************************************************)
LEMMA FailTidy ==
    ASSUME TypeOK, Begun, Tidy, NEW r \in Request, phase[r] # "idle",
           Fail(r), UNCHANGED <<ask, up, name, left>>
    PROVE  Tidy'
<1> DEFINE point == IF Fetching(r) THEN "remove" ELSE "failed"
<1>1. phase' = [phase EXCEPT ![r] = point] /\ Unlist({r})
  BY DEF Fail, GoTo
<1>2. ListsAccounted'
  <2>1. /\ lists' \subseteq lists \cup {r} /\ stuck \subseteq stuck'
        /\ r \in lists' => r \in stuck'
    BY <1>1, UnlistTyped, TypeParts
  <2>. HIDE DEF point
  <2>. QED
    BY <1>1, <2>1, ListsKept DEF Tidy
<1>3. point \in {"copy", "read", "stream", "remove"} \/ PathOf(r)[1] = "upload"
  BY DEF PathOf
<1>4. TempAccounted'
  <2>1. \A p \in Path : name'[p] # None /\ p # PathOf(r) => name[p] # None
    OBVIOUS
  <2>. HIDE DEF point
  <2>. QED
    BY <1>1, <1>3, <2>1, TempKept DEF Tidy
<1>. QED
  BY <1>2, <1>4 DEF Tidy

(***************************************************************************)
(* Each step of a request that does not fail.                              *)
(***************************************************************************)
LEMMA ConcatTidy ==
    ASSUME TypeOK, Begun, Tidy, NEW r \in Request,
           List(r) \/ Match(r) \/ Open(r) \/ Copy(r) \/ Finish(r)
    PROVE  Tidy'
<1> USE DEF Tidy
<1>1. phase[r] # "idle" /\ UNCHANGED <<ask, up, left>>
  BY DEF List, Match, Open, Copy, Finish, dirVars
<1>2. CASE Fail(r) /\ UNCHANGED name
  BY <1>1, <1>2, FailTidy
<1>3. CASE List(r) /\ ~Fail(r)
  <2>1. /\ phase[r] = "list" /\ phase' = [phase EXCEPT ![r] = "match"]
        /\ UNCHANGED <<lists, stuck, name>>
    BY <1>3 DEF List, GoTo
  <2>2. (r \in lists => r \in stuck) /\ r \notin Using(PathOf(r))
    BY <2>1 DEF ListsAccounted, Using
  <2>. QED
    BY <1>1, <2>1, <2>2, ListsKept, TempKept
<1>4. CASE Match(r) /\ ~Fail(r)
  <2>1. phase[r] = "match" /\ UNCHANGED <<name, stuck>>
    BY <1>4, MatchCases DEF Match, Probe, WriteList
  <2>2. /\ r \notin Using(PathOf(r))
        /\ r \in lists => r \in stuck
    BY <2>1 DEF Using, ListsAccounted
  <2>3. \/ phase' = [phase EXCEPT ![r] = "match"] /\ UNCHANGED lists
        \/ phase' = [phase EXCEPT ![r] = "open"] /\ lists' = lists \cup {r}
    <3>1. [phase EXCEPT ![r] = "match"] = phase
      BY <2>1, TypeParts DEF ReqTypeOK
    <3>. QED
      BY <1>4, <3>1, MatchCases DEF Probe, WriteList, GoTo
  <2>4. CASE phase' = [phase EXCEPT ![r] = "match"] /\ UNCHANGED lists
    BY <1>1, <2>1, <2>2, <2>4, ListsKept, TempKept
  <2>5. CASE phase' = [phase EXCEPT ![r] = "open"] /\ lists' = lists \cup {r}
    BY <1>1, <2>1, <2>2, <2>5, ListsKept, TempKept
  <2>. QED
    BY <2>3, <2>4, <2>5
<1>5. CASE Open(r) /\ ~(Fail(r) /\ UNCHANGED name)
  <2>1. /\ phase' = [phase EXCEPT ![r] = "copy"] /\ UNCHANGED <<lists, stuck>>
        /\ \E f \in Request : name' = [name EXCEPT ![PathOf(r)] = f]
    <3>1. PathOf(r) \in Path /\ name \in [Path -> Request \cup {None}]
      BY <1>1, PathType, TypeParts DEF FilesTypeOK
    <3>. QED
      BY <1>5, <3>1 DEF Open, GoTo
  <2>2. \A p \in Path : name'[p] # None /\ p # PathOf(r) => name[p] # None
    BY <2>1, TypeParts DEF FilesTypeOK
  <2>. QED
    BY <1>1, <2>1, <2>2, ListsKept, TempKept
<1>6. CASE Copy(r) /\ ~Fail(r)
  <2>1. UNCHANGED <<phase, lists, stuck, name>>
    BY <1>6 DEF Copy
  <2>2. phase' = [phase EXCEPT ![r] = "copy"]
    BY <1>6, <2>1, TypeParts DEF Copy, ReqTypeOK
  <2>. QED
    BY <1>1, <2>1, <2>2, ListsKept, TempKept
<1>7. CASE Finish(r) /\ ~Fail(r)
  <2> DEFINE point == IF Fetching(r) THEN "read" ELSE "done"
  <2>1. phase' = [phase EXCEPT ![r] = point] /\ Unlist({r}) /\ UNCHANGED name
    BY <1>7 DEF Finish, GoTo
  <2>2. point \in {"copy", "read", "stream", "remove"} \/ PathOf(r)[1] = "upload"
    BY DEF PathOf
  <2>3. /\ lists' \subseteq lists \cup {r} /\ stuck \subseteq stuck'
        /\ r \in lists' => r \in stuck'
    BY <2>1, UnlistTyped, TypeParts
  <2>. HIDE DEF point
  <2>. QED
    BY <1>1, <2>1, <2>2, <2>3, ListsKept, TempKept
<1>8. Fail(r) => UNCHANGED name \/ Open(r)
  BY DEF List, Match, Copy, Finish
<1>. QED
  BY <1>2, <1>3, <1>4, <1>5, <1>6, <1>7, <1>8

LEMMA ClipTidy ==
    ASSUME TypeOK, Begun, Tidy, NEW r \in Request,
           Fire(r) \/ Cancel(r) \/ Read(r) \/ Stream(r) \/ RemoveClip(r)
    PROVE  Tidy'
<1> USE DEF Tidy
<1>1. /\ phase[r] # "idle" /\ UNCHANGED <<ask, up, lists, stuck>> /\ left \subseteq left'
      /\ r \in lists => r \in stuck
  BY DEF Fire, Cancel, Read, Stream, RemoveClip, dirVars, fileVars, ListsAccounted
<1>2. CASE Fire(r) \/ Cancel(r)
  <2>1. PICK point \in {"list", "cancelled"} : phase' = [phase EXCEPT ![r] = point]
    BY <1>2 DEF Fire, Cancel, GoTo
  <2>2. UNCHANGED name /\ r \notin Using(PathOf(r))
    BY <1>2 DEF Fire, Cancel, fileVars, Using
  <2>. QED
    BY <1>1, <2>1, <2>2, ListsKept, TempKept
<1>3. CASE Read(r) \/ Stream(r)
  <2>1. UNCHANGED name
    BY <1>3 DEF Read, Stream
  <2>2. PICK point \in {"stream", "remove"} : phase' = [phase EXCEPT ![r] = point]
    BY <1>3 DEF Read, Stream, GoTo
  <2>. QED
    BY <1>1, <2>1, <2>2, ListsKept, TempKept
<1>4. CASE RemoveClip(r)
  <2>1. PICK point \in {"done", "failed"} : phase' = [phase EXCEPT ![r] = point]
    BY <1>4 DEF RemoveClip, GoTo
  <2>2. PathOf(r) \in Path /\ name \in [Path -> Request \cup {None}]
    BY <1>1, PathType, TypeParts DEF FilesTypeOK
  <2>3. /\ name'[PathOf(r)] = None \/ PathOf(r) \in left'
        /\ \A p \in Path : name'[p] # None /\ p # PathOf(r) => name[p] # None
    BY <1>4, <2>2 DEF RemoveClip, Removed
  <2>. QED
    BY <1>1, <2>1, <2>3, ListsKept, TempKept
<1>. QED
  BY <1>2, <1>3, <1>4

(***************************************************************************)
(* A request that arrives uses no path yet; a crash notes the temporary    *)
(* clips; a store that starts removes every list.                          *)
(***************************************************************************)
LEMMA OutsideTidy ==
    ASSUME TypeOK, Tidy, UNCHANGED <<name, left>>,
           \A q \in Request : phase[q] # "idle" => phase'[q] = phase[q] /\ ask'[q] = ask[q],
           stuck \subseteq stuck',
           (UNCHANGED lists /\ (up' => up)) \/ lists' \subseteq stuck'
    PROVE  Tidy'
<1> USE TypeParts DEF Tidy, FilesTypeOK
<1>1. ListsAccounted'
  <2>1. ASSUME NEW q \in lists'
        PROVE  \/ phase'[q] \in {"open", "copy"}
               \/ phase'[q] = "dead" /\ ~up'
               \/ q \in stuck'
    <3>1. q \in stuck' \/ (q \in lists /\ q \in Request /\ (up' => up))
      BY <2>1
    <3>. QED
      BY <3>1 DEF ListsAccounted
  <2>. QED
    BY <2>1 DEF ListsAccounted
<1>2. ASSUME NEW p \in Path, p[1] = "temp", name'[p] # None
      PROVE  Using(p)' # {} \/ p \in left'
  <2>1. CASE p \in left
    BY <2>1
  <2>2. CASE Using(p) # {}
    <3>1. PICK q \in Request : q \in Using(p)
      BY <2>2 DEF Using
    <3>2. phase[q] # "idle"
      BY <3>1 DEF Using
    <3>3. PathOf(q)' = PathOf(q) /\ phase'[q] = phase[q]
      BY <3>2, AskSame
    <3>4. q \in Using(p)'
      BY <3>1, <3>3 DEF Using
    <3>. QED
      BY <3>4
  <2>. QED
    BY <2>1, <2>2, <1>2 DEF TempAccounted
<1>. QED
  BY <1>1, <1>2 DEF TempAccounted

LEMMA CrashTidy == TypeOK /\ Tidy /\ Crash => Tidy'
<1> SUFFICES ASSUME TypeOK, Tidy, Crash PROVE Tidy'
  OBVIOUS
<1>1. ListsAccounted'
  <2>1. /\ phase' = [r \in Request |-> IF phase[r] \in Working THEN "dead" ELSE phase[r]]
        /\ lists' = lists /\ stuck' = stuck /\ ~up'
    BY DEF Crash
  <2>. QED
    BY <2>1, TypeParts DEF Tidy, ListsAccounted, FilesTypeOK, Working, Concatenating
<1>2. TempAccounted'
  BY DEF Crash, TempAccounted
<1>. QED
  BY <1>1, <1>2 DEF Tidy

LEMMA TidyInit == Init => Tidy
BY DEF Init, Tidy, ListsAccounted, TempAccounted

LEMMA TidyNext == ClipInv /\ Tidy /\ [Next]_vars => Tidy'
<1> SUFFICES ASSUME ClipInv, Tidy, [Next]_vars PROVE Tidy'
  OBVIOUS
<1> USE DEF ClipInv
<1>1. CASE UNCHANGED vars
  BY <1>1, OutsideTidy DEF vars, dirVars, clipVars, reqVars, fileVars
<1>2. CASE (Segmenting /\ UNCHANGED clipVars) \/ Reclaim \/ Tick \/ Close
  <2>1. UNCHANGED clipVars
    BY <1>2 DEF Reclaim, Tick, Close
  <2>2. up' => up
    BY <1>2 DEF Segmenting, OpenSegment, WritePacket, FinishSegment, Reclaim, Tick, Close
  <2>. QED
    BY <2>1, <2>2, OutsideTidy DEF clipVars, reqVars, fileVars
<1>3. CASE Crash
  BY <1>3, CrashTidy
<1>4. CASE Start \/ OtherStart
  <2>1. UNCHANGED <<reqVars, name, left>> /\ Unlist(lists)
    BY <1>4 DEF Start, OtherStart
  <2>2. stuck \subseteq stuck' /\ lists' \subseteq stuck'
    BY <2>1, UnlistTyped, TypeParts
  <2>. QED
    BY <2>1, <2>2, OutsideTidy DEF reqVars
<1>5. CASE \E a \in Asks : Begin(a[1], a[2], a[3], a[4])
  <2>1. PICK a \in Asks : Begin(a[1], a[2], a[3], a[4])
    BY <1>5
  <2>2. /\ phase[a[1]] = "idle"
        /\ \A q \in Request \ {a[1]} : phase'[q] = phase[q] /\ ask'[q] = ask[q]
    BY <2>1, TypeParts DEF Begin, GoTo, ReqTypeOK
  <2>3. UNCHANGED <<up, lists, stuck, name, left>>
    BY <2>1 DEF Begin, dirVars, fileVars
  <2>. QED
    BY <2>2, <2>3, OutsideTidy
<1>6. CASE \E r \in Request : Step(r)
  BY <1>6, ConcatTidy, ClipTidy DEF Step
<1>. QED
  BY <1>1, <1>2, <1>3, <1>4, <1>5, <1>6 DEF Next

LEMMA AlwaysTidy == Spec => []Tidy
BY TidyInit, TidyNext, AlwaysClipInv, PTL DEF Spec

(***************************************************************************)
(* While a store runs, each concat list in the temporary directory belongs *)
(* to a concat in progress, or its removal was tried and failed.           *)
(***************************************************************************)
THEOREM NoStrayLists == Spec => []ListsAccounted
BY AlwaysTidy, PTL DEF Tidy

(***************************************************************************)
(* A temporary clip is one that a fetch will remove, unless the process    *)
(* died or a removal failed.                                               *)
(***************************************************************************)
THEOREM NoStrayClips == Spec => []TempAccounted
BY AlwaysTidy, PTL DEF Tidy

-----------------------------------------------------------------------------
(***************************************************************************)
(* No holes.  Segments are completed in the order they were opened, so     *)
(* none that is older than a listed one is completed after the listing;    *)
(* and what a match skips has another format, is not complete, or is       *)
(* missed.  Listed(r) is what may still become part of the clip.           *)
(***************************************************************************)
InOrder == \A f \in disk : f <= last

Listed(r) == IF phase[r] = "match" THEN entries[r] \cup rest[r] ELSE entries[r]

NoGap(r) ==
    /\ phase[r] \in {"idle", "wait", "list"} => entries[r] = {}
    /\ \A e, f \in entries[r] : Format[e] = Format[f]
    /\ \A f \in Listed(r) : f <= last
    /\ \A f \in Listed(r), g \in readable \cap Touched(r) :
          /\ g < f
          /\ <<r, g>> \notin missed
          /\ \A e \in entries[r] : Format[e] = Format[g]
          => g \in Listed(r)

Solid == InOrder /\ \A r \in Request : NoGap(r)

(***************************************************************************)
(* A request that keeps what it has, or gives it up, while the directory   *)
(* loses segments or has its newest one finished.                          *)
(***************************************************************************)
LEMMA GapKept ==
    ASSUME TypeOK, NEW r \in Request, NoGap(r), last <= last', last' \in Int,
           readable' \subseteq readable \cup {last}, missed \subseteq missed',
           \/ entries'[r] = {} /\ Listed(r)' = {}
           \/ /\ entries'[r] = entries[r] /\ Listed(r)' = Listed(r) /\ ask'[r] = ask[r]
              /\ phase'[r] \notin {"idle", "wait", "list"}
    PROVE  NoGap(r)'
<1> USE TypeParts DEF DirTypeOK, ReqTypeOK, File
<1>1. CASE entries'[r] = {} /\ Listed(r)' = {}
  BY <1>1 DEF NoGap
<1>2. CASE /\ entries'[r] = entries[r] /\ Listed(r)' = Listed(r) /\ ask'[r] = ask[r]
           /\ phase'[r] \notin {"idle", "wait", "list"}
  <2>1. Touched(r)' = Touched(r)
    BY <1>2 DEF Touched
  <2>2. ASSUME NEW f \in Listed(r)
        PROVE  f \in Int /\ f <= last /\ last \in Int
    BY <2>2, TimeAssumption DEF NoGap, Listed
  <2>3. \A f \in Listed(r) : f <= last'
    BY <2>2
  <2>4. ASSUME NEW f \in Listed(r), NEW g \in readable', g \in Touched(r), g < f,
               <<r, g>> \notin missed', \A e \in entries[r] : Format[e] = Format[g]
        PROVE  g \in Listed(r)
    <3>1. g \in readable
      BY <2>2, <2>4
    <3>. QED
      BY <2>4, <3>1 DEF NoGap
  <2>5. \A e, f \in entries[r] : Format[e] = Format[f]
    BY DEF NoGap
  <2>. QED
    BY <1>2, <2>1, <2>3, <2>4, <2>5 DEF NoGap
<1>. QED
  BY <1>1, <1>2

(***************************************************************************)
(* The directory stays in order, and loses segments or finishes its        *)
(* newest, in every step.                                                  *)
(***************************************************************************)
LEMMA DirectoryOrdered ==
    ASSUME TypeOK, InOrder, [Next]_vars
    PROVE  /\ InOrder'
           /\ last <= last' /\ last' \in Int
           /\ readable' \subseteq readable \cup {last}
           /\ missed \subseteq missed'
<1> USE TypeParts, TimeAssumption DEF DirTypeOK, File
<1>1. last \in Int /\ now \in Int /\ \A f \in disk : f \in Int
  OBVIOUS
<1>2. missed \subseteq missed'
  BY DEF Next, vars, clipVars, reqVars, Reclaim, Tick, Close, Crash, Start, OtherStart, Begin,
         Step, Fire, Cancel, List, Match, Probe, WriteList, Open, Copy, Finish, Read, Stream,
         RemoveClip
<1>3. CASE UNCHANGED <<disk, readable, last>>
  BY <1>1, <1>2, <1>3 DEF InOrder
<1>4. CASE OpenSegment
  BY <1>1, <1>2, <1>4 DEF OpenSegment, InOrder
<1>5. CASE FinishSegment
  BY <1>1, <1>2, <1>5 DEF FinishSegment, InOrder
<1>6. CASE Reclaim
  BY <1>1, <1>2, <1>6 DEF Reclaim, Unlink, InOrder
<1>7. \/ UNCHANGED <<disk, readable, last>>
      \/ OpenSegment \/ FinishSegment \/ Reclaim
  BY DEF Next, vars, dirVars, Segmenting, WritePacket, Tick, Close, Crash, Start, OtherStart,
         Begin, Step, Fire, Cancel, List, Match, Open, Copy, Finish, Read, Stream, RemoveClip
<1>. QED
  BY <1>3, <1>4, <1>5, <1>6, <1>7

(***************************************************************************)
(* What matching does to the segments a request has: listing takes those   *)
(* that are there, and a probe leaves out what the clip may lack.          *)
(***************************************************************************)
LEMMA ListSolid ==
    ASSUME TypeOK, Solid, NEW r \in Request, List(r), ~Fail(r)
    PROVE  NoGap(r)'
<1> USE TypeParts DEF ReqTypeOK
<1>1. /\ phase[r] = "list" /\ phase'[r] = "match"
      /\ rest'[r] = disk \cap Touched(r) /\ entries'[r] = entries[r]
      /\ UNCHANGED <<ask, disk, readable, last>>
  BY DEF List, GoTo, dirVars
<1>2. entries[r] = {} /\ Touched(r)' = Touched(r)
  BY <1>1 DEF Solid, NoGap, Touched
<1>3. Listed(r)' = disk \cap Touched(r)
  BY <1>1, <1>2 DEF Listed
<1>4. readable \subseteq disk
  BY DEF DirTypeOK
<1>. QED
  BY <1>1, <1>2, <1>3, <1>4 DEF NoGap, Solid, InOrder

LEMMA ProbeSolid ==
    ASSUME TypeOK, NEW r \in Request, NoGap(r), phase[r] = "match", NEW h \in rest[r], Probe(r, h),
           UNCHANGED <<ask, last, readable>>
    PROVE  NoGap(r)'
<1> USE TypeParts DEF ReqTypeOK
<1>1. /\ phase'[r] = "match" /\ rest'[r] = rest[r] \ {h} /\ Touched(r)' = Touched(r)
      /\ Listed(r) = entries[r] \cup rest[r] /\ Listed(r)' = entries'[r] \cup rest'[r]
      /\ missed \subseteq missed'
  BY DEF Probe, Touched, Listed
<1>2. CASE entries'[r] = entries[r] \cup {h} /\ Fits(r, h)
  <2>1. Listed(r)' = Listed(r)
    BY <1>1, <1>2
  <2>2. \A e, f \in entries'[r] : Format[e] = Format[f]
    BY <1>2 DEF Fits, NoGap
  <2>. QED
    BY <1>1, <1>2, <2>1, <2>2 DEF NoGap
<1>3. CASE entries'[r] = entries[r] /\ (h \notin readable \/ ~Fits(r, h) \/ <<r, h>> \in missed')
  <2>1. Listed(r) \ {h} \subseteq Listed(r)' /\ Listed(r)' \subseteq Listed(r)
    BY <1>1, <1>3
  <2>2. \A f \in Listed(r)' : f <= last
    BY <2>1 DEF NoGap
  <2>3. ASSUME NEW f \in Listed(r)', NEW g \in readable, g \in Touched(r), g < f,
               <<r, g>> \notin missed', \A e \in entries[r] : Format[e] = Format[g]
        PROVE  g \in Listed(r)'
    <3>1. g \in Listed(r)
      BY <1>1, <2>1, <2>3 DEF NoGap
    <3>2. g # h
      BY <1>3, <2>3 DEF Fits
    <3>. QED
      BY <2>1, <3>1, <3>2
  <2>4. \A e, f \in entries[r] : Format[e] = Format[f]
    BY DEF NoGap
  <2>. QED
    BY <1>1, <1>3, <2>2, <2>3, <2>4 DEF NoGap
<1>4. \/ entries'[r] = entries[r] \cup {h} /\ Fits(r, h)
      \/ entries'[r] = entries[r] /\ (h \notin readable \/ ~Fits(r, h) \/ <<r, h>> \in missed')
  BY DEF Probe
<1>. QED
  BY <1>2, <1>3, <1>4

(***************************************************************************)
(* What a step does to the segments a request has.                         *)
(***************************************************************************)
LEMMA StepSolid ==
    ASSUME TypeOK, Solid, NEW r \in Request, Step(r), NEW q \in Request
    PROVE  NoGap(q)'
<1> USE TypeParts DEF ReqTypeOK
<1>1. Next
  BY DEF Next
<1>2. /\ last <= last' /\ last' \in Int
      /\ readable' \subseteq readable \cup {last}
      /\ missed \subseteq missed'
  BY <1>1, DirectoryOrdered DEF Solid
<1>3. NoGap(q)
  BY DEF Solid
<1>4. UNCHANGED <<ask, last, readable>>
  BY DEF Step, Fire, Cancel, List, Match, Open, Copy, Finish, Read, Stream, RemoveClip, dirVars
<1>5. CASE q # r
  <2>1. entries'[q] = entries[q] /\ phase'[q] = phase[q] /\ rest'[q] = rest[q]
    BY <1>5 DEF Step, Fire, Cancel, List, Match, Probe, WriteList, Open, Copy, Finish, Read,
                Stream, RemoveClip, GoTo, Fail, Forget
  <2>2. Listed(q)' = Listed(q)
    BY <2>1 DEF Listed
  <2>3. CASE phase[q] \in {"idle", "wait", "list"}
    <3>1. entries[q] = {} /\ Listed(q) = {}
      BY <1>3, <2>3 DEF NoGap, Listed
    <3>. QED
      BY <1>2, <1>3, <2>1, <2>2, <3>1, GapKept
  <2>4. CASE phase[q] \notin {"idle", "wait", "list"}
    BY <1>2, <1>3, <1>4, <2>1, <2>2, <2>4, GapKept
  <2>. QED
    BY <2>3, <2>4
<1>6. CASE q = r /\ Fail(r)
  <2>1. entries'[r] = {} /\ phase'[r] # "match"
    BY <1>6 DEF Fail, Forget, GoTo
  <2>. QED
    BY <1>2, <1>3, <1>6, <2>1, GapKept DEF Listed
<1>7. CASE q = r /\ (Fire(r) \/ Cancel(r))
  <2>1. phase[r] = "wait" /\ entries'[r] = entries[r] /\ phase'[r] # "match"
    BY <1>7 DEF Fire, Cancel, GoTo
  <2>2. entries'[r] = {} /\ Listed(r)' = {}
    BY <1>3, <1>7, <2>1 DEF NoGap, Listed
  <2>. QED
    BY <1>2, <1>3, <1>7, <2>2, GapKept
<1>8. CASE q = r /\ List(r) /\ ~Fail(r)
  BY <1>8, ListSolid
<1>9. CASE q = r /\ Match(r) /\ ~Fail(r)
  <2>1. CASE \E f \in rest[r] : Probe(r, f)
    BY <1>3, <1>4, <1>9, <2>1, ProbeSolid DEF Match
  <2>2. CASE rest[r] = {} /\ WriteList(r)
    <3>1. phase[r] = "match" /\ phase'[r] = "open" /\ entries'[r] = entries[r]
      BY <1>9, <2>2 DEF Match, WriteList, GoTo
    <3>2. Listed(r)' = Listed(r)
      BY <2>2, <3>1 DEF Listed
    <3>. QED
      BY <1>2, <1>3, <1>4, <1>9, <3>1, <3>2, GapKept
  <2>. QED
    BY <1>9, <2>1, <2>2, MatchCases
<1>10. CASE q = r /\ ~Fail(r) /\ (\/ Open(r) \/ Copy(r) \/ Finish(r)
                                \/ Read(r) \/ Stream(r) \/ RemoveClip(r))
  <2>1. /\ phase[r] \notin {"match", "idle", "wait", "list"}
        /\ phase'[r] \notin {"match", "idle", "wait", "list"}
        /\ entries'[r] = entries[r]
    BY <1>10 DEF Open, Copy, Finish, Read, Stream, RemoveClip, GoTo
  <2>2. Listed(r)' = Listed(r)
    BY <2>1 DEF Listed
  <2>. QED
    BY <1>2, <1>3, <1>4, <1>10, <2>1, <2>2, GapKept
<1>. QED
  BY <1>5, <1>6, <1>7, <1>8, <1>9, <1>10 DEF Step

LEMMA SolidNext == TypeOK /\ Solid /\ [Next]_vars => Solid'
<1> SUFFICES ASSUME TypeOK, Solid, [Next]_vars PROVE Solid'
  OBVIOUS
<1> USE TypeParts DEF ReqTypeOK
<1>1. /\ InOrder'
      /\ last <= last' /\ last' \in Int
      /\ readable' \subseteq readable \cup {last}
      /\ missed \subseteq missed'
  BY DirectoryOrdered DEF Solid
<1>2. ASSUME NEW q \in Request PROVE NoGap(q)'
  <2>1. NoGap(q)
    BY DEF Solid
  <2>2. CASE Crash
    <3>1. /\ phase'[q] = IF phase[q] \in Working THEN "dead" ELSE phase[q]
          /\ entries'[q] = IF phase[q] \in Working THEN {} ELSE entries[q]
          /\ UNCHANGED ask
      BY <2>2 DEF Crash
    <3>2. CASE phase[q] \in Working \cup {"idle"}
      <4>1. entries'[q] = {} /\ Listed(q)' = {}
        BY <2>1, <3>1, <3>2 DEF NoGap, Listed
      <4>. QED
        BY <1>1, <2>1, <4>1, GapKept
    <3>3. CASE phase[q] \notin Working \cup {"idle"}
      <4>1. /\ entries'[q] = entries[q] /\ Listed(q)' = Listed(q)
            /\ phase'[q] \notin {"idle", "wait", "list"}
        BY <3>1, <3>3 DEF Listed, Working, Concatenating
      <4>. QED
        BY <1>1, <2>1, <3>1, <4>1, GapKept
    <3>. QED
      BY <3>2, <3>3
  <2>3. CASE ~Crash /\ ~\E r \in Request : Step(r)
    <3>1. entries'[q] = entries[q] /\ rest'[q] = rest[q]
      BY <2>3 DEF Next, vars, clipVars, reqVars, Reclaim, Tick, Close, Start, OtherStart, Begin
    <3>2. \/ phase'[q] = phase[q] /\ ask'[q] = ask[q]
          \/ phase[q] = "idle" /\ phase'[q] # "match"
      BY <2>3, RequestAssumption
         DEF Next, vars, clipVars, reqVars, Reclaim, Tick, Close, Start, OtherStart, Begin, GoTo
    <3>3. CASE phase[q] \in {"idle", "wait", "list"}
      <4>1. entries'[q] = {} /\ Listed(q)' = {}
        BY <2>1, <3>1, <3>2, <3>3 DEF NoGap, Listed
      <4>. QED
        BY <1>1, <2>1, <4>1, GapKept
    <3>4. CASE phase[q] \notin {"idle", "wait", "list"}
      <4>1. Listed(q)' = Listed(q) /\ phase'[q] = phase[q] /\ ask'[q] = ask[q]
        BY <3>1, <3>2, <3>4 DEF Listed
      <4>. QED
        BY <1>1, <2>1, <3>1, <3>4, <4>1, GapKept
    <3>. QED
      BY <3>3, <3>4
  <2>4. CASE \E r \in Request : Step(r)
    BY <2>4, StepSolid
  <2>. QED
    BY <2>2, <2>3, <2>4
<1>. QED
  BY <1>1, <1>2 DEF Solid

LEMMA SolidInit == Init => Solid
BY DEF Init, DirInit, Solid, InOrder, NoGap, Listed

(***************************************************************************)
(* However listing, probing and copying are interleaved with the           *)
(* completion and deletion of segments, and whatever formats the source    *)
(* delivers: a clip has every complete segment of its range and its format *)
(* that is older than another one it has, but those whose probe failed.    *)
(***************************************************************************)
THEOREM NoHoleInClips == Spec => []NoHole
<1>1. ClipInv /\ Solid => NoHole
  <2> SUFFICES ASSUME ClipInv, Solid,
                      NEW r \in ok, NEW f \in entries[r], NEW g \in readable \cap Touched(r),
                      g < f, Format[g] = Format[f], <<r, g>> \notin missed
               PROVE  g \in entries[r]
    BY DEF NoHole
  <2>1. r \in Request /\ phase[r] # "match"
    BY TypeParts DEF ClipInv, Shape, ReqTypeOK
  <2>2. \A e \in entries[r] : Format[e] = Format[g]
    BY <2>1 DEF Solid, NoGap
  <2>3. Listed(r) = entries[r]
    BY <2>1 DEF Listed
  <2>. QED
    BY <2>1, <2>2, <2>3 DEF Solid, NoGap
<1>2. ClipInv => TypeOK
  BY DEF ClipInv
<1>. QED
  BY <1>1, <1>2, SolidInit, SolidNext, AlwaysClipInv, PTL DEF Spec
=============================================================================
