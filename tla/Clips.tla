-------------------------------- MODULE Clips --------------------------------
(***************************************************************************)
(* The requests of a video store that cut a clip out of its directory:     *)
(* Fetch, FetchStream, Save and asyncSave (videostore/videostore.go), each *)
(* through ConcatWithFormat (concat.go, concat.c).  They run concurrently  *)
(* with the segmenter, with the deletion of old segments, with each other, *)
(* and with the shutdown and start of this or another store.               *)
(*                                                                         *)
(* A clip is written to a file named by the second the request starts at:  *)
(* a fetch into the temporary directory, a save into the upload directory. *)
(* A request asks for the segments from..to; MatchStorage has the rule by  *)
(* which they are matched and trimmed to the moment.                       *)
(***************************************************************************)
EXTENDS StorageDir

CONSTANTS
    MaxRequests,   \* bound: requests in one behaviour
    Asks,          \* bound: what each of them may be, <<request, kind, from, to>>
    Format         \* width, height and codec of the source at each moment

Kind    == {"fetch", "stream", "save", "async"}
Request == 1..MaxRequests   \* in the order they arrive
None    == 0                \* no file

ASSUME RequestAssumption == /\ MaxRequests \in Nat
                            /\ Asks \subseteq Request \X Kind \X File \X File

VARIABLES
    ask,        \* what each request asked for, and when an asynchronous one did
    phase,      \* where it is
    entries,    \* the segments it matched
    rest,       \* those it has still to probe, then those it has still to copy
    missed,     \* history: <<request, segment>> of each probe that failed in passing
    lists,      \* the requests whose concat list is in the temporary directory
    name,       \* the file each path names, called by the request that made it
    bytes,      \* what is in that file: pieces of clips
    out,        \* the file a request has open
    ok,         \* the requests that were answered without an error
    got,        \* the bytes a fetch was answered with
    disturbed,  \* history: requests whose path another one opened or removed
    left,       \* history: paths whose temporary clip was never removed
    stuck,      \* history: requests whose concat list could not be removed
    alive       \* the process runs, with its store open or closed

reqVars   == <<ask, phase, entries, rest, missed, ok, got>>
fileVars  == <<lists, name, bytes, out, disturbed, left, stuck>>
clipVars  == <<reqVars, fileVars, alive>>
vars      == <<dirVars, clipVars>>

Fetching(r) == ask[r].kind \in {"fetch", "stream"}

(***************************************************************************)
(* GenerateOutputFilePath: the directory and the second of from.  Saves    *)
(* with another prefix, metadata or tags would have paths of their own.    *)
(***************************************************************************)
Path == {"temp", "upload"} \X File

PathOf(r) == <<IF Fetching(r) THEN "temp" ELSE "upload", ask[r].from>>

(***************************************************************************)
(* A piece of a clip is a segment copied, or 0 for the trailer.            *)
(***************************************************************************)
Piece    == Request \X (0..MaxTime)
Whole(r) == {r} \X (entries[r] \cup {0})

Concatenating == {"list", "match", "open", "copy"}
Working       == {"wait", "read", "stream", "remove"} \cup Concatenating
Settled       == {"done", "failed", "cancelled", "dropped", "dead"}

(***************************************************************************)
(* The requests that have their clip open or are going to remove it.       *)
(***************************************************************************)
Using(p) == {r \in Request : /\ phase[r] \in {"copy", "read", "stream", "remove"}
                             /\ PathOf(r) = p}

TypeOK ==
    /\ DirTypeOK
    /\ ask \in [Request -> [kind : Kind \cup {"none"}, from : 0..MaxTime,
                            to : 0..MaxTime, since : 0..MaxTime]]
    /\ phase \in [Request -> {"idle"} \cup Working \cup Settled]
    /\ entries \in [Request -> SUBSET File]
    /\ rest \in [Request -> SUBSET File]
    /\ missed \subseteq Request \X File
    /\ lists \subseteq Request
    /\ name \in [Path -> Request \cup {None}]
    /\ bytes \in [Request -> SUBSET Piece]
    /\ out \in [Request -> Request \cup {None}]
    /\ ok \subseteq Request
    /\ got \in [Request -> SUBSET Piece]
    /\ disturbed \subseteq Request
    /\ left \subseteq Path
    /\ stuck \subseteq Request
    /\ alive \in BOOLEAN

Init ==
    /\ DirInit
    /\ ask = [r \in Request |-> [kind |-> "none", from |-> 0, to |-> 0, since |-> 0]]
    /\ phase = [r \in Request |-> "idle"]
    /\ entries = [r \in Request |-> {}]
    /\ rest = [r \in Request |-> {}]
    /\ missed = {}
    /\ lists = {}
    /\ name = [p \in Path |-> None]
    /\ bytes = [r \in Request |-> {}]
    /\ out = [r \in Request |-> None]
    /\ ok = {}
    /\ got = [r \in Request |-> {}]
    /\ disturbed = {}
    /\ left = {}
    /\ stuck = {}
    /\ alive = TRUE

GoTo(r, point) == phase' = [phase EXCEPT ![r] = point]

-----------------------------------------------------------------------------
(***************************************************************************)
(* A request is validated: from is not after to, and the end of a save is  *)
(* not in the future.  An asynchronous one is answered at once; the        *)
(* workers start it, or do nothing when the store has been closed.  The    *)
(* other kinds are not refused by a closed store.                          *)
(***************************************************************************)
Begin(r, kind, from, to) ==
    /\ alive
    /\ phase[r] = "idle"
    /\ \A q \in Request : q < r => phase[q] # "idle"
    /\ from <= to
    /\ kind \in {"save", "async"} => to <= now
    /\ kind = "async" => now < MaxTime   \* bound: its timer has to fire
    /\ ask' = [ask EXCEPT ![r] = [kind |-> kind, from |-> from, to |-> to,
                                  since |-> IF kind = "async" THEN now ELSE 0]]
    /\ \/ kind # "async" /\ GoTo(r, "list")
       \/ kind = "async" /\ up /\ GoTo(r, "wait")
       \/ kind = "async" /\ ~up /\ GoTo(r, "dropped")
    /\ UNCHANGED <<dirVars, entries, rest, missed, ok, got, fileVars, alive>>

(***************************************************************************)
(* asyncSave waits for one segment length, or until the store closes.  Its *)
(* own deadline is a minute later than that and never comes first.         *)
(***************************************************************************)
Fire(r) ==
    /\ phase[r] = "wait"
    /\ now > ask[r].since
    /\ GoTo(r, "list")
    /\ UNCHANGED <<dirVars, ask, entries, rest, missed, ok, got, fileVars, alive>>

Cancel(r) ==
    /\ phase[r] = "wait"
    /\ ~up
    /\ GoTo(r, "cancelled")
    /\ UNCHANGED <<dirVars, ask, entries, rest, missed, ok, got, fileVars, alive>>

-----------------------------------------------------------------------------
(***************************************************************************)
(* What ConcatWithFormat holds is gone when it returns an error, and its   *)
(* output is closed.                                                       *)
(***************************************************************************)
Forget(r) ==
    /\ entries' = [entries EXCEPT ![r] = {}]
    /\ rest' = [rest EXCEPT ![r] = {}]
    /\ out' = [out EXCEPT ![r] = None]

(***************************************************************************)
(* Concat lists are removed; a removal that fails is logged.               *)
(***************************************************************************)
Unremovable(S) == IF "remove" \in FaultKinds THEN S \cap lists ELSE {}

Unlist(S) ==
    \E K \in SUBSET Unremovable(S) :
       /\ lists' = (lists \ S) \cup K
       /\ stuck' = stuck \cup K

Fail_KeepsList(r) ==       \* mutant: an error path skips the removal of the list
    /\ GoTo(r, IF Fetching(r) THEN "remove" ELSE "failed")
    /\ Forget(r)
    /\ UNCHANGED <<lists, stuck, ok>>

Fail_Waits(r) ==           \* mutant: what is not there yet is waited for
    UNCHANGED <<phase, lists, stuck, entries, rest, out, ok>>

(***************************************************************************)
(* ConcatWithFormat returns an error: its list is removed, and a fetch     *)
(* goes on to remove its clip.  A save leaves what it has written.         *)
(***************************************************************************)
Fail(r) ==
    /\ GoTo(r, IF Fetching(r) THEN "remove" ELSE "failed")
    /\ Unlist({r})
    /\ Forget(r)
    /\ UNCHANGED ok

Touched(r) == ask[r].from .. ask[r].to

(***************************************************************************)
(* GetSortedFiles and ValidateTimeRange: there are segments, and the       *)
(* request does not start before the oldest.                               *)
(***************************************************************************)
List(r) ==
    /\ phase[r] = "list"
    /\ \/ /\ \E f \in disk : f <= ask[r].from
          /\ rest' = [rest EXCEPT ![r] = disk \cap Touched(r)]
          /\ GoTo(r, "match")
          /\ UNCHANGED <<lists, stuck, ok, entries, out>>
       \/ /\ ~\E f \in disk : f <= ask[r].from
          /\ Fail(r)
    /\ UNCHANGED <<dirVars, ask, missed, got, name, bytes, disturbed, left, alive>>

Fits_SkipsFirst(r, f) ==   \* mutant: the segment the request starts in is skipped
    f > ask[r].from /\ \A g \in entries[r] : Format[f] = Format[g]

(***************************************************************************)
(* cacheFirstVid: the first segment that matches sets the format of the    *)
(* clip, and those that have another are skipped.                          *)
(***************************************************************************)
Fits(r, f) == \A g \in entries[r] : Format[f] = Format[g]

(***************************************************************************)
(* MatchStorageToRange opens the listed files in order, while segments are *)
(* finished and deleted.  One that cannot be opened (still being written,  *)
(* deleted since, or by an error in passing) is skipped.                   *)
(***************************************************************************)
Probe(r, f) ==
    /\ rest' = [rest EXCEPT ![r] = @ \ {f}]
    /\ \/ /\ entries' = IF f \in readable /\ Fits(r, f)
                        THEN [entries EXCEPT ![r] = @ \cup {f}] ELSE entries
          /\ UNCHANGED <<missed, faults>>
       \/ /\ f \in readable
          /\ Fault("probe")
          /\ missed' = missed \cup {<<r, f>>}
          /\ UNCHANGED entries
    /\ UNCHANGED <<phase, lists, stuck, ok, out>>

(***************************************************************************)
(* What has matched is listed in a file of the temporary directory.        *)
(***************************************************************************)
WriteList(r) ==
    /\ lists' = lists \cup {r}
    /\ rest' = [rest EXCEPT ![r] = entries[r]]
    /\ GoTo(r, "open")
    /\ UNCHANGED <<missed, stuck, ok, faults, entries, out>>

Match(r) ==
    /\ phase[r] = "match"
    /\ \/ \E f \in rest[r] : Oldest(f, rest[r]) /\ Probe(r, f)
       \/ rest[r] = {} /\ entries[r] # {} /\ WriteList(r)
       \/ rest[r] = {} /\ entries[r] = {} /\ Fail(r) /\ UNCHANGED <<missed, faults>>
    /\ UNCHANGED <<now, disk, size, readable, last, writing, up>>
    /\ UNCHANGED <<ask, got, name, bytes, disturbed, left, alive>>

(***************************************************************************)
(* Mutant: what the file holds already is kept.                            *)
(***************************************************************************)
Truncated_Appends(f) == bytes

Truncated(f) == [bytes EXCEPT ![f] = {}]

(***************************************************************************)
(* Two requests have one path in use when the second opens or removes it.  *)
(* A save that is done is disturbed by a later one, but not the reverse.   *)
(***************************************************************************)
SavedAt(p) == {r \in ok : ~Fetching(r) /\ PathOf(r) = p}

Disturb(r) ==
    disturbed' = disturbed \cup SavedAt(PathOf(r))
                           \cup IF Using(PathOf(r)) \ {r} = {} THEN {}
                                ELSE {r} \cup Using(PathOf(r))

(***************************************************************************)
(* The demuxer reads the list and opens the first segment in it; then the  *)
(* output is created, or truncated if its path names a file.  It may also  *)
(* fail, as may the writing of the list.                                   *)
(***************************************************************************)
CanOpen(r) == r \in lists /\ \E f \in disk : Oldest(f, rest[r])

Open(r) ==
    /\ phase[r] = "open"
    /\ \/ /\ CanOpen(r)
          /\ LET p == PathOf(r)
                 f == IF name[p] = None THEN r ELSE name[p]
             IN  /\ name' = [name EXCEPT ![p] = f]
                 /\ out' = [out EXCEPT ![r] = f]
                 /\ bytes' = Truncated(f)
          /\ Disturb(r)
          /\ GoTo(r, "copy")
          /\ UNCHANGED <<lists, stuck, ok, entries, rest, faults>>
       \/ /\ (~CanOpen(r) /\ UNCHANGED faults) \/ Fault("clip")
          /\ Fail(r)
          /\ UNCHANGED <<name, bytes, disturbed>>
    /\ UNCHANGED <<now, disk, size, readable, last, writing, up>>
    /\ UNCHANGED <<ask, missed, got, left, alive>>

Put(r, piece) == bytes' = [bytes EXCEPT ![out[r]] = @ \cup {<<r, piece>>}]

(***************************************************************************)
(* The next segment is opened when the one before it has been read, and    *)
(* its packets are written.  The first has been open all the time.         *)
(***************************************************************************)
Readable(r, f) == f \in disk \/ rest[r] = entries[r]

Copy(r) ==
    /\ phase[r] = "copy"
    /\ \E f \in rest[r] :
          /\ Oldest(f, rest[r])
          /\ \/ /\ Readable(r, f)
                /\ Put(r, f)
                /\ rest' = [rest EXCEPT ![r] = @ \ {f}]
                /\ UNCHANGED <<phase, lists, stuck, ok, entries, out, faults>>
             \/ ~Readable(r, f) /\ Fail(r) /\ UNCHANGED <<bytes, faults>>
             \/ Fault("clip") /\ Fail(r) /\ UNCHANGED bytes
    /\ UNCHANGED <<now, disk, size, readable, last, writing, up>>
    /\ UNCHANGED <<ask, missed, got, name, disturbed, left, alive>>

(***************************************************************************)
(* The trailer is written and the list removed; a save is done.            *)
(***************************************************************************)
Finish(r) ==
    /\ phase[r] = "copy"
    /\ rest[r] = {}
    /\ \/ /\ Put(r, 0)
          /\ Unlist({r})
          /\ IF Fetching(r)
             THEN GoTo(r, "read") /\ UNCHANGED ok
             ELSE GoTo(r, "done") /\ ok' = ok \cup {r}
          /\ out' = [out EXCEPT ![r] = None]
          /\ UNCHANGED <<entries, rest, faults>>
       \/ Fault("clip") /\ Fail(r) /\ UNCHANGED bytes
    /\ UNCHANGED <<now, disk, size, readable, last, writing, up>>
    /\ UNCHANGED <<ask, missed, got, name, disturbed, left, alive>>

-----------------------------------------------------------------------------
(***************************************************************************)
(* Fetch reads the whole file its path names now; FetchStream opens it     *)
(* and sends what it holds chunk by chunk.                                 *)
(***************************************************************************)
Read(r) ==
    /\ phase[r] = "read"
    /\ LET f == name[PathOf(r)]
       IN  IF f = None
           THEN GoTo(r, "remove") /\ UNCHANGED <<out, ok, got>>
           ELSE IF ask[r].kind = "stream"
           THEN /\ out' = [out EXCEPT ![r] = f]
                /\ GoTo(r, "stream")
                /\ UNCHANGED <<ok, got>>
           ELSE /\ got' = [got EXCEPT ![r] = bytes[f]]
                /\ ok' = ok \cup {r}
                /\ GoTo(r, "remove")
                /\ UNCHANGED out
    /\ UNCHANGED <<dirVars, ask, entries, rest, missed, lists, stuck, name, bytes>>
    /\ UNCHANGED <<disturbed, left, alive>>

Stream(r) ==
    /\ phase[r] = "stream"
    /\ GoTo(r, "remove")
    /\ out' = [out EXCEPT ![r] = None]
    /\ \/ /\ got' = [got EXCEPT ![r] = bytes[out[r]]]
          /\ ok' = ok \cup {r}
          /\ UNCHANGED faults
       \/ Fault("clip") /\ UNCHANGED <<got, ok>>
    /\ UNCHANGED <<now, disk, size, readable, last, writing, up>>
    /\ UNCHANGED <<ask, entries, rest, missed, lists, stuck, name, bytes>>
    /\ UNCHANGED <<disturbed, left, alive>>

Removed_OnSuccess(r) ==    \* mutant: only a fetch that succeeded removes its clip
    IF r \in ok THEN [name EXCEPT ![PathOf(r)] = None] ELSE name

(***************************************************************************)
(* The deferred removal of the temporary clip, by name, whatever file the  *)
(* name stands for by now, if any.  A removal that fails is logged.        *)
(***************************************************************************)
Removed(r) == [name EXCEPT ![PathOf(r)] = None]

RemoveClip(r) ==
    /\ phase[r] = "remove"
    /\ GoTo(r, IF r \in ok THEN "done" ELSE "failed")
    /\ LET p == PathOf(r)
       IN  \/ name[p] = None /\ UNCHANGED <<name, disturbed, left, faults>>
           \/ /\ name[p] # None
              /\ name' = Removed(r)
              /\ Disturb(r)
              /\ UNCHANGED <<left, faults>>
           \/ /\ name[p] # None
              /\ Fault("remove")
              /\ left' = left \cup {p}
              /\ UNCHANGED <<name, disturbed>>
    /\ UNCHANGED <<now, disk, size, readable, last, writing, up>>
    /\ UNCHANGED <<ask, entries, rest, missed, ok, got, lists, stuck, bytes, out, alive>>

Step(r) ==
    \/ Fire(r) \/ Cancel(r)
    \/ List(r) \/ Match(r) \/ Open(r) \/ Copy(r) \/ Finish(r)
    \/ Read(r) \/ Stream(r) \/ RemoveClip(r)

-----------------------------------------------------------------------------
(***************************************************************************)
(* The indexer unlinks the oldest segment it knows to be complete.         *)
(***************************************************************************)
Reclaim ==
    /\ \E f \in readable : Oldest(f, readable) /\ Unlink(f)
    /\ UNCHANGED <<now, last, writing, up, faults, clipVars>>

(***************************************************************************)
(* Time passes, whether or not the source delivers and segments rotate.    *)
(***************************************************************************)
Tick ==
    /\ now < MaxTime
    /\ now' = now + 1
    /\ UNCHANGED <<disk, size, readable, last, writing, up, faults, clipVars>>

(***************************************************************************)
(* Close stops the workers, asynchronous saves among them; the segmenter   *)
(* finishes its segment.  Fetches and saves in progress go on.             *)
(***************************************************************************)
Close ==
    /\ up
    /\ Fault("close")
    /\ up' = FALSE
    /\ UNCHANGED <<now, disk, size, readable, last, writing, clipVars>>

(***************************************************************************)
(* The process dies, its store open or closed: temporary clips and concat  *)
(* lists stay behind.                                                      *)
(***************************************************************************)
Crash ==
    /\ alive
    /\ Fault("crash")
    /\ alive' = FALSE
    /\ up' = FALSE
    /\ writing' = FALSE
    /\ phase' = [r \in Request |-> IF phase[r] \in Working THEN "dead" ELSE phase[r]]
    /\ left' = left \cup {p \in Path : p[1] = "temp" /\ name[p] # None}
    /\ entries' = [r \in Request |-> IF phase[r] \in Working THEN {} ELSE entries[r]]
    /\ rest' = [r \in Request |-> {}]
    /\ out' = [r \in Request |-> None]
    /\ ok' = ok \ {r \in Request : phase[r] \in Working}
    /\ UNCHANGED <<now, disk, size, readable, last>>
    /\ UNCHANGED <<ask, missed, got, lists, stuck, name, bytes, disturbed>>

(***************************************************************************)
(* newConcater, when the store is built anew: the lists in the temporary   *)
(* directory are removed, one of a fetch that is still running included.   *)
(* Close has waited for the asynchronous saves.                            *)
(***************************************************************************)
Start ==
    /\ ~up /\ ~writing
    /\ \A r \in Request : ask[r].kind = "async" => phase[r] \notin Working
    /\ up' = TRUE
    /\ alive' = TRUE
    /\ Unlist(lists)
    /\ UNCHANGED <<now, disk, size, readable, last, writing, faults>>
    /\ UNCHANGED <<reqVars, name, bytes, out, disturbed, left>>

(***************************************************************************)
(* Another store on the same machine starts, with another directory: the   *)
(* temporary directory is the same.                                        *)
(***************************************************************************)
OtherStart ==
    /\ Fault("store")
    /\ Unlist(lists)
    /\ UNCHANGED <<now, disk, size, readable, last, writing, up>>
    /\ UNCHANGED <<reqVars, name, bytes, out, disturbed, left, alive>>

(***************************************************************************)
(* The muxer finishes a segment when it has written a packet into it.      *)
(***************************************************************************)
Segmenting ==
    \/ OpenSegment
    \/ WritePacket
    \/ writing /\ size[last] > 0 /\ FinishSegment

Next ==
    \/ Segmenting /\ UNCHANGED clipVars
    \/ Reclaim \/ Tick \/ Close \/ Crash \/ Start \/ OtherStart
    \/ \E a \in Asks : Begin(a[1], a[2], a[3], a[4])
    \/ \E r \in Request : Step(r)

Spec == Init /\ [][Next]_vars

(***************************************************************************)
(* Each request is a goroutine that is scheduled, and time passes.  A      *)
(* stream also needs the client to take its chunks.                        *)
(***************************************************************************)
FairSpec == Spec /\ WF_vars(Tick) /\ \A r \in Request : WF_vars(Step(r))

-----------------------------------------------------------------------------
(***************************************************************************)
(* A request that was answered without an error, and did not share its     *)
(* path with another one while it ran, has the clip it asked for: each of  *)
(* its pieces with the trailer, and nothing of another request or of a     *)
(* file that was left there by one that failed or crashed.                 *)
(***************************************************************************)
OwnClip ==
    \A r \in ok \ disturbed : Fetching(r) => got[r] = Whole(r)

(***************************************************************************)
(* The same for a save: the file it left in the upload directory is its    *)
(* clip, until another save opens that path.                               *)
(***************************************************************************)
SavedClip ==
    \A r \in ok \ disturbed : ~Fetching(r) =>
       name[PathOf(r)] # None /\ bytes[name[PathOf(r)]] = Whole(r)

(***************************************************************************)
(* A clip has no hole but where the format of the source was another or    *)
(* the probe of a segment failed: each complete segment of its range that  *)
(* has its format and is older than another one in the clip is in it too,  *)
(* however listing, probing and copying are interleaved with the           *)
(* completion and deletion of segments.                                    *)
(***************************************************************************)
NoHole ==
    \A r \in ok : \A f \in entries[r], g \in readable \cap Touched(r) :
       g < f /\ Format[g] = Format[f] /\ <<r, g>> \notin missed => g \in entries[r]

(***************************************************************************)
(* No list dangles while a store runs: each belongs to a concat in         *)
(* progress, however requests fail, crash and are cut short, unless its    *)
(* removal was tried and failed.                                           *)
(***************************************************************************)
ListsAccounted ==
    \A r \in lists : \/ phase[r] \in {"open", "copy"}
                     \/ phase[r] = "dead" /\ ~up
                     \/ r \in stuck

(***************************************************************************)
(* No temporary clip dangles: each is in use by a fetch that will remove   *)
(* it, unless the process died or a removal failed.                        *)
(***************************************************************************)
TempAccounted ==
    \A p \in Path : p[1] = "temp" /\ name[p] # None => Using(p) # {} \/ p \in left

(***************************************************************************)
(* Every request comes to an end, whatever is deleted, swept or stopped    *)
(* under it: there are finitely many, so again and again none is at work.  *)
(***************************************************************************)
EveryRequestSettles ==
    []<>(\A r \in Request : phase[r] \notin Working)

-----------------------------------------------------------------------------
(***************************************************************************)
(* What the README and the comments say, and the code does not keep.       *)
(***************************************************************************)

(***************************************************************************)
(* concat.go: the unique list file "allows multiple concats to be run      *)
(* concurrently without conflicts": so each fetch answered gets its own    *)
(* clip.  But two that start at the same second share the output file.     *)
(***************************************************************************)
ConcurrentClipsIndependent == \A r \in ok : Fetching(r) => got[r] = Whole(r)

(***************************************************************************)
(* README.md: an async save "will wait for the current segment to finish   *)
(* recording before saving the video slice".  So a segment of its range    *)
(* that was being written at the time of the request is complete when it   *)
(* lists the storage.                                                      *)
(***************************************************************************)
AsyncWaitsForSegment ==
    \A r \in Request :
       ask[r].kind = "async" /\ phase[r] = "list" /\ writing
          => last > ask[r].since \/ last \notin Touched(r)
=============================================================================
