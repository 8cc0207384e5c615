# video-store, verified

TLA+ models of the video store (`src/videostore`), the TLC runs that check them and
the theorems about them that TLAPS proves. The store records a camera into short
segments on the disk, keeps an index of them, deletes the oldest when the storage is
full and cuts clips out of what is there.

## 1. The system

| component | source | state | operations |
|---|---|---|---|
| segmenters | `videostore/encoder.go`, `encoder.c`, `rawsegmenter.go`, `rawsegmenter.c` | codec and muxer contexts, the open segment | init, encode / write a packet, rotate on a packet's timestamp, close |
| frame poller | `videostore.go` `fetchFrames`, `processFrames` | `latestFrame` (atomic) | poll the camera, clear on an error, encode the latest frame on every tick |
| indexer | `videostore/indexer/indexer.go` | `ix.db` under `dbMu`, the table of files | once a second: index new files, drop rows of missing ones, mark rows, delete marked files; `GetVideoList`; `Close` |
| fallback deleter | `videostore.go` `fallbackDeleter`, `cleanupStorage` | none between ticks | every ten minutes: delete the oldest files when over 1.1 times the limit |
| concater | `videostore/concat.go`, `concat.c` | temporary list files | match files to a range, write the list, demux and mux the clip; remove stale lists at start |
| range matching | `videostore/utils/utils.go` | none | match files to a time range and trim them; merge files into ranges |
| fetch and save | `videostore.go` | a temporary clip, a clip in the upload directory | `Fetch`, `FetchStream`, `Save`, `asyncSave` |
| renamer | `videostore/renamer.go` | the files of a temporary directory (Windows) | every interval: rename each readable file to its Unix second; once more when stopped |
| store | `videostore.go` constructors, `Close` | the workers | start and stop all of the above |
| camera component | `model/camera/*.go` | one store | `DoCommand`: save, fetch, get-storage-state |
| configuration | `videostore/config.go`, `model/camera/config.go` | none | validation, defaults |
| video info | `utils/utils.go`, `utils.c` | none | open a file, read its duration, size and codec |

**How they interact.** Everything meets in one directory. The segmenter creates, grows
and finishes files there; the indexer lists, opens and unlinks them; the fallback
deleter lists and unlinks them; a concat lists and reads them. No lock covers the
directory: `dbMu` guards the database handle only, and the indexer's worker holds it for
reading during a whole tick. The process may die at any point; the table and the
directory survive, and nothing makes a change of the one atomic with a change of the
other. Requests share two more directories, for temporary clips and for uploads, and the
former also holds the concat lists of every store on the machine. On Windows the segmenter has a
directory of its own and the renamer moves what is complete into the storage directory. `Close` stops the
workers one group after the other, in an order that matters. The database file itself may be removed by hand, which the code means to survive.

**What is hard.** Two deleters and a writer on one directory; a listing that is old when
it is used; a crash between a mark, an unlink and the deletion of a row; a failure in the
middle of a loop; an error of one kind (read-only database) that must be told from all
others; a source that stalls while its segment is open; sizes and limits at the
boundary; sorting, slicing and trimming of time ranges; two requests that start at the same second; segments
that disappear while they are concatenated; an encoder that is set up again in the middle of a segment; a worker that outlives a constructor that failed. `PROJECT.json` lists them as
hazards, each at its line, with the property that watches it.

**What makes each part correct.** The segmenters: each frame ends up in a finished
segment, in order. The indexer: the index names complete files, retention goes by age,
nothing is deleted that is not condemned or corrupt, everything complete is indexed in
the end and the storage gets below its limit. The fallback deleter: it acts only when the
indexer does not. The concater: a clip is the footage of its range, all and only. Fetch and save: requests
do not disturb each other, leave nothing behind and come to an end. The renamer: every finished segment is moved, under the right name. The store:
`Close` leaves nothing running and nothing unfinished.

## 2. The modules

| module | models | role |
|---|---|---|
| `StorageDir` | the directory, the muxer's effect on it, the clock, the fault budget | environment of `Storage` and `Clips` |
| `Indexer` | `indexer.go`, one action per access to the directory or the database | component |
| `FallbackDeleter` | `cleanupStorage`, file by file | component |
| `Storage` | the three composed, crash, `Close`, restart; all properties | composition |
| `Retention` | the promise made to each segment: recorded, complete, listed, condemned, gone | abstract specification, implemented by `Storage` |
| `Clips` | `Fetch`, `FetchStream`, `Save`, `asyncSave`, each through `ConcatWithFormat`, in the directory of `StorageDir` | component and composition |
| `SegmentMuxer` | the segment muxer of libavformat as `encoder.c` and `rawsegmenter.c` set it up, the directories it writes to | environment of the next three |
| `RawSegmenter` | `rawsegmenter.go`, `rawsegmenter.c` | component |
| `Encoder` | `encoder.go`, `encoder.c`, `fetchFrames`, `processFrames` | component |
| `Renamer` | `renamer.go`, file by file | component |
| `Recorder` | the three composed, the constructors, `Close` stage by stage, crash | composition |
| `VideoRanges` | `getVideoRangesFromFiles` | pure algorithm, with a reference definition |
| `MatchStorage` | `ValidateTimeRange`, `MatchStorageToRange` | pure algorithm |
| `MCStorage`, `MCFootage`, `MCClips`, `MCRecorder` | | instances for TLC; `MCFootage` also enumerates histories and requests |
| `StorageProofs` | | type correctness of `Storage` |
| `CatalogueProofs` | | the catalogue is sound |
| `RetentionProofs` | | retention by age, and what may be deleted |
| `RecorderProofs` | | type correctness and pace of `Recorder` |
| `ClipsProofs` | | type correctness and every safety property of `Clips` |
| `LifecycleProofs` | | `Storage` implements `Retention` |
| `RecordingProofs` | | the names of segments, no frame lost, an orderly `Close` |
| `FootageProofs` | | the ranges and the clip of every history and request |

### From the code to the variables: storage

A segment is named `<unix seconds>.mp4`, so a file *is* its start time, and time advances
in units of one segment (30 s in the code).

* `disk`, `size`, `readable`: the files, their sizes, and which have a trailer, the
  condition for `GetVideoInfo` to succeed. `last` and `writing`: the segment the muxer
  opened last and whether it is open. `Bytes(S, sz)` sums sizes as a cardinality, so that no
  recursion is needed and monotonicity has a proof.
* `rows`, `rowSize`: the table. `live` is `deleted_at IS NULL`, `marked` is not.
* `db`: `closed` is `ix.db == nil`; `stale` is an open connection whose file was removed. Such
  a connection still reads the unlinked file and fails on its first write, with the
  read-only error `run` looks for.
* `pc`: where the worker is. `indexed`, `todo`, `listed`, `file`: its locals. They are reset when
  the tick ends, as locals are.
* `fbPc`, `fbSize`, `fbTodo`, `fbStat`: the same for the fallback deleter, which takes the size of a file in one step
  (`FallbackStat`) and removes it in another (`FallbackRemove`). `taken` is a history variable.
* `faults`: how many faults have been injected; `FaultKinds` says which may be.

The fault kinds are `crash` (the process dies), `close` (an orderly shutdown), `remove` (an
`os.Remove` fails for another reason than a missing file), `read` (a query, a listing or
the directory walk fails), `insert` (the INSERT fails, which is only logged), `dbwrite` (any other
statement fails, which ends the tick), `dbdelete` (the database file is removed), `probe`
(`GetVideoInfo` fails on a good file), `stall` (a segment stays open longer than its length).

One tick of the indexer is `Tick`, `ListDir`, a `Probe` per new file with `Discard` or `Insert`,
`IndexingDone`, a `Missing` per row, `MissingDone`, `CleanupDB`, a `Mark` per file, `MarkDone`,
`CleanupFiles`, a `Remove` and a `DeleteRecord` per file, `RefreshDone`. A `...Fails` action ends the tick where
the code returns an error. The rows of a `SELECT` are read in one step, since SQLite gives a
statement one snapshot; the files of a directory are listed in one step too.
`getIndexedFiles` belongs to `Tick`, because nothing else writes the table between the two.

### From the code to the variables: requests

* `ask[r]` is the request, `phase[r]` where its goroutine is. `entries[r]` are the files it has matched, `rest[r]` those it
  has still to probe and then those the concat demuxer has still to read. `lists` are the concat lists that exist.
* `Format` is the width, height and codec of the source at each moment: a segment that has another format than the first one
  matched is skipped (`Fits`), as `cacheFirstVid` makes the code do.
* The output path is the directory and the second of `from`, so `PathOf(r)` is that pair. A path *names* a file (`name`)
  and a file holds pieces (`bytes`): a request that has a file open goes on with it when the name is
  removed or given to another file. A piece is a segment that was copied, or the trailer.
* `got[r]` is what a fetch was answered with, `ok` the requests answered without an error.
* `alive` is the process, `up` its store: `Fetch` and `Save` are not refused by a store that is closed, an async save is dropped.
* `disturbed`, `left`, `missed` and `stuck` are history variables: who shared a path, which clips a crash or a failed removal
  left, which probes failed in passing, and which concat lists could not be removed.

A request is `Begin`, for an async save `Fire` (or `Cancel` when the store closes), then `List`, `Match` (a `Probe` per
listed segment, then `WriteList`), `Open`, a `Copy` per segment and `Finish`; a fetch goes on with `Read` (and `Stream`) and `RemoveClip`. `Fail` is what `ConcatWithFormat` does on
its way out of every error. The removal of a list (`Unlist`), by a concat or by a start, may fail and is only logged. Between any two of these segments are opened, finished and deleted, stores close, crash
and start (`Start` and `OtherStart` sweep the lists), and the other request takes its steps.

### From the code to the variables: recording

* Time is counted in ticks, the interval of the processor's ticker; `Rate` ticks are a second. A frame is called by the tick
  it is written at. `files` says for each name, in the muxer's directory (`"watch"`) and in the storage directory (`"store"`),
  whether there is no file, a part or a whole one, and which frames it holds. On Linux the muxer writes to `"store"` directly.
* `mux` is the muxer: the second its file was opened at, the tick it was set up at, and how often it has cut.
  A cut needs a timestamp that has reached the next multiple of the segment length (`Cut`); the new file
  is named by the wall clock (`OutputFile(Now)`), which is what makes timestamps and names drift apart.
* `raw` is `cRawSeg`; `broken` is the state after a `Close` whose trailer failed, which leaves the pointer set.
* `encoder` is the size the encoder is set up for and `frameCount`; `latest` the size of `latestFrame`; `due` the ticker's channel.
* `poller` is where `fetchFrames` is: in its `select` (`run`), in a call of the camera (`Ask` begins it, `Fetch` is its return, which may
  never come), or asleep after an error.
* `renamer` and `todo` are the rename worker and the rest of its listing, for the worker of the store (`Own`) and for each
  one that a frame store left behind whose constructor failed after starting it (a construction has its number). The run injects one
  fault, so it has at most one of these; the theorems are about any number.
* `stage` is where `Close` is: it waits for the workers, then for the segmenter, then for the renamer.
* `faults.spoilt` is a history variable: a fault was injected that may keep a segment from being complete or moved.

`Write` is `video_store_h264_encoder_write` with each of its outcomes; a frame of another size ends the segment
and sets up encoder and muxer anew, which resets `frameCount` too.

### Abstractions

* `setupDB` succeeds, and there is one connection to the database. A second connection of the
  pool, opened after the file was removed, is listed as a hazard and not modelled.
* Names that do not parse, subdirectories and files of other kinds are `Overhead` bytes.
* The listing takes the sizes of all files at one instant, as the directory's walk does.
* Cancellation of a context is the death of the worker where it is: `Close` waits for it, and
  what the worker does after the last check is what it does before `Close`.
* `GetVideoInfo` gives a verdict and a duration, nothing else.
* In `StorageDir` the segmenter names a file with the current time and opens at most one per unit. `Recorder` has the
  rest: a segmenter set up twice within a second truncates its own file, which `Superseded` excepts.
* Requests have the same prefix, metadata and tags, so that those that start at one second share a path. The trim of a clip
  to the moment is in `MatchStorage`; `Clips` knows whole segments.
* Packets reach the file when they are written; what a crash leaves in the muxer's buffers is not told apart from a
  missing trailer, as neither can be read.
* Pictures are their size, and the camera may return any, none, or an error, after any time, or not at all. `pickImage` is not modelled.
* What `Close` waits for is split: the indexer and the fallback deleter are in `Storage`, the async saves in `Clips`, the source,
  the segmenter and the renamer in `Recorder`. `RecordingCloses` is about the last three only.
* A part of a segment that a crash left without a trailer counts as a file that has its frames, though they cannot be read:
  `NothingLost` is about files that are overwritten or moved, `CleanClose` about complete ones.
* The caller of a raw segmenter may write, close and initialise it at any moment but does not initialise it after the store
  has closed it (`Serving`), although nothing in `RawSegmenter.Init` prevents that; if it did, the segment would stay open for good. Packets of a stream carry the time that passed since its `Init`.
* Local time is UTC plus an offset per second (`Zone`). With an offset that folds (the end of daylight saving time) two
  seconds have one local name; that is listed as a hazard, the runs use a constant offset, and the theorems name it (`NoFold`).

## 3. The runs

| run | module | bounds | what it shows |
|---|---|---|---|
| `storage` | `MCStorage` | 3 segments of up to 2 units, limit 3, all nine kinds of faults, 2 of them, both deleters | `TypeOK`: a file that is gone has neither size nor trailer; `CatalogueSound`: the index never names a segment that is missing or unfinished, unless the fallback deleter took it |
| `retention` | `MCStorage` | 3 segments, limit 2, grace 2, 2 faults, no fallback deleter | `OldestFirst`, `OnlyCondemnedOrCorrupt`, and `Lifecycle`, the refinement of `Retention` |
| `liveness` | `MCStorage` | 3 segments, limit 3, grace 2, 2 faults | every complete segment is indexed, a full storage gets below its limit, every mark is carried out |
| `footage` | `MCFootage` | 3 segments of 2 or 3 units, gaps from -1 to 2 around a slop of 1, two formats, readable or not, every request | `RangesAreBlocks`: the ranges are the blocks of video; `ClipHasAllFootage`, `NoMomentMissed`, `ClipWithinRequest`: a clip has all of the footage of the segments it is cut from, misses no moment, and has nothing else |
| `overdeletion` | `MCStorage` | 4 segments of 1 unit, limit 3, 1 crash | **violated**: deletion stops when the storage is below the limit |
| `stale_size` | `MCStorage` | no fault | **violated**: the size in the index is the size of the file |
| `stalled_segment` | `MCStorage` | 1 stall | **violated**: the segment being written is never deleted |
| `fallback_clash` | `MCStorage` | no fault, `SizeGB` 1 | **violated**: the fallback deleter leaves a healthy indexer alone |
| `clips` | `MCClips` | 2 requests from the same second (a fetch or an async save, and a stream or a save), over 3 segments, the second of another format; crash, close, a probe, a concat or the removal of a clip failing, another store starting, 1 of them; any removal of a list may fail | `OwnClip`, `SavedClip`: a request that succeeds has its own clip; `NoHole`: without holes, but those of another format or of a probe that failed; `ListsAccounted`, `TempAccounted`: nothing is left over but what could not be removed; every request comes to an end |
| `recorder` | `MCRecorder` | 5 ticks of half a second, segments of 1 s, 2 frame sizes, 2 constructions, local time one second ahead, eight kinds of faults, 1 of them, both sources, both platforms | `NamedByStart`, `NeverAhead`, `NothingLost`, `CleanClose`, `RecordingCloses`, `EventuallyMoved` |
| `shared_clip` | `MCClips` | no fault | **violated**: concurrent concats do not conflict |
| `async_early` | `MCClips` | no fault | **violated**: an async save waits for the current segment |

**Why the bounds are enough.** Three segments give an old, a middle and an open one: what is
condemned, what may be wrongly left out or taken, and what is being written, which is all
`OldestFirst` and `OnlyCondemnedOrCorrupt` relate. Sizes up to 2 make the excess differ from the size of a file
in both directions, and a limit of 2 or 3 is reached exactly, exceeded, and exceeded by more than
one file. Two faults allow a fault during the recovery from another. For the safety properties
and the refinement the question is settled by proofs for all values. In `clips` two
requests are what a conflict needs, one segment is copied while another is written or deleted, three are what a hole needs (and
the three formats sd, hd, sd what a skipped one needs), and the one fault comes at any step of either. In `recorder` a store is built, closed and built again, cuts twice in one muxer and with a change of the size
in between, and the one fault comes at any of these points. In `footage` the gap
takes the values below, at and above the slop, and the request every position relative to every
boundary; consecutive segments overlap by one, in any combination, and none is shorter than that (see `RangesAreAllBlocks` and
`ClipsMissNoMoment`, which need it).

**What a clip may lack.** The code takes segments not to overlap; whole-second names make them overlap by less than one. A clip
starts in the *latest* segment that has begun by `from`. What an earlier one still holds of these moments is not cut from it:
`ClipHasAllFootage` is about the other segments (`Current`), and `NoMomentMissed` says that the later one, if it can be opened, has those moments. A segment
whose width, height or codec differs from the first one's, and one whose probe fails in passing, is skipped and leaves a hole;
`NoHole` names the two and shows that there is no other.

**What the violated runs show.** Each states what the README or a comment says.
* *overdeletion*: a crash (or a file that cannot be removed) leaves marked files on the disk. `cleanupDB`
  measures the directory, does not subtract what is marked already, and marks as much again;
  `cleanupFiles` deletes both. Footage is lost that the limit allows for.
* *stale_size*: the size goes into the row from the listing, while the probe comes later. A segment finished
  between the two is indexed with a size that is too small, and no later tick corrects it;
  `storage_used_gb` and the number of rows `cleanupDB` marks go by it.
* *stalled_segment*: the grace period counts from the start of the segment. An outage of the source longer than
  half an hour leaves the segment open and unreadable, and the indexer unlinks it.
* *fallback_clash*: `int64(float64(SizeGB) * 1.1)` is `SizeGB` for every `SizeGB` below 10.
* *shared_clip*: the list of a concat has a unique name, its output does not: two fetches that start at the same second write
  one temporary file, and the one that ends first removes it. The other answers with a part of a clip that is not its own, without an error.
* *async_early*: the timer of an async save runs one segment length from the request. A segment that was opened just before
  it, or that the source holds open longer, is not complete when it fires, and is left out of the clip.

**Fairness.** `WF(IndexerNext)`: the worker is a goroutine that is scheduled, its ticker fires every second
and no statement blocks for ever; after `EndTick` the next tick comes. `WF(Start)`: the process is
restarted when it is down, which its supervisor (viam-server) does. `WF` of `FinishSegment` when the store is
closing: `Close` waits for the encoder or the raw segmenter to write the trailer. Nothing is assumed of the
segmenter otherwise (a source may stop for ever), of the fallback deleter, or of the
clock. Faults are bounded, so they stop: liveness is what happens when nothing fails any more.

In `Clips`: `WF` of each request's next step, as each is a goroutine that no lock holds up, and of `Tick`, since a timer
fires. That includes the chunks of a stream, which its consumer is assumed to take. In `Recorder`: `WF` of what `Close` waits for and of the workers' and renamers' steps. `SF(PollerEnds)` and `SF(Flush)`:
a worker whose context is done comes back to a `select` in which a ticker may be ready as well; Go takes one of the ready cases
at random, so a case that is ready again and again is taken. `WF(CameraReturns)`: the camera comes back from a call once the context it was
given is done, which is what `Images(ctx)` and `Bytes(ctx)` are given it for; with a camera that does not, `Close` never returns, and TLC finds
`RecordingCloses` violated without this assumption. A call may take for ever while the store runs. Nothing is assumed of the caller or of the clock.

`EventuallyReclaimed` excepts a storage with no readable file. The indexer deletes only what it has
indexed and, after the grace period, what cannot be read; the clock of the model may stop before that.

## 4. The proofs

All hold for every value of the constants that satisfies the named assumptions, which only type
them; what a theorem assumes beyond that is in its statement. `MaxTime`, `MaxSegment` and `MaxFaults` are arbitrary naturals, so the theorems are about histories of
any length with any number of faults.

* `TypeCorrect`: `Spec => []TypeOK` (`StorageProofs`). One lemma for each part of `Next`, one step for each action.
* `CatalogueIsSound`: `Spec => []CatalogueSound` (`CatalogueProofs`), under **all** kinds of faults. `CatalogueSound` is not
  inductive: a row is inserted long after the file was opened, and a file is unlinked long after its row was
  read. `InHand` says what the worker knows at each point: a file about to be inserted could be opened (or
  was taken since), a file about to be discarded has no live row, what is about to be unlinked is marked.
  That rests on the worker being the only writer of the table.
* `RetainedByAge`: `Spec => []OldestFirst` if `probe` and `insert` faults do not occur (`RetentionProofs`). `ByAge` is the
  loop invariant of the whole tick: while it indexes, newest first, every readable segment older than one it
  has seen is in the table or still to be visited; when it marks, in the table. `Recorded` is why a
  segment that is finished in the meantime does not matter: it is the newest of all. `MarksFromTheOldest` is the lemma
  about `FilesToMark`: the set is closed downwards, by monotonicity of `Bytes`.
  The two excepted faults do break the property (the code logs them and goes on), so the assumption is needed.
* `DeletesOnlyCondemnedOrCorrupt`: `Spec => OnlyCondemnedOrCorrupt` if the grace period is longer than a segment and neither
  `stall` nor `probe` faults occur. `OldWhenDiscarded` says that a segment about to be discarded is not
  complete and not open; *stalled_segment* shows that the assumption is needed.

* `RecorderTyped`: `Spec => []TypeOK` of `Recorder` (`RecorderProofs`). Part of it is that the muxer is on exactly when the
  encoder or the raw segmenter has it. `Owned` makes it inductive: the processor runs only in a frame store that has not
  got past its workers, a raw segmenter is open only in an RTP store that has not closed it.
* `RecorderNeverAhead`: `Spec => []NeverAhead`. `Paced` is the invariant: the frames an encoder has counted are at most the ticks since
  its setup, the one that is due left out; so a timestamp is never ahead of the clock, and a cut, which needs a
  timestamp of n segment lengths, opens a file that is as late by the clock. It needs the count to be reset with the muxer
  (the mutant `Pts_Kept` does not). Raw streams are paced by the assumption on their timestamps.

* `ClipsTyped`, `FetchesOwnClip`, `SavesOwnClip`: `Spec` implies `[]TypeOK`, `[]OwnClip` and `[]SavedClip` of `Clips`
  (`ClipsProofs`), for any number of requests of any kinds. The invariant is `ClipInv`. `Shape` says what a request holds at
  each point; `Files`, that a file is open or named only under the path of the request that made it; `Exclusive`, that of two requests
  busy with one path each is counted as disturbed; `Held`, that the file of an undisturbed request holds exactly
  what it has copied so far. `Held` needs the output to be truncated when it is opened (the mutant `Truncated_Appends` does
  not): the path may name what is left of a fetch that crashed.
* `NoHoleInClips`: `Spec => []NoHole`. `Solid`: segments are completed in the order they are opened, so none that is older than a
  listed one becomes complete after the listing, and probing skips only what is incomplete or deleted, has another format than what is
  matched already, or could not be probed (`missed`).
* `NoStrayLists`, `NoStrayClips`: `Spec => []ListsAccounted` and `Spec => []TempAccounted`, which are inductive together with the types
  and with `Begun` (a request that was made has an ask). A list that could not be removed is in `stuck`, a clip in `left`.

* `StorageImplementsRetention`: `Spec /\ []NothingTaken => Lifecycle` (`LifecycleProofs`), under the assumptions of
  `DeletesOnlyCondemnedOrCorrupt`; failed inserts are allowed here. `LifeInv` adds three parts to `DiscardInv`. `RowsOpened`: a row is that of a
  file that can be opened, so a new row moves its segment from complete to listed. `Condemning`: what the worker has left
  to mark are the live rows from the oldest on, so each mark condemns the oldest listed segment, whatever a failure in the middle of
  the loop leaves undone. `Unlinked`: the file of a row that is about to be deleted is gone, so the deletion of the row changes nothing that
  `Retention` sees. `OneMoves` and `SameStage` are the two halves of every step: one segment moves on, the others stay.
  `NothingTaken` is a hypothesis on the behaviour because the fallback deleter unlinks a file without a mark, a step
  `Retention` does not have. `RetentionWithoutFallback` has none: it is for a store without that worker.

* `SegmentsNamedByStart`, `NoFrameLost`: `Spec /\ NoFold` implies `[]NamedByStart` and `[]NothingLost` (`RecordingProofs`). `RecordingInv`
  looks at both directories together, since a rename moves the frames of a second from one to the other. `InOrder`: the seconds cut the
  frames into runs, each beginning in the second it is named by. `AtHead`: the muxer writes to the last run.
  `Replaceable`: a rename can only replace a file of an earlier setup within the same second. `Accounted`: each frame is in a file or
  was replaced by such a later setup. `WrittenOnce`: the frame of a tick is written once. None depends on which renamer (the one of the
  store, or one a failed constructor left behind) does the moving, or on when the process dies.
* `ClosedClean`: `Spec /\ NoFold => []CleanClose`. `ClosingInv`: as long as nothing is spoilt, a file that is not being written
  is complete, and at each stage of `Close` what is left for the renamer is on its list (`Draining`). That is where the
  order of `Close` matters: the trailer is written before the last listing.
* `NoFold` says that on Windows no two seconds of the recording have one local time. It is about a constant and the
  platform, so it need only hold initially. It cannot be dropped: TLC finds each of the three properties violated for a zone that folds.

* `ClipsWithinRequests`, `ClipsHaveAllFootage`: `Spec` implies `[]ClipWithinRequest` and `[]ClipHasAllFootage` of `MCFootage` (`FootageProofs`), for
  histories of any length with any overlaps. `HistoryInv`: segments are in the order of their names (`Sorted`), and apart if none overlaps the
  next (`Apart`). `SearchResult` says what the two searches return, by the well-foundedness of the naturals; `Trimmed` what the trim of one
  segment is; `CurrentFound` that no segment of `Current` is outside the two indices, `CurrentShows` that its moments are in the clip.
* `ClipsMissNoMoment`: `Spec => []NoMomentMissed`, if no segment is shorter than the longest overlap: what a segment outside `Current` holds of the
  request, the last one to begin by `from` holds too, as ends are in the order of starts.
* `RangesAreAllBlocks`: `Spec => []RangesAreBlocks`, if no segment is shorter than the longest overlap. `Ranges` is a fold;
  `RangesUnfolded` opens it to the function that `FoldLeft` chooses, `FoldExists` shows that there is one and `RangesStep` that it takes the files one by one.
  `RangesDivide` is the loop invariant of `getVideoRangesFromFiles`: after k files the ranges cut 1..k where a gap is, and each ends with its last file.
  It uses `AllNumbers`, induction as a fact about sets, proved from the least counterexample.
  `DividedBlocks` goes from there to the blocks, which end with the *latest* of their files: the two agree in a `Steady` history, where no segment ends before the
  one that went before it. The condition makes histories steady, and without it TLC finds a counterexample. Names are whole seconds, so in the code
  an overlap is less than one, and only a segment that is closed within a second after a cut is shorter.

The inductive invariants `CatalogueInv`, `AgeInv` and `DiscardInv` are defined in `Storage` next to the properties they are for,
the others in the module of their proofs. TLC checked `LifeInv`, `RecordingInv` and `ClosingInv` with the constants of the
`retention` and `recorder` runs before they were proved.

Every safety property and the refinement of the passing runs have a theorem. **Only model-checked**: the liveness properties
(`EventuallyIndexed`, `EventuallyReclaimed`, `EventuallyDeleted`, `EveryRequestSettles`, `RecordingCloses`, `EventuallyMoved`), since fairness is out of the prover's
reach; and the counterexamples of the violated runs.

## 5. Not modelled, and the plan

Theorems planned: what the liveness properties rest on that is a safety property (a step that must be taken stays possible
until it is), and what holds of the promises the violated runs refute when the fault they need does not occur.

Not modelled:

* The camera component converts the arguments of a command and the answer to it; it holds one store and no state of its own.
* The configuration is validation and defaults: functions of one struct, where a test reaches every case.
* Video info calls FFmpeg; `readable` is its verdict, and its failure on a good file the fault `probe`.
* The read-only store is one whose directory no segmenter writes to; it adds no behaviour to `Clips`.
* The choice of one of a camera's images (`pickImage`), the commands, examples and build tooling, and the codecs of FFmpeg.
* Hazards without a property, each with the reason in `PROJECT.json`: the second connection to a database that was removed
  (`indexer.go:104`), a failed insert that is only logged (`indexer.go:260`), a good segment deleted because its probe failed in passing
  (`indexer.go:346`), a storage filled by what is not in the index (`indexer.go:467`), a range that shrinks (`indexer.go:675`), a file that
  vanishes under the directory walk (`utils.go:178`), the part of a clip a failed save leaves to be synced (`videostore.go:528`), the clean-up of
  uninitialised pointers (`encoder.c:355`), a segment without a trailer that a crash leaves in the muxer's directory on Windows (`renamer.go:82`).

## 6. Running

`tlc -config storage.cfg MCStorage.tla` checks a run; `tlapm RetentionProofs.tla` checks the proofs of a module.
Operators named `X_Something` next to an operator `X` are mutants: `X` with a plausible bug, which the property
that `PROJECT.json` pairs with it must notice.
