------------------------------ MODULE Recorder -------------------------------
(***************************************************************************)
(* The recording side of a video store: the source that segments are       *)
(* written from, a frame poller with its encoder or a caller with an RTP   *)
(* stream, the renamer, and the life of the store around them, as the      *)
(* constructors and Close of videostore.go order it.                       *)
(***************************************************************************)
EXTENDS RawSegmenter, Encoder, Renamer

VARIABLES
    kind,     \* config.Type: "frame" or "rtp"
    stage,    \* "down", "run", or what Close waits for next
    starts    \* constructions so far

lifeVars == <<kind, stage, starts>>
vars     == <<muxVars, rawVars, encVars, renVars, lifeVars>>

Stage == {"down", "run", "workers", "segmenter", "renamer"}

(***************************************************************************)
(* The muxer is on exactly when the encoder or the raw segmenter has it,   *)
(* and the names in the storage directory are Unix seconds.                *)
(***************************************************************************)
TypeOK ==
    /\ MuxTypeOK /\ RawTypeOK /\ EncTypeOK /\ RenTypeOK
    /\ kind \in {"frame", "rtp"}
    /\ stage \in Stage
    /\ starts \in 0..MaxStarts
    /\ mux.on <=> (encoder.size # 0 \/ raw = "on")
    /\ \A n \in Name : files[<<"store", n>>].state # "none" => n \in Second

Init ==
    /\ MuxInit /\ RawInitState /\ EncInit /\ RenInit
    /\ kind \in {"frame", "rtp"}
    /\ stage = "down"
    /\ starts = 0

-----------------------------------------------------------------------------
(***************************************************************************)
(* NewFramePollingVideoStore and NewRTPVideoStore.  The first starts the   *)
(* rename worker before the indexer, and leaves it running when that fails *)
(* to start; the second starts it last.  A failure before that (a          *)
(* directory, or encoder.initialize, which may also kill the process when  *)
(* it fails) leaves nothing behind.                                        *)
(***************************************************************************)
Start ==
    /\ stage = "down"
    /\ starts < MaxStarts
    /\ starts' = starts + 1
    /\ \/ /\ stage' = "run"
          /\ renamer' = [renamer EXCEPT ![Own] = IF windows THEN "wait" ELSE "off"]
          /\ poller' = IF kind = "frame" THEN "run" ELSE "off"
          /\ processor' = (kind = "frame")
          /\ raw' = "none"
          /\ UNCHANGED faults
       \/ /\ Fault("start")
          /\ renamer' = [renamer EXCEPT ![starts'] =
                            IF windows /\ kind = "frame" THEN "wait" ELSE "off"]
          /\ UNCHANGED <<stage, poller, processor, raw>>
    /\ latest' = 0
    /\ UNCHANGED <<tick, windows, files, mux, written, sent, due, encoder, todo, kind>>

(***************************************************************************)
(* Close, and what it waits for: the workers, the segmenter, the renamer,  *)
(* each stopped in its turn.  (The indexer, between the first two, is in   *)
(* Storage.)                                                               *)
(***************************************************************************)
Close ==
    /\ stage = "run"
    /\ stage' = "workers"
    /\ UNCHANGED <<muxVars, rawVars, encVars, renVars, kind, starts>>

After_RenamerFirst(s) ==  \* mutant: the renamer is stopped before the segmenter
    CASE s = "workers" -> "renamer" [] s = "renamer" -> "segmenter" [] OTHER -> "down"

After(s) ==
    CASE s = "workers" -> "segmenter" [] s = "segmenter" -> "renamer" [] OTHER -> "down"

GoOn == stage' = After(stage) /\ UNCHANGED <<kind, starts>>

WorkersStopped ==
    /\ stage = "workers"
    /\ poller = "off" /\ ~processor
    /\ GoOn
    /\ UNCHANGED <<muxVars, rawVars, encVars, renVars>>

SegmenterClosed ==
    /\ stage = "segmenter"
    /\ IF kind = "rtp" THEN RawClose ELSE UNCHANGED <<muxVars, rawVars>>
    /\ GoOn
    /\ UNCHANGED <<encVars, renVars>>

RenamerStopped ==
    /\ stage = "renamer"
    /\ renamer[Own] = "off"
    /\ GoOn
    /\ UNCHANGED <<muxVars, rawVars, encVars, renVars>>

(***************************************************************************)
(* The process dies, with all its goroutines.                              *)
(***************************************************************************)
Crash ==
    /\ stage # "down" \/ \E w \in Worker : renamer[w] # "off"
    /\ Fault("crash")
    /\ stage' = "down"
    /\ mux' = MuxOff
    /\ raw' = "none"
    /\ poller' = "off" /\ processor' = FALSE /\ due' = FALSE
    /\ encoder' = NoEncoder /\ latest' = 0
    /\ renamer' = [w \in Worker |-> "off"]
    /\ todo' = [w \in Worker |-> {}]
    /\ UNCHANGED <<tick, windows, files, written, sent, kind, starts>>

-----------------------------------------------------------------------------
(***************************************************************************)
(* A caller initialises its segmenter for a packet it is about to write,   *)
(* and not any more when the store has closed it.  It may close it, and    *)
(* initialise it again, at any time, the shutdown of the store included.   *)
(***************************************************************************)
Serving == kind = "rtp" /\ stage \in {"run", "workers", "segmenter"}

Caller ==
    /\ kind = "rtp"
    /\ \/ Serving /\ ~sent /\ RawInit
       \/ \E key \in BOOLEAN : RawWrite(key)
       \/ raw # "none" /\ RawClose
    /\ UNCHANGED <<encVars, renVars, lifeVars>>

Poll == (Ask \/ Fetch \/ Encode) /\ UNCHANGED <<rawVars, renVars, lifeVars>>

(***************************************************************************)
(* What the workers do to come to the end of their loops.                  *)
(***************************************************************************)
PollerWakes == Wake /\ UNCHANGED <<rawVars, renVars, lifeVars>>

PollerEnds ==
    /\ stage = "workers" /\ PollerStops
    /\ UNCHANGED <<rawVars, renVars, lifeVars>>

CameraReturns ==
    /\ stage = "workers" /\ Fetch
    /\ UNCHANGED <<rawVars, renVars, lifeVars>>

ProcessorEnds ==
    /\ stage = "workers" /\ ProcessorStops
    /\ UNCHANGED <<rawVars, renVars, lifeVars>>

RenamerStep(w) ==
    /\ Scan(w, "busy") \/ Rename(w) \/ Scanned(w)
    /\ UNCHANGED <<rawVars, encVars, lifeVars>>

Flush ==
    /\ stage = "renamer" /\ Scan(Own, "flush")
    /\ UNCHANGED <<rawVars, encVars, lifeVars>>

(***************************************************************************)
(* A tick of the clock: the processor's ticker fires, and keeps at most    *)
(* one tick it has not been asked for; the stream has its next packet.     *)
(***************************************************************************)
Tick ==
    /\ tick < MaxTick
    /\ tick' = tick + 1
    /\ due' = processor
    /\ sent' = FALSE
    /\ UNCHANGED <<windows, files, mux, written, faults>>
    /\ UNCHANGED <<raw, latest, poller, processor, encoder, renVars, lifeVars>>

Closing == WorkersStopped \/ SegmenterClosed \/ RenamerStopped

Next ==
    \/ Start \/ Close \/ Closing \/ Crash \/ Tick
    \/ Caller \/ Poll \/ PollerWakes \/ PollerEnds \/ ProcessorEnds \/ Flush
    \/ \E w \in Worker : RenamerStep(w)

Spec == Init /\ [][Next]_vars

(***************************************************************************)
(* The goroutines of the store are scheduled.  A worker that is stopped    *)
(* comes back to its select again and again, where the ticker and the      *)
(* context may both be ready: select takes either at random, so one of     *)
(* these times it takes the context (strong fairness).  The camera is the  *)
(* one party outside: it is assumed to come back from a call whose context *)
(* is done, and may keep the poller for as long as it likes before that.   *)
(***************************************************************************)
FairSpec ==
    /\ Spec
    /\ WF_vars(Closing) /\ WF_vars(CameraReturns)
    /\ WF_vars(PollerWakes) /\ SF_vars(PollerEnds) /\ WF_vars(ProcessorEnds)
    /\ \A w \in Worker : WF_vars(RenamerStep(w))
    /\ SF_vars(Flush)

-----------------------------------------------------------------------------
Stored(s) == files[<<"store", s>>].frames

(***************************************************************************)
(* A segment in the storage directory is named by the second it starts at, *)
(* whatever the platform: its frames were written at or after that second, *)
(* and before those of the segment with the next name.                     *)
(***************************************************************************)
NamedByStart ==
    \A s \in Second : \A f \in Stored(s) :
       /\ f >= s * Rate
       /\ \A t \in Second : t > s => \A g \in Stored(t) : f < g

(***************************************************************************)
(* The muxer never gets ahead of the clock: the segment after n cuts is at *)
(* least n segment lengths younger than the first, through lost frames,    *)
(* outages and setups.  So segments do not shrink and their number is      *)
(* bounded by the time recorded.                                           *)
(***************************************************************************)
NeverAhead ==
    mux.on => mux.at * Rate + Rate > mux.start + SegLen * Rate * mux.cuts

(***************************************************************************)
(* A frame that was written is in a file, in the one directory or the      *)
(* other, unless the source was set up again within the same second: only  *)
(* then does a later segment take the name of an earlier one.  The part of *)
(* a segment that a crash left without a trailer is such a file, though    *)
(* nothing can be read from it.                                            *)
(***************************************************************************)
Superseded(f) ==
    LET s == f \div Rate
    IN  \E file \in {<<"store", s>>, <<"watch", Local(s)>>} :
           files[file].state # "none" /\ \A g \in files[file].frames : g > f

NothingLost ==
    \A f \in written :
       (\E file \in File : f \in files[file].frames) \/ Superseded(f)

(***************************************************************************)
(* A store that was closed, and not killed, has all it recorded in the     *)
(* storage directory, in complete segments: Close waits for the muxer to   *)
(* write its trailer and for the renamer to move what is left after that.  *)
(***************************************************************************)
CleanClose ==
    stage = "down" /\ ~faults.spoilt =>
       \A f \in written :
          \/ \E s \in Second : f \in Stored(s) /\ files[<<"store", s>>].state = "whole"
          \/ Superseded(f)

(***************************************************************************)
(* Close gets through the recording side, the workers of the source, the   *)
(* segmenter and the renamer, whatever the last frames, the trailer and    *)
(* the renames do, if the camera comes back once its context is done.  The *)
(* other workers it waits for, and the indexer, are not part of this.      *)
(***************************************************************************)
RecordingCloses == stage = "workers" ~> stage = "down"

(***************************************************************************)
(* While a store runs, the directory of the muxer is emptied of complete   *)
(* segments again and again: one that was left by a crash, by a listing or *)
(* a rename that failed, is moved by a later pass.                         *)
(***************************************************************************)
Drained == \A n \in Name : files[<<"watch", n>>].state # "whole"

EventuallyMoved == []<>(stage = "run" => Drained)
=============================================================================
