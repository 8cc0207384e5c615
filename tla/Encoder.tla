------------------------------- MODULE Encoder -------------------------------
(***************************************************************************)
(* videostore/encoder.go and encoder.c, and the two workers that feed it   *)
(* (fetchFrames and processFrames of videostore.go): one keeps the latest  *)
(* frame of the camera, the other encodes whatever that is at each tick of *)
(* a ticker of its own.                                                    *)
(***************************************************************************)
EXTENDS SegmentMuxer

CONSTANT Size        \* the sizes of the camera's frames, positive numbers

ASSUME SizeAssumption == Size \subseteq Nat \ {0}

VARIABLES
    latest,     \* latestFrame: its size, 0 for nil
    poller,     \* fetchFrames: "off", "run", "call" while it asks the camera,
                \* or "sleep" after an error
    processor,  \* processFrames is running
    due,        \* its ticker has fired
    encoder     \* the size encoderCtx is set up for, 0 for NULL; frameCount

encVars == <<latest, poller, processor, due, encoder>>

NoEncoder == [size |-> 0, count |-> 0]

EncTypeOK ==
    /\ latest \in Size \cup {0}
    /\ poller \in {"off", "run", "call", "sleep"}
    /\ processor \in BOOLEAN
    /\ due \in BOOLEAN
    /\ encoder \in [size : Size \cup {0}, count : Nat]
    /\ encoder.size # 0 => processor

EncInit ==
    /\ latest = 0
    /\ poller = "off"
    /\ processor = FALSE
    /\ due = FALSE
    /\ encoder = NoEncoder

-----------------------------------------------------------------------------
(***************************************************************************)
(* One round of fetchFrames: it asks the camera for its images and for the *)
(* bytes of one, which may take any time, for ever included.  An error     *)
(* clears the frame and the worker sleeps for a second; an image of        *)
(* another type only clears it.                                            *)
(***************************************************************************)
Ask ==
    /\ poller = "run"
    /\ poller' = "call"
    /\ UNCHANGED <<muxVars, latest, processor, due, encoder>>

Fetch ==
    /\ poller = "call"
    /\ \/ latest' \in Size /\ poller' = "run"
       \/ latest' = 0 /\ poller' \in {"run", "sleep"}
    /\ UNCHANGED <<muxVars, processor, due, encoder>>

Wake ==
    /\ poller = "sleep"
    /\ poller' = "run"
    /\ UNCHANGED <<muxVars, latest, processor, due, encoder>>

-----------------------------------------------------------------------------
SetUp(size) == encoder.size # size   \* the first frame, or one of another size

Pts_Kept(size) == encoder.count      \* mutant: frameCount survives a new setup

(***************************************************************************)
(* frameCount, which close_encoder_segmenter resets.                       *)
(***************************************************************************)
Pts(size) == IF SetUp(size) THEN 0 ELSE encoder.count

Outcome == {"ok", "trailer", "setup", "encode", "write"}

(***************************************************************************)
(* video_store_h264_encoder_write, for a frame that could be decoded: one  *)
(* of another size ends the segment (a trailer that fails is logged), then *)
(* encoder and muxer are set up anew.  If that fails the next frame tries  *)
(* again.  The frame is encoded, counted and written, each of which may    *)
(* fail; any packet may start a segment (break_non_keyframes).             *)
(***************************************************************************)
Write(size, outcome) ==
    LET resized == SetUp(size) /\ encoder.size # 0
        ready   == outcome # "setup"
        counted == outcome # "encode"
        ended   == IF resized /\ outcome # "trailer" THEN Ended(files, mux) ELSE files
        fs      == IF SetUp(size) /\ ready THEN Opened(ended) ELSE ended
        m       == IF SetUp(size) THEN MuxOn ELSE mux
    IN  /\ outcome = "trailer" => resized
        /\ outcome = "setup" => SetUp(size)
        /\ encoder' = IF ready
                      THEN [size |-> size, count |-> Pts(size) + IF counted THEN 1 ELSE 0]
                      ELSE NoEncoder
        /\ IF outcome \in {"ok", "trailer"}
           THEN /\ files' = FilesAfter(fs, m, Pts(size), TRUE)
                /\ mux' = MuxAfter(fs, m, Pts(size), TRUE)
                /\ written' = written \cup {tick}
           ELSE /\ files' = fs
                /\ mux' = IF ready THEN m ELSE MuxOff
                /\ UNCHANGED written

(***************************************************************************)
(* One round of processFrames.  Nothing is encoded when there is no frame, *)
(* or one that cannot be decoded.                                          *)
(***************************************************************************)
Encode ==
    /\ processor /\ due
    /\ due' = FALSE
    /\ \/ UNCHANGED <<files, mux, written, encoder, faults>>
       \/ \E outcome \in Outcome :
             /\ latest # 0
             /\ Write(latest, outcome)
             /\ IF outcome = "ok" THEN UNCHANGED faults ELSE Fault(outcome)
    /\ UNCHANGED <<tick, windows, latest, poller, processor>>

-----------------------------------------------------------------------------
PollerStops_Healthy ==  \* mutant: the context is looked at after a good frame only
    /\ poller = "run" /\ latest # 0
    /\ poller' = "off"
    /\ UNCHANGED <<muxVars, latest, processor, due, encoder>>

(***************************************************************************)
(* The workers see that their context is done, the poller when it neither  *)
(* sleeps nor asks; the processor closes the encoder on its way out.       *)
(***************************************************************************)
PollerStops ==
    /\ poller = "run"
    /\ poller' = "off"
    /\ UNCHANGED <<muxVars, latest, processor, due, encoder>>

ProcessorStops ==
    /\ processor
    /\ processor' = FALSE
    /\ due' = FALSE
    /\ encoder' = NoEncoder
    /\ mux' = MuxOff
    /\ \/ files' = (IF mux.on THEN Ended(files, mux) ELSE files) /\ UNCHANGED faults
       \/ mux.on /\ Fault("trailer") /\ UNCHANGED files
    /\ UNCHANGED <<tick, windows, written, latest, poller>>
=============================================================================
