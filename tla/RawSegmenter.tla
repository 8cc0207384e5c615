---------------------------- MODULE RawSegmenter -----------------------------
(***************************************************************************)
(* videostore/rawsegmenter.go and rawsegmenter.c: what a caller that has   *)
(* an RTP stream does to its segmenter, each call atomic under cRawSegMu.  *)
(* A call that only returns an error changes nothing and is no action:     *)
(* Init with a bad size or codec, or on a segmenter that was not closed,   *)
(* WritePacket with an empty packet or before Init, Close of a closed one. *)
(***************************************************************************)
EXTENDS SegmentMuxer

VARIABLES
    raw,    \* cRawSeg: "none" (nil), "on", or "broken" after a failed Close
    sent    \* the stream has delivered its packet of this tick

rawVars == <<raw, sent>>

RawTypeOK == raw \in {"none", "on", "broken"} /\ sent \in BOOLEAN

RawInitState == raw = "none" /\ sent = FALSE

(***************************************************************************)
(* Init; one that fails leaves nothing behind.                             *)
(***************************************************************************)
RawInit ==
    /\ raw = "none"
    /\ raw' = "on"
    /\ mux' = MuxOn
    /\ files' = Opened(files)
    /\ UNCHANGED <<tick, windows, written, faults, sent>>

(***************************************************************************)
(* WritePacket.  The timestamps of a stream start at zero with its Init    *)
(* and keep the pace of the clock.  A write that fails loses its packet;   *)
(* so does one on a segmenter whose trailer failed.                        *)
(***************************************************************************)
RawWrite(key) ==
    /\ raw \in {"on", "broken"}
    /\ ~sent
    /\ sent' = TRUE
    /\ \/ /\ raw = "on"
          /\ files' = FilesAfter(files, mux, tick - mux.start, key)
          /\ mux' = MuxAfter(files, mux, tick - mux.start, key)
          /\ written' = written \cup {tick}
          /\ UNCHANGED faults
       \/ /\ (raw = "broken" /\ UNCHANGED faults) \/ Fault("write")
          /\ UNCHANGED <<files, mux, written>>
    /\ UNCHANGED <<tick, windows, raw>>

(***************************************************************************)
(* Close.  When the trailer cannot be written cRawSeg stays, on a muxer    *)
(* that has ended: another Close is undefined, and may do anything to it.  *)
(***************************************************************************)
RawClose ==
    /\ \/ /\ raw = "on"
          /\ raw' = "none"
          /\ files' = Ended(files, mux)
          /\ UNCHANGED faults
       \/ /\ raw = "on"
          /\ Fault("trailer")
          /\ raw' = "broken"
          /\ UNCHANGED files
       \/ /\ raw = "broken"
          /\ raw' \in {"none", "broken"}
          /\ UNCHANGED <<files, faults>>
       \/ raw = "none" /\ UNCHANGED <<raw, files, faults>>
    /\ mux' = MuxOff
    /\ UNCHANGED <<tick, windows, written, sent>>

=============================================================================
