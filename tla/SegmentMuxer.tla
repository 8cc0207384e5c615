---------------------------- MODULE SegmentMuxer -----------------------------
(***************************************************************************)
(* The files a video store records into, and the segment muxer of          *)
(* libavformat with the options encoder.c and rawsegmenter.c give it.      *)
(*                                                                         *)
(* The unit of time is the tick, the interval between two frames; a frame  *)
(* is called by the tick it is written at.  A file is named by the second  *)
(* it is opened at: the Unix second, or on Windows the local one, in a     *)
(* directory of its own the Renamer moves complete files out of.           *)
(***************************************************************************)
EXTENDS Integers, FiniteSets

CONSTANTS
    MaxTick,      \* bound: the last tick of the model
    Rate,         \* ticks in a second
    SegLen,       \* segmentSeconds
    Zone,         \* offset of local time from UTC, for each second
    FaultKinds,   \* the faults the environment may inject
    MaxFaults     \* bound: how many in one behaviour

Frame  == 0..MaxTick
Second == 0..(MaxTick \div Rate)

ASSUME RateAssumption  == /\ MaxTick \in Nat
                          /\ Rate \in Nat \ {0}
                          /\ SegLen \in Nat \ {0}
                          /\ Zone \in [Second -> Int]
                          /\ MaxFaults \in Nat

VARIABLES
    tick,      \* the wall clock
    windows,   \* the store runs on Windows
    files,     \* what each file holds
    mux,       \* the muxer: whether it is on, the second its file was opened
               \* at, the tick it was set up at, how often it has cut
    written,   \* history: the frames whose write succeeded
    faults     \* history: how many faults there were, and whether one of them
               \* may keep a segment from being complete or moved

muxVars == <<tick, windows, files, mux, written, faults>>

Local(s) == s + Zone[s]
Name     == Second \cup {Local(s) : s \in Second}
File     == {"watch", "store"} \X Name
Now      == tick \div Rate

(***************************************************************************)
(* outputPattern: the strftime pattern of the platform.                    *)
(***************************************************************************)
OutputFile(s) == IF windows THEN <<"watch", Local(s)>> ELSE <<"store", s>>

Current == OutputFile(mux.at)

Blank  == [state |-> "none", frames |-> {}]    \* no file
Fresh  == [state |-> "part", frames |-> {}]    \* an empty one
MuxOff == [on |-> FALSE, at |-> 0, start |-> 0, cuts |-> 0]
MuxOn  == [on |-> TRUE, at |-> Now, start |-> tick, cuts |-> 0]

Spoiling == {"crash", "trailer", "list", "rename"}

Fault(kind) ==
    /\ kind \in FaultKinds
    /\ faults.count < MaxFaults
    /\ faults' = [count |-> faults.count + 1, spoilt |-> faults.spoilt \/ kind \in Spoiling]

MuxTypeOK ==
    /\ tick \in Frame
    /\ windows \in BOOLEAN
    /\ files \in [File -> [state : {"none", "part", "whole"}, frames : SUBSET Frame]]
    /\ mux \in [on : BOOLEAN, at : Second, start : Frame, cuts : Nat]
    /\ written \subseteq Frame
    /\ faults \in [count : 0..MaxFaults, spoilt : BOOLEAN]

MuxInit ==
    /\ tick = 0
    /\ windows \in BOOLEAN
    /\ files = [f \in File |-> Blank]
    /\ mux = MuxOff
    /\ written = {}
    /\ faults = [count |-> 0, spoilt |-> FALSE]

-----------------------------------------------------------------------------
(***************************************************************************)
(* avformat_write_header opens the first file: whatever the name stood for *)
(* is truncated.                                                           *)
(***************************************************************************)
Opened(fs) == [fs EXCEPT ![OutputFile(Now)] = Fresh]

(***************************************************************************)
(* A trailer makes an mp4 that holds a packet complete.                    *)
(***************************************************************************)
Ended(fs, m) ==
    [fs EXCEPT ![OutputFile(m.at)] =
        [state |-> IF @.frames = {} THEN @.state ELSE "whole", frames |-> @.frames]]

(***************************************************************************)
(* A packet that may start a segment does so when its timestamp, counted   *)
(* from the setup, has reached the next multiple of the segment length.    *)
(***************************************************************************)
Cut(fs, m, pts, key) ==
    /\ key
    /\ fs[OutputFile(m.at)].frames # {}
    /\ pts >= SegLen * Rate * (m.cuts + 1)

MuxAfter(fs, m, pts, key) ==
    IF Cut(fs, m, pts, key)
    THEN [on |-> m.on, at |-> Now, start |-> m.start, cuts |-> m.cuts + 1]
    ELSE m

FilesAfter(fs, m, pts, key) ==
    LET cut == IF Cut(fs, m, pts, key) THEN Opened(Ended(fs, m)) ELSE fs
    IN  [cut EXCEPT ![OutputFile(MuxAfter(fs, m, pts, key).at)] =
            [state |-> @.state, frames |-> @.frames \cup {tick}]]
=============================================================================
