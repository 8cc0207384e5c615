--------------------------- MODULE RecordingProofs ---------------------------
(***************************************************************************)
(* What a recording store owes the frames it was given, for every value of *)
(* the constants of Recorder: a segment is named by the second it starts   *)
(* at, no frame is lost but to a setup within its own second, and a store  *)
(* that was closed has moved and completed all its segments.               *)
(***************************************************************************)
EXTENDS RecorderProofs

(***************************************************************************)
(* On Windows the muxer names its files by local time, so the frames of a  *)
(* second may be in either of two files.                                   *)
(***************************************************************************)
StoreFile(s) == <<"store", s>>
WatchFile(s) == <<"watch", Local(s)>>

FramesOf(fs, s) == fs[StoreFile(s)].frames \cup fs[WatchFile(s)].frames

(***************************************************************************)
(* No two seconds of the recording have the same local time: the store is  *)
(* not on Windows, or does not record through the end of summer time.      *)
(***************************************************************************)
NoFold == windows => \A s, t \in Second : Local(s) = Local(t) => s = t

-----------------------------------------------------------------------------
(***************************************************************************)
(* The parts of the inductive invariant, as properties of the files fs, of *)
(* a muxer m and of the frames w that were written.                        *)
(***************************************************************************)
WatchUnused(fs) == ~windows => \A n \in Name : fs[<<"watch", n>>] = Blank

Past(w) == \A f \in w : f \in Frame /\ f <= tick

(***************************************************************************)
(* The seconds cut the frames into runs, each of which begins in the       *)
(* second it is named by.                                                  *)
(***************************************************************************)
InOrder(fs, w) ==
    \A s \in Second : \A f \in FramesOf(fs, s) :
       /\ f \in w
       /\ Rate * s <= f
       /\ \A t \in Second : t > s => \A g \in FramesOf(fs, t) : f < g

(***************************************************************************)
(* The file the renamer would replace is one of an earlier setup in the    *)
(* same second: all its frames are of that second, and older than those    *)
(* that replace them.                                                      *)
(***************************************************************************)
Replaceable(fs) ==
    \A s \in Second : fs[WatchFile(s)].state # "none" =>
       \A f \in fs[StoreFile(s)].frames :
          /\ f < Rate * s + Rate
          /\ \A g \in fs[WatchFile(s)].frames : f < g

Later(fs, file, f) == \A g \in fs[file].frames : f < g

(***************************************************************************)
(* A frame that is in no file has been replaced in the second it belongs   *)
(* to, and where the replacement is it stays until it is replaced itself.  *)
(***************************************************************************)
Replaced(fs, f) ==
    LET s == f \div Rate
    IN  /\ Later(fs, WatchFile(s), f)
        /\ \/ fs[WatchFile(s)].state # "none"
           \/ fs[StoreFile(s)].state # "none" /\ Later(fs, StoreFile(s), f)

Accounted(fs, w) ==
    \A f \in w : (\E s \in Second : f \in FramesOf(fs, s)) \/ Replaced(fs, f)

Kept(fs, w) ==
    /\ WatchUnused(fs) /\ Past(w)
    /\ InOrder(fs, w) /\ Replaceable(fs) /\ Accounted(fs, w)

(***************************************************************************)
(* The muxer writes to the last file there is.                             *)
(***************************************************************************)
AtHead(fs, m) ==
    m.on => /\ m.at <= Now
            /\ fs[OutputFile(m.at)].state # "none"
            /\ \A t \in Second : t > m.at => FramesOf(fs, t) = {}

(***************************************************************************)
(* The frame of this tick is written once.                                 *)
(***************************************************************************)
WrittenOnce ==
    /\ tick \in written => IF kind = "frame" THEN ~due ELSE sent
    /\ due => processor

RecordingInv ==
    /\ NoFold
    /\ Kept(files, written)
    /\ AtHead(files, mux)
    /\ WrittenOnce

-----------------------------------------------------------------------------
(***************************************************************************)
(* A file that is not being written is complete, as long as no trailer was *)
(* lost.                                                                   *)
(***************************************************************************)
Complete(fs, m) ==
    \A file \in File :
       \/ fs[file].frames = {} \/ fs[file].state = "whole"
       \/ m.on /\ file = OutputFile(m.at)

(***************************************************************************)
(* What Close has left to do, if nothing went wrong: the last pass of the  *)
(* renamer has every complete segment on its list, and is not over before  *)
(* each was moved.                                                         *)
(***************************************************************************)
Draining ==
    /\ raw # "broken"
    /\ windows /\ stage \in {"run", "workers", "segmenter"} =>
          renamer[Own] \in {"wait", "busy"}
    /\ windows /\ stage = "renamer" /\ renamer[Own] = "flush" => Listed \subseteq todo[Own]
    /\ windows /\ stage = "renamer" /\ renamer[Own] = "off" => Listed = {}
    /\ stage = "down" => Listed = {}

ClosingInv == ~faults.spoilt => Complete(files, mux) /\ Draining

-----------------------------------------------------------------------------
(***************************************************************************)
(* Ticks and seconds are numbers.                                          *)
(***************************************************************************)
LEMMA Numbers ==
    /\ Frame \subseteq Nat /\ Second \subseteq Nat /\ Rate \in Nat \ {0} /\ MaxTick \in Nat
    /\ \A f \in Frame : Rate * (f \div Rate) <= f /\ f < Rate * (f \div Rate) + Rate
    /\ \A f \in Frame : f \div Rate \in Second
<1>1. Frame \subseteq Nat /\ Second \subseteq Nat /\ Rate \in Nat \ {0} /\ MaxTick \in Nat
  BY RateAssumption DEF Frame, Second
<1>2. \A f \in Frame : Rate * (f \div Rate) <= f /\ f < Rate * (f \div Rate) + Rate
  BY <1>1, DivFloor
<1>3. ASSUME NEW f \in Frame PROVE f \div Rate \in Second
  <2>1. f \in Nat /\ f <= MaxTick
    BY <1>1 DEF Frame
  <2>2. f \div Rate \in Nat /\ MaxTick \div Rate \in Nat /\ f \div Rate <= MaxTick \div Rate
    BY <1>1, <2>1, DivFloor, DivMono
  <2>. QED
    BY <2>2 DEF Second
<1>. QED
  BY <1>1, <1>2, <1>3

(***************************************************************************)
(* A tick lies in one second.                                              *)
(***************************************************************************)
LEMMA OneSecond ==
    ASSUME NEW f \in Frame, NEW s \in Second, Rate * s <= f, f < Rate * s + Rate
    PROVE  f \div Rate = s
<1> DEFINE q == f \div Rate
<1>1. /\ f \in Nat /\ s \in Nat /\ Rate \in Nat \ {0} /\ q \in Nat
      /\ Rate * q <= f /\ f < Rate * q + Rate
  BY Numbers, DivFloor
<1> HIDE DEF q
<1>2. q + 1 <= s => FALSE
  <2>1. q + 1 <= s => Rate * (q + 1) <= Rate * s
    BY <1>1, TimesMono
  <2>2. Rate * (q + 1) = Rate * q + Rate
    BY <1>1, SMT
  <2>. QED
    BY <1>1, <2>1, <2>2, SMT
<1>3. s + 1 <= q => FALSE
  <2>1. s + 1 <= q => Rate * (s + 1) <= Rate * q
    BY <1>1, TimesMono
  <2>2. Rate * (s + 1) = Rate * s + Rate
    BY <1>1, SMT
  <2>. QED
    BY <1>1, <2>1, <2>2, SMT
<1>4. q = s
  BY <1>1, <1>2, <1>3, SMT
<1>. QED
  BY <1>4 DEF q

(***************************************************************************)
(* The names of the files of a second.                                     *)
(***************************************************************************)
LEMMA FilesOfSecond ==
    /\ \A s \in Second : StoreFile(s) \in File /\ WatchFile(s) \in File
    /\ \A s, t : StoreFile(s) # WatchFile(t)
    /\ \A s, t : StoreFile(s) = StoreFile(t) => s = t
    /\ \A s : OutputFile(s) = IF windows THEN WatchFile(s) ELSE StoreFile(s)
BY DEF StoreFile, WatchFile, File, Name, OutputFile

(***************************************************************************)
(* A change to the file of one second leaves those of the others alone.    *)
(***************************************************************************)
Changed(fs, gs, s, c) ==
    /\ gs[OutputFile(s)] = c
    /\ \A file \in File : file # OutputFile(s) => gs[file] = fs[file]
    /\ \A t \in Second : t # s => /\ gs[StoreFile(t)] = fs[StoreFile(t)]
                                  /\ gs[WatchFile(t)] = fs[WatchFile(t)]
                                  /\ FramesOf(gs, t) = FramesOf(fs, t)
    /\ windows => gs[StoreFile(s)] = fs[StoreFile(s)] /\ gs[WatchFile(s)] = c
    /\ ~windows => /\ gs[StoreFile(s)] = c
                   /\ \A n \in Name : gs[<<"watch", n>>] = fs[<<"watch", n>>]

LEMMA ChangedFiles ==
    ASSUME NEW fs, Sound(fs), NoFold, NEW s \in Second, NEW c,
           NEW gs, gs = [fs EXCEPT ![OutputFile(s)] = c]
    PROVE  Changed(fs, gs, s, c)
<1>1. OutputFile(s) \in File /\ fs \in [File -> Content]
  BY OutputFileType DEF Sound
<1>2. gs[OutputFile(s)] = c /\ \A file \in File : file # OutputFile(s) => gs[file] = fs[file]
  BY <1>1
<1>3. ASSUME NEW t \in Second, t # s
      PROVE  gs[StoreFile(t)] = fs[StoreFile(t)] /\ gs[WatchFile(t)] = fs[WatchFile(t)]
  <2>1. windows => Local(t) # Local(s)
    BY <1>3 DEF NoFold
  <2>2. StoreFile(t) # OutputFile(s) /\ WatchFile(t) # OutputFile(s)
    BY <1>3, <2>1 DEF StoreFile, WatchFile, OutputFile
  <2>. QED
    BY <1>2, <2>2, FilesOfSecond
<1>4. windows => gs[StoreFile(s)] = fs[StoreFile(s)] /\ gs[WatchFile(s)] = c
  BY <1>2, FilesOfSecond
<1>5. ASSUME ~windows, NEW n \in Name PROVE gs[<<"watch", n>>] = fs[<<"watch", n>>]
  BY <1>2, <1>5 DEF File, OutputFile
<1>6. ~windows => gs[StoreFile(s)] = c
  BY <1>2, FilesOfSecond
<1>. QED
  BY <1>2, <1>3, <1>4, <1>5, <1>6 DEF Changed, FramesOf

(***************************************************************************)
(* Off Windows all frames are in the storage directory.                    *)
(***************************************************************************)
LEMMA UnusedWatch ==
    ASSUME NEW fs, WatchUnused(fs), ~windows, NEW s \in Second
    PROVE  fs[WatchFile(s)] = Blank /\ FramesOf(fs, s) = fs[StoreFile(s)].frames
<1>1. Local(s) \in Name
  BY DEF Name
<1>2. fs[WatchFile(s)] = Blank
  BY <1>1 DEF WatchUnused, WatchFile
<1>. QED
  BY <1>2 DEF FramesOf, Blank

(***************************************************************************)
(* The frames of a kept recording are ticks.                               *)
(***************************************************************************)
LEMMA KeptFrames ==
    ASSUME NEW fs, Sound(fs), NEW s \in Second
    PROVE  /\ fs[StoreFile(s)] \in Content /\ fs[WatchFile(s)] \in Content
           /\ FramesOf(fs, s) \subseteq Frame
BY FilesOfSecond DEF Sound, Content, FramesOf

-----------------------------------------------------------------------------
(***************************************************************************)
(* Ending a segment changes neither its frames nor whether there is a file.*)
(***************************************************************************)
LEMMA EndedFiles ==
    ASSUME NEW fs, Sound(fs), NEW m, m.at \in Second, fs[OutputFile(m.at)].state # "none"
    PROVE  \A file \in File :
              /\ Ended(fs, m)[file].frames = fs[file].frames
              /\ Ended(fs, m)[file].state = "none" <=> fs[file].state = "none"
              /\ file # OutputFile(m.at) => Ended(fs, m)[file] = fs[file]
<1> DEFINE f == OutputFile(m.at)
           c == [state |-> IF fs[f].frames = {} THEN fs[f].state ELSE "whole", frames |-> fs[f].frames]
<1>1. f \in File /\ fs \in [File -> Content]
  BY OutputFileType DEF Sound
<1>2. Ended(fs, m) = [fs EXCEPT ![f] = c]
  BY <1>1 DEF Ended, Content
<1>3. c.frames = fs[f].frames /\ c.state # "none"
  BY <1>1 DEF Content
<1> HIDE DEF c
<1>. QED
  BY <1>1, <1>2, <1>3

LEMMA KeptEnded ==
    ASSUME NEW fs, Sound(fs), NoFold, NEW w, Kept(fs, w),
           NEW m, m.at \in Second, m.on, AtHead(fs, m)
    PROVE  Kept(Ended(fs, m), w)
<1> DEFINE gs == Ended(fs, m)
<1>1. \A file \in File : /\ gs[file].frames = fs[file].frames
                         /\ gs[file].state = "none" <=> fs[file].state = "none"
                         /\ file # OutputFile(m.at) => gs[file] = fs[file]
  BY EndedFiles DEF AtHead
<1>2. \A s \in Second : /\ FramesOf(gs, s) = FramesOf(fs, s)
                        /\ gs[StoreFile(s)].frames = fs[StoreFile(s)].frames
                        /\ gs[WatchFile(s)].frames = fs[WatchFile(s)].frames
                        /\ gs[StoreFile(s)].state # "none" <=> fs[StoreFile(s)].state # "none"
                        /\ gs[WatchFile(s)].state # "none" <=> fs[WatchFile(s)].state # "none"
  BY <1>1, FilesOfSecond DEF FramesOf
<1>3. WatchUnused(gs)
  <2>1. ASSUME ~windows, NEW n \in Name PROVE gs[<<"watch", n>>] = fs[<<"watch", n>>]
    BY <1>1, <2>1 DEF File, OutputFile
  <2>. QED
    BY <2>1 DEF Kept, WatchUnused
<1>6. \A f \in w : f \div Rate \in Second
  BY Numbers DEF Kept, Past
<1>7. InOrder(gs, w) /\ Replaceable(gs)
  BY <1>2 DEF Kept, InOrder, Replaceable
<1>8. Accounted(gs, w)
  BY <1>2, <1>6 DEF Kept, Accounted, Replaced, Later
<1> HIDE DEF gs
<1>. QED
  BY <1>3, <1>7, <1>8 DEF Kept, gs

(***************************************************************************)
(* Order is a property of the frames that are left.                        *)
(***************************************************************************)
LEMMA FewerInOrder ==
    ASSUME NEW fs, NEW gs, NEW w, InOrder(fs, w),
           \A s \in Second : FramesOf(gs, s) \subseteq FramesOf(fs, s)
    PROVE  InOrder(gs, w)
BY DEF InOrder

(***************************************************************************)
(* The frames of a second that is named by the present belong to it.       *)
(***************************************************************************)
LEMMA PresentFrames ==
    ASSUME NEW fs, NEW w, Kept(fs, w), tick \in Frame, NEW f \in FramesOf(fs, Now)
    PROVE  f \in Frame /\ f <= tick /\ f < Rate * Now + Rate /\ f \div Rate = Now
<1>1. Now \in Second
  BY NowIsSecond
<1>2. f \in Frame /\ f <= tick /\ Rate * Now <= f
  BY <1>1 DEF Kept, InOrder, Past
<1>3. tick < Rate * Now + Rate
  BY Numbers DEF Now
<1>4. f < Rate * Now + Rate
  <2>1. f \in Nat /\ tick \in Nat /\ Rate * Now + Rate \in Int
    BY <1>1, <1>2, Numbers
  <2>. QED
    BY <1>2, <1>3, <2>1
<1>. QED
  BY <1>1, <1>2, <1>4, OneSecond

(***************************************************************************)
(* A file that is opened may have been there: the frames it held are those *)
(* of a setup in the same second.                                          *)
(***************************************************************************)
LEMMA KeptOpened ==
    ASSUME NEW fs, Sound(fs), NoFold, NEW w, Kept(fs, w), tick \in Frame
    PROVE  Kept(Opened(fs), w) /\ \A m : m.at = Now => AtHead(Opened(fs), m)
<1> DEFINE gs == Opened(fs)
<1>1. Now \in Second /\ gs = [fs EXCEPT ![OutputFile(Now)] = Fresh]
  BY NowIsSecond DEF Opened
<1> HIDE DEF gs
<1>2. Changed(fs, gs, Now, Fresh)
  BY <1>1, ChangedFiles
<1> USE DEF Changed
<1>3. WatchUnused(gs)
  BY <1>2 DEF Kept, WatchUnused
<1>4. ~windows => gs[WatchFile(Now)] = Blank /\ fs[WatchFile(Now)] = Blank
  BY <1>1, <1>3, UnusedWatch DEF Kept
<1>5. \A s \in Second : FramesOf(gs, s) \subseteq FramesOf(fs, s)
  <2>1. FramesOf(gs, Now) \subseteq FramesOf(fs, Now)
    BY <1>2, <1>4 DEF FramesOf, Fresh, Blank
  <2>. QED
    BY <1>2, <2>1
<1>6. InOrder(gs, w)
  BY <1>5, FewerInOrder DEF Kept
<1>7. Replaceable(gs)
  <2> SUFFICES ASSUME NEW s \in Second, gs[WatchFile(s)].state # "none",
                      NEW f \in gs[StoreFile(s)].frames
               PROVE  f < Rate * s + Rate /\ \A g \in gs[WatchFile(s)].frames : f < g
    BY DEF Replaceable
  <2>1. CASE s = Now
    <3>1. windows /\ gs[WatchFile(s)].frames = {} /\ f \in FramesOf(fs, Now)
      BY <1>2, <1>4, <2>1 DEF Blank, Fresh, FramesOf
    <3>. QED
      BY <2>1, <3>1, PresentFrames
  <2>2. CASE s # Now
    BY <1>2, <2>2 DEF Kept, Replaceable
  <2>. QED
    BY <2>1, <2>2
<1>8. Accounted(gs, w)
  <2> SUFFICES ASSUME NEW f \in w, \A s \in Second : f \notin FramesOf(gs, s)
               PROVE  Replaced(gs, f)
    BY DEF Accounted
  <2>1. f \div Rate \in Second
    BY Numbers DEF Kept, Past
  <2>2. CASE f \div Rate = Now
    <3>1. CASE windows
      BY <1>2, <2>2, <3>1 DEF Replaced, Later, Fresh
    <3>2. CASE ~windows
      BY <1>2, <1>4, <2>2, <3>2 DEF Replaced, Later, Fresh, Blank
    <3>. QED
      BY <3>1, <3>2
  <2>3. CASE f \div Rate # Now
    <3>1. \A s \in Second : f \notin FramesOf(fs, s)
      BY <1>2, <2>3, PresentFrames
    <3>2. Replaced(fs, f)
      BY <3>1 DEF Kept, Accounted
    <3>. QED
      BY <1>2, <2>1, <2>3, <3>2 DEF Replaced, Later
  <2>. QED
    BY <2>2, <2>3
<1>9. ASSUME NEW m, m.at = Now PROVE AtHead(gs, m)
  <2>1. gs[OutputFile(m.at)].state # "none"
    BY <1>2, <1>9 DEF Fresh
  <2>2. ASSUME NEW t \in Second, t > Now, NEW f \in FramesOf(gs, t) PROVE FALSE
    <3>1. Rate * t <= f /\ f <= tick /\ f \in Nat /\ tick \in Nat /\ Now \in Nat /\ t \in Nat
      BY <1>1, <1>6, <2>2, Numbers DEF InOrder, Kept, Past
    <3>2. tick < Rate * Now + Rate /\ Rate \in Nat
      BY Numbers DEF Now
    <3>3. Rate * (Now + 1) <= Rate * t /\ Rate * (Now + 1) = Rate * Now + Rate
      <4>1. Now + 1 <= t
        BY <2>2, <3>1
      <4>. QED
        BY <3>1, <3>2, <4>1, TimesMono, SMT
    <3>. QED
      BY <3>1, <3>2, <3>3, SMT
  <2>3. Now <= Now
    BY <1>1, Numbers
  <2>. QED
    BY <1>9, <2>1, <2>2, <2>3 DEF AtHead
<1>. QED
  BY <1>3, <1>6, <1>7, <1>8, <1>9 DEF Kept, gs

(***************************************************************************)
(* A frame is appended to the last segment, and is later than all others.  *)
(***************************************************************************)
LEMMA KeptAppended ==
    ASSUME NEW fs, Sound(fs), NoFold, NEW w, Kept(fs, w), tick \in Frame, tick \notin w,
           NEW m, m.on, m.at \in Second, AtHead(fs, m),
           NEW c, c.state = fs[OutputFile(m.at)].state,
           c.frames = fs[OutputFile(m.at)].frames \cup {tick},
           NEW gs, gs = [fs EXCEPT ![OutputFile(m.at)] = c]
    PROVE  Kept(gs, w \cup {tick}) /\ AtHead(gs, m)
<1> DEFINE at == m.at
           v  == w \cup {tick}
<1>1. Changed(fs, gs, at, c)
  BY ChangedFiles
<1>2. /\ at \in Second /\ c.state # "none" /\ at <= Now
      /\ c.state = fs[OutputFile(at)].state /\ c.frames = fs[OutputFile(at)].frames \cup {tick}
      /\ \A t \in Second : t > at => FramesOf(fs, t) = {}
  BY DEF AtHead
<1>3. /\ tick \in Nat /\ Now \in Nat /\ at \in Nat /\ Rate \in Nat
      /\ Rate * Now <= tick /\ Rate * at <= tick
  <2>1. tick \in Nat /\ Now \in Nat /\ at \in Nat /\ Rate \in Nat /\ Rate * Now <= tick
    BY NowIsSecond, Numbers, <1>2 DEF Now
  <2>2. Rate * at <= Rate * Now /\ Rate * at \in Nat /\ Rate * Now \in Nat
    BY <2>1, <1>2, TimesMono
  <2>. QED
    BY <2>1, <2>2
<1>4. tick \in Nat /\ \A t \in Second : t > at => t # at
  BY <1>3, Numbers
<1>5. \A f \in w : f \in Frame /\ f \in Nat /\ f < tick
  <2>1. ASSUME NEW f \in w PROVE f \in Frame /\ f \in Nat /\ f <= tick /\ f # tick
    BY Numbers DEF Kept, Past
  <2>. QED
    BY <1>4, <2>1
<1>6. \A s \in Second : \A f \in FramesOf(fs, s) : f \in w /\ f \in Nat /\ f < tick
  BY <1>5 DEF Kept, InOrder
<1> HIDE DEF at, v
<1> USE DEF Changed
<1>7. WatchUnused(gs)
  BY <1>1 DEF Kept, WatchUnused
<1>8. ~windows => gs[WatchFile(at)] = Blank /\ fs[WatchFile(at)] = Blank
  BY <1>2, <1>7, UnusedWatch DEF Kept
<1>9. FramesOf(gs, at) = FramesOf(fs, at) \cup {tick}
  BY <1>1, <1>2, <1>8, FilesOfSecond DEF FramesOf, Blank
<1>10. Past(v)
  BY <1>3 DEF Kept, Past, v
<1>11. InOrder(gs, v)
  <2> SUFFICES ASSUME NEW s \in Second, NEW f \in FramesOf(gs, s)
               PROVE  /\ f \in v
                      /\ Rate * s <= f
                      /\ \A t \in Second : t > s => \A g \in FramesOf(gs, t) : f < g
    BY DEF InOrder
  <2>1. CASE s = at /\ f = tick
    <3>1. \A t \in Second : t > s => FramesOf(gs, t) = {}
      BY <1>1, <1>2, <1>4, <2>1
    <3>. QED
      BY <1>3, <2>1, <3>1 DEF v
  <2>2. CASE f \in FramesOf(fs, s)
    <3>1. /\ f \in w /\ Rate * s <= f
          /\ \A t \in Second : t > s => \A g \in FramesOf(fs, t) : f < g
      BY <2>2 DEF Kept, InOrder
    <3>2. ASSUME NEW t \in Second, t > s, NEW g \in FramesOf(gs, t) PROVE f < g
      BY <1>1, <1>6, <1>9, <2>2, <3>1, <3>2
    <3>. QED
      BY <3>1, <3>2 DEF v
  <2>3. (s = at /\ f = tick) \/ f \in FramesOf(fs, s)
    <3>1. CASE s = at
      BY <1>9, <3>1
    <3>2. CASE s # at
      BY <1>1, <3>2
    <3>. QED
      BY <3>1, <3>2
  <2>. QED
    BY <2>1, <2>2, <2>3
<1>12. Replaceable(gs)
  <2> SUFFICES ASSUME NEW s \in Second, gs[WatchFile(s)].state # "none",
                      NEW f \in gs[StoreFile(s)].frames
               PROVE  f < Rate * s + Rate /\ \A g \in gs[WatchFile(s)].frames : f < g
    BY DEF Replaceable
  <2>1. CASE s = at
    <3>1. /\ windows
          /\ gs[StoreFile(s)] = fs[StoreFile(s)] /\ gs[WatchFile(s)] = c
          /\ OutputFile(at) = WatchFile(at)
      BY <1>1, <1>8, <2>1, FilesOfSecond DEF Blank
    <3>2. f < Rate * s + Rate /\ \A g \in fs[WatchFile(s)].frames : f < g
      BY <1>2, <2>1, <3>1 DEF Kept, Replaceable
    <3>3. f < tick
      BY <1>6, <3>1 DEF FramesOf
    <3>. QED
      BY <1>2, <2>1, <3>1, <3>2, <3>3
  <2>2. CASE s # at
    BY <1>1, <2>2 DEF Kept, Replaceable
  <2>. QED
    BY <2>1, <2>2
<1>13. Accounted(gs, v)
  <2> SUFFICES ASSUME NEW f \in v, \A s \in Second : f \notin FramesOf(gs, s)
               PROVE  Replaced(gs, f)
    BY DEF Accounted
  <2>1. f # tick /\ f \in w /\ f < tick /\ f \in Frame
    <3>1. f # tick /\ f \in w
      BY <1>2, <1>9 DEF v
    <3>. QED
      BY <1>5, <3>1
  <2>2. Replaced(fs, f)
    <3>1. \A s \in Second : f \notin FramesOf(fs, s)
      BY <1>1, <1>9
    <3>. QED
      BY <2>1, <3>1 DEF Kept, Accounted
  <2>3. f \div Rate \in Second
    BY <2>1, Numbers
  <2>4. CASE f \div Rate = at
    <3>1. CASE windows
      BY <1>1, <1>2, <2>1, <2>2, <2>4, <3>1, FilesOfSecond DEF Replaced, Later
    <3>2. CASE ~windows
      <4>1. gs[WatchFile(at)] = fs[WatchFile(at)] /\ gs[StoreFile(at)] = c
            /\ OutputFile(at) = StoreFile(at) /\ fs[WatchFile(at)] = Blank
        BY <1>1, <1>8, <3>2, FilesOfSecond
      <4>. QED
        BY <1>2, <2>1, <2>2, <2>4, <4>1 DEF Replaced, Later, Blank
    <3>. QED
      BY <3>1, <3>2
  <2>5. CASE f \div Rate # at
    BY <1>1, <2>2, <2>3, <2>5 DEF Replaced, Later
  <2>. QED
    BY <2>4, <2>5
<1>14. AtHead(gs, m)
  <2>1. \A t \in Second : t > at => FramesOf(gs, t) = {}
    BY <1>1, <1>2, <1>4
  <2>. QED
    BY <1>1, <1>2, <2>1 DEF AtHead, at
<1>. QED
  BY <1>7, <1>10, <1>11, <1>12, <1>13, <1>14 DEF Kept, v

(***************************************************************************)
(* A packet: the segment before a cut ends, and the one after it is the    *)
(* last from then on.                                                      *)
(***************************************************************************)
LEMMA KeptAfter ==
    ASSUME NEW fs, Sound(fs), NoFold, NEW w, Kept(fs, w), tick \in Frame, tick \notin w,
           NEW m, MuxSound(m), m.on, AtHead(fs, m), NEW pts, NEW key
    PROVE  /\ Kept(FilesAfter(fs, m, pts, key), w \cup {tick})
           /\ AtHead(FilesAfter(fs, m, pts, key), MuxAfter(fs, m, pts, key))
<1> DEFINE cut == IF Cut(fs, m, pts, key) THEN Opened(Ended(fs, m)) ELSE fs
           n   == MuxAfter(fs, m, pts, key)
           f   == OutputFile(n.at)
           c   == [state |-> cut[f].state, frames |-> cut[f].frames \cup {tick}]
<1>1. m.at \in Second /\ n.at \in Second /\ n.on /\ f \in File
  BY MuxAfterSound, OutputFileType DEF MuxSound
<1>2. Sound(cut)
  BY <1>1, EndedSound, OpenedSound
<1>3. Kept(cut, w) /\ AtHead(cut, n)
  <2>1. CASE Cut(fs, m, pts, key)
    <3>1. Sound(Ended(fs, m)) /\ Kept(Ended(fs, m), w)
      BY <1>1, EndedSound, KeptEnded
    <3>2. cut = Opened(Ended(fs, m)) /\ n.at = Now
      BY <2>1 DEF MuxAfter
    <3>. QED
      BY <3>1, <3>2, KeptOpened
  <2>2. CASE ~Cut(fs, m, pts, key)
    <3>1. cut = fs /\ n = m
      BY <2>2 DEF MuxAfter
    <3>. QED
      BY <3>1
  <2>. QED
    BY <2>1, <2>2
<1>4. FilesAfter(fs, m, pts, key) = [cut EXCEPT ![f] = c]
  BY <1>1, <1>2 DEF FilesAfter, Sound, Content
<1>5. c.state = cut[f].state /\ c.frames = cut[f].frames \cup {tick}
  OBVIOUS
<1> HIDE DEF c, cut, n
<1>6. Kept(FilesAfter(fs, m, pts, key), w \cup {tick}) /\ AtHead(FilesAfter(fs, m, pts, key), n)
  BY <1>1, <1>2, <1>3, <1>4, <1>5, KeptAppended
<1>. QED
  BY <1>6 DEF n

(***************************************************************************)
(* The files of the other seconds are not touched by a rename, and the     *)
(* frames of its own are those of the file that was moved.                 *)
(***************************************************************************)
LEMMA RenamedFiles ==
    ASSUME Sound(files), NoFold, WatchUnused(files), NEW n \in Name, Movable(n),
           NEW s \in UnixOf(n)
    PROVE  /\ windows /\ s \in Second /\ WatchFile(s) = <<"watch", n>>
           /\ Renamed(n, s)[StoreFile(s)] = files[WatchFile(s)]
           /\ Renamed(n, s)[WatchFile(s)] = Blank
           /\ \A file \in File : file \notin {StoreFile(s), WatchFile(s)} =>
                 Renamed(n, s)[file] = files[file]
           /\ \A t \in Second : t # s =>
                 /\ Renamed(n, s)[StoreFile(t)] = files[StoreFile(t)]
                 /\ Renamed(n, s)[WatchFile(t)] = files[WatchFile(t)]
                 /\ FramesOf(Renamed(n, s), t) = FramesOf(files, t)
<1> DEFINE gs == Renamed(n, s)
<1>1. /\ s \in Second /\ WatchFile(s) = <<"watch", n>>
      /\ StoreFile(s) \in File /\ WatchFile(s) \in File /\ files \in [File -> Content]
  BY FilesOfSecond DEF UnixOf, WatchFile, Sound
<1>2. windows
  BY DEF WatchUnused, Movable, Blank
<1>3. gs = [files EXCEPT ![StoreFile(s)] = files[WatchFile(s)], ![WatchFile(s)] = Blank]
  BY <1>1 DEF Renamed, StoreFile
<1> HIDE DEF gs
<1>4. gs[StoreFile(s)] = files[WatchFile(s)] /\ gs[WatchFile(s)] = Blank
  BY <1>1, <1>3, FilesOfSecond
<1>5. \A file \in File : file \notin {StoreFile(s), WatchFile(s)} => gs[file] = files[file]
  BY <1>1, <1>3
<1>6. ASSUME NEW t \in Second, t # s
      PROVE  gs[StoreFile(t)] = files[StoreFile(t)] /\ gs[WatchFile(t)] = files[WatchFile(t)]
  <2>1. WatchFile(t) # WatchFile(s)
    BY <1>1, <1>2, <1>6 DEF WatchFile, NoFold
  <2>2. WatchFile(t) # StoreFile(s) /\ StoreFile(t) # WatchFile(s) /\ StoreFile(t) # StoreFile(s)
    BY <1>6, FilesOfSecond
  <2>. QED
    BY <1>5, <2>1, <2>2, FilesOfSecond
<1>7. \A t \in Second : t # s => FramesOf(gs, t) = FramesOf(files, t)
  BY <1>6 DEF FramesOf
<1>. QED
  BY <1>1, <1>2, <1>4, <1>5, <1>6, <1>7 DEF gs

LEMMA KeptRenamed ==
    ASSUME Sound(files), NoFold, Kept(files, written), NEW n \in Name, Movable(n),
           NEW s \in UnixOf(n), MuxSound(mux), AtHead(files, mux)
    PROVE  Kept(Renamed(n, s), written) /\ AtHead(Renamed(n, s), mux)
<1> DEFINE gs == Renamed(n, s)
<1>1. /\ windows /\ s \in Second /\ WatchFile(s) = <<"watch", n>>
      /\ gs[StoreFile(s)] = files[WatchFile(s)]
      /\ gs[WatchFile(s)] = Blank
      /\ \A file \in File : file \notin {StoreFile(s), WatchFile(s)} => gs[file] = files[file]
      /\ \A t \in Second : t # s => /\ gs[StoreFile(t)] = files[StoreFile(t)]
                                    /\ gs[WatchFile(t)] = files[WatchFile(t)]
                                    /\ FramesOf(gs, t) = FramesOf(files, t)
  BY RenamedFiles DEF Kept
<1>2. files[WatchFile(s)].state # "none"
  BY <1>1 DEF Movable
<1> HIDE DEF gs
<1>3. FramesOf(gs, s) = files[WatchFile(s)].frames
  BY <1>1 DEF FramesOf, Blank
<1>4. \A t \in Second : FramesOf(gs, t) \subseteq FramesOf(files, t)
  <2>1. FramesOf(gs, s) \subseteq FramesOf(files, s)
    BY <1>3 DEF FramesOf
  <2>. QED
    BY <1>1, <2>1
<1>5. WatchUnused(gs) /\ Past(written)
  BY <1>1 DEF WatchUnused, Kept
<1>6. InOrder(gs, written)
  BY <1>4, FewerInOrder DEF Kept
<1>7. Replaceable(gs)
  <2> SUFFICES ASSUME NEW t \in Second, gs[WatchFile(t)].state # "none",
                      NEW f \in gs[StoreFile(t)].frames
               PROVE  f < Rate * t + Rate /\ \A g \in gs[WatchFile(t)].frames : f < g
    BY DEF Replaceable
  <2>1. t # s
    BY <1>1 DEF Blank
  <2>. QED
    BY <1>1, <2>1 DEF Kept, Replaceable
<1>8. Accounted(gs, written)
  <2> SUFFICES ASSUME NEW f \in written, \A t \in Second : f \notin FramesOf(gs, t)
               PROVE  Replaced(gs, f)
    BY DEF Accounted
  <2>1. f \in Frame /\ f \div Rate \in Second
    BY Numbers DEF Kept, Past
  <2>2. CASE f \in FramesOf(files, s)
    <3>1. f \in files[StoreFile(s)].frames
      BY <1>1, <1>3, <2>2 DEF FramesOf
    <3>2. f < Rate * s + Rate /\ \A g \in files[WatchFile(s)].frames : f < g
      BY <1>1, <1>2, <3>1 DEF Kept, Replaceable
    <3>3. Rate * s <= f
      BY <1>1, <2>2 DEF Kept, InOrder
    <3>4. f \div Rate = s
      BY <1>1, <2>1, <3>2, <3>3, OneSecond
    <3>. QED
      BY <1>1, <1>2, <3>2, <3>4 DEF Replaced, Later, Blank
  <2>3. CASE f \notin FramesOf(files, s)
    <3>1. \A t \in Second : f \notin FramesOf(files, t)
      BY <1>1, <2>3
    <3>2. Replaced(files, f)
      BY <3>1 DEF Kept, Accounted
    <3>3. CASE f \div Rate = s
      BY <1>1, <1>2, <3>2, <3>3 DEF Replaced, Later, Blank
    <3>4. CASE f \div Rate # s
      BY <1>1, <2>1, <3>2, <3>4 DEF Replaced, Later
    <3>. QED
      BY <3>3, <3>4
  <2>. QED
    BY <2>2, <2>3
<1>9. AtHead(gs, mux)
  <2> SUFFICES ASSUME mux.on
               PROVE  /\ mux.at <= Now
                      /\ gs[OutputFile(mux.at)].state # "none"
                      /\ \A t \in Second : t > mux.at => FramesOf(gs, t) = {}
    BY DEF AtHead
  <2>1. /\ mux.at \in Second /\ OutputFile(mux.at) \in File
        /\ files[OutputFile(mux.at)].state # "none" /\ mux.at <= Now
        /\ \A t \in Second : t > mux.at => FramesOf(files, t) = {}
    BY OutputFileType DEF MuxSound, AtHead
  <2>2. OutputFile(mux.at) # WatchFile(s) /\ OutputFile(mux.at) # StoreFile(s)
    BY <1>1, FilesOfSecond DEF Movable, Current
  <2>3. gs[OutputFile(mux.at)] = files[OutputFile(mux.at)]
    BY <1>1, <2>1, <2>2
  <2>4. \A t \in Second : t > mux.at => FramesOf(gs, t) = {}
    BY <1>4, <2>1
  <2>. QED
    BY <2>1, <2>3, <2>4
<1>. QED
  BY <1>5, <1>6, <1>7, <1>8, <1>9 DEF Kept, gs

-----------------------------------------------------------------------------
(***************************************************************************)
(* The invariant after a step that leaves the clock alone.                 *)
(***************************************************************************)
LEMMA SameTick ==
    ASSUME UNCHANGED <<tick, windows>>
    PROVE  /\ NoFold => NoFold'
           /\ Kept(files, written)' <=> Kept(files', written')
           /\ AtHead(files, mux)' <=> AtHead(files', mux')
BY DEF NoFold, Kept, WatchUnused, Past, InOrder, Replaceable, Accounted, Replaced, Later, AtHead,
       FramesOf, StoreFile, WatchFile, OutputFile, Now

LEMMA SameFiles ==
    ASSUME RecordingInv, UNCHANGED <<tick, windows, files, written>>,
           UNCHANGED mux \/ mux' = MuxOff, WrittenOnce'
    PROVE  RecordingInv'
<1>1. AtHead(files', mux')
  BY DEF RecordingInv, AtHead, MuxOff
<1>. QED
  BY <1>1, SameTick DEF RecordingInv

(***************************************************************************)
(* A frame is in written only when the processor has taken its tick, or    *)
(* the stream has sent its packet.                                         *)
(***************************************************************************)
LEMMA InitRecording == Init /\ NoFold => RecordingInv
<1> SUFFICES ASSUME Init, NoFold PROVE RecordingInv
  OBVIOUS
<1> USE DEF Init, MuxInit, EncInit, MuxOff
<1>1. \A file \in File : files[file] = Blank
  OBVIOUS
<1>2. \A s \in Second : FramesOf(files, s) = {} /\ files[WatchFile(s)].state = "none"
  BY <1>1, FilesOfSecond DEF FramesOf, Blank
<1>3. WatchUnused(files)
  BY <1>1 DEF WatchUnused, File
<1>4. Kept(files, written)
  BY <1>2, <1>3 DEF Kept, Past, InOrder, Replaceable, Accounted
<1>. QED
  BY <1>4 DEF RecordingInv, AtHead, WrittenOnce

(***************************************************************************)
(* What a caller does to its segmenter.                                    *)
(***************************************************************************)
LEMMA RawInitRecording ==
    ASSUME Typed, RecordingInv, RawInit, UNCHANGED <<encVars, renVars, lifeVars>>
    PROVE  RecordingInv'
<1>1. /\ UNCHANGED <<tick, windows, written, sent, due, processor, kind>>
      /\ files' = Opened(files) /\ mux' = MuxOn
  BY DEF RawInit, encVars, lifeVars
<1>2. Kept(files', written') /\ AtHead(files', mux')
  BY <1>1, TypeParts, KeptOpened DEF Typed, Rest, RecordingInv, MuxOn
<1>3. WrittenOnce'
  BY <1>1 DEF RecordingInv, WrittenOnce
<1>. QED
  BY <1>1, <1>2, <1>3, SameTick DEF RecordingInv

LEMMA RawWriteRecording ==
    ASSUME Typed, RecordingInv, kind = "rtp", NEW key \in BOOLEAN, RawWrite(key),
           UNCHANGED <<encVars, renVars, lifeVars>>
    PROVE  RecordingInv'
<1>1. /\ UNCHANGED <<tick, windows, due, processor, kind>> /\ ~sent /\ sent'
  BY DEF RawWrite, encVars, lifeVars
<1>2. WrittenOnce'
  BY <1>1 DEF RecordingInv, WrittenOnce
<1>3. CASE /\ raw = "on"
           /\ files' = FilesAfter(files, mux, tick - mux.start, key)
           /\ mux' = MuxAfter(files, mux, tick - mux.start, key)
           /\ written' = written \cup {tick}
  <2>1. mux.on /\ Sound(files) /\ MuxSound(mux) /\ tick \in Frame
    BY <1>3, TypeParts DEF Typed, LifeTypeOK, Rest
  <2>2. tick \notin written /\ NoFold /\ Kept(files, written) /\ AtHead(files, mux)
    BY <1>1 DEF RecordingInv, WrittenOnce
  <2>3. Kept(files', written') /\ AtHead(files', mux')
    BY <1>3, <2>1, <2>2, KeptAfter
  <2>. QED
    BY <1>1, <1>2, <2>2, <2>3, SameTick DEF RecordingInv
<1>4. CASE UNCHANGED <<files, mux, written>>
  BY <1>1, <1>2, <1>4, SameFiles
<1>. QED
  BY <1>3, <1>4 DEF RawWrite

LEMMA RawCloseRecording ==
    ASSUME Typed, RecordingInv, RawClose, UNCHANGED <<encVars, renVars, kind>>
    PROVE  RecordingInv'
<1>1. UNCHANGED <<tick, windows, written, sent, due, processor, kind>> /\ mux' = MuxOff
  BY DEF RawClose, encVars
<1>2. WrittenOnce'
  BY <1>1 DEF RecordingInv, WrittenOnce
<1>3. CASE raw = "on" /\ files' = Ended(files, mux)
  <2>1. mux.on /\ mux.at \in Second /\ Sound(files)
    BY <1>3, TypeParts DEF Typed, LifeTypeOK, MuxSound
  <2>2. Kept(files', written')
    BY <1>1, <1>3, <2>1, KeptEnded DEF RecordingInv
  <2>3. AtHead(files', mux')
    BY <1>1 DEF AtHead, MuxOff
  <2>. QED
    BY <1>1, <1>2, <2>2, <2>3, SameTick DEF RecordingInv
<1>4. CASE UNCHANGED files
  BY <1>1, <1>2, <1>4, SameFiles
<1>. QED
  BY <1>3, <1>4 DEF RawClose

(***************************************************************************)
(* The processor encodes a frame, after a change of the frame size in a    *)
(* segmenter of its own.                                                   *)
(***************************************************************************)
LEMMA WriteRecording ==
    ASSUME Typed, RecordingInv, processor, due, latest # 0, NEW outcome \in Outcome,
           Write(latest, outcome)
    PROVE  Kept(files', written') /\ AtHead(files', mux')
<1> DEFINE size  == latest
           ready == outcome # "setup"
           over  == SetUp(size) /\ encoder.size # 0 /\ outcome # "trailer"
           ended == IF over THEN Ended(files, mux) ELSE files
           fs    == IF SetUp(size) /\ ready THEN Opened(ended) ELSE ended
           m     == IF SetUp(size) THEN MuxOn ELSE mux
<1>1. /\ tick \in Frame /\ Sound(files) /\ MuxSound(mux) /\ mux.at \in Second
      /\ NoFold /\ Kept(files, written) /\ AtHead(files, mux)
      /\ encoder.size # 0 => mux.on
  BY TypeParts DEF Typed, Rest, MuxSound, LifeTypeOK, RecordingInv
<1>2. tick \notin written
  BY DEF Typed, Owned, RecordingInv, WrittenOnce
<1>3. size # 0
  OBVIOUS
<1>4. /\ IF outcome \in {"ok", "trailer"}
         THEN /\ files' = FilesAfter(fs, m, Pts(size), TRUE)
              /\ mux' = MuxAfter(fs, m, Pts(size), TRUE)
              /\ written' = written \cup {tick}
         ELSE /\ files' = fs
              /\ mux' = IF ready THEN m ELSE MuxOff
              /\ UNCHANGED written
      /\ outcome = "setup" => SetUp(size)
  BY DEF Write
<1>5. Sound(ended) /\ Kept(ended, written)
  BY <1>1, EndedSound, KeptEnded
<1>6. ready => /\ Sound(fs) /\ Kept(fs, written) /\ AtHead(fs, m)
               /\ MuxSound(m) /\ m.on
  <2>1. CASE ready /\ SetUp(size)
    <3>1. fs = Opened(ended) /\ m = MuxOn /\ MuxOn.on /\ MuxOn.at = Now
      BY <2>1 DEF MuxOn
    <3> HIDE DEF fs, m, ended
    <3>2. Sound(fs) /\ Kept(fs, written) /\ AtHead(fs, m)
      BY <1>1, <1>5, <3>1, OpenedSound, KeptOpened
    <3>. QED
      BY <1>1, <3>1, <3>2, MuxOnOff
  <2>2. CASE ready /\ ~SetUp(size)
    <3>1. fs = files /\ m = mux /\ mux.on
      BY <1>1, <2>2 DEF SetUp
    <3>. QED
      BY <1>1, <3>1
  <2>. QED
    BY <2>1, <2>2
<1>7. ~ready => fs = ended
  OBVIOUS
<1>8. \A fl : AtHead(fl, MuxOff)
  BY DEF AtHead, MuxOff
<1> HIDE DEF fs, m, ended
<1>9. CASE outcome \in {"ok", "trailer"}
  <2>1. /\ ready
        /\ files' = FilesAfter(fs, m, Pts(size), TRUE)
        /\ mux' = MuxAfter(fs, m, Pts(size), TRUE)
        /\ written' = written \cup {tick}
    BY <1>4, <1>9
  <2>. QED
    BY <1>1, <1>2, <1>6, <2>1, KeptAfter
<1>10. CASE outcome \notin {"ok", "trailer"}
  BY <1>4, <1>5, <1>6, <1>7, <1>8, <1>10
<1>. QED
  BY <1>9, <1>10

LEMMA PollRecording ==
    ASSUME Typed, RecordingInv, Poll
    PROVE  RecordingInv'
<1>1. UNCHANGED <<rawVars, lifeVars>>
  BY DEF Poll
<1>2. CASE Ask \/ Fetch
  <2>1. UNCHANGED <<muxVars, processor, due>>
    BY <1>2 DEF Ask, Fetch
  <2>2. WrittenOnce'
    BY <1>1, <2>1 DEF RecordingInv, WrittenOnce, muxVars, rawVars, lifeVars
  <2>. QED
    BY <2>1, <2>2, SameFiles DEF muxVars
<1>3. CASE Encode
  <2>1. /\ UNCHANGED <<tick, windows, processor, kind, sent>>
        /\ processor /\ due /\ due' = FALSE /\ kind = "frame"
    BY <1>1, <1>3 DEF Encode, rawVars, lifeVars, Typed, Owned
  <2>2. WrittenOnce'
    BY <2>1 DEF WrittenOnce
  <2>3. CASE UNCHANGED <<files, mux, written, encoder, faults>>
    BY <2>1, <2>2, <2>3, SameFiles
  <2>4. CASE \E outcome \in Outcome : latest # 0 /\ Write(latest, outcome)
    <3>1. Kept(files', written') /\ AtHead(files', mux')
      BY <2>1, <2>4, WriteRecording
    <3>. QED
      BY <2>1, <2>2, <3>1, SameTick DEF RecordingInv
  <2>. QED
    BY <1>3, <2>3, <2>4 DEF Encode
<1>. QED
  BY <1>2, <1>3 DEF Poll

LEMMA ProcessorEndsRecording ==
    ASSUME Typed, RecordingInv, ProcessorEnds
    PROVE  RecordingInv'
<1>1. /\ UNCHANGED <<tick, windows, written, kind, sent>> /\ mux' = MuxOff
      /\ processor /\ due' = FALSE /\ kind = "frame"
  BY DEF ProcessorEnds, ProcessorStops, rawVars, lifeVars, Typed, Owned
<1>2. WrittenOnce'
  BY <1>1 DEF WrittenOnce
<1>3. CASE mux.on /\ files' = Ended(files, mux)
  <2>1. mux.at \in Second /\ Sound(files)
    BY TypeParts DEF Typed, MuxSound
  <2>2. Kept(files', written')
    BY <1>1, <1>3, <2>1, KeptEnded DEF RecordingInv
  <2>3. AtHead(files', mux')
    BY <1>1 DEF AtHead, MuxOff
  <2>. QED
    BY <1>1, <1>2, <2>2, <2>3, SameTick DEF RecordingInv
<1>4. CASE UNCHANGED files
  BY <1>1, <1>2, <1>4, SameFiles
<1>. QED
  BY <1>3, <1>4 DEF ProcessorEnds, ProcessorStops

(***************************************************************************)
(* A file that is moved out of the directory of the muxer.                 *)
(***************************************************************************)
LEMMA RenameRecording ==
    ASSUME Typed, RecordingInv, NEW w \in Worker, Rename(w),
           UNCHANGED <<rawVars, encVars, lifeVars>>
    PROVE  RecordingInv'
<1>1. /\ UNCHANGED <<tick, windows, mux, written, sent, due, processor, kind>>
  BY DEF Rename, rawVars, encVars, lifeVars
<1>2. WrittenOnce'
  BY <1>1 DEF RecordingInv, WrittenOnce
<1>3. CASE UNCHANGED files
  BY <1>1, <1>2, <1>3, SameFiles
<1>4. CASE \E n \in todo[w] : Movable(n) /\ \E s \in UnixOf(n) : files' = Renamed(n, s)
  <2>1. PICK n \in Name : Movable(n) /\ \E s \in UnixOf(n) : files' = Renamed(n, s)
    BY <1>4, TypeParts DEF Typed, RenTypeOK
  <2>2. Sound(files) /\ MuxSound(mux)
    BY TypeParts DEF Typed
  <2>3. Kept(files', written') /\ AtHead(files', mux')
    BY <1>1, <2>1, <2>2, KeptRenamed DEF RecordingInv
  <2>. QED
    BY <1>1, <1>2, <2>3, SameTick DEF RecordingInv
<1>. QED
  BY <1>3, <1>4 DEF Rename

(***************************************************************************)
(* The clock goes on: the frame of the new tick is not written yet.        *)
(***************************************************************************)
LEMMA TickRecording ==
    ASSUME Typed, RecordingInv, Tick
    PROVE  RecordingInv'
<1>1. /\ tick' = tick + 1 /\ due' = processor
      /\ UNCHANGED <<windows, files, mux, written, processor, kind>>
  BY DEF Tick, lifeVars
<1>2. /\ tick \in Nat /\ tick \in Frame /\ MuxSound(mux) /\ Sound(files)
      /\ NoFold /\ Kept(files, written) /\ AtHead(files, mux)
  BY TypeParts, Numbers DEF Typed, Rest, RecordingInv
<1>3. \A f \in written : f \in Nat /\ f <= tick
  BY <1>2, Numbers DEF Kept, Past
<1>4. Past(written)' /\ tick' \notin written
  BY <1>1, <1>2, <1>3 DEF Kept, Past
<1>5. WrittenOnce'
  BY <1>1, <1>4 DEF WrittenOnce
<1>6. Now <= Now'
  <2>1. Now' = (tick + 1) \div Rate
    BY <1>1 DEF Now
  <2>2. tick + 1 \in Nat /\ tick <= tick + 1 /\ Rate \in Nat \ {0}
    BY <1>2, Numbers
  <2>. QED
    BY <1>2, <2>1, <2>2, DivMono DEF Now
<1>7. AtHead(files, mux)'
  <2>1. (OutputFile(mux.at))' = OutputFile(mux.at) /\ \A s : (FramesOf(files, s))' = FramesOf(files, s)
    BY <1>1 DEF OutputFile, FramesOf, StoreFile, WatchFile
  <2>2. mux.at \in Nat /\ Now \in Nat /\ Now' \in Int
    <3>1. mux.at \in Nat /\ Now \in Nat
      BY <1>2, NowIsSecond, Numbers DEF MuxSound
    <3>2. tick + 1 \in Nat /\ Now' = (tick + 1) \div Rate
      BY <1>1, <1>2 DEF Now
    <3>3. Now' \in Int
      BY <3>2, Numbers, DivFloor
    <3>. QED
      BY <3>1, <3>3
  <2>. QED
    BY <1>1, <1>2, <1>6, <2>1, <2>2 DEF AtHead
<1>8. Kept(files, written)'
  BY <1>1, <1>2, <1>4
     DEF Kept, WatchUnused, InOrder, Replaceable, Accounted, Replaced, Later,
         FramesOf, StoreFile, WatchFile
<1>9. NoFold'
  BY <1>1, <1>2 DEF NoFold
<1>. QED
  BY <1>5, <1>7, <1>8, <1>9 DEF RecordingInv

LEMMA NextRecording == Typed /\ RecordingInv /\ [Next]_vars => RecordingInv'
<1> SUFFICES ASSUME Typed, RecordingInv, [Next]_vars PROVE RecordingInv'
  OBVIOUS
<1>1. CASE Start
  <2>1. UNCHANGED <<tick, windows, files, mux, written, sent, due, kind>> /\ stage = "down"
    BY <1>1 DEF Start
  <2>2. ~processor
    BY <2>1 DEF Typed, Owned
  <2>3. WrittenOnce'
    BY <2>1, <2>2 DEF RecordingInv, WrittenOnce
  <2>. QED
    BY <2>1, <2>3, SameFiles
<1>2. CASE Close \/ WorkersStopped \/ RenamerStopped \/ UNCHANGED vars
  <2>1. UNCHANGED <<tick, windows, files, mux, written, sent, due, processor, kind>>
    BY <1>2 DEF Close, WorkersStopped, RenamerStopped, GoOn, vars, muxVars, rawVars, encVars, lifeVars
  <2>2. WrittenOnce'
    BY <2>1 DEF RecordingInv, WrittenOnce
  <2>. QED
    BY <2>1, <2>2, SameFiles
<1>3. CASE PollerWakes \/ PollerEnds \/ Flush
  <2>1. UNCHANGED <<tick, windows, files, mux, written, sent, due, processor, kind>>
    BY <1>3 DEF PollerWakes, Wake, PollerEnds, PollerStops, Flush, Scan,
                muxVars, rawVars, encVars, lifeVars
  <2>2. WrittenOnce'
    BY <2>1 DEF RecordingInv, WrittenOnce
  <2>. QED
    BY <2>1, <2>2, SameFiles
<1>4. CASE SegmenterClosed
  <2>1. CASE kind = "rtp"
    BY <1>4, <2>1, RawCloseRecording DEF SegmenterClosed, GoOn
  <2>2. CASE kind # "rtp"
    <3>1. UNCHANGED <<tick, windows, files, mux, written, sent, due, processor, kind>>
      BY <1>4, <2>2 DEF SegmenterClosed, GoOn, muxVars, rawVars, encVars
    <3>2. WrittenOnce'
      BY <3>1 DEF RecordingInv, WrittenOnce
    <3>. QED
      BY <3>1, <3>2, SameFiles
  <2>. QED
    BY <2>1, <2>2
<1>5. CASE Crash
  <2>1. /\ UNCHANGED <<tick, windows, files, written, sent, kind>>
        /\ mux' = MuxOff /\ due' = FALSE /\ processor' = FALSE
    BY <1>5 DEF Crash
  <2>2. WrittenOnce'
    BY <2>1 DEF RecordingInv, WrittenOnce
  <2>. QED
    BY <2>1, <2>2, SameFiles
<1>6. CASE Tick
  BY <1>6, TickRecording
<1>7. CASE Caller
  <2>1. kind = "rtp" /\ UNCHANGED <<encVars, renVars, lifeVars>>
    BY <1>7 DEF Caller
  <2>2. CASE RawInit
    BY <2>1, <2>2, RawInitRecording
  <2>3. CASE \E key \in BOOLEAN : RawWrite(key)
    BY <2>1, <2>3, RawWriteRecording
  <2>4. CASE RawClose
    BY <2>1, <2>4, RawCloseRecording DEF lifeVars
  <2>. QED
    BY <1>7, <2>2, <2>3, <2>4 DEF Caller
<1>8. CASE Poll
  BY <1>8, PollRecording
<1>9. CASE ProcessorEnds
  BY <1>9, ProcessorEndsRecording
<1>10. ASSUME NEW w \in Worker, RenamerStep(w) PROVE RecordingInv'
  <2>1. CASE Rename(w)
    BY <1>10, <2>1, RenameRecording DEF RenamerStep
  <2>2. CASE Scan(w, "busy") \/ Scanned(w)
    <3>1. UNCHANGED <<tick, windows, files, mux, written, sent, due, processor, kind>>
      BY <1>10, <2>2 DEF RenamerStep, Scan, Scanned, muxVars, rawVars, encVars, lifeVars
    <3>2. WrittenOnce'
      BY <3>1 DEF RecordingInv, WrittenOnce
    <3>. QED
      BY <3>1, <3>2, SameFiles
  <2>. QED
    BY <1>10, <2>1, <2>2 DEF RenamerStep
<1>. QED
  BY <1>1, <1>2, <1>3, <1>4, <1>5, <1>6, <1>7, <1>8, <1>9, <1>10 DEF Next, Closing

LEMMA AlwaysRecording == Spec /\ NoFold => []RecordingInv
<1>1. Init /\ NoFold => RecordingInv
  BY InitRecording
<1>2. Typed /\ RecordingInv /\ [Next]_vars => RecordingInv'
  BY NextRecording
<1>. QED
  BY <1>1, <1>2, AlwaysTyped, PTL DEF Spec

(***************************************************************************)
(* Where no second of the recording has the local time of another, a       *)
(* segment is named by the second it starts at, on Windows too: whatever   *)
(* crashes, failed renames and second renamers do, a rename only replaces  *)
(* a file of an earlier setup in the same second.                          *)
(***************************************************************************)
THEOREM SegmentsNamedByStart == Spec /\ NoFold => []NamedByStart
<1>1. RecordingInv => NamedByStart
  <2> SUFFICES ASSUME RecordingInv, NEW s \in Second, NEW f \in Stored(s)
               PROVE  /\ f >= s * Rate
                      /\ \A t \in Second : t > s => \A g \in Stored(t) : f < g
    BY DEF NamedByStart
  <2>1. \A t \in Second : Stored(t) \subseteq FramesOf(files, t)
    BY DEF Stored, FramesOf, StoreFile
  <2>2. /\ f \in written /\ Rate * s <= f
        /\ \A t \in Second : t > s => \A g \in FramesOf(files, t) : f < g
    BY <2>1 DEF RecordingInv, Kept, InOrder
  <2>3. f >= s * Rate
    <3>1. f \in Nat /\ s \in Nat /\ Rate \in Nat
      BY <2>2, Numbers DEF RecordingInv, Kept, Past
    <3>2. s * Rate = Rate * s
      BY <3>1, SMT
    <3>. QED
      BY <2>2, <3>1, <3>2, SMT
  <2>. QED
    BY <2>1, <2>2, <2>3
<1>. QED
  BY <1>1, AlwaysRecording, PTL

(***************************************************************************)
(* A frame that was written stays in a file, unless the source was set up  *)
(* again within the second the frame belongs to.                           *)
(***************************************************************************)
THEOREM NoFrameLost == Spec /\ NoFold => []NothingLost
<1>1. RecordingInv => NothingLost
  <2> SUFFICES ASSUME RecordingInv, NEW f \in written,
                      \A file \in File : f \notin files[file].frames
               PROVE  Superseded(f)
    BY DEF NothingLost
  <2>1. \A s \in Second : f \notin FramesOf(files, s)
    BY FilesOfSecond DEF FramesOf
  <2>2. Replaced(files, f)
    BY <2>1 DEF RecordingInv, Kept, Accounted
  <2>3. \A file : Later(files, file, f) => \A g \in files[file].frames : g > f
    BY DEF Later
  <2>. QED
    BY <2>2, <2>3 DEF Replaced, Superseded, StoreFile, WatchFile
<1>. QED
  BY <1>1, AlwaysRecording, PTL

-----------------------------------------------------------------------------
(***************************************************************************)
(* A trailer completes the last file that was not.                         *)
(***************************************************************************)
AllComplete(fs) == \A file \in File : fs[file].frames = {} \/ fs[file].state = "whole"

LEMMA CompleteEnded ==
    ASSUME NEW fs, Sound(fs), NEW m, m.at \in Second, Complete(fs, m)
    PROVE  AllComplete(Ended(fs, m))
<1> DEFINE f == OutputFile(m.at)
           c == [state |-> IF fs[f].frames = {} THEN fs[f].state ELSE "whole", frames |-> fs[f].frames]
<1>1. f \in File /\ fs \in [File -> Content]
  BY OutputFileType DEF Sound
<1>2. Ended(fs, m) = [fs EXCEPT ![f] = c]
  BY <1>1 DEF Ended, Content
<1>3. c.frames = {} \/ c.state = "whole"
  OBVIOUS
<1>4. \A file \in File : file # f => fs[file].frames = {} \/ fs[file].state = "whole"
  BY DEF Complete
<1> HIDE DEF c, f
<1>. QED
  BY <1>1, <1>2, <1>3, <1>4 DEF AllComplete

LEMMA CompleteOpened ==
    ASSUME NEW fs, Sound(fs), AllComplete(fs), tick \in Frame
    PROVE  AllComplete(Opened(fs))
<1>1. OutputFile(Now) \in File /\ fs \in [File -> Content]
  BY NowIsSecond, OutputFileType DEF Sound
<1>. QED
  BY <1>1 DEF Opened, AllComplete, Fresh

LEMMA CompleteAfter ==
    ASSUME NEW fs, Sound(fs), NEW m, MuxSound(m), m.on, Complete(fs, m), tick \in Frame,
           NEW pts, NEW key
    PROVE  Complete(FilesAfter(fs, m, pts, key), MuxAfter(fs, m, pts, key))
<1> DEFINE cut == IF Cut(fs, m, pts, key) THEN Opened(Ended(fs, m)) ELSE fs
           n   == MuxAfter(fs, m, pts, key)
           f   == OutputFile(n.at)
           c   == [state |-> cut[f].state, frames |-> cut[f].frames \cup {tick}]
<1>1. m.at \in Second /\ n.at \in Second /\ n.on /\ f \in File
  BY MuxAfterSound, OutputFileType DEF MuxSound
<1>2. Sound(cut)
  BY <1>1, EndedSound, OpenedSound
<1>3. Complete(cut, n)
  <2>1. CASE Cut(fs, m, pts, key)
    <3>1. AllComplete(cut)
      BY <1>1, <2>1, EndedSound, CompleteEnded, CompleteOpened
    <3>. QED
      BY <3>1 DEF AllComplete, Complete
  <2>2. CASE ~Cut(fs, m, pts, key)
    BY <2>2 DEF MuxAfter
  <2>. QED
    BY <2>1, <2>2
<1>4. FilesAfter(fs, m, pts, key) = [cut EXCEPT ![f] = c]
  BY <1>1, <1>2 DEF FilesAfter, Sound, Content
<1> HIDE DEF c, cut
<1>5. \A file \in File : file # f => FilesAfter(fs, m, pts, key)[file] = cut[file]
  BY <1>1, <1>2, <1>4 DEF Sound
<1>. QED
  BY <1>1, <1>3, <1>5 DEF Complete

LEMMA CompleteRenamed ==
    ASSUME Sound(files), Complete(files, mux), NEW n \in Name, Movable(n), NEW s \in UnixOf(n)
    PROVE  Complete(Renamed(n, s), mux)
<1> DEFINE from == <<"watch", n>>
           to   == <<"store", s>>
<1>1. from \in File /\ to \in File /\ from # to /\ files \in [File -> Content]
  BY DEF File, Name, UnixOf, Sound
<1>2. files[from].frames = {} \/ files[from].state = "whole"
  BY <1>1 DEF Complete, Movable, Current
<1>3. \A file \in File : Renamed(n, s)[file] = IF file = from THEN Blank
                                            ELSE IF file = to THEN files[from] ELSE files[file]
  BY <1>1 DEF Renamed
<1>. QED
  BY <1>1, <1>2, <1>3 DEF Complete, Blank

(***************************************************************************)
(* A rename takes its file off the list, and puts none on it.              *)
(***************************************************************************)
LEMMA RenamedListed ==
    ASSUME Sound(files), NEW n \in Name, NEW s \in UnixOf(n), files' = Renamed(n, s)
    PROVE  Listed' \subseteq Listed \ {n}
<1>1. ASSUME NEW k \in Name
      PROVE  files'[<<"watch", k>>] = IF k = n THEN Blank ELSE files[<<"watch", k>>]
  <2>1. <<"watch", k>> \in File /\ <<"watch", n>> \in File /\ files \in [File -> Content]
    BY DEF File, Sound
  <2>. QED
    BY <2>1 DEF Renamed
<1>. QED
  BY <1>1 DEF Listed, Blank

(***************************************************************************)
(* Faults are not taken back.                                              *)
(***************************************************************************)
LEMMA StillSpoilt ==
    ASSUME NEW k, UNCHANGED faults \/ Fault(k)
    PROVE  /\ faults.spoilt => faults'.spoilt
           /\ Fault(k) /\ k \in Spoiling => faults'.spoilt
<1>1. ASSUME Fault(k) PROVE faults'.spoilt = (faults.spoilt \/ k \in Spoiling)
  BY <1>1 DEF Fault
<1>2. ASSUME UNCHANGED faults PROVE faults'.spoilt = faults.spoilt
  BY <1>2
<1>3. CASE Fault(k)
  BY <1>1, <1>3, Zenon
<1>4. CASE UNCHANGED faults /\ ~Fault(k)
  BY <1>2, <1>4, Zenon
<1>. QED
  BY <1>3, <1>4

(***************************************************************************)
(* Once Close has closed the segmenter, or the processor has ended, the    *)
(* muxer is off.                                                           *)
(***************************************************************************)
LEMMA MuxerOff ==
    ASSUME Typed, stage \in {"renamer", "down"}
    PROVE  ~mux.on /\ raw # "on" /\ ~processor
BY TypeParts DEF Typed, Owned, LifeTypeOK, EncTypeOK

(***************************************************************************)
(* A step that does not take the store past a stage, and changes no file   *)
(* once the segmenter is closed.                                           *)
(***************************************************************************)
LEMMA SameDraining ==
    ASSUME Draining, raw' # "broken", UNCHANGED <<windows, stage, renVars>>,
           stage \in {"renamer", "down"} => UNCHANGED files
    PROVE  Draining'
BY DEF Draining, Listed, renVars

(***************************************************************************)
(* What a caller does to its segmenter.                                    *)
(***************************************************************************)
LEMMA CallerClosing ==
    ASSUME Typed, ClosingInv, Caller
    PROVE  ClosingInv'
<1> SUFFICES ASSUME ~faults'.spoilt PROVE Complete(files, mux)' /\ Draining'
  BY DEF ClosingInv
<1>1. /\ kind = "rtp" /\ UNCHANGED <<renVars, stage, windows, tick>>
      /\ tick \in Frame /\ Sound(files) /\ MuxSound(mux) /\ mux.at \in Second
      /\ mux.on <=> raw = "on"
  BY TypeParts DEF Caller, lifeVars, Typed, Owned, Rest, EncTypeOK, LifeTypeOK, MuxSound,
                   RawInit, RawWrite, RawClose
<1>2. Complete(files', mux') <=> Complete(files, mux)'
  BY <1>1 DEF Complete, OutputFile
<1>3. CASE Serving /\ RawInit
  <2>1. /\ UNCHANGED faults /\ raw = "none" /\ raw' = "on" /\ files' = Opened(files)
        /\ stage \notin {"renamer", "down"}
    BY <1>3 DEF RawInit, Serving
  <2>2. Complete(files, mux) /\ Draining
    BY <2>1 DEF ClosingInv
  <2>3. AllComplete(files)
    BY <1>1, <2>1, <2>2 DEF Complete, AllComplete
  <2>4. AllComplete(files')
    BY <1>1, <2>1, <2>3, CompleteOpened
  <2>. QED
    BY <1>1, <1>2, <2>1, <2>2, <2>4, SameDraining DEF AllComplete, Complete
<1>4. ASSUME NEW key \in BOOLEAN, RawWrite(key) PROVE Complete(files, mux)' /\ Draining'
  <2>1. UNCHANGED raw /\ (UNCHANGED faults \/ Fault("write"))
    BY <1>4 DEF RawWrite
  <2>2. Complete(files, mux) /\ Draining /\ raw # "broken"
    BY <2>1, StillSpoilt DEF ClosingInv, Draining
  <2>3. CASE /\ raw = "on"
             /\ files' = FilesAfter(files, mux, tick - mux.start, key)
             /\ mux' = MuxAfter(files, mux, tick - mux.start, key)
    <3>1. Complete(files', mux')
      BY <1>1, <2>2, <2>3, CompleteAfter
    <3>. QED
      BY <1>1, <1>2, <2>1, <2>2, <2>3, <3>1, MuxerOff, SameDraining
  <2>4. CASE UNCHANGED <<files, mux>>
    BY <1>1, <1>2, <2>1, <2>2, <2>4, SameDraining
  <2>. QED
    BY <1>4, <2>3, <2>4 DEF RawWrite
<1>5. CASE raw # "none" /\ RawClose
  <2>1. mux' = MuxOff /\ (UNCHANGED faults \/ Fault("trailer"))
    BY <1>5 DEF RawClose
  <2>2. Complete(files, mux) /\ Draining /\ raw # "broken" /\ ~Fault("trailer")
    BY <2>1, StillSpoilt DEF ClosingInv, Draining, Spoiling
  <2>3. raw = "on" /\ raw' = "none" /\ files' = Ended(files, mux)
    BY <1>5, <2>2 DEF RawClose
  <2>4. AllComplete(files')
    BY <1>1, <2>2, <2>3, CompleteEnded
  <2>. QED
    BY <1>1, <1>2, <2>2, <2>3, <2>4, MuxerOff, SameDraining DEF AllComplete, Complete
<1>. QED
  BY <1>3, <1>4, <1>5 DEF Caller

(***************************************************************************)
(* The processor encodes a frame.                                          *)
(***************************************************************************)
LEMMA WriteComplete ==
    ASSUME Typed, Complete(files, mux), processor, latest # 0, NEW outcome \in Outcome,
           outcome # "trailer", Write(latest, outcome)
    PROVE  Complete(files', mux')
<1> DEFINE size  == latest
           ready == outcome # "setup"
           ended == IF SetUp(size) /\ encoder.size # 0 THEN Ended(files, mux) ELSE files
           fs    == IF SetUp(size) /\ ready THEN Opened(ended) ELSE ended
           m     == IF SetUp(size) THEN MuxOn ELSE mux
<1>1. /\ tick \in Frame /\ Sound(files) /\ MuxSound(mux) /\ mux.at \in Second
      /\ raw = "none" /\ (mux.on <=> encoder.size # 0)
  BY TypeParts DEF Typed, Rest, MuxSound, LifeTypeOK, Owned, RawTypeOK
<1>2. /\ IF outcome = "ok"
         THEN /\ files' = FilesAfter(fs, m, Pts(size), TRUE)
              /\ mux' = MuxAfter(fs, m, Pts(size), TRUE)
         ELSE files' = fs /\ mux' = IF ready THEN m ELSE MuxOff
      /\ outcome = "setup" => SetUp(size)
  BY DEF Write
<1>3. Sound(ended)
  BY <1>1, EndedSound
<1>4. SetUp(size) => AllComplete(ended)
  <2>1. CASE encoder.size # 0
    BY <1>1, <2>1, CompleteEnded
  <2>2. CASE encoder.size = 0
    BY <1>1, <2>2 DEF Complete, AllComplete
  <2>. QED
    BY <2>1, <2>2
<1>5. CASE ready /\ SetUp(size)
  <2>1. fs = Opened(ended) /\ m = MuxOn /\ MuxOn.on
    BY <1>5 DEF MuxOn
  <2> HIDE DEF fs, m, ended
  <2>2. Sound(fs) /\ MuxSound(m) /\ m.on /\ AllComplete(fs)
    BY <1>1, <1>3, <1>4, <1>5, <2>1, OpenedSound, CompleteOpened, MuxOnOff
  <2>3. Complete(fs, m)
    BY <2>2 DEF AllComplete, Complete
  <2>. QED
    BY <1>1, <1>2, <1>5, <2>2, <2>3, CompleteAfter
<1>6. CASE ready /\ ~SetUp(size)
  <2>1. fs = files /\ m = mux /\ mux.on
    BY <1>1, <1>6 DEF SetUp
  <2> HIDE DEF fs, m
  <2>. QED
    BY <1>1, <1>2, <1>6, <2>1, CompleteAfter
<1>7. CASE ~ready
  <2>1. files' = ended /\ SetUp(size)
    BY <1>2, <1>7
  <2> HIDE DEF ended
  <2>. QED
    BY <1>4, <2>1 DEF AllComplete, Complete
<1>. QED
  BY <1>5, <1>6, <1>7

LEMMA PollClosing ==
    ASSUME Typed, ClosingInv, Poll
    PROVE  ClosingInv'
<1> SUFFICES ASSUME ~faults'.spoilt PROVE Complete(files, mux)' /\ Draining'
  BY DEF ClosingInv
<1>1. UNCHANGED <<renVars, stage, windows, raw>>
  BY DEF Poll, rawVars, lifeVars, Ask, Fetch, muxVars, Encode
<1>2. Complete(files', mux') <=> Complete(files, mux)'
  BY <1>1 DEF Complete, OutputFile
<1>3. CASE Ask \/ Fetch \/ UNCHANGED <<files, mux, faults>>
  <2>1. UNCHANGED <<files, mux, faults>>
    BY <1>3 DEF Ask, Fetch, muxVars
  <2>2. Complete(files, mux) /\ Draining /\ raw # "broken"
    BY <2>1 DEF ClosingInv, Draining
  <2>. QED
    BY <1>1, <1>2, <2>1, <2>2, SameDraining
<1>4. CASE Encode /\ ~UNCHANGED <<files, mux, faults>>
  <2>1. processor
    BY <1>4 DEF Encode
  <2>2. PICK outcome \in Outcome : /\ latest # 0 /\ Write(latest, outcome)
                                   /\ IF outcome = "ok" THEN UNCHANGED faults ELSE Fault(outcome)
    BY <1>4 DEF Encode
  <2>3. outcome # "trailer" /\ Complete(files, mux) /\ Draining /\ raw # "broken"
    BY <2>2, StillSpoilt DEF ClosingInv, Draining, Spoiling
  <2>4. Complete(files', mux')
    BY <2>1, <2>2, <2>3, WriteComplete
  <2>. QED
    BY <1>1, <1>2, <2>1, <2>3, <2>4, MuxerOff, SameDraining
<1>. QED
  BY <1>3, <1>4 DEF Poll

LEMMA ProcessorEndsClosing ==
    ASSUME Typed, ClosingInv, ProcessorEnds
    PROVE  ClosingInv'
<1> SUFFICES ASSUME ~faults'.spoilt PROVE Complete(files, mux)' /\ Draining'
  BY DEF ClosingInv
<1>1. /\ UNCHANGED <<renVars, stage, windows, raw>> /\ processor /\ mux' = MuxOff
      /\ mux.at \in Second /\ Sound(files)
  BY TypeParts DEF ProcessorEnds, ProcessorStops, rawVars, lifeVars, Typed, MuxSound
<1>2. UNCHANGED faults \/ Fault("trailer")
  BY DEF ProcessorEnds, ProcessorStops
<1>3. Complete(files, mux) /\ Draining /\ raw # "broken" /\ ~Fault("trailer")
  BY <1>2, StillSpoilt DEF ClosingInv, Draining, Spoiling
<1>4. AllComplete(files')
  <2>1. CASE mux.on
    BY <1>1, <1>3, <2>1, CompleteEnded DEF ProcessorEnds, ProcessorStops
  <2>2. CASE ~mux.on
    BY <1>3, <2>2 DEF ProcessorEnds, ProcessorStops, Complete, AllComplete
  <2>. QED
    BY <2>1, <2>2
<1>. QED
  BY <1>1, <1>3, <1>4, MuxerOff, SameDraining DEF AllComplete, Complete

LEMMA OwnWorker == Own \in Worker
  BY StartAssumption DEF Own, Worker

(***************************************************************************)
(* A pass of a renamer begins: the last one has every complete segment on  *)
(* its list.                                                               *)
(***************************************************************************)
LEMMA ScanClosing ==
    ASSUME Typed, ClosingInv, NEW w \in Worker, NEW pass \in {"busy", "flush"}, Scan(w, pass),
           pass = "flush" => stage = "renamer", UNCHANGED <<rawVars, lifeVars>>
    PROVE  ClosingInv'
<1> SUFFICES ASSUME ~faults'.spoilt PROVE Complete(files, mux)' /\ Draining'
  BY DEF ClosingInv
<1>1. UNCHANGED <<windows, files, mux, raw, stage>> /\ (UNCHANGED faults \/ Fault("list"))
  BY DEF Scan, rawVars, lifeVars
<1>2. Complete(files, mux) /\ Draining /\ ~Fault("list")
  BY <1>1, StillSpoilt DEF ClosingInv, Spoiling
<1>3. Complete(files, mux)' /\ Listed' = Listed
  BY <1>1, <1>2 DEF Complete, OutputFile, Listed
<1>4. /\ renamer \in [Worker -> {"off", "wait", "busy", "flush"}] /\ todo \in [Worker -> SUBSET Name]
      /\ renamer' = [renamer EXCEPT ![w] = pass]
      /\ todo' = [todo EXCEPT ![w] = Listed]
  BY <1>2, TypeParts DEF Scan, Typed, RenTypeOK
<1>5. CASE w = Own
  <2>1. renamer'[Own] = pass /\ todo'[Own] = Listed
    BY <1>4, <1>5, OwnWorker
  <2>. QED
    BY <1>1, <1>2, <1>3, <2>1 DEF Draining
<1>6. CASE w # Own
  <2>1. renamer'[Own] = renamer[Own] /\ todo'[Own] = todo[Own]
    BY <1>4, <1>6, OwnWorker
  <2>. QED
    BY <1>1, <1>2, <1>3, <2>1 DEF Draining
<1>. QED
  BY <1>5, <1>6

(***************************************************************************)
(* A file is taken off the list of a renamer: with the muxer off it is     *)
(* moved if it is there.                                                   *)
(***************************************************************************)
LEMMA RenameClosing ==
    ASSUME Typed, ClosingInv, NEW w \in Worker, Rename(w), UNCHANGED <<rawVars, lifeVars>>
    PROVE  ClosingInv'
<1> SUFFICES ASSUME ~faults'.spoilt PROVE Complete(files, mux)' /\ Draining'
  BY DEF ClosingInv
<1>1. UNCHANGED <<windows, mux, raw, stage, renamer>> /\ Sound(files)
  BY TypeParts DEF Rename, rawVars, lifeVars, Typed
<1>2. PICK n \in Name :
          /\ todo' = [todo EXCEPT ![w] = @ \ {n}]
          /\ \/ /\ Movable(n)
                /\ \E s \in UnixOf(n) : files' = Renamed(n, s)
                /\ UNCHANGED faults
             \/ ~Movable(n) /\ UNCHANGED <<files, faults>>
             \/ Movable(n) /\ Fault("rename") /\ UNCHANGED files
  BY TypeParts DEF Rename, Typed, RenTypeOK
<1>3. Complete(files, mux) /\ Draining /\ ~Fault("rename")
  BY <1>2, StillSpoilt DEF ClosingInv, Spoiling
<1>4. /\ Complete(files', mux)
      /\ Listed' \subseteq Listed
      /\ stage \in {"renamer", "down"} => Listed' \subseteq Listed \ {n}
  <2>1. CASE Movable(n) /\ \E s \in UnixOf(n) : files' = Renamed(n, s)
    <3>1. PICK s \in UnixOf(n) : files' = Renamed(n, s)
      BY <2>1
    <3>2. Complete(files', mux)
      BY <1>1, <1>3, <2>1, <3>1, CompleteRenamed
    <3>3. Listed' \subseteq Listed \ {n}
      BY <1>1, <3>1, RenamedListed
    <3>. QED
      BY <3>2, <3>3
  <2>2. CASE ~Movable(n) /\ UNCHANGED files
    <3>1. Listed' = Listed
      BY <2>2 DEF Listed
    <3>2. stage \in {"renamer", "down"} => n \notin Listed
      BY <2>2, MuxerOff DEF Movable, Listed
    <3>. QED
      BY <1>3, <2>2, <3>1, <3>2
  <2>. QED
    BY <1>2, <1>3, <2>1, <2>2
<1>5. Complete(files, mux)'
  BY <1>1, <1>4 DEF Complete, OutputFile
<1>6. todo \in [Worker -> SUBSET Name] /\ todo[Own] \ {n} \subseteq todo'[Own]
  BY <1>2, TypeParts, OwnWorker DEF Typed, RenTypeOK
<1>7. windows /\ stage = "renamer" /\ renamer[Own] = "flush" => Listed' \subseteq todo'[Own]
  BY <1>3, <1>4, <1>6 DEF Draining
<1>. QED
  BY <1>1, <1>3, <1>4, <1>5, <1>7 DEF Draining

LEMMA ScannedClosing ==
    ASSUME Typed, ClosingInv, NEW w \in Worker, Scanned(w), UNCHANGED <<rawVars, lifeVars>>
    PROVE  ClosingInv'
<1> SUFFICES ASSUME ~faults'.spoilt PROVE Complete(files, mux)' /\ Draining'
  BY DEF ClosingInv
<1>1. UNCHANGED <<windows, files, mux, faults, raw, stage, todo>>
  BY DEF Scanned, muxVars, rawVars, lifeVars
<1>2. Complete(files, mux) /\ Draining
  BY <1>1 DEF ClosingInv
<1>3. Complete(files, mux)' /\ Listed' = Listed
  BY <1>1, <1>2 DEF Complete, OutputFile, Listed
<1>4. /\ renamer \in [Worker -> {"off", "wait", "busy", "flush"}]
      /\ renamer' = [renamer EXCEPT ![w] = IF @ = "busy" THEN "wait" ELSE "off"]
      /\ renamer[w] \in {"busy", "flush"} /\ todo[w] = {}
  BY TypeParts DEF Scanned, Typed, RenTypeOK
<1>5. CASE w = Own
  <2>1. renamer'[Own] = IF renamer[Own] = "busy" THEN "wait" ELSE "off"
    BY <1>4, <1>5, OwnWorker
  <2>2. renamer[Own] \in {"busy", "flush"} /\ todo[Own] = {}
    BY <1>4, <1>5
  <2>. QED
    BY <1>1, <1>2, <1>3, <2>1, <2>2 DEF Draining
<1>6. CASE w # Own
  <2>1. renamer'[Own] = renamer[Own]
    BY <1>4, <1>6, OwnWorker
  <2>. QED
    BY <1>1, <1>2, <1>3, <2>1 DEF Draining
<1>. QED
  BY <1>5, <1>6

(***************************************************************************)
(* A stage of Close: the segmenter is closed while the renamer still runs, *)
(* and the renamer is waited for until its last pass is over.              *)
(***************************************************************************)
LEMMA StageClosing ==
    ASSUME Typed, RecordingInv, ClosingInv, Close \/ Closing
    PROVE  ClosingInv'
<1> SUFFICES ASSUME ~faults'.spoilt PROVE Complete(files, mux)' /\ Draining'
  BY DEF ClosingInv
<1>1. CASE Close \/ WorkersStopped \/ (SegmenterClosed /\ kind # "rtp")
  <2>1. /\ UNCHANGED <<windows, files, mux, faults, raw, renVars>>
        /\ stage \in {"run", "workers", "segmenter"}
        /\ stage' \in {"workers", "segmenter", "renamer"}
    BY <1>1 DEF Close, WorkersStopped, SegmenterClosed, GoOn, After, muxVars, rawVars
  <2>2. Complete(files, mux) /\ Draining
    BY <2>1 DEF ClosingInv
  <2>3. renamer' = renamer
    BY <2>1 DEF renVars
  <2>. QED
    BY <2>1, <2>2, <2>3 DEF Draining, Complete, OutputFile
<1>2. CASE SegmenterClosed /\ kind = "rtp"
  <2>1. /\ RawClose /\ stage = "segmenter" /\ stage' = "renamer" /\ UNCHANGED renVars
    BY <1>2 DEF SegmenterClosed, GoOn, After
  <2>2. UNCHANGED windows /\ mux' = MuxOff /\ (UNCHANGED faults \/ Fault("trailer"))
    BY <2>1 DEF RawClose
  <2>3. Complete(files, mux) /\ Draining /\ raw # "broken" /\ ~Fault("trailer")
    BY <2>2, StillSpoilt DEF ClosingInv, Draining, Spoiling
  <2>4. raw' # "broken" /\ AllComplete(files')
    <3>1. Sound(files) /\ mux.at \in Second /\ (mux.on <=> raw = "on")
      BY <1>2, TypeParts DEF Typed, MuxSound, LifeTypeOK, EncTypeOK, Owned
    <3>2. CASE raw = "on" /\ raw' = "none" /\ files' = Ended(files, mux)
      BY <2>3, <3>1, <3>2, CompleteEnded
    <3>3. CASE raw = "none" /\ UNCHANGED <<raw, files>>
      BY <2>3, <3>1, <3>3 DEF Complete, AllComplete
    <3>. QED
      BY <2>1, <2>3, <3>2, <3>3 DEF RawClose
  <2>5. Complete(files, mux)'
    BY <2>4 DEF AllComplete, Complete
  <2>6. renamer' = renamer
    BY <2>1 DEF renVars
  <2>. QED
    BY <2>1, <2>2, <2>3, <2>4, <2>5, <2>6 DEF Draining
<1>3. CASE RenamerStopped
  <2>1. /\ UNCHANGED <<windows, files, mux, faults, raw, renVars>>
        /\ stage = "renamer" /\ stage' = "down" /\ renamer[Own] = "off"
    BY <1>3 DEF RenamerStopped, GoOn, After, muxVars, rawVars
  <2>2. Complete(files, mux) /\ Draining
    BY <2>1 DEF ClosingInv
  <2>3. ~windows => Listed = {}
    BY DEF RecordingInv, Kept, WatchUnused, Blank, Listed
  <2>4. Listed = {} /\ Listed' = Listed
    BY <2>1, <2>2, <2>3 DEF Draining, Listed, Typed, TypeOK, MuxTypeOK
  <2>. QED
    BY <2>1, <2>2, <2>4 DEF Draining, Complete, OutputFile
<1>. QED
  BY <1>1, <1>2, <1>3 DEF Closing

(***************************************************************************)
(* A construction, that may fail, and a crash, which spoils.               *)
(***************************************************************************)
LEMMA StartClosing ==
    ASSUME Typed, ClosingInv, Start
    PROVE  ClosingInv'
<1> SUFFICES ASSUME ~faults'.spoilt PROVE Complete(files, mux)' /\ Draining'
  BY DEF ClosingInv
<1>1. /\ UNCHANGED <<windows, files, mux>> /\ stage = "down"
      /\ UNCHANGED faults \/ Fault("start")
  BY DEF Start
<1>2. Complete(files, mux) /\ Draining
  BY <1>1, StillSpoilt DEF ClosingInv
<1>3. Complete(files, mux)' /\ Listed' = Listed
  BY <1>1, <1>2 DEF Complete, OutputFile, Listed
<1>4. CASE stage' = "run" /\ raw' = "none"
           /\ renamer' = [renamer EXCEPT ![Own] = IF windows THEN "wait" ELSE "off"]
  <2>1. windows => renamer'[Own] = "wait"
    BY <1>4, TypeParts, OwnWorker DEF Typed, RenTypeOK
  <2>. QED
    BY <1>1, <1>3, <1>4, <2>1 DEF Draining
<1>5. CASE UNCHANGED <<stage, raw>>
  BY <1>1, <1>2, <1>3, <1>5 DEF Draining
<1>. QED
  BY <1>4, <1>5 DEF Start

LEMMA NextClosing == Typed /\ RecordingInv /\ ClosingInv /\ [Next]_vars => ClosingInv'
<1> SUFFICES ASSUME Typed, RecordingInv, ClosingInv, [Next]_vars PROVE ClosingInv'
  OBVIOUS
<1>1. CASE Start
  BY <1>1, StartClosing
<1>2. CASE Close \/ Closing
  BY <1>2, StageClosing
<1>3. CASE Crash
  <2>1. faults'.spoilt
    BY <1>3, StillSpoilt DEF Crash, Spoiling
  <2>. QED
    BY <2>1 DEF ClosingInv
<1>4. CASE PollerWakes \/ PollerEnds \/ Tick \/ UNCHANGED vars
  <2>1. UNCHANGED <<windows, files, mux, faults, raw, stage, renVars>>
    BY <1>4 DEF PollerWakes, Wake, PollerEnds, PollerStops, Tick,
                vars, muxVars, rawVars, renVars, lifeVars
  <2>2. ~faults.spoilt => Complete(files, mux)'
    BY <2>1 DEF ClosingInv, Complete, OutputFile
  <2>3. ~faults.spoilt => Draining'
    BY <2>1, SameDraining DEF ClosingInv, Draining
  <2>. QED
    BY <2>1, <2>2, <2>3 DEF ClosingInv
<1>5. CASE Caller
  BY <1>5, CallerClosing
<1>6. CASE Poll
  BY <1>6, PollClosing
<1>7. CASE ProcessorEnds
  BY <1>7, ProcessorEndsClosing
<1>8. CASE Flush
  BY <1>8, ScanClosing, OwnWorker DEF Flush
<1>9. ASSUME NEW w \in Worker, RenamerStep(w) PROVE ClosingInv'
  BY <1>9, ScanClosing, RenameClosing, ScannedClosing DEF RenamerStep
<1>. QED
  BY <1>1, <1>2, <1>3, <1>4, <1>5, <1>6, <1>7, <1>8, <1>9 DEF Next

LEMMA InitClosing == Init => ClosingInv
<1> SUFFICES ASSUME Init PROVE ClosingInv
  OBVIOUS
<1>1. \A file \in File : files[file] = Blank
  BY DEF Init, MuxInit
<1>2. Complete(files, mux)
  BY <1>1 DEF Complete, Blank
<1>3. Listed = {}
  BY <1>1 DEF Listed, File, Blank
<1>4. stage = "down" /\ raw = "none"
  BY DEF Init, RawInitState
<1>. QED
  BY <1>2, <1>3, <1>4 DEF ClosingInv, Draining

(***************************************************************************)
(* A store that was closed, and not killed, has all it recorded in the     *)
(* storage directory, in complete segments, if no trailer, listing or      *)
(* rename failed: the encoder or segmenter writes its trailer before the   *)
(* last pass of the renamer lists what is left, and a renamer that a       *)
(* failed constructor left behind does not get in its way.                 *)
(***************************************************************************)
THEOREM ClosedClean == Spec /\ NoFold => []CleanClose
<1>1. Init => ClosingInv
  BY InitClosing
<1>2. Typed /\ RecordingInv /\ ClosingInv /\ [Next]_vars => ClosingInv'
  BY NextClosing
<1>3. Typed /\ RecordingInv /\ ClosingInv => CleanClose
  <2> SUFFICES ASSUME Typed, RecordingInv, ClosingInv, stage = "down", ~faults.spoilt,
                      NEW f \in written
               PROVE  \/ \E s \in Second : f \in Stored(s) /\ files[<<"store", s>>].state = "whole"
                      \/ Superseded(f)
    BY DEF CleanClose
  <2>1. Complete(files, mux) /\ Listed = {} /\ ~mux.on
    BY MuxerOff DEF ClosingInv, Draining
  <2>2. CASE \E s \in Second : f \in FramesOf(files, s)
    <3>1. PICK s \in Second : f \in FramesOf(files, s)
      BY <2>2
    <3>2. Local(s) \in Name /\ StoreFile(s) \in File /\ WatchFile(s) \in File
      BY FilesOfSecond DEF Name
    <3>3. f \notin files[WatchFile(s)].frames
      BY <2>1, <3>2 DEF Complete, Listed, WatchFile
    <3>4. f \in files[StoreFile(s)].frames /\ files[StoreFile(s)].state = "whole"
      BY <2>1, <3>1, <3>2, <3>3 DEF Complete, FramesOf
    <3>. QED
      BY <3>4 DEF Stored, StoreFile
  <2>3. CASE Replaced(files, f)
    <3>1. \A file : Later(files, file, f) => \A g \in files[file].frames : g > f
      BY DEF Later
    <3>. QED
      BY <2>3, <3>1 DEF Replaced, Superseded, StoreFile, WatchFile
  <2>. QED
    BY <2>2, <2>3 DEF RecordingInv, Kept, Accounted
<1>. QED
  BY <1>1, <1>2, <1>3, AlwaysTyped, AlwaysRecording, PTL DEF Spec
=============================================================================
