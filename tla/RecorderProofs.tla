--------------------------- MODULE RecorderProofs ----------------------------
(***************************************************************************)
(* Theorems about Recorder, for every value of its constants: any frame    *)
(* rate, segment length, time zone and sequence of faults.                 *)
(***************************************************************************)
EXTENDS Recorder, TLAPS

(***************************************************************************)
(* Multiplying by a natural number keeps the order.                        *)
(***************************************************************************)
LEMMA TimesMono ==
    ASSUME NEW a \in Int, NEW b \in Int, NEW r \in Nat, a <= b
    PROVE  r * a <= r * b
BY SMT

(***************************************************************************)
(* The second a tick lies in starts at or before the tick, and ends after. *)
(***************************************************************************)
LEMMA DivFloor ==
    ASSUME NEW t \in Nat, NEW r \in Nat \ {0}
    PROVE  /\ t \div r \in Nat
           /\ r * (t \div r) <= t
           /\ t < r * (t \div r) + r
BY SMT

(***************************************************************************)
(* Later ticks lie in later seconds.                                       *)
(***************************************************************************)
LEMMA DivMono ==
    ASSUME NEW t \in Nat, NEW u \in Nat, NEW r \in Nat \ {0}, t <= u
    PROVE  t \div r <= u \div r
<1> DEFINE a == t \div r
           b == u \div r
<1>1. a \in Nat /\ b \in Nat /\ r * a <= t /\ u < r * b + r
  BY DivFloor
<1>. SUFFICES ASSUME b + 1 <= a PROVE FALSE
  BY <1>1 DEF a, b
<1>2. r * (b + 1) <= r * a
  BY <1>1, TimesMono
<1>3. r * (b + 1) = r * b + r
  BY <1>1, SMT
<1>. QED
  BY <1>1, <1>2, <1>3, SMT

(***************************************************************************)
(* The current second is one, and so is its file a file.                   *)
(***************************************************************************)
LEMMA NowIsSecond == tick \in Frame => Now \in Second
<1> SUFFICES ASSUME tick \in Frame PROVE Now \in Second
  OBVIOUS
<1>1. tick \in Nat /\ MaxTick \in Nat /\ tick <= MaxTick /\ Rate \in Nat \ {0}
  BY RateAssumption DEF Frame
<1>2. tick \div Rate \in Nat /\ MaxTick \div Rate \in Nat
  BY <1>1, DivFloor
<1>3. tick \div Rate <= MaxTick \div Rate
  BY <1>1, DivMono
<1>. QED
  BY <1>2, <1>3 DEF Now, Second

(***************************************************************************)
(* The file opened in a second is a file.                                  *)
(***************************************************************************)
LEMMA OutputFileType ==
    ASSUME NEW s \in Second
    PROVE  OutputFile(s) \in File
BY DEF OutputFile, File, Name

-----------------------------------------------------------------------------
(***************************************************************************)
(* The files, and the names in the storage directory.                      *)
(***************************************************************************)
Content == [state : {"none", "part", "whole"}, frames : SUBSET Frame]

Sound(fs) ==
    /\ fs \in [File -> Content]
    /\ \A n \in Name : fs[<<"store", n>>].state # "none" => n \in Second

(***************************************************************************)
(* A change to a file the muxer may have open, whose name in the storage   *)
(* directory is a second.                                                  *)
(***************************************************************************)
LEMMA ChangedSound ==
    ASSUME NEW fs, Sound(fs), NEW s \in Second, NEW c \in Content,
           NEW gs, gs = [fs EXCEPT ![OutputFile(s)] = c]
    PROVE  Sound(gs)
<1> DEFINE f == OutputFile(s)
<1>1. f \in File
  BY OutputFileType
<1>2. gs \in [File -> Content]
  BY <1>1 DEF Sound
<1>3. ASSUME NEW n \in Name, gs[<<"store", n>>].state # "none" PROVE n \in Second
  <2>1. CASE f = <<"store", n>>
    BY <2>1 DEF OutputFile
  <2>2. CASE f # <<"store", n>>
    <3>1. <<"store", n>> \in File
      BY DEF File
    <3>2. gs[<<"store", n>>] = fs[<<"store", n>>]
      BY <2>2, <3>1 DEF Sound
    <3>. QED
      BY <3>2, <1>3 DEF Sound
  <2>. QED
    BY <2>1, <2>2
<1>. QED
  BY <1>2, <1>3 DEF Sound

(***************************************************************************)
(* Opening the file of the current second.                                 *)
(***************************************************************************)
LEMMA OpenedSound ==
    ASSUME NEW fs, Sound(fs), tick \in Frame
    PROVE  Sound(Opened(fs))
<1>1. Now \in Second /\ Fresh \in Content
  BY NowIsSecond DEF Fresh, Content
<1>. QED
  BY <1>1, ChangedSound DEF Opened

(***************************************************************************)
(* Ending the file of the muxer.                                           *)
(***************************************************************************)
LEMMA EndedSound ==
    ASSUME NEW fs, Sound(fs), NEW m, m.at \in Second
    PROVE  Sound(Ended(fs, m))
<1> DEFINE f == OutputFile(m.at)
           c == [state |-> IF fs[f].frames = {} THEN fs[f].state ELSE "whole", frames |-> fs[f].frames]
<1>1. f \in File
  BY OutputFileType
<1>2. fs[f] \in Content
  BY <1>1 DEF Sound
<1>3. c \in Content
  BY <1>2 DEF Content
<1>4. Ended(fs, m) = [fs EXCEPT ![f] = c]
  BY <1>1, <1>2 DEF Ended, Sound, Content
<1> HIDE DEF c
<1>. QED
  BY <1>3, <1>4, ChangedSound

MuxSound(m) == m \in [on : BOOLEAN, at : Second, start : Frame, cuts : Nat]

(***************************************************************************)
(* A packet leaves the muxer on or off, with the current second or the     *)
(* one it had.                                                             *)
(***************************************************************************)
LEMMA MuxAfterSound ==
    ASSUME NEW fs, NEW m, MuxSound(m), NEW pts, NEW key, tick \in Frame
    PROVE  /\ MuxSound(MuxAfter(fs, m, pts, key))
           /\ MuxAfter(fs, m, pts, key).on = m.on
BY NowIsSecond DEF MuxSound, MuxAfter

(***************************************************************************)
(* Writing a packet, with or without a cut before it.                      *)
(***************************************************************************)
LEMMA FilesAfterSound ==
    ASSUME NEW fs, Sound(fs), NEW m, MuxSound(m), NEW pts, NEW key, tick \in Frame
    PROVE  Sound(FilesAfter(fs, m, pts, key))
<1> DEFINE cut == IF Cut(fs, m, pts, key) THEN Opened(Ended(fs, m)) ELSE fs
           at  == MuxAfter(fs, m, pts, key).at
           f   == OutputFile(at)
           c   == [state |-> cut[f].state, frames |-> cut[f].frames \cup {tick}]
<1>1. m.at \in Second /\ at \in Second
  BY MuxAfterSound DEF MuxSound
<1>2. f \in File
  BY <1>1, OutputFileType
<1>3. Sound(cut)
  BY <1>1, EndedSound, OpenedSound
<1>4. cut[f] \in Content
  BY <1>2, <1>3 DEF Sound
<1>5. c \in Content
  BY <1>4 DEF Content
<1>6. FilesAfter(fs, m, pts, key) = [cut EXCEPT ![f] = c]
  BY <1>2, <1>3, <1>4 DEF FilesAfter, Sound, Content
<1> HIDE DEF c, cut, at
<1>. QED
  BY <1>1, <1>3, <1>5, <1>6, ChangedSound

(***************************************************************************)
(* Moving a file out of the directory of the muxer.                        *)
(***************************************************************************)
LEMMA RenamedSound ==
    ASSUME Sound(files), NEW n \in Name, NEW s \in UnixOf(n)
    PROVE  Sound(Renamed(n, s))
<1> DEFINE from == <<"watch", n>>
           to   == <<"store", s>>
<1>1. from \in File /\ to \in File /\ s \in Second
  BY DEF File, Name, UnixOf
<1>2. files[from] \in Content /\ Blank \in Content
  BY <1>1 DEF Sound, Blank, Content
<1>3. Renamed(n, s) \in [File -> Content]
  BY <1>1, <1>2 DEF Renamed, Sound
<1>4. ASSUME NEW k \in Name, Renamed(n, s)[<<"store", k>>].state # "none" PROVE k \in Second
  <2>1. <<"store", k>> \in File /\ <<"store", k>> # from
    BY DEF File
  <2>2. CASE k = s
    BY <2>2, <1>1
  <2>3. CASE k # s
    <3>1. Renamed(n, s)[<<"store", k>>] = files[<<"store", k>>]
      BY <2>1, <2>3, <1>1 DEF Renamed, Sound
    <3>. QED
      BY <3>1, <1>4 DEF Sound
  <2>. QED
    BY <2>2, <2>3
<1>. QED
  BY <1>3, <1>4 DEF Sound

-----------------------------------------------------------------------------
(***************************************************************************)
(* Who may have the muxer on: the processor of a frame store that runs, or *)
(* the caller of an RTP store before Close has closed its segmenter.       *)
(***************************************************************************)
Owned ==
    /\ processor => kind = "frame" /\ stage \in {"run", "workers"}
    /\ raw # "none" => kind = "rtp"
    /\ stage \in {"down", "renamer"} => raw # "on"

Typed == TypeOK /\ Owned

(***************************************************************************)
(* The part of TypeOK about the muxer, by Sound and MuxSound.              *)
(***************************************************************************)
Rest ==
    /\ tick \in Frame /\ windows \in BOOLEAN /\ written \subseteq Frame
    /\ faults \in [count : 0..MaxFaults, spoilt : BOOLEAN]

LifeTypeOK ==
    /\ kind \in {"frame", "rtp"} /\ stage \in Stage /\ starts \in 0..MaxStarts
    /\ mux.on <=> (encoder.size # 0 \/ raw = "on")

(***************************************************************************)
(* TypeOK in the parts that the steps change.                              *)
(***************************************************************************)
LEMMA TypeParts ==
    TypeOK <=> /\ Sound(files) /\ MuxSound(mux) /\ Rest
               /\ RawTypeOK /\ EncTypeOK /\ RenTypeOK /\ LifeTypeOK
BY DEF TypeOK, MuxTypeOK, Sound, Content, MuxSound, Rest, LifeTypeOK

LEMMA TypePartsNext ==
    TypeOK' <=> /\ Sound(files') /\ MuxSound(mux') /\ Rest'
                /\ RawTypeOK' /\ EncTypeOK' /\ RenTypeOK' /\ LifeTypeOK'
BY DEF TypeOK, MuxTypeOK, Sound, Content, MuxSound, Rest, LifeTypeOK

(***************************************************************************)
(* A fault is counted.                                                     *)
(***************************************************************************)
LEMMA FaultSound ==
    ASSUME NEW k, Rest, Fault(k)
    PROVE  faults' \in [count : 0..MaxFaults, spoilt : BOOLEAN]
BY RateAssumption DEF Rest, Fault

(***************************************************************************)
(* A muxer that is set up, and one that is off.                            *)
(***************************************************************************)
LEMMA MuxOnOff == tick \in Frame => MuxSound(MuxOn) /\ MuxSound(MuxOff)
<1>1. 0 \in Frame /\ 0 \in Second
  <2>1. MaxTick \in Nat /\ MaxTick \div Rate \in Nat
    BY RateAssumption, DivFloor
  <2>. QED
    BY <2>1 DEF Frame, Second
<1>. QED
  BY <1>1, NowIsSecond DEF MuxSound, MuxOn, MuxOff

LEMMA InitTyped == Init => Typed
<1> SUFFICES ASSUME Init PROVE Typed
  OBVIOUS
<1> USE DEF Init, MuxInit, RawInitState, EncInit, RenInit
<1>1. tick \in Frame
  BY RateAssumption DEF Frame
<1>2. Sound(files)
  <2>1. Blank \in Content
    BY DEF Blank, Content
  <2>2. files \in [File -> Content]
    BY <2>1
  <2>3. \A n \in Name : files[<<"store", n>>].state = "none"
    BY DEF File, Blank
  <2>. QED
    BY <2>2, <2>3 DEF Sound
<1>3. MuxSound(mux)
  BY <1>1, MuxOnOff
<1>4. Rest
  BY <1>1, RateAssumption DEF Rest
<1>5. RawTypeOK
  BY DEF RawTypeOK
<1>6. EncTypeOK
  BY DEF EncTypeOK, NoEncoder
<1>7. RenTypeOK
  BY DEF RenTypeOK
<1>8. LifeTypeOK
  BY StartAssumption DEF LifeTypeOK, Stage, MuxOff, NoEncoder
<1>. QED
  BY <1>2, <1>3, <1>4, <1>5, <1>6, <1>7, <1>8, TypeParts DEF Typed, Owned

-----------------------------------------------------------------------------
(***************************************************************************)
(* What a caller does to its segmenter.                                    *)
(***************************************************************************)
LEMMA RawInitTyped ==
    ASSUME Typed, Serving, RawInit, UNCHANGED <<encVars, renVars, lifeVars>>
    PROVE  Typed'
<1> USE DEF encVars, renVars, lifeVars, RawInit, Typed
<1>1. Sound(files') /\ MuxSound(mux') /\ Rest'
  BY TypeParts, OpenedSound, MuxOnOff DEF Rest
<1>2. RawTypeOK' /\ EncTypeOK' /\ RenTypeOK' /\ LifeTypeOK'
  BY TypeParts DEF RawTypeOK, EncTypeOK, RenTypeOK, LifeTypeOK, MuxOn
<1>3. Owned'
  BY DEF Owned, Serving
<1>. QED
  BY <1>1, <1>2, <1>3, TypePartsNext

LEMMA RawWriteTyped ==
    ASSUME Typed, NEW key \in BOOLEAN, RawWrite(key), UNCHANGED <<encVars, renVars, lifeVars>>
    PROVE  Typed'
<1> USE DEF encVars, renVars, lifeVars, Typed
<1>1. UNCHANGED <<tick, windows, raw>> /\ sent' = TRUE
  BY DEF RawWrite
<1>2. /\ Sound(files') /\ MuxSound(mux') /\ mux'.on = mux.on
      /\ written' \subseteq Frame
      /\ faults' \in [count : 0..MaxFaults, spoilt : BOOLEAN]
  BY TypeParts, FilesAfterSound, MuxAfterSound, FaultSound DEF RawWrite, Rest
<1>3. Rest'
  BY <1>1, <1>2, TypeParts DEF Rest
<1>4. RawTypeOK' /\ EncTypeOK' /\ RenTypeOK' /\ LifeTypeOK'
  BY <1>1, <1>2, TypeParts DEF RawTypeOK, EncTypeOK, RenTypeOK, LifeTypeOK
<1>. QED
  BY <1>1, <1>2, <1>3, <1>4, TypePartsNext DEF Owned

(***************************************************************************)
(* Close of a segmenter, by its caller or by the store.                    *)
(***************************************************************************)
LEMMA RawCloseSound ==
    ASSUME Typed, RawClose
    PROVE  /\ Sound(files') /\ MuxSound(mux') /\ Rest' /\ RawTypeOK'
           /\ mux'.on = FALSE /\ raw' # "on" /\ (raw' # "none" => raw # "none")
<1> USE DEF Typed
<1>1. mux.at \in Second
  BY TypeParts DEF MuxSound
<1>2. Sound(files')
  BY <1>1, TypeParts, EndedSound DEF RawClose
<1>3. faults' \in [count : 0..MaxFaults, spoilt : BOOLEAN]
  BY TypeParts, FaultSound DEF RawClose, Rest
<1>4. Rest' /\ MuxSound(mux') /\ mux'.on = FALSE
  BY <1>3, TypeParts, MuxOnOff DEF RawClose, Rest, MuxOff
<1>5. RawTypeOK' /\ raw' # "on" /\ (raw' # "none" => raw # "none")
  BY TypeParts DEF RawClose, RawTypeOK
<1>. QED
  BY <1>2, <1>4, <1>5

LEMMA RawCloseTyped ==
    ASSUME Typed, kind = "rtp", RawClose, UNCHANGED <<encVars, renVars, kind, starts>>,
           stage' \in {stage, "renamer"}
    PROVE  Typed'
<1> USE DEF Typed, encVars, renVars
<1>1. encoder.size = 0 /\ ~processor
  BY DEF Owned, TypeOK, EncTypeOK
<1>2. EncTypeOK' /\ RenTypeOK' /\ LifeTypeOK'
  BY <1>1, RawCloseSound, TypeParts DEF EncTypeOK, RenTypeOK, LifeTypeOK, Stage
<1>. QED
  BY <1>1, <1>2, RawCloseSound, TypePartsNext DEF Owned

-----------------------------------------------------------------------------
(***************************************************************************)
(* The workers of a frame store.                                           *)
(***************************************************************************)
LEMMA WriteTyped ==
    ASSUME Typed, processor, latest # 0, NEW outcome \in Outcome, Write(latest, outcome),
           UNCHANGED <<latest, poller, processor>>, due' = FALSE
    PROVE  /\ Sound(files') /\ MuxSound(mux') /\ written' \subseteq Frame
           /\ EncTypeOK' /\ (mux'.on <=> encoder'.size # 0)
<1> DEFINE size  == latest
           ready == outcome # "setup"
           ended == IF SetUp(size) /\ encoder.size # 0 /\ outcome # "trailer"
                    THEN Ended(files, mux) ELSE files
           fs    == IF SetUp(size) /\ ready THEN Opened(ended) ELSE ended
           m     == IF SetUp(size) THEN MuxOn ELSE mux
           more  == IF outcome # "encode" THEN 1 ELSE 0
<1>1. /\ tick \in Frame /\ Sound(files) /\ MuxSound(mux) /\ written \subseteq Frame
      /\ EncTypeOK /\ size \in Size /\ size # 0
      /\ mux.at \in Second
  BY TypeParts DEF Typed, EncTypeOK, Rest, MuxSound
<1>2. raw = "none"
  BY DEF Typed, Owned, TypeOK, RawTypeOK
<1>3. encoder.size # 0 <=> mux.on
  BY <1>2, TypeParts DEF Typed, LifeTypeOK
<1>4. Sound(ended)
  BY <1>1, EndedSound
<1>5. Sound(fs)
  BY <1>1, <1>4, OpenedSound
<1>6. MuxSound(m) /\ MuxSound(MuxOff)
  BY <1>1, MuxOnOff
<1>7. ready => m.on
  BY <1>1, <1>3 DEF SetUp, MuxOn
<1>8. /\ encoder' = IF ready THEN [size |-> size, count |-> Pts(size) + more] ELSE NoEncoder
      /\ IF outcome \in {"ok", "trailer"}
         THEN /\ files' = FilesAfter(fs, m, Pts(size), TRUE)
              /\ mux' = MuxAfter(fs, m, Pts(size), TRUE)
              /\ written' = written \cup {tick}
         ELSE /\ files' = fs
              /\ mux' = IF ready THEN m ELSE MuxOff
              /\ UNCHANGED written
  BY DEF Write
<1> HIDE DEF ended, fs, m
<1>9. Sound(files') /\ MuxSound(mux') /\ written' \subseteq Frame
  BY <1>1, <1>5, <1>6, <1>8, FilesAfterSound, MuxAfterSound
<1>10. mux'.on = IF ready THEN TRUE ELSE FALSE
  <2>1. CASE outcome \in {"ok", "trailer"}
    <3>1. mux' = MuxAfter(fs, m, Pts(size), TRUE) /\ ready
      BY <2>1, <1>8
    <3>2. MuxAfter(fs, m, Pts(size), TRUE).on = m.on
      BY DEF MuxAfter
    <3>. QED
      BY <3>1, <3>2, <1>6, <1>7 DEF MuxSound
  <2>2. CASE outcome \notin {"ok", "trailer"}
    BY <2>2, <1>6, <1>7, <1>8 DEF MuxSound, MuxOff
  <2>. QED
    BY <2>1, <2>2
<1>11. Pts(size) \in Nat
  BY <1>1 DEF Pts, EncTypeOK
<1>12. Pts(size) + more \in Nat
  BY <1>11
<1>13. /\ encoder' \in [size : Size \cup {0}, count : Nat]
       /\ encoder'.size = IF ready THEN size ELSE 0
  BY <1>1, <1>8, <1>12 DEF NoEncoder
<1>14. EncTypeOK'
  BY <1>1, <1>13 DEF EncTypeOK
<1>. QED
  BY <1>1, <1>9, <1>10, <1>13, <1>14

LEMMA PollTyped ==
    ASSUME Typed, Poll
    PROVE  Typed'
<1>1. UNCHANGED <<rawVars, renVars, lifeVars>>
  BY DEF Poll
<1> USE DEF rawVars, renVars, lifeVars
<1>2. CASE Ask \/ Fetch
  <2>1. EncTypeOK' /\ UNCHANGED muxVars /\ UNCHANGED <<processor, encoder>>
    BY <1>2, TypeParts DEF Ask, Fetch, EncTypeOK, Typed
  <2>. QED
    BY <2>1, <1>1, TypeParts, TypePartsNext
       DEF Typed, muxVars, Sound, MuxSound, Rest, RawTypeOK, RenTypeOK, LifeTypeOK, Owned
<1>3. CASE Encode
  <2>1. UNCHANGED <<tick, windows, latest, poller, processor>> /\ processor /\ due' = FALSE
    BY <1>3 DEF Encode
  <2>2. raw = "none"
    BY <2>1 DEF Typed, Owned, TypeOK, RawTypeOK
  <2>3. /\ Sound(files') /\ MuxSound(mux') /\ written' \subseteq Frame
        /\ EncTypeOK' /\ (mux'.on <=> encoder'.size # 0)
        /\ faults' \in [count : 0..MaxFaults, spoilt : BOOLEAN]
    <3>1. CASE UNCHANGED <<files, mux, written, encoder, faults>>
      BY <3>1, <2>1, <2>2, TypeParts DEF Typed, Rest, EncTypeOK, LifeTypeOK, Sound, MuxSound
    <3>2. CASE \E outcome \in Outcome :
                  /\ latest # 0
                  /\ Write(latest, outcome)
                  /\ IF outcome = "ok" THEN UNCHANGED faults ELSE Fault(outcome)
      <4>1. PICK outcome \in Outcome :
                  /\ latest # 0
                  /\ Write(latest, outcome)
                  /\ IF outcome = "ok" THEN UNCHANGED faults ELSE Fault(outcome)
        BY <3>2
      <4>2. faults' \in [count : 0..MaxFaults, spoilt : BOOLEAN]
        BY <4>1, TypeParts, FaultSound DEF Typed, Rest
      <4>. QED
        BY <4>1, <4>2, <2>1, WriteTyped
    <3>. QED
      BY <3>1, <3>2, <1>3 DEF Encode
  <2>4. Rest'
    BY <2>1, <2>3, TypeParts DEF Typed, Rest
  <2>5. RawTypeOK' /\ RenTypeOK' /\ LifeTypeOK' /\ Owned'
    BY <1>1, <2>1, <2>2, <2>3, TypeParts DEF Typed, RawTypeOK, RenTypeOK, LifeTypeOK, Owned
  <2>. QED
    BY <2>3, <2>4, <2>5, TypePartsNext DEF Typed
<1>. QED
  BY <1>2, <1>3 DEF Poll

LEMMA ProcessorEndsTyped ==
    ASSUME Typed, ProcessorEnds
    PROVE  Typed'
<1> USE DEF ProcessorEnds, ProcessorStops, rawVars, renVars, lifeVars, Typed
<1>1. mux.at \in Second /\ raw = "none"
  BY TypeParts DEF MuxSound, Owned, RawTypeOK
<1>2. Sound(files')
  BY <1>1, TypeParts, EndedSound
<1>3. MuxSound(mux') /\ mux'.on = FALSE
  BY TypeParts, MuxOnOff DEF Rest, MuxOff
<1>4. faults' \in [count : 0..MaxFaults, spoilt : BOOLEAN]
  BY TypeParts, FaultSound DEF Rest
<1>5. Rest'
  BY <1>4, TypeParts DEF Rest
<1>6. RawTypeOK' /\ EncTypeOK' /\ RenTypeOK' /\ LifeTypeOK' /\ Owned'
  BY <1>1, <1>3, TypeParts DEF RawTypeOK, EncTypeOK, NoEncoder, RenTypeOK, LifeTypeOK, Owned
<1>. QED
  BY <1>2, <1>3, <1>5, <1>6, TypePartsNext

-----------------------------------------------------------------------------
(***************************************************************************)
(* The rename workers.                                                     *)
(***************************************************************************)
LEMMA ScanTyped ==
    ASSUME Typed, NEW w \in Worker, NEW pass \in {"busy", "flush"}, Scan(w, pass),
           UNCHANGED <<rawVars, encVars, lifeVars>>
    PROVE  Typed'
<1> USE DEF Scan, rawVars, encVars, lifeVars, Typed
<1>1. RenTypeOK'
  <2>1. Listed \subseteq Name
    BY DEF Listed
  <2>. QED
    BY <2>1, TypeParts DEF RenTypeOK
<1>2. faults' \in [count : 0..MaxFaults, spoilt : BOOLEAN]
  BY TypeParts, FaultSound DEF Rest
<1>3. Rest' /\ Sound(files') /\ MuxSound(mux')
  BY <1>2, TypeParts DEF Rest
<1>4. RawTypeOK' /\ EncTypeOK' /\ LifeTypeOK' /\ Owned'
  BY TypeParts DEF RawTypeOK, EncTypeOK, LifeTypeOK, Owned
<1>. QED
  BY <1>1, <1>3, <1>4, TypePartsNext

LEMMA RenameTyped ==
    ASSUME Typed, NEW w \in Worker, Rename(w), UNCHANGED <<rawVars, encVars, lifeVars>>
    PROVE  Typed'
<1> USE DEF rawVars, encVars, lifeVars, Typed
<1>1. PICK n \in todo[w] :
          /\ todo' = [todo EXCEPT ![w] = @ \ {n}]
          /\ \/ /\ \E s \in UnixOf(n) : files' = Renamed(n, s)
                /\ UNCHANGED faults
             \/ UNCHANGED <<files, faults>>
             \/ Fault("rename") /\ UNCHANGED files
  BY DEF Rename
<1>2. UNCHANGED <<tick, windows, mux, written, renamer>>
  BY DEF Rename
<1>3. n \in Name /\ RenTypeOK'
  BY <1>1, <1>2, TypeParts DEF RenTypeOK
<1>4. Sound(files')
  BY <1>1, <1>3, TypeParts, RenamedSound
<1>5. faults' \in [count : 0..MaxFaults, spoilt : BOOLEAN]
  BY <1>1, TypeParts, FaultSound DEF Rest
<1>6. Rest' /\ MuxSound(mux')
  BY <1>2, <1>5, TypeParts DEF Rest
<1>7. RawTypeOK' /\ EncTypeOK' /\ LifeTypeOK' /\ Owned'
  BY <1>2, TypeParts DEF RawTypeOK, EncTypeOK, LifeTypeOK, Owned
<1>. QED
  BY <1>3, <1>4, <1>6, <1>7, TypePartsNext

LEMMA ScannedTyped ==
    ASSUME Typed, NEW w \in Worker, Scanned(w), UNCHANGED <<rawVars, encVars, lifeVars>>
    PROVE  Typed'
<1> USE DEF Scanned, muxVars, rawVars, encVars, lifeVars, Typed
<1>1. RenTypeOK'
  BY TypeParts DEF RenTypeOK
<1>2. Sound(files') /\ MuxSound(mux') /\ Rest'
  BY TypeParts DEF Rest
<1>3. RawTypeOK' /\ EncTypeOK' /\ LifeTypeOK' /\ Owned'
  BY TypeParts DEF RawTypeOK, EncTypeOK, LifeTypeOK, Owned
<1>. QED
  BY <1>1, <1>2, <1>3, TypePartsNext

-----------------------------------------------------------------------------
(***************************************************************************)
(* The life of the store.                                                  *)
(***************************************************************************)
LEMMA StartTyped == Typed /\ Start => Typed'
<1> SUFFICES ASSUME Typed, Start PROVE Typed'
  OBVIOUS
<1> USE DEF Typed
<1>1. UNCHANGED <<tick, windows, files, mux, written, sent, due, encoder, todo, kind>>
  BY DEF Start
<1>2. /\ stage = "down" /\ starts' \in 0..MaxStarts /\ latest' = 0
      /\ stage' \in {"down", "run"}
      /\ raw' \in {"none", "broken"} /\ (raw' = raw \/ raw' = "none")
      /\ processor' \in BOOLEAN /\ (processor' => kind = "frame" /\ stage' = "run")
      /\ poller' \in {"off", "run", "call", "sleep"}
  <2>1. stage = "down" /\ starts' \in 0..MaxStarts /\ latest' = 0
    BY StartAssumption, TypeParts DEF Start, LifeTypeOK
  <2>2. ~processor /\ processor \in BOOLEAN /\ raw \in {"none", "broken"}
    BY <2>1, TypeParts DEF Owned, RawTypeOK, EncTypeOK
  <2>3. poller' \in {"off", "run", "call", "sleep"} /\ stage' \in {"down", "run"}
    BY <2>1, TypeParts DEF Start, EncTypeOK
  <2>4. raw' \in {"none", "broken"} /\ (raw' = raw \/ raw' = "none")
    BY <2>2 DEF Start
  <2>5. processor' \in BOOLEAN /\ (processor' => kind = "frame" /\ stage' = "run")
    <3>1. CASE stage' = "run" /\ processor' = (kind = "frame")
      BY <3>1, Zenon
    <3>2. CASE processor' = processor
      BY <3>2, <2>2, Zenon
    <3>. QED
      BY <3>1, <3>2 DEF Start
  <2>. QED
    BY <2>1, <2>3, <2>4, <2>5
<1>3. faults' \in [count : 0..MaxFaults, spoilt : BOOLEAN]
  BY TypeParts, FaultSound DEF Start, Rest
<1>4. RenTypeOK'
  BY <1>1, TypeParts DEF Start, RenTypeOK
<1>5. encoder.size = 0 /\ raw # "on"
  BY <1>2, TypeParts DEF Owned, EncTypeOK
<1>6. Sound(files') /\ MuxSound(mux') /\ Rest'
  BY <1>1, <1>3, TypeParts DEF Rest, Sound, MuxSound
<1>7. RawTypeOK' /\ EncTypeOK' /\ LifeTypeOK' /\ Owned'
  BY <1>1, <1>2, <1>5, TypeParts DEF RawTypeOK, EncTypeOK, LifeTypeOK, Stage, Owned
<1>. QED
  BY <1>4, <1>6, <1>7, TypePartsNext

LEMMA CrashTyped == Typed /\ Crash => Typed'
<1> SUFFICES ASSUME Typed, Crash PROVE Typed'
  OBVIOUS
<1> USE DEF Typed, Crash
<1>1. faults' \in [count : 0..MaxFaults, spoilt : BOOLEAN]
  BY TypeParts, FaultSound DEF Rest
<1>2. Sound(files') /\ MuxSound(mux') /\ Rest'
  BY <1>1, TypeParts, MuxOnOff DEF Rest
<1>3. RawTypeOK' /\ EncTypeOK'
  BY TypeParts DEF RawTypeOK, EncTypeOK, NoEncoder
<1>4. RenTypeOK'
  BY DEF RenTypeOK
<1>5. LifeTypeOK' /\ Owned'
  BY TypeParts DEF LifeTypeOK, Stage, Owned, NoEncoder, MuxOff
<1>. QED
  BY <1>2, <1>3, <1>4, <1>5, TypePartsNext

LEMMA TickTyped == Typed /\ Tick => Typed'
<1> SUFFICES ASSUME Typed, Tick PROVE Typed'
  OBVIOUS
<1> USE DEF Typed, Tick, renVars, lifeVars
<1>1. tick' \in Frame
  BY RateAssumption, TypeParts DEF Rest, Frame
<1>2. Sound(files') /\ MuxSound(mux') /\ Rest'
  BY <1>1, TypeParts DEF Rest
<1>3. RawTypeOK' /\ EncTypeOK' /\ RenTypeOK' /\ LifeTypeOK' /\ Owned'
  BY TypeParts DEF RawTypeOK, EncTypeOK, RenTypeOK, LifeTypeOK, Owned
<1>. QED
  BY <1>2, <1>3, TypePartsNext

(***************************************************************************)
(* The steps that touch neither a file nor the muxer.                      *)
(***************************************************************************)
LEMMA QuietTyped ==
    ASSUME Typed, Close \/ WorkersStopped \/ RenamerStopped \/ PollerWakes \/ PollerEnds \/ UNCHANGED vars
    PROVE  Typed'
<1> USE DEF Typed, vars, muxVars, rawVars, encVars, renVars, lifeVars
<1>1. UNCHANGED <<tick, windows, files, mux, written, faults, raw, sent, latest, processor, due, encoder>>
  BY DEF Close, WorkersStopped, RenamerStopped, PollerWakes, Wake, PollerEnds, PollerStops
<1>2. /\ UNCHANGED <<renamer, todo, kind, starts>>
      /\ poller' \in {"off", "run", "call", "sleep"} /\ stage' \in Stage
  BY TypeParts DEF Close, WorkersStopped, RenamerStopped, PollerWakes, Wake, PollerEnds, PollerStops,
                   GoOn, After, Stage, EncTypeOK, LifeTypeOK
<1>3. Owned'
  BY <1>1, <1>2 DEF Owned, Close, WorkersStopped, RenamerStopped, PollerWakes, Wake, PollerEnds,
                    PollerStops, GoOn, After
<1>4. Sound(files') /\ MuxSound(mux') /\ Rest'
  BY <1>1, TypeParts DEF Rest
<1>5. RawTypeOK' /\ EncTypeOK' /\ RenTypeOK' /\ LifeTypeOK'
  BY <1>1, <1>2, TypeParts DEF RawTypeOK, EncTypeOK, RenTypeOK, LifeTypeOK
<1>. QED
  BY <1>3, <1>4, <1>5, TypePartsNext

LEMMA SegmenterClosedTyped == Typed /\ SegmenterClosed => Typed'
<1> SUFFICES ASSUME Typed, SegmenterClosed PROVE Typed'
  OBVIOUS
<1>1. stage' = "renamer" /\ UNCHANGED <<encVars, renVars, kind, starts>> /\ stage = "segmenter"
  BY DEF SegmenterClosed, GoOn, After
<1>2. CASE kind = "rtp"
  BY <1>1, <1>2, RawCloseTyped DEF SegmenterClosed
<1>3. CASE kind # "rtp"
  <2> USE DEF Typed, muxVars, rawVars, encVars, renVars
  <2>1. UNCHANGED <<muxVars, rawVars>> /\ raw = "none"
    BY <1>3 DEF SegmenterClosed, Owned
  <2>2. Sound(files') /\ MuxSound(mux') /\ Rest'
    BY <2>1, TypeParts DEF Rest
  <2>3. RawTypeOK' /\ EncTypeOK' /\ RenTypeOK' /\ LifeTypeOK' /\ Owned'
    BY <1>1, <2>1, TypeParts DEF RawTypeOK, EncTypeOK, RenTypeOK, LifeTypeOK, Stage, Owned
  <2>. QED
    BY <2>2, <2>3, TypePartsNext
<1>. QED
  BY <1>2, <1>3

(***************************************************************************)
(* Every step keeps Typed.                                                 *)
(***************************************************************************)
LEMMA NextTyped == Typed /\ [Next]_vars => Typed'
<1> SUFFICES ASSUME Typed, [Next]_vars PROVE Typed'
  OBVIOUS
<1>1. CASE Start
  BY <1>1, StartTyped
<1>2. CASE Close \/ PollerWakes \/ PollerEnds \/ UNCHANGED vars
  BY <1>2, QuietTyped
<1>3. CASE Closing
  BY <1>3, QuietTyped, SegmenterClosedTyped DEF Closing
<1>4. CASE Crash
  BY <1>4, CrashTyped
<1>5. CASE Tick
  BY <1>5, TickTyped
<1>6. CASE Caller
  <2>1. kind = "rtp" /\ UNCHANGED <<encVars, renVars, lifeVars>>
    BY <1>6 DEF Caller
  <2>2. CASE Serving /\ RawInit
    BY <2>1, <2>2, RawInitTyped
  <2>3. CASE \E key \in BOOLEAN : RawWrite(key)
    BY <2>1, <2>3, RawWriteTyped
  <2>4. CASE RawClose
    BY <2>1, <2>4, RawCloseTyped DEF lifeVars
  <2>. QED
    BY <1>6, <2>2, <2>3, <2>4 DEF Caller
<1>7. CASE Poll
  BY <1>7, PollTyped
<1>8. CASE ProcessorEnds
  BY <1>8, ProcessorEndsTyped
<1>9. CASE Flush
  BY <1>9, ScanTyped, StartAssumption DEF Flush, Own, Worker
<1>10. CASE \E w \in Worker : RenamerStep(w)
  BY <1>10, ScanTyped, RenameTyped, ScannedTyped DEF RenamerStep
<1>. QED
  BY <1>1, <1>2, <1>3, <1>4, <1>5, <1>6, <1>7, <1>8, <1>9, <1>10 DEF Next

LEMMA AlwaysTyped == Spec => []Typed
BY InitTyped, NextTyped, PTL DEF Spec

(***************************************************************************)
(* Whatever the callers, the camera and the faults do, the state is one    *)
(* the code can handle: the muxer is on exactly when its owner has it, and *)
(* every name in the storage directory is a Unix second.                   *)
(***************************************************************************)
THEOREM RecorderTyped == Spec => []TypeOK
BY AlwaysTyped, PTL DEF Typed

-----------------------------------------------------------------------------
(***************************************************************************)
(* The pace of a muxer: NeverAhead as a property of one.                   *)
(***************************************************************************)
Behind(m) == m.at * Rate + Rate > m.start + SegLen * Rate * m.cuts

(***************************************************************************)
(* The frames an encoder has counted are those of the ticks since its      *)
(* setup, the one its processor has not encoded yet left out: there may be *)
(* fewer, and never more, however late the processor is.                   *)
(***************************************************************************)
Paced ==
    /\ mux.on => mux.start <= tick /\ Behind(mux)
    /\ encoder.size # 0 =>
          encoder.count <= tick - mux.start + (IF due THEN 0 ELSE 1)

(***************************************************************************)
(* A muxer starts in pace.                                                 *)
(***************************************************************************)
LEMMA MuxOnPaced == tick \in Frame => Behind(MuxOn)
<1> SUFFICES ASSUME tick \in Frame PROVE Behind(MuxOn)
  OBVIOUS
<1>1. tick \in Nat /\ Rate \in Nat \ {0} /\ SegLen \in Nat
  BY RateAssumption DEF Frame
<1>2. Now \in Nat /\ tick < Rate * Now + Rate
  BY <1>1, DivFloor DEF Now
<1>3. Rate * Now = Now * Rate /\ SegLen * Rate * 0 = 0
  BY <1>1, <1>2, SMT
<1>. QED
  BY <1>1, <1>2, <1>3, SMT DEF Behind, MuxOn

(***************************************************************************)
(* A packet whose timestamp is not ahead of the clock keeps it in pace: a  *)
(* cut needs a timestamp that has reached the length of all the segments   *)
(* so far, and the new one opens at the clock.                             *)
(***************************************************************************)
LEMMA MuxAfterPaced ==
    ASSUME NEW fs, NEW m, MuxSound(m), tick \in Frame, NEW pts \in Nat, NEW key,
           pts <= tick - m.start, Behind(m)
    PROVE  Behind(MuxAfter(fs, m, pts, key))
<1> DEFINE n == MuxAfter(fs, m, pts, key)
<1>1. /\ tick \in Nat /\ Rate \in Nat \ {0} /\ SegLen \in Nat
      /\ m.start \in Nat /\ m.cuts \in Nat
  BY RateAssumption DEF Frame, MuxSound
<1>2. CASE Cut(fs, m, pts, key)
  <2>1. n.at = Now /\ n.start = m.start /\ n.cuts = m.cuts + 1
    BY <1>2 DEF MuxAfter
  <2>2. Now \in Nat /\ tick < Rate * Now + Rate
    BY <1>1, DivFloor DEF Now
  <2>3. SegLen * Rate * (m.cuts + 1) <= pts
    BY <1>1, <1>2 DEF Cut
  <2>4. SegLen * Rate * (m.cuts + 1) \in Nat /\ Now * Rate \in Nat /\ Rate * Now = Now * Rate
    BY <1>1, <2>2, SMT
  <2>5. Now * Rate + Rate > m.start + SegLen * Rate * (m.cuts + 1)
    BY <1>1, <2>2, <2>3, <2>4, SMT
  <2>. QED
    BY <2>1, <2>5 DEF Behind
<1>3. CASE ~Cut(fs, m, pts, key)
  BY <1>3 DEF MuxAfter
<1>. QED
  BY <1>2, <1>3

(***************************************************************************)
(* A frame that is encoded.                                                *)
(***************************************************************************)
LEMMA WritePaced ==
    ASSUME Typed, Paced, processor, due, due' = FALSE, tick' = tick,
           latest # 0, NEW outcome \in Outcome, Write(latest, outcome)
    PROVE  Paced'
<1> DEFINE size  == latest
           ready == outcome # "setup"
           ended == IF SetUp(size) /\ encoder.size # 0 /\ outcome # "trailer"
                    THEN Ended(files, mux) ELSE files
           fs    == IF SetUp(size) /\ ready THEN Opened(ended) ELSE ended
           m     == IF SetUp(size) THEN MuxOn ELSE mux
           more  == IF outcome # "encode" THEN 1 ELSE 0
<1>1. /\ tick \in Frame /\ tick \in Nat /\ MuxSound(mux) /\ mux.start \in Nat
      /\ encoder.count \in Nat /\ encoder.size \in Size \cup {0}
      /\ size \in Size /\ size # 0
  BY TypeParts, RateAssumption DEF Typed, EncTypeOK, Rest, MuxSound, Frame
<1>2. encoder.size # 0 => mux.on
  BY TypeParts DEF Typed, LifeTypeOK
<1>3. /\ MuxSound(m) /\ Pts(size) \in Nat
      /\ m.start <= tick /\ Pts(size) <= tick - m.start /\ Behind(m)
  <2>1. CASE SetUp(size)
    <3>1. MuxOn.start = tick
      BY DEF MuxOn
    <3>. QED
      BY <2>1, <3>1, <1>1, MuxOnOff, MuxOnPaced DEF Pts
  <2>2. CASE ~SetUp(size)
    BY <2>2, <1>1, <1>2 DEF SetUp, Pts, Paced
  <2>. QED
    BY <2>1, <2>2
<1>4. m.start \in Nat
  BY <1>1, <1>3 DEF MuxSound, Frame
<1>5. /\ encoder' = IF ready THEN [size |-> size, count |-> Pts(size) + more] ELSE NoEncoder
      /\ mux' = IF outcome \in {"ok", "trailer"} THEN MuxAfter(fs, m, Pts(size), TRUE)
                ELSE IF ready THEN m ELSE MuxOff
  BY DEF Write
<1> HIDE DEF fs, m
<1>6. CASE ~ready
  BY <1>5, <1>6 DEF Paced, NoEncoder, MuxOff
<1>7. CASE ready
  <2>1. mux' = MuxAfter(fs, m, Pts(size), TRUE) \/ mux' = m
    BY <1>5, <1>7
  <2>2. mux'.start = m.start /\ Behind(mux')
    <3>1. Behind(MuxAfter(fs, m, Pts(size), TRUE))
      BY <1>1, <1>3, MuxAfterPaced
    <3>2. MuxAfter(fs, m, Pts(size), TRUE).start = m.start
      BY DEF MuxAfter
    <3>. QED
      BY <2>1, <3>1, <3>2, <1>3
  <2>3. encoder'.count = Pts(size) + more /\ more \in {0, 1}
    BY <1>5, <1>7
  <2>4. encoder'.count <= tick - mux'.start + 1
    BY <2>2, <2>3, <1>1, <1>3, <1>4
  <2>5. Behind(mux)'
    BY <2>2 DEF Behind
  <2>. QED
    BY <2>2, <2>4, <2>5, <1>3 DEF Paced
<1>. QED
  BY <1>6, <1>7

(***************************************************************************)
(* A packet of a stream.                                                   *)
(***************************************************************************)
LEMMA RawWritePaced ==
    ASSUME Typed, Paced, kind = "rtp", NEW key \in BOOLEAN, RawWrite(key), UNCHANGED encVars
    PROVE  Paced'
<1>1. /\ tick \in Frame /\ tick \in Nat /\ MuxSound(mux) /\ mux.start \in Nat
      /\ encoder.size = 0
  BY TypeParts, RateAssumption DEF Typed, EncTypeOK, Rest, MuxSound, Frame, Owned
<1>2. tick' = tick /\ encoder' = encoder
  BY DEF RawWrite, encVars
<1>3. CASE raw = "on" /\ mux' = MuxAfter(files, mux, tick - mux.start, key)
  <2>1. mux.on
    BY <1>3, TypeParts DEF Typed, LifeTypeOK
  <2>2. mux.start <= tick /\ Behind(mux) /\ tick - mux.start \in Nat
    BY <1>1, <2>1 DEF Paced
  <2>3. Behind(mux')
    BY <1>1, <1>3, <2>2, MuxAfterPaced
  <2>4. mux'.start = mux.start
    BY <1>3 DEF MuxAfter
  <2>5. Behind(mux)'
    BY <2>3 DEF Behind
  <2>. QED
    BY <1>1, <1>2, <2>2, <2>4, <2>5 DEF Paced
<1>4. CASE UNCHANGED mux
  BY <1>1, <1>2, <1>4 DEF Paced, Behind
<1>. QED
  BY <1>3, <1>4 DEF RawWrite

(***************************************************************************)
(* A tick: the processor owes one frame more.                              *)
(***************************************************************************)
LEMMA TickPaced ==
    ASSUME Typed, Paced, Tick
    PROVE  Paced'
<1>1. /\ tick \in Nat /\ mux.start \in Nat /\ encoder.count \in Nat
      /\ encoder.size # 0 => mux.on /\ processor
  BY TypeParts, RateAssumption DEF Typed, EncTypeOK, Rest, MuxSound, Frame, LifeTypeOK
<1>2. /\ tick' = tick + 1 /\ mux' = mux /\ encoder' = encoder /\ due' = processor
  BY DEF Tick
<1>3. mux.on => mux.start <= tick /\ Behind(mux)
  BY DEF Paced
<1>4. encoder.size # 0 => encoder.count <= tick - mux.start + 1
  BY <1>1 DEF Paced
<1>5. encoder'.size # 0 => encoder'.count <= tick' - mux'.start + (IF due' THEN 0 ELSE 1)
  <2>1. ASSUME encoder.size # 0 PROVE encoder.count <= (tick + 1) - mux.start
    BY <2>1, <1>1, <1>4
  <2>. QED
    BY <2>1, <1>1, <1>2
<1>6. mux'.on => mux'.start <= tick' /\ Behind(mux)'
  BY <1>1, <1>2, <1>3 DEF Behind
<1>. QED
  BY <1>5, <1>6 DEF Paced

(***************************************************************************)
(* A muxer that is off has no pace to keep, nor one that is left alone.    *)
(***************************************************************************)
LEMMA OffPaced ==
    ASSUME mux' = MuxOff, encoder'.size = 0
    PROVE  Paced'
BY DEF Paced, MuxOff

LEMMA SamePaced ==
    ASSUME Paced, UNCHANGED <<tick, mux, encoder, due>>
    PROVE  Paced'
BY DEF Paced, Behind

LEMMA NextPaced == Typed /\ Paced /\ [Next]_vars => Paced'
<1> SUFFICES ASSUME Typed, Paced, [Next]_vars PROVE Paced'
  OBVIOUS
<1>1. tick \in Frame /\ (kind = "rtp" => encoder.size = 0)
  BY TypeParts DEF Typed, EncTypeOK, Rest, Owned
<1>2. CASE Start \/ Close \/ WorkersStopped \/ RenamerStopped \/ UNCHANGED vars
  BY <1>2, SamePaced
     DEF Start, Close, WorkersStopped, RenamerStopped, GoOn, vars, muxVars, encVars
<1>3. CASE PollerWakes \/ PollerEnds \/ Flush \/ \E w \in Worker : RenamerStep(w)
  BY <1>3, SamePaced
     DEF PollerWakes, Wake, PollerEnds, PollerStops, Flush, RenamerStep, Scan, Rename, Scanned,
         muxVars, encVars
<1>4. CASE SegmenterClosed
  <2>1. CASE kind = "rtp"
    BY <1>1, <1>4, <2>1, OffPaced DEF SegmenterClosed, RawClose, encVars
  <2>2. CASE kind # "rtp"
    BY <1>4, <2>2, SamePaced DEF SegmenterClosed, muxVars, encVars
  <2>. QED
    BY <2>1, <2>2
<1>5. CASE Crash
  BY <1>5, OffPaced DEF Crash, NoEncoder
<1>6. CASE Tick
  BY <1>6, TickPaced
<1>7. CASE Caller
  <2>1. kind = "rtp" /\ UNCHANGED <<encVars, renVars, lifeVars>>
    BY <1>7 DEF Caller
  <2>2. CASE RawInit
    <3>1. mux' = MuxOn /\ tick' = tick /\ encoder'.size = 0
      BY <1>1, <2>1, <2>2 DEF RawInit, encVars
    <3>2. Behind(mux)' /\ mux'.start = tick
      BY <1>1, <3>1, MuxOnPaced DEF Behind, MuxOn
    <3>3. tick <= tick
      BY <1>1, RateAssumption DEF Frame
    <3>. QED
      BY <3>1, <3>2, <3>3 DEF Paced
  <2>3. CASE \E key \in BOOLEAN : RawWrite(key)
    BY <2>1, <2>3, RawWritePaced
  <2>4. CASE RawClose
    BY <1>1, <2>1, <2>4, OffPaced DEF RawClose, encVars
  <2>. QED
    BY <1>7, <2>2, <2>3, <2>4 DEF Caller
<1>8. CASE Poll
  <2>1. CASE Ask \/ Fetch
    BY <2>1, SamePaced DEF Ask, Fetch, muxVars
  <2>2. CASE Encode
    <3>1. processor /\ due /\ due' = FALSE /\ tick' = tick
      BY <2>2 DEF Encode
    <3>2. CASE UNCHANGED <<files, mux, written, encoder, faults>>
      <4>1. encoder.count \in Nat /\ tick \in Nat /\ mux.start \in Nat
        BY TypeParts, RateAssumption DEF Typed, EncTypeOK, Rest, MuxSound, Frame
      <4>2. encoder.size # 0 => encoder.count <= tick - mux.start + 1
        BY <3>1, <4>1 DEF Paced
      <4>. QED
        BY <3>1, <3>2, <4>2 DEF Paced, Behind
    <3>3. CASE \E outcome \in Outcome : latest # 0 /\ Write(latest, outcome)
      BY <3>1, <3>3, WritePaced
    <3>. QED
      BY <2>2, <3>2, <3>3 DEF Encode
  <2>. QED
    BY <1>8, <2>1, <2>2 DEF Poll
<1>9. CASE ProcessorEnds
  BY <1>9, OffPaced DEF ProcessorEnds, ProcessorStops, NoEncoder
<1>. QED
  BY <1>2, <1>3, <1>4, <1>5, <1>6, <1>7, <1>8, <1>9 DEF Next, Closing

LEMMA InitPaced == Init => Paced
BY DEF Init, MuxInit, EncInit, NoEncoder, MuxOff, Paced

(***************************************************************************)
(* For every frame rate and segment length, the segment after n cuts is at *)
(* least n segment lengths younger than the first, whatever frames were    *)
(* lost and however late the processor was: a change of the frame size     *)
(* resets the count of frames together with the muxer.                     *)
(***************************************************************************)
THEOREM RecorderNeverAhead == Spec => []NeverAhead
<1>1. Init => Paced
  BY InitPaced
<1>2. Typed /\ Paced /\ [Next]_vars => Paced'
  BY NextPaced
<1>3. Paced => NeverAhead
  BY DEF Paced, Behind, NeverAhead
<1>. QED
  BY <1>1, <1>2, <1>3, AlwaysTyped, PTL DEF Spec
=============================================================================
