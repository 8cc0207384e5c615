------------------------------- MODULE Renamer -------------------------------
(***************************************************************************)
(* videostore/renamer.go: the worker that on Windows moves the complete    *)
(* segments from the directory of the muxer, where they have local names,  *)
(* to the storage directory, where they have Unix ones.                    *)
(*                                                                         *)
(* Besides the worker of the store there may be ghosts: those of frame     *)
(* stores whose constructor failed after it had started them, for good.    *)
(***************************************************************************)
EXTENDS SegmentMuxer

CONSTANT MaxStarts   \* bound: constructions of the store in one behaviour

ASSUME StartAssumption == MaxStarts \in Nat

VARIABLES
    renamer,   \* each worker: "off", "wait", "busy", or "flush", the last pass
    todo       \* the files it listed and has not tried to move yet

renVars == <<renamer, todo>>

Own    == 0              \* the worker of the store
Worker == 0..MaxStarts   \* and the one the n-th construction has leaked

RenTypeOK ==
    /\ renamer \in [Worker -> {"off", "wait", "busy", "flush"}]
    /\ todo \in [Worker -> SUBSET Name]

RenInit ==
    /\ renamer = [w \in Worker |-> "off"]
    /\ todo = [w \in Worker |-> {}]

Listed_Recent ==  \* mutant: a file that was not moved at once is not tried again
    {n \in Name : /\ files[<<"watch", n>>].state = "whole"
                  /\ \E s \in Second : s + 1 >= Now /\ n = Local(s)}

(***************************************************************************)
(* getMPEGFiles: the complete files.                                       *)
(***************************************************************************)
Listed == {n \in Name : files[<<"watch", n>>].state = "whole"}

(***************************************************************************)
(* scanAndProcessFiles, at a tick of the ticker or, the last time, when    *)
(* the context is done.  The directory may fail to be read, or a complete  *)
(* file to be probed, and is then left for a later scan.                   *)
(***************************************************************************)
Scan(w, pass) ==
    /\ renamer[w] = "wait"
    /\ renamer' = [renamer EXCEPT ![w] = pass]
    /\ \/ todo' = [todo EXCEPT ![w] = Listed] /\ UNCHANGED faults
       \/ /\ Fault("list")
          /\ \E found \in SUBSET Listed : todo' = [todo EXCEPT ![w] = found]
    /\ UNCHANGED <<tick, windows, files, mux, written>>

UnixOf_Utc(n) == {n}   \* mutant: the local time is taken for UTC

(***************************************************************************)
(* convertFilenameToUnixTimestamp: a second with this local time.          *)
(***************************************************************************)
UnixOf(n) == {s \in Second : Local(s) = n}

Renamed_CopyFirst(n, s) ==  \* mutant: the copy replaces, the original is emptied
    [files EXCEPT ![<<"store", s>>] = Fresh, ![<<"watch", n>>] = Blank]

(***************************************************************************)
(* os.Rename replaces a file that has the new name.                        *)
(***************************************************************************)
Renamed(n, s) ==
    [files EXCEPT ![<<"store", s>>] = files[<<"watch", n>>], ![<<"watch", n>>] = Blank]

(***************************************************************************)
(* One file of the list.  It cannot be moved when it is gone, or open, or  *)
(* for another reason; the error is logged and a later scan tries again.   *)
(***************************************************************************)
Movable(n) == files[<<"watch", n>>].state # "none" /\ ~(mux.on /\ Current = <<"watch", n>>)

Rename(w) ==
    /\ \E n \in todo[w] :
          /\ \A k \in todo[w] : n <= k
          /\ todo' = [todo EXCEPT ![w] = @ \ {n}]
          /\ \/ /\ Movable(n)
                /\ \E s \in UnixOf(n) : files' = Renamed(n, s)
                /\ UNCHANGED faults
             \/ ~Movable(n) /\ UNCHANGED <<files, faults>>
             \/ Movable(n) /\ Fault("rename") /\ UNCHANGED files
    /\ UNCHANGED <<tick, windows, mux, written, renamer>>

Scanned(w) ==
    /\ renamer[w] \in {"busy", "flush"}
    /\ todo[w] = {}
    /\ renamer' = [renamer EXCEPT ![w] = IF @ = "busy" THEN "wait" ELSE "off"]
    /\ UNCHANGED <<muxVars, todo>>
=============================================================================
