----------------------------- MODULE MCRecorder ------------------------------
(***************************************************************************)
(* Recorder for TLC: a zone one second ahead of UTC.                       *)
(***************************************************************************)
EXTENDS Recorder

OneAhead == [s \in Second |-> 1]
=============================================================================
