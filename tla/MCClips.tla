------------------------------- MODULE MCClips -------------------------------
(***************************************************************************)
(* Clips for TLC: which requests meet in one behaviour.                    *)
(***************************************************************************)
EXTENDS Clips

(***************************************************************************)
(* Two requests, of each pair of kinds, that start at the same second: the *)
(* paths of two fetches, and of two saves, are the same.                   *)
(***************************************************************************)
MixedAsks ==
    {<<1, "fetch", 1, 3>>, <<1, "async", 1, 1>>,
     <<2, "stream", 1, 2>>, <<2, "save", 1, 3>>}

(***************************************************************************)
(* The source changes its resolution, and changes it back.                 *)
(***************************************************************************)
BackAndForth == <<"sd", "hd", "sd">>
=============================================================================
