------------------------------ MODULE MCStorage ------------------------------
(***************************************************************************)
(* Storage for TLC; the configurations give the constants.                 *)
(***************************************************************************)
EXTENDS Storage
=============================================================================
