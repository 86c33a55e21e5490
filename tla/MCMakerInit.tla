---------------------------- MODULE MCMakerInit ----------------------------
(* Instances of MakerInit for TLC. *)
EXTENDS MakerInit
=============================================================================
