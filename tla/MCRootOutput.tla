---------------------------- MODULE MCRootOutput ----------------------------
(* Instance of RootOutput for TLC. *)
EXTENDS RootOutput
=============================================================================
