---------------------------- MODULE MCWimBuilder ----------------------------
(* WimBuilder for TLC: its constants are Booleans and its states finite. *)
EXTENDS WimBuilder
=============================================================================
