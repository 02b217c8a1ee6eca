----------------------------- MODULE MCPEBuild -----------------------------
(* PEBuild for TLC: its constants are sets of strings, a flag and a bound.   *)
EXTENDS PEBuild
=============================================================================
