---------------------------- MODULE MCToolCache ----------------------------
(* ToolCache for TLC: the docker tag of each recipe.                         *)
EXTENDS ToolCache
CONSTANTS tool, payload, url, nix, engine
NixTag == [r \in {nix} |-> r]
=============================================================================
