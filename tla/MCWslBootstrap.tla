--------------------------- MODULE MCWslBootstrap ---------------------------
(* WslBootstrap for TLC: every constant is a number or a Boolean. *)
EXTENDS WslBootstrap
=============================================================================
