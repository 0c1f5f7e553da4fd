---------------------------- MODULE MCStrategies ----------------------------
(***************************************************************************)
(* Instances of Strategies for TLC: all weights up to MaxWeight are tried. *)
(***************************************************************************)
EXTENDS Strategies

\* Every key available on every call.
FullList == {Keys}
=============================================================================
