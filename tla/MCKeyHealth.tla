---------------------------- MODULE MCKeyHealth ----------------------------
(***************************************************************************)
(* Instances of KeyHealth for TLC.                                         *)
(***************************************************************************)
EXTENDS KeyHealth, TLC

CONSTANTS w1, w2

TwoWorkers  == {w1, w2}
TwoSymmetry  == Permutations(TwoWorkers)
=============================================================================
