------------------------------ MODULE MCKeyPool ------------------------------
(***************************************************************************)
(* Instances of KeyPool for TLC.                                           *)
(***************************************************************************)
EXTENDS KeyPool, TLC

CONSTANTS k1, k2, k3, w1, w2

TwoKeys   == {k1, k2}
ThreeKeys == {k1, k2, k3}
MCWorkers == {w1, w2}

\* Workers are alike, and so are keys with equal limits.
Symmetry == Permutations(MCWorkers) \cup Permutations(Keys)

Minute == {"minute"}

\* One slot per key, so that two workers contend for it.
OneSlot == [k \in Keys |-> 1]

\* One grant a minute and two a day: both windows refuse at some point.
Grants == [k \in Keys |-> [win \in Windows |-> IF win = "minute" THEN 1 ELSE 2]]
=============================================================================
