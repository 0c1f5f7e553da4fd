------------------------------ MODULE KeySlots ------------------------------
(***************************************************************************)
(* What the key pool promises to its users, whatever goes on inside: every *)
(* key has a number of slots, GetKey gives a worker without a key a free   *)
(* slot of some key, ReleaseKey takes it back.  No reload, deletion, rate  *)
(* limit or open circuit takes a key away from a worker that uses it.      *)
(*                                                                         *)
(* KeyPool implements this specification; Service is built on it.          *)
(***************************************************************************)
EXTENDS Integers, FiniteSets

CONSTANTS Keys, Workers, ConcurrentLimit

VARIABLE holders   \* the workers that use each key

HasKey(w) == \E k \in Keys : w \in holders[k]

\* GetKey returns k.
Grant(w, k) ==
  /\ ~ HasKey(w) /\ Cardinality(holders[k]) < ConcurrentLimit[k]
  /\ holders' = [holders EXCEPT ![k] = @ \cup {w}]

\* ReleaseKey(k).
Return(w, k) ==
  /\ w \in holders[k]
  /\ holders' = [holders EXCEPT ![k] = @ \ {w}]

Init == holders = [k \in Keys |-> {}]
Next == \E w \in Workers, k \in Keys : Grant(w, k) \/ Return(w, k)
Spec == Init /\ [][Next]_holders
=============================================================================
