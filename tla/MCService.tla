------------------------------ MODULE MCService ------------------------------
(***************************************************************************)
(* Instances of Service for TLC: requests of different tiers, two workers. *)
(***************************************************************************)
EXTENDS Service, TLC

CONSTANTS r1, r2, w1, w2

TwoRequests == {r1, r2}
TwoWorkers  == {w1, w2}
WorkerSymmetry == Permutations(Workers)

\* Both requests without an idempotency key, or both with the same one.
MCSubmissions == {[r \in Items |-> NoIdem], [r \in Items |-> "key"]}

\* One key with a slot for each worker.
TwoSlots == [k \in Keys |-> 2]

MCPriority  == [r \in Items |-> IF r = r1 THEN 1 ELSE 3]
MCCreatedAt == [r \in Items |-> IF r = r1 THEN 2 ELSE 1]
=============================================================================
