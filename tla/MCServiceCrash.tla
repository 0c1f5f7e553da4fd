--------------------------- MODULE MCServiceCrash ---------------------------
(***************************************************************************)
(* Instances of ServiceCrash for TLC.                                      *)
(***************************************************************************)
EXTENDS ServiceCrash, TLC

CONSTANTS r1, r2, w1, w2

TwoRequests == {r1, r2}
TwoWorkers  == {w1, w2}
WorkerSymmetry == Permutations(Workers)

\* Both requests without an idempotency key, or both with the same one.
MCSubmissions == {[r \in Items |-> NoIdem], [r \in Items |-> "key"]}

\* One key with one slot, for which the workers contend.
OneSlot == [k \in Keys |-> 1]

MCPriority  == [r \in Items |-> IF r = r1 THEN 1 ELSE 3]
MCCreatedAt == [r \in Items |-> IF r = r1 THEN 2 ELSE 1]
=============================================================================
