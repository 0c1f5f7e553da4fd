----------------------------- MODULE QueueOrder -----------------------------
(***************************************************************************)
(* How far the queue departs from priority order.  dispatchLoop pops an    *)
(* item before it knows that a worker is free, so an item that is enqueued *)
(* while it blocks in the send can be passed by the one in its hand.  The  *)
(* history variable overtaken counts, for every item in the heap, the      *)
(* deliveries of worse items since it was pushed; it observes Queue and    *)
(* restricts nothing.                                                      *)
(***************************************************************************)
EXTENDS Queue

VARIABLE overtaken

orderVars == <<vars, overtaken>>

\* The items a worker receives in this step.
Delivered == {i \in Items : \E w \in Workers : held[w] # i /\ held'[w] = i}

\* Does this step deliver an item that is worse than i?  (No step delivers two.)
Passes(i) == IF \E j \in Delivered : Less(i, j) THEN 1 ELSE 0

Observe ==
  overtaken' = [i \in Items |-> IF i \in pq /\ i \in pq' THEN overtaken[i] + Passes(i) ELSE 0]

OrderInit == Init /\ overtaken = [i \in Items |-> 0]

OrderNext == Next /\ Observe

OrderSpec == OrderInit /\ [][OrderNext]_orderVars

FairOrderSpec == OrderSpec /\ Fairness

-----------------------------------------------------------------------------
\* The debt of an item: how often it was passed, and once more if the item in
\* the dispatcher's hand is worse and so about to pass it.
Debt(i) == overtaken[i] + (IF hand # None /\ Less(i, hand) THEN 1 ELSE 0)

\* Bounded priority inversion: between its push and its pop an item is
\* overtaken by at most one worse item, however many are enqueued and
\* delivered meanwhile (dispatchLoop, queue.go:143-159).
BoundedInversion == \A i \in pq : overtaken[i] <= 1

\* The inductive form: the passing item and the one about to pass add up.
BoundedDebt == /\ overtaken \in [Items -> Nat]
               /\ \A i \in pq : Debt(i) <= 1
=============================================================================
