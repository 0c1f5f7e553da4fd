----------------------------- MODULE MCHeapQueue -----------------------------
(***************************************************************************)
(* Instance of HeapQueue for TLC.  Six places are the least with which the *)
(* item that heap.Remove moves may have to go up.                          *)
(***************************************************************************)
EXTENDS HeapQueue, TLC

CONSTANTS h1, h2, n1, n2, l1, l2, l3, w1

MCItems     == {h1, h2, n1, n2, l1, l2, l3}
MCWorkers   == {w1}
MCPriority  == h1 :> 1 @@ h2 :> 1 @@ n1 :> 2 @@ n2 :> 2 @@ l1 :> 3 @@ l2 :> 3 @@ l3 :> 3
\* Items of one tier that were created in the same instant are alike.
MCCreatedAt == h1 :> 1 @@ h2 :> 2 @@ n1 :> 3 @@ n2 :> 3 @@ l1 :> 1 @@ l2 :> 4 @@ l3 :> 4
Symmetry    == Permutations({n1, n2}) \cup Permutations({l2, l3})
=============================================================================
