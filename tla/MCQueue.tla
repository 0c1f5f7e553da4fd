------------------------------ MODULE MCQueue ------------------------------
(***************************************************************************)
(* Instance of QueueOrder for TLC: two workers, so that deliveries go on   *)
(* while an item waits, and items of every tier.                           *)
(***************************************************************************)
EXTENDS QueueOrder, TLC

CONSTANTS h1, n1, n2, l1, l2, w1, w2

MCItems     == {h1, n1, n2, l1, l2}
MCWorkers   == {w1, w2}
MCPriority  == h1 :> 1 @@ n1 :> 2 @@ n2 :> 2 @@ l1 :> 3 @@ l2 :> 3
MCCreatedAt == h1 :> 1 @@ n1 :> 2 @@ n2 :> 3 @@ l1 :> 1 @@ l2 :> 4
=============================================================================
