-------------------------- MODULE QueueOrderProofs --------------------------
(***************************************************************************)
(* The order in which the queue serves its items, for every set of items   *)
(* and workers, every capacity, and every assignment of priorities.        *)
(***************************************************************************)
EXTENDS QueueOrder, QueueProofs

\* The history variable observes the queue and does not restrict it.
LEMMA OrderRefines == OrderSpec => Spec
<1>1. OrderInit => Init
  BY DEF OrderInit
<1>2. [OrderNext]_orderVars => [Next]_vars
  BY DEF OrderNext, orderVars
<1> QED BY <1>1, <1>2, PTL DEF OrderSpec, Spec

\* A step that moves no item to a worker passes nobody.
LEMMA NothingDelivered ==
  ASSUME TypeOK, \A w \in Workers : held'[w] \in {held[w], None}
  PROVE  \A i : Passes(i) = 0
BY ItemsAssumption DEF Passes, Delivered, TypeOK

\* A step that moves one item to one worker passes exactly the better ones.
LEMMA OneDelivered ==
  ASSUME TypeOK, NEW w \in Workers, NEW j \in Items, held' = [held EXCEPT ![w] = j]
  PROVE  \A i : ~ Less(i, j) => Passes(i) = 0
BY DEF Passes, Delivered, TypeOK

\* Priority inversion is bounded: no item in the heap has been passed by more
\* than one worse item.  The debt also counts the item in the dispatcher's
\* hand, the only one that can still pass: Pop takes a Less-minimal item, so a
\* new hand is never worse than what stays in the heap.
THEOREM BoundedInversionHolds == OrderSpec => []BoundedInversion
<1>1. OrderInit => BoundedDebt
  BY DEF OrderInit, Init, BoundedDebt
<1>2. TypeOK /\ BoundedDebt /\ [OrderNext]_orderVars => BoundedDebt'
  <2> SUFFICES ASSUME TypeOK, BoundedDebt, [OrderNext]_orderVars
               PROVE  BoundedDebt'
    OBVIOUS
  <2>1. CASE UNCHANGED orderVars
    BY <2>1 DEF orderVars, vars, BoundedDebt, Debt, Less
  <2>2. CASE Next /\ Observe
    <3>1. overtaken' \in [Items -> Nat]
      BY <2>2 DEF Observe, Passes, BoundedDebt
    <3>2. \A i \in pq : overtaken[i] \in Nat /\ Debt(i) <= 1
      BY DEF BoundedDebt, TypeOK
    <3>3. \A i \in Items : overtaken'[i] = IF i \in pq /\ i \in pq' THEN overtaken[i] + Passes(i) ELSE 0
      BY <2>2 DEF Observe
    <3> DEFINE Owed(i) == IF hand # None /\ Less(i, hand) THEN 1 ELSE 0
    <3>4. \A i : Passes(i) \in {0, 1} /\ Owed(i) \in {0, 1}
      BY DEF Passes
    <3> DEFINE Settled == pq' \subseteq Items /\ \A i \in pq \cap pq' : Passes(i) + Owed(i)' <= Owed(i)
    <3>5. Settled
      <4>1. CASE pq' \subseteq Items /\ hand' = hand /\ \A w \in Workers : held'[w] \in {held[w], None}
        BY <4>1, <3>4, NothingDelivered DEF Less
      <4>2. CASE Pop
        <5>1. /\ pq' \subseteq Items /\ held' = held
              /\ \A i \in pq : ~ Less(i, hand')
          BY <2>2, <4>2 DEF Pop, PopItem, Front, TypeOK, workerVars
        <5>2. \A i : Passes(i) = 0
          BY <5>1, NothingDelivered
        <5>3. \A i \in pq : Owed(i)' = 0
          BY <5>1 DEF Less
        <5> QED BY <5>1, <5>2, <5>3, <3>4
      <4>3. ASSUME NEW w \in Workers, Deliver(w) PROVE Settled
        <5>1. /\ hand \in Items /\ hand' = None /\ pq' = pq
              /\ held' = [held EXCEPT ![w] = hand]
          BY <4>3 DEF Deliver, Receive, TypeOK
        <5>2. \A i : Passes(i) <= Owed(i)
          <6>1. \A i : ~ Less(i, hand) => Passes(i) = 0
            BY <5>1, OneDelivered
          <6>2. \A i : Less(i, hand) => Owed(i) = 1
            BY <5>1, ItemsAssumption
          <6> QED BY <6>1, <6>2, <3>4
        <5>3. \A i : Owed(i)' = 0
          BY <5>1
        <5> QED BY <5>1, <5>2, <5>3, <3>4 DEF TypeOK
      <4>4. CASE Abandon
        <5>1. hand' = None /\ pq' = pq /\ held' = held
          BY <4>4 DEF Abandon, workerVars
        <5>2. \A i : Passes(i) = 0 /\ Owed(i)' = 0
          BY <5>1, NothingDelivered
        <5> QED BY <5>1, <5>2, <3>4 DEF TypeOK
      <4>5. CASE DrainOne
        <5>1. /\ hand' = hand /\ hand = None
          BY <4>5 DEF DrainOne, TypeOK, dispatchVars
        <5>2. PICK j \in Front : /\ pq' = pq \ {j}
                                 /\ \/ \E w \in Workers : Receive(w, j)
                                    \/ UNCHANGED workerVars
          BY <4>5 DEF DrainOne, PopItem
        <5>3. j \in Items /\ \A i \in pq : ~ Less(i, j)
          BY DEF Front, TypeOK
        <5>4. \A i \in pq : Passes(i) = 0
          <6>1. CASE UNCHANGED workerVars
            BY <6>1, NothingDelivered DEF workerVars
          <6>2. ASSUME NEW w \in Workers, Receive(w, j) PROVE \A i \in pq : Passes(i) = 0
            BY <6>2, <5>3, OneDelivered DEF Receive
          <6> QED BY <5>2, <6>1, <6>2
        <5>5. \A i : Owed(i)' = 0
          BY <5>1
        <5> QED BY <5>2, <5>4, <5>5, <3>4 DEF TypeOK
      <4>6. ASSUME NEW i \in Items, Enqueue(i) PROVE Settled
        <5>1. pq' \subseteq Items
          BY <4>6, EnqueueHeap DEF TypeOK
        <5> QED BY <4>6, <4>1, <5>1 DEF Enqueue, EnqueueCall, dispatchVars, workerVars
      <4>7. CASE TakeNotify \/ TakeDone \/ PopEmpty \/ DrainDone
        BY <4>1, <4>7 DEF TypeOK, TakeNotify, TakeDone, PopEmpty, DrainDone, workerVars
      <4>8. CASE CloseMark \/ CloseSignal \/ RootCancel
        BY <4>1, <4>8 DEF TypeOK, CloseMark, CloseSignal, RootCancel, dispatchVars, workerVars
      <4>9. ASSUME NEW w \in Workers, WorkerStep(w) PROVE Settled
        BY <4>1, <4>9 DEF TypeOK, WorkerStep, Park, Finish, WorkerExit, dispatchVars
      <4> QED
        BY <2>2, <4>2, <4>3, <4>4, <4>5, <4>6, <4>7, <4>8, <4>9 DEF Next, Dispatcher
    <3>6. \A i \in pq' : Debt(i)' <= 1
      BY <3>2, <3>3, <3>4, <3>5 DEF Debt
    <3> QED BY <3>1, <3>6 DEF BoundedDebt
  <2> QED BY <2>1, <2>2 DEF OrderNext
<1>3. BoundedDebt /\ TypeOK => BoundedInversion
  BY DEF BoundedDebt, BoundedInversion, Debt, TypeOK
<1> QED BY <1>1, <1>2, <1>3, OrderRefines, TypeCorrect, PTL DEF OrderSpec
=============================================================================
