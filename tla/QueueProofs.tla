----------------------------- MODULE QueueProofs -----------------------------
(***************************************************************************)
(* The safety properties of Queue, for every set of items and workers,     *)
(* every capacity, and every assignment of priorities.                     *)
(***************************************************************************)
EXTENDS Queue, FiniteSetTheorems, TLAPS

\* Every step of the queue, its dispatcher and the workers keeps the types.
LEMMA TypeStep == TypeOK /\ [Next]_vars => TypeOK'
<1> SUFFICES ASSUME TypeOK, [Next]_vars PROVE TypeOK'
  OBVIOUS
<1> USE DEF TypeOK, DispatchStates, WorkerStates, dispatchVars, workerVars
<1>1. ASSUME NEW i \in Items, Enqueue(i) PROVE TypeOK'
  <2>1. UNCHANGED <<closed, done, ctxDone, dispatchVars, workerVars>>
    BY <1>1 DEF Enqueue, EnqueueCall
  <2>2. CASE EnqueueRejected(i)
    BY <2>1, <2>2 DEF EnqueueRejected, Reject
  <2>3. CASE EnqueueRoom(i)
    BY <2>1, <2>3 DEF EnqueueRoom, Notify
  <2>4. CASE EnqueuePreempt(i)
    BY <2>1, <2>4 DEF EnqueuePreempt, RemoveForPush, Worst, Notify
  <2> QED BY <1>1, <2>2, <2>3, <2>4 DEF Enqueue, EnqueueCall
<1>2. CASE TakeNotify \/ TakeDone
  BY <1>2 DEF TakeNotify, TakeDone
<1>3. CASE Pop
  BY <1>3, ItemsAssumption DEF Pop, PopItem
<1>4. CASE PopEmpty
  BY <1>4 DEF PopEmpty, PopSeesEmpty
<1>5. ASSUME NEW w \in Workers, Deliver(w) PROVE TypeOK'
  BY <1>5 DEF Deliver, Receive
<1>6. CASE Abandon
  BY <1>6 DEF Abandon
<1>7. CASE DrainOne
  BY <1>7 DEF DrainOne, PopItem, Receive
<1>8. CASE DrainDone
  BY <1>8 DEF DrainDone
<1>9. CASE CloseMark \/ CloseSignal
  BY <1>9 DEF CloseMark, CloseSignal
<1>10. CASE RootCancel
  BY <1>10 DEF RootCancel
<1>11. ASSUME NEW w \in Workers, WorkerStep(w) PROVE TypeOK'
  BY <1>11 DEF WorkerStep, Park, Finish, WorkerExit
<1>12. CASE UNCHANGED vars
  BY <1>12 DEF vars
<1> QED
  BY <1>1, <1>2, <1>3, <1>4, <1>5, <1>6, <1>7, <1>8, <1>9, <1>10, <1>11, <1>12
     DEF Next, Dispatcher

\* Type correctness of the queue, its dispatcher and the workers' states.
THEOREM TypeCorrect == Spec => []TypeOK
<1>1. Init => TypeOK
  BY DEF Init, TypeOK, DispatchStates, WorkerStates
<1>2. TypeOK /\ [Next]_vars => TypeOK'
  BY TypeStep
<1> QED BY <1>1, <1>2, PTL DEF Spec

-----------------------------------------------------------------------------
\* What an enqueue does to the heap: nothing, or a push below the bound, or the
\* replacement of one item by another.
LEMMA EnqueueHeap ==
  ASSUME TypeOK, NEW i \in Items, Enqueue(i)
  PROVE  /\ i \notin pq
         /\ \/ pq' = pq /\ notify' = notify /\ lost' = lost \cup {i}
            \/ pq' = pq \cup {i} /\ Cardinality(pq) < MaxSize /\ notify' = TRUE
               /\ ~ closed /\ lost' = lost
            \/ \E worst \in pq : pq' = (pq \ {worst}) \cup {i} /\ notify' = TRUE
               /\ ~ closed /\ lost' = lost \cup {worst}
BY DEF Enqueue, EnqueueCall, EnqueueRejected, EnqueueRoom, EnqueuePreempt, Reject, Notify, HasRoom,
       RemoveForPush, Worst, Outside

\* Every other step leaves the heap alone or takes items out of it.
LEMMA OtherHeap ==
  ASSUME TypeOK, [Next]_vars, \A i \in Items : ~ Enqueue(i)
  PROVE  pq' \subseteq pq
<1> USE DEF dispatchVars, workerVars
<1>1. CASE Dispatcher
  BY <1>1 DEF Dispatcher, TakeNotify, TakeDone, Pop, PopItem, PopEmpty, Deliver, Abandon,
              DrainOne, DrainDone
<1>2. CASE CloseMark \/ CloseSignal \/ RootCancel
  BY <1>2 DEF CloseMark, CloseSignal, RootCancel
<1>3. CASE \E w \in Workers : WorkerStep(w)
  BY <1>3 DEF WorkerStep, Park, Finish, WorkerExit
<1>4. CASE UNCHANGED vars
  BY <1>4 DEF vars
<1> QED BY <1>1, <1>2, <1>3, <1>4 DEF Next

\* heap.Push adds at most one to the length.
LEMMA PushCardinality ==
  ASSUME NEW S, IsFiniteSet(S), NEW x
  PROVE  /\ IsFiniteSet(S \cup {x}) /\ Cardinality(S \cup {x}) \in Nat
         /\ Cardinality(S \cup {x}) <= Cardinality(S) + 1
<1>1. Cardinality(S) \in Nat
  BY FS_CardinalityType
<1>2. /\ IsFiniteSet(S \cup {x})
      /\ Cardinality(S \cup {x}) = IF x \in S THEN Cardinality(S) ELSE Cardinality(S) + 1
  BY FS_AddElement, Zenon
<1> QED BY <1>1, <1>2

\* The heap never exceeds QUEUE_MAX_SIZE: a push needs room, a preempting push
\* removes an item first (queue.go:68-91).
THEOREM SizeBoundHolds == Spec => []SizeBound
<1>1. Init => SizeBound
  BY MaxSizeAssumption, FS_EmptySet DEF Init, SizeBound
<1>2. TypeOK /\ SizeBound /\ [Next]_vars => SizeBound'
  <2> SUFFICES ASSUME TypeOK, SizeBound, [Next]_vars PROVE SizeBound'
    OBVIOUS
  <2>1. IsFiniteSet(pq) /\ Cardinality(pq) \in Nat
    BY ItemsAssumption, FS_Subset, FS_CardinalityType DEF TypeOK
  <2>2. ASSUME NEW i \in Items, Enqueue(i) PROVE SizeBound'
    <3>1. CASE pq' = pq
      BY <3>1 DEF SizeBound
    <3>2. CASE pq' = pq \cup {i} /\ Cardinality(pq) < MaxSize
      <4>1. Cardinality(pq') \in Nat /\ Cardinality(pq') <= Cardinality(pq) + 1
        BY <2>1, <3>2, PushCardinality
      <4> QED BY <4>1, <2>1, <3>2, MaxSizeAssumption DEF SizeBound
    <3>3. ASSUME NEW worst \in pq, pq' = (pq \ {worst}) \cup {i} PROVE SizeBound'
      <4>1. IsFiniteSet(pq \ {worst}) /\ Cardinality(pq \ {worst}) = Cardinality(pq) - 1
        BY <2>1, FS_RemoveElement
      <4>2. Cardinality((pq \ {worst}) \cup {i}) <= Cardinality(pq \ {worst}) + 1
        BY <4>1, PushCardinality
      <4>3. Cardinality(pq') <= Cardinality(pq)
        BY <4>1, <4>2, <2>1, <3>3
      <4>4. IsFiniteSet(pq') /\ Cardinality(pq') \in Nat
        BY <4>1, <3>3, PushCardinality
      <4> QED BY <4>3, <4>4, <2>1, MaxSizeAssumption DEF SizeBound
    <3> QED BY <2>2, <3>1, <3>2, <3>3, EnqueueHeap
  <2>3. CASE \A i \in Items : ~ Enqueue(i)
    <3>1. pq' \in SUBSET pq
      BY <2>3, OtherHeap
    <3>2. Cardinality(pq') <= Cardinality(pq) /\ Cardinality(pq') \in Nat
      BY <3>1, <2>1, FS_Subset, FS_CardinalityType
    <3> QED BY <3>2, <2>1, MaxSizeAssumption DEF SizeBound
  <2> QED BY <2>2, <2>3
<1> QED BY <1>1, <1>2, TypeCorrect, PTL DEF Spec

-----------------------------------------------------------------------------
\* No wake-up is lost: the dispatcher never sleeps over a non-empty heap
\* without a token in the notify channel (queue.go:94-98, 134-150).
THEOREM NoLostWakeupHolds == Spec => []NoLostWakeup
<1>1. Init => NoLostWakeup
  BY DEF Init, NoLostWakeup
<1>2. TypeOK /\ NoLostWakeup /\ [Next]_vars => NoLostWakeup'
  <2> SUFFICES ASSUME TypeOK, NoLostWakeup, [Next]_vars PROVE NoLostWakeup'
    OBVIOUS
  <2> USE DEF NoLostWakeup, dispatchVars, workerVars
  <2>1. ASSUME NEW i \in Items, Enqueue(i) PROVE NoLostWakeup'
    <3>1. dispatch' = dispatch
      BY <2>1 DEF Enqueue, EnqueueCall
    <3> QED BY <2>1, <3>1, EnqueueHeap
  <2>2. CASE Dispatcher
    BY <2>2 DEF Dispatcher, TakeNotify, TakeDone, Pop, PopItem, PopEmpty, PopSeesEmpty,
                Deliver, Abandon, DrainOne, DrainDone
  <2>3. CASE CloseMark \/ CloseSignal \/ RootCancel
    BY <2>3 DEF CloseMark, CloseSignal, RootCancel
  <2>4. ASSUME NEW w \in Workers, WorkerStep(w) PROVE NoLostWakeup'
    BY <2>4 DEF WorkerStep, Park, Finish, WorkerExit
  <2>5. CASE UNCHANGED vars
    BY <2>5 DEF vars
  <2> QED BY <2>1, <2>2, <2>3, <2>4, <2>5 DEF Next
<1> QED BY <1>1, <1>2, TypeCorrect, PTL DEF Spec

-----------------------------------------------------------------------------
\* The shutdown protocol in one invariant: the dispatcher drains only after
\* done, and done follows closed, after which nothing is pushed.
ShutdownInv ==
  /\ dispatch \in {"drain", "exited"} => done
  /\ done => closed
  /\ dispatch = "exited" => pq = {}

\* The shutdown protocol holds in every behaviour (queue.go:118-140, 165-180).
LEMMA ShutdownInvariant == Spec => []ShutdownInv
<1>1. Init => ShutdownInv
  BY DEF Init, ShutdownInv
<1>2. TypeOK /\ ShutdownInv /\ [Next]_vars => ShutdownInv'
  <2> SUFFICES ASSUME TypeOK, ShutdownInv, [Next]_vars PROVE ShutdownInv'
    OBVIOUS
  <2> USE DEF ShutdownInv, dispatchVars, workerVars
  <2>1. ASSUME NEW i \in Items, Enqueue(i) PROVE ShutdownInv'
    <3>1. UNCHANGED <<closed, done, dispatch, hand>>
      BY <2>1 DEF Enqueue, EnqueueCall
    <3>2. closed => pq' = pq
      BY <2>1, EnqueueHeap
    <3> QED BY <3>1, <3>2
  <2>2. CASE TakeNotify \/ TakeDone \/ PopEmpty \/ DrainDone
    BY <2>2 DEF TakeNotify, TakeDone, PopEmpty, PopSeesEmpty, DrainDone
  <2>3. CASE Pop
    BY <2>3, ItemsAssumption DEF Pop, PopItem
  <2>4. CASE (\E w \in Workers : Deliver(w)) \/ Abandon
    BY <2>4 DEF Deliver, Abandon
  <2>5. CASE DrainOne
    BY <2>5 DEF DrainOne, PopItem
  <2>6. CASE CloseMark \/ CloseSignal \/ RootCancel
    BY <2>6 DEF CloseMark, CloseSignal, RootCancel
  <2>7. ASSUME NEW w \in Workers, WorkerStep(w) PROVE ShutdownInv'
    BY <2>7 DEF WorkerStep, Park, Finish, WorkerExit
  <2>8. CASE UNCHANGED vars
    BY <2>8 DEF vars
  <2> QED BY <2>1, <2>2, <2>3, <2>4, <2>5, <2>6, <2>7, <2>8 DEF Next, Dispatcher
<1> QED BY <1>1, <1>2, TypeCorrect, PTL DEF Spec

\* Nothing is stranded in a queue whose dispatcher has returned, whatever
\* enqueues raced with Close (queue.go:64-66, 118-126, 165-180).
THEOREM NothingStrandedHolds == Spec => []NothingStranded
<1>1. TypeOK /\ ShutdownInv => NothingStranded
  BY DEF TypeOK, ShutdownInv, NothingStranded
<1> QED BY <1>1, TypeCorrect, ShutdownInvariant, PTL

-----------------------------------------------------------------------------
\* Every step hands an item from one place to the next without keeping it.
LEMMA OnePlaceStep == TypeOK /\ OnePlace /\ [Next]_vars => OnePlace'
<1> SUFFICES ASSUME TypeOK, OnePlace, [Next]_vars PROVE OnePlace'
  OBVIOUS
<1> USE ItemsAssumption DEF TypeOK, OnePlace, dispatchVars, workerVars
<1>1. ASSUME NEW i \in Items, Enqueue(i) PROVE OnePlace'
  <2>1. UNCHANGED <<hand, held>>
    BY <1>1 DEF Enqueue, EnqueueCall
  <2>2. i \notin pq /\ i # hand /\ i \notin lost /\ \A w \in Workers : held[w] # i
    BY <1>1 DEF Enqueue, Outside
  <2>3. CASE pq' = pq /\ lost' = lost \cup {i}
    BY <2>1, <2>2, <2>3
  <2>4. CASE pq' = pq \cup {i} /\ lost' = lost
    BY <2>1, <2>2, <2>4
  <2>5. ASSUME NEW worst \in pq, pq' = (pq \ {worst}) \cup {i}, lost' = lost \cup {worst}
        PROVE  OnePlace'
    BY <2>1, <2>2, <2>5
  <2> QED BY <1>1, <2>3, <2>4, <2>5, EnqueueHeap
<1>2. CASE TakeNotify \/ TakeDone \/ PopEmpty \/ DrainDone
  BY <1>2 DEF TakeNotify, TakeDone, PopEmpty, DrainDone
<1>3. CASE Pop
  BY <1>3 DEF Pop, PopItem, Front
<1>4. ASSUME NEW w \in Workers, Deliver(w) PROVE OnePlace'
  <2>1. /\ hand # None /\ hand' = None /\ pq' = pq /\ lost' = lost
        /\ held' = [held EXCEPT ![w] = hand]
    BY <1>4 DEF Deliver, Receive
  <2> QED BY <2>1
<1>5. CASE Abandon
  BY <1>5 DEF Abandon
<1>6. CASE DrainOne
  <2>1. PICK i \in pq : /\ pq' = pq \ {i}
                        /\ \/ /\ \E w \in Workers : Receive(w, i)
                              /\ lost' = lost
                           \/ lost' = lost \cup {i} /\ UNCHANGED workerVars
    BY <1>6 DEF DrainOne, PopItem, Front
  <2>2. hand' = hand
    BY <1>6 DEF DrainOne
  <2>3. ASSUME NEW w \in Workers, Receive(w, i), lost' = lost PROVE OnePlace'
    BY <2>1, <2>2, <2>3 DEF Receive
  <2> QED BY <2>1, <2>2, <2>3
<1>7. CASE CloseMark \/ CloseSignal \/ RootCancel
  BY <1>7 DEF CloseMark, CloseSignal, RootCancel
<1>8. ASSUME NEW w \in Workers, WorkerStep(w) PROVE OnePlace'
  BY <1>8 DEF WorkerStep, Park, Finish, WorkerExit
<1>9. CASE UNCHANGED vars
  BY <1>9 DEF vars
<1> QED BY <1>1, <1>2, <1>3, <1>4, <1>5, <1>6, <1>7, <1>8, <1>9 DEF Next, Dispatcher

\* An item is in one place at a time, so no two workers process it at once: the
\* heap, the unbuffered channel and the dispatcher's local variable hand the
\* pointer on without keeping it (queue.go:88-91, 148-159, 169-171).
THEOREM OnePlaceHolds == Spec => []OnePlace
<1>1. Init => OnePlace
  BY ItemsAssumption DEF Init, OnePlace
<1>2. TypeOK /\ OnePlace /\ [Next]_vars => OnePlace'
  BY OnePlaceStep
<1> QED BY <1>1, <1>2, TypeCorrect, PTL DEF Spec

-----------------------------------------------------------------------------
\* Replacing an item by one of a better tier leaves no tier with fewer items.
LEMMA SwapImproves ==
  ASSUME NEW S \in SUBSET Items, NEW worst \in S, NEW i \in Items \ S,
         Priority[i] < Priority[worst], NEW p \in 1..3
  PROVE  Cardinality(AtLeastTier(S, p)) <= Cardinality(AtLeastTier((S \ {worst}) \cup {i}, p))
<1> DEFINE A == AtLeastTier(S, p)
           B == AtLeastTier((S \ {worst}) \cup {i}, p)
<1>0. SUFFICES Cardinality(A) <= Cardinality(B)
  OBVIOUS
<1> HIDE DEF A, B
<1>1. /\ IsFiniteSet(A) /\ IsFiniteSet(B)
      /\ Cardinality(A) \in Nat /\ Cardinality(B) \in Nat
  <2>1. A \in SUBSET Items /\ B \in SUBSET Items
    BY DEF A, B, AtLeastTier
  <2> QED BY <2>1, ItemsAssumption, FS_Subset, FS_CardinalityType
<1>2. CASE Priority[worst] <= p
  <2>1. worst \in A /\ i \notin A /\ B = (A \ {worst}) \cup {i}
    BY <1>2, OrderAssumption DEF A, B, AtLeastTier
  <2>2. IsFiniteSet(A \ {worst}) /\ Cardinality(A \ {worst}) = Cardinality(A) - 1
    BY <1>1, <2>1, FS_RemoveElement
  <2>3. Cardinality(B) = Cardinality(A \ {worst}) + 1
    BY <2>1, <2>2, FS_AddElement
  <2> QED BY <1>1, <2>2, <2>3
<1>3. CASE ~ (Priority[worst] <= p)
  <2>1. A \in SUBSET B
    BY <1>3 DEF A, B, AtLeastTier
  <2> QED BY <1>1, <2>1, FS_Subset
<1> QED BY <1>2, <1>3

\* Preemption only improves the queue: the item that is evicted makes room for
\* one of a strictly better tier, and no tier is served worse (queue.go:68-91).
\* That an item is in one place excludes every other way to become lost.
THEOREM PreemptionImprovesHolds == Spec => PreemptionImproves
<1> DEFINE Improves ==
      \A i \in pq : i \in lost' /\ dispatch # "drain" =>
        /\ \E j \in pq' \ pq : Priority[j] < Priority[i]
        /\ \A p \in 1..3 : Cardinality(AtLeastTier(pq, p)) <= Cardinality(AtLeastTier(pq', p))
<1>1. TypeOK /\ OnePlace /\ [Next]_vars => [Improves]_vars
  <2> SUFFICES ASSUME TypeOK, OnePlace, Next PROVE Improves
    OBVIOUS
  <2> USE DEF dispatchVars, workerVars
  <2>1. pq \subseteq Items /\ pq \cap lost = {} /\ hand \notin pq
    BY DEF TypeOK, OnePlace
  <2>2. CASE lost' = lost
    BY <2>1, <2>2
  <2>3. ASSUME NEW i \in Items, Enqueue(i) PROVE Improves
    <3>1. i \notin pq
      BY <2>3 DEF Enqueue, Outside
    <3>2. CASE lost' = lost \cup {i}
      BY <2>1, <3>1, <3>2
    <3>3. CASE EnqueuePreempt(i)
      <4>1. PICK worst \in pq : /\ Priority[i] < Priority[worst]
                                /\ pq' = (pq \ {worst}) \cup {i}
                                /\ lost' = lost \cup {worst}
        BY <3>3 DEF EnqueuePreempt, Worst, MayEvict, RemoveForPush
      <4>2. \A p \in 1..3 : Cardinality(AtLeastTier(pq, p)) <= Cardinality(AtLeastTier(pq', p))
        BY <2>1, <3>1, <4>1, SwapImproves
      <4>3. \A j \in pq : j \in lost' => j = worst
        BY <2>1, <4>1
      <4>4. i \in pq' \ pq
        BY <3>1, <4>1
      <4> SUFFICES ASSUME NEW j \in pq, j \in lost'
                   PROVE  \E m \in pq' \ pq : Priority[m] < Priority[j]
        BY <4>2
      <4> QED BY <4>1, <4>3, <4>4
    <3> QED BY <2>2, <2>3, <3>2, <3>3
            DEF Enqueue, EnqueueCall, EnqueueRejected, Reject, EnqueueRoom
  <2>4. CASE TakeNotify \/ TakeDone \/ Pop \/ PopEmpty \/ DrainDone
    BY <2>2, <2>4 DEF TakeNotify, TakeDone, Pop, PopEmpty, DrainDone
  <2>5. CASE \E w \in Workers : Deliver(w)
    BY <2>2, <2>5 DEF Deliver
  <2>6. CASE Abandon
    BY <2>1, <2>6 DEF Abandon
  <2>7. CASE DrainOne
    BY <2>7 DEF DrainOne
  <2>8. CASE CloseMark \/ CloseSignal \/ RootCancel
    BY <2>2, <2>8 DEF CloseMark, CloseSignal, RootCancel
  <2>9. CASE \E w \in Workers : WorkerStep(w)
    BY <2>2, <2>9 DEF WorkerStep, Park, Finish, WorkerExit
  <2> QED BY <2>3, <2>4, <2>5, <2>6, <2>7, <2>8, <2>9 DEF Next, Dispatcher
<1> QED BY <1>1, TypeCorrect, OnePlaceHolds, PTL DEF Spec, PreemptionImproves
=============================================================================
