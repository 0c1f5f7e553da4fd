----------------------------- MODULE HeapQueue -----------------------------
(***************************************************************************)
(* The queue with its real heap: priorityQueue is a slice that             *)
(* container/heap keeps in heap order, every item knows its place in it,   *)
(* and Enqueue relies on that place when it evicts.  Queue's set pq is the *)
(* set of the items in the slice; everything else is Queue's.              *)
(*                                                                         *)
(* A heap is a record of the slice and the index fields, which belong to   *)
(* the items and outlive their stay in the heap.  Places count from 0, as  *)
(* in the code; slots[p + 1] is the item at place p.                       *)
(***************************************************************************)
EXTENDS Integers, FiniteSets, Sequences

CONSTANTS Items, Workers, None, MaxSize, Preempt, Priority, CreatedAt   \* as in Queue

ASSUME HeapItemsAssumption   == IsFiniteSet(Items) /\ None \notin Items
ASSUME HeapMaxSizeAssumption == MaxSize \in Nat \ {0} /\ Preempt \in BOOLEAN
ASSUME HeapOrderAssumption   == Priority \in [Items -> 1..3] /\ CreatedAt \in [Items -> Nat]

VARIABLES
  slots,    \* the slice q.pq
  index,    \* Item.index
  closed, notify, done, dispatch, hand, worker, held, ctxDone, lost   \* as in Queue

Q == INSTANCE Queue WITH pq <- {slots[p] : p \in 1..Len(slots)}

heapVars  == <<slots, index>>
queueVars == <<closed, notify, done, dispatch, hand, worker, held, ctxDone, lost>>

-----------------------------------------------------------------------------
(* heap.Interface.                                                         *)

At(h, p) == h.slots[p + 1]
Size(h)  == Len(h.slots)

LessAt(h, i, j) == Q!Less(At(h, i), At(h, j))

\* An exchange that leaves one of the two index fields as it was.
SwapOneIndex(h, i, j) ==
  [slots |-> [h.slots EXCEPT ![i + 1] = At(h, j), ![j + 1] = At(h, i)],
   index |-> [h.index EXCEPT ![At(h, j)] = i]]

Swap(h, i, j) ==
  [slots |-> [h.slots EXCEPT ![i + 1] = At(h, j), ![j + 1] = At(h, i)],
   index |-> [h.index EXCEPT ![At(h, j)] = i, ![At(h, i)] = j]]

\* priorityQueue.Push and priorityQueue.Pop: the end of the slice.
PushBack(h, item) == [slots |-> Append(h.slots, item),
                      index |-> [h.index EXCEPT ![item] = Size(h)]]

PopBack(h) == [slots |-> SubSeq(h.slots, 1, Size(h) - 1),
               index |-> [h.index EXCEPT ![At(h, Size(h) - 1)] = -1]]

-----------------------------------------------------------------------------
(* container/heap.                                                         *)

Parent(p) == (p - 1) \div 2

\* One turn of the loop in up, with the place of the item that moves: it changes
\* places with its parent unless it has none or is in order with it.
UpTurn(s) ==
  IF s.place = 0 \/ ~ LessAt(s.heap, s.place, Parent(s.place)) THEN s
  ELSE [heap |-> Swap(s.heap, Parent(s.place), s.place), place |-> Parent(s.place)]

\* The loop changes nothing once it has stopped, and from place j it turns at
\* most j times.
Up(h, j) ==
  LET turns[t \in 0..j] == IF t = 0 THEN [heap |-> h, place |-> j] ELSE UpTurn(turns[t - 1])
  IN  turns[j].heap

\* One turn of the loop in down: the item changes places with its better child
\* among the first n places, which are the heap proper, if that precedes it.
DownTurn(s, n) ==
  LET left  == 2 * s.place + 1
      child == IF left + 1 < n /\ LessAt(s.heap, left + 1, left) THEN left + 1 ELSE left
  IN  IF left >= n \/ ~ LessAt(s.heap, child, s.place) THEN s
      ELSE [heap |-> Swap(s.heap, s.place, child), place |-> child]

Down(h, i, n) ==
  LET turns[t \in 0..n] == IF t = 0 THEN [heap |-> h, place |-> i] ELSE DownTurn(turns[t - 1], n)
  IN  turns[n].heap

HeapPush(h, item) == Up(PushBack(h, item), Size(h))

HeapPop(h) == LET n == Size(h) - 1 IN PopBack(Down(Swap(h, 0, n), 0, n))

\* The last item takes place i and goes down, or up if it did not move.
Remove(h, i) ==
  LET n    == Size(h) - 1
      s    == Swap(h, i, n)
      down == Down(s, i, n)
  IN  PopBack(IF i = n THEN h ELSE IF down # s THEN down ELSE Up(s, i))

-----------------------------------------------------------------------------
(* queue.go.                                                               *)

\* The last leaf of the heap.
LastLeaf(h) == At(h, Size(h) - 1)

\* The scan replaces its candidate only by a strictly worse item.
FindLowestPriority(h) ==
  LET Replaces(item, worst) == \/ Priority[item] > Priority[worst]
                               \/ /\ Priority[item] = Priority[worst]
                                  /\ CreatedAt[item] > CreatedAt[worst]
      scan[p \in 0..Size(h) - 1] ==
        IF p = 0 THEN At(h, 0)
        ELSE IF Replaces(At(h, p), scan[p - 1]) THEN At(h, p) ELSE scan[p - 1]
  IN  scan[Size(h) - 1]

Heap == [slots |-> slots, index |-> index]

Becomes(h) == slots' = h.slots /\ index' = h.index

\* Enqueue under q.mu: no room, no better than the worst, an eviction, a push.
Enqueue(item) ==
  LET worst == FindLowestPriority(Heap)
  IN  /\ Q!Outside(item) /\ dispatch # "drain"
      /\ \/ /\ \/ closed
               \/ Size(Heap) >= MaxSize /\ (~ Preempt \/ Priority[item] >= Priority[worst])
            /\ lost' = lost \cup {item} /\ UNCHANGED <<heapVars, notify>>
         \/ /\ ~ closed /\ Size(Heap) < MaxSize
            /\ Becomes(HeapPush(Heap, item)) /\ lost' = lost /\ notify' = TRUE
         \/ /\ ~ closed /\ Size(Heap) >= MaxSize /\ Preempt /\ Priority[item] < Priority[worst]
            /\ Becomes(HeapPush(Remove(Heap, index[worst]), item))
            /\ lost' = lost \cup {worst} /\ notify' = TRUE
      /\ UNCHANGED <<closed, done, dispatch, hand, worker, held, ctxDone>>

\* dispatchLoop's heap.Pop.
Pop ==
  /\ dispatch = "pop" /\ slots # <<>>
  /\ Becomes(HeapPop(Heap)) /\ hand' = At(Heap, 0) /\ dispatch' = "send"
  /\ UNCHANGED <<closed, notify, done, worker, held, ctxDone, lost>>

\* drainRemaining's heap.Pop, and a parked worker or nobody.
DrainOne ==
  /\ dispatch = "drain" /\ slots # <<>>
  /\ Becomes(HeapPop(Heap))
  /\ \/ \E w \in Workers : worker[w] = "recv" /\ Q!Receive(w, At(Heap, 0)) /\ lost' = lost
     \/ /\ \A w \in Workers : worker[w] # "recv"
        /\ lost' = lost \cup {At(Heap, 0)} /\ UNCHANGED <<worker, held>>
  /\ UNCHANGED <<closed, notify, done, ctxDone, dispatch, hand>>

\* The steps that do not change the heap.
ElseQueue ==
  /\ UNCHANGED heapVars
  /\ \/ Q!TakeNotify \/ Q!TakeDone \/ Q!PopEmpty \/ Q!Abandon \/ Q!DrainDone
     \/ Q!CloseMark \/ Q!CloseSignal \/ Q!RootCancel
     \/ \E w \in Workers : Q!Deliver(w) \/ Q!WorkerStep(w)

\* heap.Init of an empty slice; items are built with index 0.
Init == slots = <<>> /\ index = [i \in Items |-> 0] /\ Q!Init
Next == (\E i \in Items : Enqueue(i)) \/ Pop \/ DrainOne \/ ElseQueue
Spec == Init /\ [][Next]_<<heapVars, queueVars>>

-----------------------------------------------------------------------------
(* Properties.                                                             *)

\* After every mixture of pushes, pops and evictions the slice is a heap, and
\* every item in it knows its place, which is what heap.Remove(worst.index)
\* relies on (priority_queue.go:22-44, queue.go:88).
HeapWellFormed ==
  /\ \A p \in 1..Size(Heap) - 1 : ~ LessAt(Heap, p, Parent(p))
  /\ \A p \in 0..Size(Heap) - 1 : index[At(Heap, p)] = p

\* The slice implements the queue: what comes out, what is evicted and what is
\* refused is what Queue allows, so its theorems hold of the code's heap.
ImplementsQueue == Q!Spec
=============================================================================
