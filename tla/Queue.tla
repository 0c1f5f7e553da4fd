------------------------------- MODULE Queue -------------------------------
(***************************************************************************)
(* internal/queue: the bounded priority queue, its dispatcher goroutine    *)
(* (dispatchLoop) and the goroutines that receive from Dequeue().          *)
(*                                                                         *)
(* The heap is the set pq of the items it holds: container/heap guarantees *)
(* that Pop returns a Less-minimal item and leaves the choice among equals *)
(* open, and so does this module.  The mutex q.mu makes every critical     *)
(* section one step; everything the code does outside of it (the channel   *)
(* operations, the two halves of Close) is a step of its own.              *)
(***************************************************************************)
EXTENDS Integers, FiniteSets

CONSTANTS
  Items,      \* the *Item values that callers may enqueue
  Workers,    \* the goroutines running Worker.Start
  None,       \* "no item"
  MaxSize,    \* QUEUE_MAX_SIZE
  Preempt,    \* QUEUE_HIGH_PRIORITY_PREEMPTS_LOW
  Priority,   \* Item.Priority: 1 = high, 2 = normal, 3 = low
  CreatedAt   \* Item.CreatedAt

ASSUME ItemsAssumption   == IsFiniteSet(Items) /\ None \notin Items
ASSUME MaxSizeAssumption == MaxSize \in Nat \ {0}
ASSUME PreemptAssumption == Preempt \in BOOLEAN
ASSUME OrderAssumption   == /\ Priority \in [Items -> 1..3]
                            /\ CreatedAt \in [Items -> Nat]

VARIABLES
  pq,         \* the items in the heap
  closed,     \* q.closed
  notify,     \* does the notify channel (capacity 1) hold a token?
  done,       \* is the done channel closed?
  dispatch,   \* where dispatchLoop is
  hand,       \* the item dispatchLoop has popped and not yet sent
  worker,     \* where each worker goroutine is
  held,       \* the item each worker is processing
  ctxDone,    \* is the workers' context cancelled?
  lost        \* history: items the queue has refused, evicted or dropped

vars == <<pq, closed, notify, done, dispatch, hand, worker, held, ctxDone, lost>>
dispatchVars == <<dispatch, hand>>
workerVars   == <<worker, held>>

\* "idle": at the select of Worker.Start, not yet parked; "recv": parked there.
WorkerStates   == {"idle", "recv", "busy", "exited"}
\* "wait": the outer select; "pop": the locked pop; "send": the inner select;
\* "drain": drainRemaining; "exited": the dequeue channel is closed.
DispatchStates == {"wait", "pop", "send", "drain", "exited"}

-----------------------------------------------------------------------------
(* The ordering of the heap.                                               *)

\* priorityQueue.Less: the lower number first, the older first within a tier.
Less(i, j) == \/ Priority[i] < Priority[j]
              \/ Priority[i] = Priority[j] /\ CreatedAt[i] < CreatedAt[j]

\* The items heap.Pop may return.
Front == {i \in pq : \A j \in pq : ~ Less(j, i)}

\* The items findLowestPriority may return: largest number, newest among ties.
Worst == {i \in pq : \A j \in pq : ~ Less(i, j)}

-----------------------------------------------------------------------------
(* Enqueue.                                                                *)

\* A caller has one reference to an item at a time: a handler enqueues a new
\* item, a retry timer one that its worker has let go of.
Outside(i) == /\ i \notin pq /\ i # hand /\ i \notin lost
              /\ \A w \in Workers : held[w] # i

\* One item too many.
HasRoomOffByOne == Cardinality(pq) <= MaxSize

HasRoom == Cardinality(pq) < MaxSize

\* Equal tiers preempt each other.
MayEvictEqual(i, worst) == Priority[i] <= Priority[worst]

MayEvict(i, worst) == Priority[i] < Priority[worst]

\* heap.Remove of the victim, then heap.Push.  The victim is only logged.
RemoveForPush(i, worst) == /\ pq' = (pq \ {worst}) \cup {i}
                           /\ lost' = lost \cup {worst}

\* ErrQueueClosed or ErrQueueFull: no caller offers this item again.
Reject(i) == lost' = lost \cup {i} /\ UNCHANGED <<pq, notify>>

\* A push that wakes nobody.
NotifyForgotten == notify' = notify

\* The non-blocking send on the notify channel.
Notify == notify' = TRUE

EnqueueRejected(i) ==
  /\ \/ closed
     \/ ~ HasRoom /\ ~ Preempt
     \/ ~ HasRoom /\ \E worst \in Worst : ~ MayEvict(i, worst)
  /\ Reject(i)

EnqueueRoom(i) ==
  /\ ~ closed /\ HasRoom
  /\ pq' = pq \cup {i} /\ lost' = lost
  /\ Notify

EnqueuePreempt(i) ==
  /\ ~ closed /\ ~ HasRoom /\ Preempt
  /\ \E worst \in Worst : MayEvict(i, worst) /\ RemoveForPush(i, worst)
  /\ Notify

\* The whole call runs under q.mu, which drainRemaining keeps to its end.
EnqueueCall(i) ==
  /\ dispatch # "drain"
  /\ EnqueueRejected(i) \/ EnqueueRoom(i) \/ EnqueuePreempt(i)
  /\ UNCHANGED <<closed, done, ctxDone, dispatchVars, workerVars>>

Enqueue(i) == Outside(i) /\ EnqueueCall(i)

-----------------------------------------------------------------------------
(* dispatchLoop.                                                           *)

TakeNotify ==
  /\ dispatch = "wait" /\ notify
  /\ notify' = FALSE /\ dispatch' = "pop"
  /\ UNCHANGED <<pq, closed, done, hand, ctxDone, lost, workerVars>>

TakeDone ==
  /\ dispatch = "wait" /\ done
  /\ dispatch' = "drain"
  /\ UNCHANGED <<pq, closed, notify, done, hand, ctxDone, lost, workerVars>>

\* The minimum is read and not removed.
PeekItem(i) == i \in Front /\ pq' = pq

\* The last leaf of the heap instead of its root.
PopAnyItem(i) == i \in pq /\ pq' = pq \ {i}

PopItem(i) == i \in Front /\ pq' = pq \ {i}

Pop ==
  /\ dispatch = "pop"
  /\ \E i \in Items : PopItem(i) /\ hand' = i
  /\ dispatch' = "send"
  /\ UNCHANGED <<closed, notify, done, ctxDone, lost, workerVars>>

\* A dispatcher that goes back to waiting after every item it sends.
PopEmptyEarly == dispatch = "pop"

\* The heap is empty under the lock: break to the outer select.
PopSeesEmpty == dispatch = "pop" /\ pq = {}

PopEmpty ==
  /\ PopSeesEmpty
  /\ dispatch' = "wait"
  /\ UNCHANGED <<pq, closed, notify, done, hand, ctxDone, lost, workerVars>>

Receive(w, i) == /\ worker' = [worker EXCEPT ![w] = "busy"]
                 /\ held' = [held EXCEPT ![w] = i]

\* A send that leaves the dispatcher's reference to the item behind.
DeliverKeepsHand(w) ==
  /\ dispatch = "send" /\ worker[w] \in {"idle", "recv"}
  /\ Receive(w, hand)
  /\ dispatch' = "pop"
  /\ UNCHANGED <<pq, closed, notify, done, hand, ctxDone, lost>>

\* The blocking send completes with a parked worker or with one that reaches
\* its select now.  That worker's context may be done as well: Go's select then
\* picks either case.
Deliver(w) ==
  /\ dispatch = "send" /\ worker[w] \in {"idle", "recv"}
  /\ Receive(w, hand)
  /\ hand' = None /\ dispatch' = "pop"
  /\ UNCHANGED <<pq, closed, notify, done, ctxDone, lost>>

\* The inner select takes the done case: the popped item is in no container.
Abandon ==
  /\ dispatch = "send" /\ done
  /\ hand' = None /\ lost' = lost \cup {hand} /\ dispatch' = "drain"
  /\ UNCHANGED <<pq, closed, notify, done, ctxDone, workerVars>>

\* drainRemaining's non-blocking send: only a parked worker can receive.
DrainOne ==
  /\ dispatch = "drain"
  /\ \E i \in Items :
       /\ PopItem(i)
       /\ \/ /\ \E w \in Workers : worker[w] = "recv" /\ Receive(w, i)
             /\ lost' = lost
          \/ /\ \A w \in Workers : worker[w] # "recv"
             /\ lost' = lost \cup {i} /\ UNCHANGED workerVars
  /\ UNCHANGED <<closed, notify, done, ctxDone, dispatchVars>>

\* The loop of drainRemaining ends; close(q.dequeue); return.
DrainDone ==
  /\ dispatch = "drain" /\ pq = {}
  /\ dispatch' = "exited"
  /\ UNCHANGED <<pq, closed, notify, done, hand, ctxDone, lost, workerVars>>

Dispatcher == \/ TakeNotify \/ TakeDone \/ Pop \/ PopEmpty
              \/ (\E w \in Workers : Deliver(w)) \/ Abandon \/ DrainOne \/ DrainDone

-----------------------------------------------------------------------------
(* Close: closed under the mutex, then close(done); stopOnce runs it once. *)

CloseMark ==
  /\ ~ closed /\ closed' = TRUE
  /\ UNCHANGED <<pq, notify, done, ctxDone, lost, dispatchVars, workerVars>>

\* The done channel is closed before the queue refuses new items.
CloseSignalFirst ==
  /\ ~ done /\ done' = TRUE
  /\ UNCHANGED <<pq, closed, notify, ctxDone, lost, dispatchVars, workerVars>>

CloseSignal ==
  /\ closed /\ ~ done /\ done' = TRUE
  /\ UNCHANGED <<pq, closed, notify, ctxDone, lost, dispatchVars, workerVars>>

-----------------------------------------------------------------------------
(* Worker.Start, with processItem as one busy period.                      *)

\* The select finds nothing ready and parks.
Park(w) ==
  /\ worker[w] = "idle" /\ ~ ctxDone
  /\ worker' = [worker EXCEPT ![w] = "recv"]
  /\ UNCHANGED <<pq, closed, notify, done, held, ctxDone, lost, dispatchVars>>

\* processItem returns; the item is finished with or waits on a retry timer.
Finish(w) ==
  /\ worker[w] = "busy"
  /\ worker' = [worker EXCEPT ![w] = "idle"] /\ held' = [held EXCEPT ![w] = None]
  /\ UNCHANGED <<pq, closed, notify, done, ctxDone, lost, dispatchVars>>

\* A worker that does not look at the "ok" of its receive.
WorkerExitOnCancelOnly(w) ==
  /\ worker[w] = "idle" /\ ctxDone
  /\ worker' = [worker EXCEPT ![w] = "exited"]
  /\ UNCHANGED <<pq, closed, notify, done, held, ctxDone, lost, dispatchVars>>

\* A worker at its select whose context is done or whose channel is closed.
WorkerExit(w) ==
  /\ \/ worker[w] = "idle" /\ ctxDone
     \/ worker[w] \in {"idle", "recv"} /\ dispatch = "exited"
  /\ worker' = [worker EXCEPT ![w] = "exited"]
  /\ UNCHANGED <<pq, closed, notify, done, held, ctxDone, lost, dispatchVars>>

\* rootCancel(): closing the context's channel wakes every parked worker with
\* the ctx.Done case chosen, so none of them can receive an item any more.
RootCancel ==
  /\ ~ ctxDone /\ ctxDone' = TRUE
  /\ worker' = [w \in Workers |-> IF worker[w] = "recv" THEN "exited" ELSE worker[w]]
  /\ UNCHANGED <<pq, closed, notify, done, held, lost, dispatchVars>>

-----------------------------------------------------------------------------
\* NewQueue starts the dispatcher; the pool has not started its workers yet.
Init ==
  /\ pq = {} /\ lost = {} /\ hand = None
  /\ closed = FALSE /\ notify = FALSE /\ done = FALSE /\ ctxDone = FALSE
  /\ dispatch = "wait"
  /\ worker = [w \in Workers |-> "idle"] /\ held = [w \in Workers |-> None]

WorkerStep(w) == Park(w) \/ Finish(w) \/ WorkerExit(w)

Next == \/ \E i \in Items : Enqueue(i)
        \/ Dispatcher
        \/ CloseMark \/ CloseSignal \/ RootCancel
        \/ \E w \in Workers : WorkerStep(w)

Spec == Init /\ [][Next]_vars

\* Goroutines that can run do run; a call of processItem ends because every
\* database and HTTP call in it has a timeout; Close runs to its end.
Fairness == /\ WF_vars(Dispatcher) /\ WF_vars(CloseSignal)
            /\ \A w \in Workers : WF_vars(WorkerStep(w))

FairSpec == Spec /\ Fairness

-----------------------------------------------------------------------------
(* Properties.                                                             *)

\* The type invariant: the states queue.go and worker.go keep.
TypeOK ==
  /\ pq \subseteq Items /\ lost \subseteq Items /\ hand \in Items \cup {None}
  /\ closed \in BOOLEAN /\ notify \in BOOLEAN /\ done \in BOOLEAN /\ ctxDone \in BOOLEAN
  /\ dispatch \in DispatchStates /\ (dispatch = "send" <=> hand # None)
  /\ worker \in [Workers -> WorkerStates] /\ held \in [Workers -> Items \cup {None}]

\* The heap never holds more than QUEUE_MAX_SIZE items, whatever mix of
\* pushes, preemptions and pops led there (Enqueue, queue.go:68-91).
SizeBound == Cardinality(pq) <= MaxSize

\* No lost wake-up: while the dispatcher sleeps in its outer select and the
\* heap holds an item, the notify token is there to wake it.  The token is
\* shared by all the items pushed since it was last taken (queue.go:94-98), so
\* this rests on the dispatcher emptying the heap before it sleeps again.
NoLostWakeup == dispatch = "wait" /\ pq # {} => notify

\* Nothing is left behind: once dispatchLoop has returned, no item sits in the
\* heap or in its hand, and none can be added, although Enqueue may race with
\* both halves of Close (queue.go:64-66, 118-126, 165-180).
NothingStranded == dispatch = "exited" => pq = {} /\ hand = None

\* An item is in one place: the heap, the dispatcher's hand, one worker, or
\* lost.  In particular two workers never process the same item.
OnePlace ==
  /\ hand \notin pq \cup lost /\ pq \cap lost = {}
  /\ \A w \in Workers : held[w] # None =>
       /\ held[w] \notin pq \cup lost \cup {hand}
       /\ \A v \in Workers \ {w} : held[v] # held[w]

\* Preemption only ever improves the queue: a step that evicts an item puts in
\* an item of a strictly better tier, and for every tier p the heap then
\* holds at least as many items of tier p or better (queue.go:68-91).
AtLeastTier(S, p) == {i \in S : Priority[i] <= p}

PreemptionImproves ==
  [][\A i \in pq : i \in lost' /\ dispatch # "drain" =>
        /\ \E j \in pq' \ pq : Priority[j] < Priority[i]
        /\ \A p \in 1..3 : Cardinality(AtLeastTier(pq, p)) <= Cardinality(AtLeastTier(pq', p))
    ]_vars

\* Shutdown terminates: after Close the dispatcher and every worker return,
\* whatever they were blocked on (queue.go:136-139, 153-158; worker.go:77-89).
ShutdownCompletes ==
  done ~> dispatch = "exited" /\ \A w \in Workers : worker[w] = "exited"

\* An item that precedes every other one leaves the heap unless the service is
\* being stopped.  (An item of a lower tier has no such guarantee: callers that
\* keep enqueueing better items starve it.)
BestItemServed ==
  \A i \in Items : (\A j \in Items \ {i} : Less(i, j)) =>
                      (i \in pq ~> i \notin pq \/ closed \/ ctxDone)

=============================================================================
